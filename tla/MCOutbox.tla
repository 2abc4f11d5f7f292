------------------------------ MODULE MCOutbox -------------------------------
(***************************************************************************)
(* Small instances of Outbox.  Two attempts stand for the six of the code: *)
(* one that fails and is retried, and one that gives up.                   *)
(***************************************************************************)
EXTENDS Outbox

CONSTANTS e1, e2, k1, k2, r1, r2, r3, w1, w2

ClavesPropias == [e \in Eventos |-> IF e = e1 THEN k1 ELSE k2]
Repartidos == [e \in Eventos |-> IF e = e1 THEN {r1, r2} ELSE {r2, r3}]
ClaveComun == [e \in Eventos |-> k1]
=============================================================================
