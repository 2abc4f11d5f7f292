------------------------------- MODULE MCCargas ------------------------------
(***************************************************************************)
(* Small instances of Cargas.  The module tells statuses apart by four     *)
(* things: DELIVERED (may be disputed), DISPATCHED (where a reversal       *)
(* leads), CANCELLED (closed, never disputed) and the open rest, which     *)
(* IN_TRANSIT stands for, with its catalogue rows to and from CANCELLED.   *)
(***************************************************************************)
EXTENDS Cargas

CONSTANTS c1, c2, w1

Cierre == {"IN_TRANSIT", "DISPATCHED", "DELIVERED", "CANCELLED"}
=============================================================================
