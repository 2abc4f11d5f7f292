------------------------------ MODULE Apartado ------------------------------
(***************************************************************************)
(* What a dispatch request promises about the shipments it claims, with    *)
(* everything else left out: a request takes a non-empty set of free       *)
(* shipments in one step, keeps exactly that set while it is active, and   *)
(* gives the whole set back in one step when it closes.  A shipment has at *)
(* most one holder by construction; Despachos is shown to implement this.  *)
(***************************************************************************)
CONSTANTS Cargas, Solicitudes, Nadie

VARIABLES
    titular,    \* titular[c]: the request that holds shipment c, or Nadie
    fase        \* fase[d]: the request is new, active or closed

vars == <<titular, fase>>

Fases == {"nueva", "activa", "cerrada"}

Init ==
    /\ titular = [c \in Cargas |-> Nadie]
    /\ fase = [d \in Solicitudes |-> "nueva"]

Tomar(d, S) ==
    /\ fase[d] = "nueva"
    /\ S # {}
    /\ \A c \in S : titular[c] = Nadie
    /\ titular' = [c \in Cargas |-> IF c \in S THEN d ELSE titular[c]]
    /\ fase' = [fase EXCEPT ![d] = "activa"]

Soltar(d) ==
    /\ fase[d] = "activa"
    /\ titular' = [c \in Cargas |-> IF titular[c] = d THEN Nadie ELSE titular[c]]
    /\ fase' = [fase EXCEPT ![d] = "cerrada"]

Next == \E d \in Solicitudes : Soltar(d) \/ \E S \in SUBSET Cargas : Tomar(d, S)

Spec == Init /\ [][Next]_vars
=============================================================================
