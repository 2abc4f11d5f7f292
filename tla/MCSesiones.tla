----------------------------- MODULE MCSesiones -----------------------------
(***************************************************************************)
(* Sesiones with a few requests, sessions and links, which are             *)
(* interchangeable: no definition of the specification tells them apart.   *)
(***************************************************************************)
EXTENDS Sesiones, TLC

Simetria == Permutations(Peticiones) \cup Permutations(Sesiones) \cup Permutations(Enlaces)

=============================================================================
