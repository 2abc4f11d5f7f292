----------------------------- MODULE MCAccesos -----------------------------
(***************************************************************************)
(* Accesos with a few requests and accounts, which are interchangeable.    *)
(***************************************************************************)
EXTENDS Accesos, TLC

Simetria == Permutations(Peticiones) \cup Permutations(Usuarios)

=============================================================================
