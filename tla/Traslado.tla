------------------------------ MODULE Traslado ------------------------------
(***************************************************************************)
(* What the migration promises, with its runs, stages and failures left    *)
(* out: rows come to the new system in whole sets, each row once, never    *)
(* without what it needs; the files follow, and the shipments whose        *)
(* documents are there with them.  Nothing that came goes back.            *)
(* Migracion is shown to implement this.                                   *)
(***************************************************************************)
EXTENDS Naturals

CONSTANTS
    Filas, Archivos, Cargas,
    Necesita,       \* Necesita[f]: the rows f cannot be without
    Piezas,         \* Piezas[c]: rows of which shipment c has at least one
    Respalda        \* Respalda[f]: the shipments the file f is a document of

VARIABLES
    veces,          \* veces[f]: how many rows of the new system come from f
    guardados,      \* files in the storage, under the document that says so
    cumplidos       \* shipments whose document is given for met

vars == <<veces, guardados, cumplidos>>

Entero(R) ==
    /\ \A f \in R : Necesita[f] \subseteq R
    /\ \A c \in R \cap Cargas : Piezas[c] \cap R # {}

Traidas == {f \in Filas : veces[f] > 0}

Init ==
    /\ veces = [f \in Filas |-> 0]
    /\ guardados = {}
    /\ cumplidos = {}

\* A set of rows that had not come, none of them without the others it needs.
Traer(S) ==
    /\ S # {}
    /\ veces' = [f \in Filas |-> IF f \in S THEN 1 ELSE veces[f]]
    /\ Entero(Traidas \cup S)
    /\ UNCHANGED <<guardados, cumplidos>>

\* A file arrives, and meets the requirement of shipments it is a document of.
Guardar(f, C) ==
    /\ f \in Traidas
    /\ guardados' = guardados \cup {f}
    /\ cumplidos' = cumplidos \cup C
    /\ UNCHANGED veces

Next ==
    \/ \E S \in SUBSET (Filas \ Traidas) : Traer(S)
    \/ \E f \in Archivos : \E C \in SUBSET Respalda[f] : Guardar(f, C)

Spec == Init /\ [][Next]_vars
=============================================================================
