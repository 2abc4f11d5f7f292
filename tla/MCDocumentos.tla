---------------------------- MODULE MCDocumentos ----------------------------
(***************************************************************************)
(* Instances of Documentos: documents of one type that a requirement of the *)
(* shipment asks for, and one of the dispatch request, which answers none.  *)
(***************************************************************************)
EXTENDS Documentos, TLC

CONSTANTS bueno, d3

Tipos == [x \in Documentos \cup Requisitos |-> IF x = d3 THEN "GUIA" ELSE "FACTURA"]
Proveedores == [t \in {"FACTURA", "GUIA"} |-> IF t = "GUIA" THEN "STAFF" ELSE "CLIENT"]
Simetria == Permutations(Documentos)
Tamanos == [x \in Contenidos |-> IF x = bueno THEN 2 ELSE 1]

=============================================================================
