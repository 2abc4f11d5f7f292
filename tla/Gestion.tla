------------------------------ MODULE Gestion ------------------------------
(***************************************************************************)
(* Registration and correction of shipments: the warehouse receipt (WR)    *)
(* that identifies a shipment in its warehouse, the pieces, the data, the  *)
(* row_version that protects one editor from another, and hiding.          *)
(* Sources: app/modules/shipments/gestion.py, policies.py, router.py and   *)
(* the triggers of alembic/versions/20260826_1600 and 20260826_1407.       *)
(*                                                                         *)
(* A correction locks the shipment's row, so it is one step once the       *)
(* editor has seen the shipment; what the editor saw is kept in op[p].     *)
(* A registration asks whether the WR is free before it inserts it, with   *)
(* other transactions in between.  The company is changed in Despachos.    *)
(***************************************************************************)
EXTENDS Naturals, FiniteSets

CONSTANTS
    Peticiones, Cargas, Bodegas, Valores,   \* Valores: numbers of a WR
    EmiteWR,        \* facilities.uses_warehouse_receipt
    Nada,
    MaxVersion      \* bound: writes of one shipment

Sitios == Bodegas \cup {Nada}
Contenido == [bodega : Sitios, wr : Valores \cup {Nada}, piezas : 0 .. 2, oculta : BOOLEAN,
              datos : BOOLEAN]
Filas == [bodega : Sitios, version : 1 .. MaxVersion, piezas : 0 .. 2, oculta : BOOLEAN,
          datos : BOOLEAN, revision : BOOLEAN, cerrada : {"NO", "SALIO", "ARCHIVADA"}]
Numeros == [valor : Valores, bodega : Bodegas]

ASSUME Parametros ==
    /\ EmiteWR \subseteq Bodegas
    /\ Nada \notin Peticiones \cup Cargas \cup Bodegas \cup Valores
    /\ Nada \notin Filas /\ Nada \notin Numeros
    /\ MaxVersion \in Nat \ {0}

VARIABLES
    carga,      \* shipments, with the rows of shipment_packages counted
    wr,         \* the WR of the shipment in shipment_references
    op          \* what each request is doing
vars == <<carga, wr, op>>

Libre == [fase |-> "LIBRE", c |-> Nada, version |-> 0, vista |-> Nada, bodega |-> Nada,
          valor |-> Nada]

TypeOK ==
    /\ carga \in [Cargas -> {Nada} \cup Filas]
    /\ wr \in [Cargas -> {Nada} \cup Numeros]
    /\ op \in [Peticiones -> [fase : {"LIBRE", "ALTA", "EDITA"}, c : Cargas \cup {Nada},
         version : 0 .. MaxVersion, vista : {Nada} \cup Contenido, bodega : Sitios,
         valor : Valores \cup {Nada}]]

Nueva(b, n, dudosa) == [bodega |-> b, version |-> 1, piezas |-> n, oculta |-> FALSE,
                        datos |-> FALSE, revision |-> dudosa, cerrada |-> "NO"]

\* The old system left shipments without pieces, marked to be reviewed.
Init ==
    /\ \E c \in Cargas :
         carga = [d \in Cargas |-> IF d = c THEN Nueva(Nada, 0, TRUE) ELSE Nada]
    /\ wr = [c \in Cargas |-> Nada]
    /\ op = [p \in Peticiones |-> Libre]

Existe(c) == carga[c] # Nada

ValorDe(c) == IF wr[c] = Nada THEN Nada ELSE wr[c].valor

\* What the form shows of a shipment.
Mostrar(c) == [bodega |-> carga[c].bodega, wr |-> ValorDe(c), piezas |-> carga[c].piezas,
               oculta |-> carga[c].oculta, datos |-> carga[c].datos]

-----------------------------------------------------------------------------
(* Rules of the warehouse receipt *)

\* validar_wr_libre: no other shipment of the warehouse has the number.
WRLibre(c, b, v) == \A d \in Cargas \ {c} : wr[d] # [valor |-> v, bodega |-> b]

\* bodega_usa_warehouse_receipt
UsaWR(b) == b \in EmiteWR

\* validar_identificador_comercial: a WR where the warehouse issues it, an
\* invoice elsewhere; and validar_referencia_permitida: a WR nowhere else.
IdentificadorAlAlta(b, v) == UsaWR(b) <=> v # Nada

-----------------------------------------------------------------------------
(* Registration *)

\* crear: the data are right and the WR, when there is one, free.
Alta(p, c, b, v) ==
    /\ op[p] = Libre
    /\ IdentificadorAlAlta(b, v)
    /\ v # Nada => WRLibre(c, b, v)
    /\ ~Existe(c) /\ \A q \in Peticiones : op[q].fase = "ALTA" => op[q].c # c
    /\ op' = [op EXCEPT ![p] = [Libre EXCEPT !.fase = "ALTA", !.c = c, !.bodega = b, !.valor = v]]
    /\ UNCHANGED <<carga, wr>>

\* _guardar_referencias: ON CONFLICT DO NOTHING, so a number that somebody took
\* after it was found free is not inserted and nobody is told.
GuardarReferencias(c, b, v) ==
    wr' = IF v # Nada /\ WRLibre(c, b, v) THEN [wr EXCEPT ![c] = [valor |-> v, bodega |-> b]]
          ELSE wr

Crear(p) ==
    /\ op[p].fase = "ALTA"
    /\ carga' = [carga EXCEPT ![op[p].c] = Nueva(op[p].bodega, 1, FALSE)]
    /\ GuardarReferencias(op[p].c, op[p].bodega, op[p].valor)
    /\ op' = [op EXCEPT ![p] = Libre]

-----------------------------------------------------------------------------
(* Corrections *)

\* Somebody opens a shipment to edit it.
Abrir(p, c) ==
    /\ op[p] = Libre
    /\ Existe(c)
    /\ op' = [op EXCEPT ![p] = [Libre EXCEPT !.fase = "EDITA", !.c = c,
                                !.version = carga[c].version, !.vista = Mostrar(c)]]
    /\ UNCHANGED <<carga, wr>>

\* Whoever may set any status corrects in any status; the others only before
\* the shipment left the warehouse.
Editable(c, libre) == libre \/ carga[c].cerrada = "NO"

\* Optimistic locking: the row is the one the editor saw.
MismaVersion(p) == carga[op[p].c].version = op[p].version

\* Every write of the row goes through the constraint trigger that demands a
\* piece of each shipment, at the commit.
ConPiezas(c) == carga[c].piezas > 0

\* Mutant: the WR stays in the warehouse it was given in.
SinPropagar(c, b, v) ==
    wr' = IF v # ValorDe(c)
          THEN [wr EXCEPT ![c] = IF v = Nada THEN Nada ELSE [valor |-> v, bodega |-> b]]
          ELSE wr

\* The triggers: a WR follows its shipment to another warehouse.
Referencia(c, b, v) ==
    wr' = [wr EXCEPT ![c] = IF v = Nada THEN Nada ELSE [valor |-> v, bodega |-> b]]

\* actualizar, of the warehouse, the WR or the rest of the data.  Moving a
\* shipment that has a WR needs a warehouse that issues them; a new WR needs
\* one too, and giving it up one that does not.
Actualizar(p, b, v, d, libre) ==
    LET c == op[p].c  antes == ValorDe(c) IN
    /\ op[p].fase = "EDITA"
    /\ Editable(c, libre) /\ MismaVersion(p) /\ ConPiezas(c)
    /\ carga[c].version < MaxVersion
    /\ antes # Nada => UsaWR(b) /\ (b # carga[c].bodega => WRLibre(c, b, antes))
    /\ v # antes => IF v = Nada THEN ~UsaWR(b) ELSE UsaWR(b) /\ WRLibre(c, b, v)
    /\ carga' = [carga EXCEPT ![c].bodega = b, ![c].datos = d, ![c].version = @ + 1]
    /\ Referencia(c, b, v)
    /\ op' = [op EXCEPT ![p] = Libre]

\* actualizar_datos_transito_del_cliente: only what no warehouse with WR sent,
\* and only while it is in sight.
ActualizarTransito(p, d) ==
    LET c == op[p].c IN
    /\ op[p].fase = "EDITA"
    /\ ~UsaWR(carga[c].bodega)
    /\ ~carga[c].oculta /\ carga[c].cerrada # "ARCHIVADA"
    /\ MismaVersion(p) /\ ConPiezas(c)
    /\ carga[c].version < MaxVersion
    /\ carga' = [carga EXCEPT ![c].datos = d, ![c].version = @ + 1]
    /\ op' = [op EXCEPT ![p] = Libre]
    /\ UNCHANGED wr

\* Mutant: replacing the pieces leaves row_version as it was.
SinSubirVersion(c, n) == carga' = [carga EXCEPT ![c].piezas = n]

ConBultos(c, n) == carga' = [carga EXCEPT ![c].piezas = n, ![c].version = @ + 1]

\* reemplazar_bultos: the breakdown of an old shipment is repaired this way.
ReemplazarBultos(p, n, libre) ==
    LET c == op[p].c IN
    /\ op[p].fase = "EDITA"
    /\ n > 0
    /\ Editable(c, libre) /\ MismaVersion(p)
    /\ carga[c].version < MaxVersion
    /\ ConBultos(c, n)
    /\ op' = [op EXCEPT ![p] = Libre]
    /\ UNCHANGED wr

\* The editor gives up, or is told that the shipment has changed.
Cerrar(p) ==
    /\ op[p].fase = "EDITA"
    /\ op' = [op EXCEPT ![p] = Libre]
    /\ UNCHANGED <<carga, wr>>

\* resolver_revision: the mark goes away; neither version nor status change.
ResolverRevision(c) ==
    /\ Existe(c) /\ carga[c].revision /\ ConPiezas(c)
    /\ carga' = [carga EXCEPT ![c].revision = FALSE]
    /\ UNCHANGED <<wr, op>>

-----------------------------------------------------------------------------
(* Hiding *)

Ocultable(c) ==
    Existe(c) /\ ~carga[c].oculta /\ ConPiezas(c) /\ carga[c].version < MaxVersion

\* One or several in one transaction: all of them or none.  Nobody asks which
\* version the person saw.
Ocultar(cs) ==
    /\ cs # {} /\ \A c \in cs : Ocultable(c)
    /\ carga' = [c \in Cargas |-> IF c \in cs
         THEN [carga[c] EXCEPT !.oculta = TRUE, !.version = @ + 1] ELSE carga[c]]
    /\ UNCHANGED <<wr, op>>

Recuperar(c) ==
    /\ Existe(c) /\ carga[c].oculta
    /\ carga[c].version < MaxVersion
    /\ carga' = [carga EXCEPT ![c].oculta = FALSE, ![c].version = @ + 1]
    /\ UNCHANGED <<wr, op>>

\* The transition engine and the archiver, as Cargas and Despachos model them:
\* the shipment leaves, or is archived.
Avanzar(c, s) ==
    /\ Existe(c) /\ ConPiezas(c)
    /\ \/ s = "SALIO" /\ carga[c].cerrada = "NO" /\ carga[c].version < MaxVersion
          /\ carga' = [carga EXCEPT ![c].cerrada = s, ![c].version = @ + 1]
       \/ s = "ARCHIVADA" /\ carga[c].cerrada = "SALIO"
          /\ carga' = [carga EXCEPT ![c].cerrada = s]
    /\ UNCHANGED <<wr, op>>

-----------------------------------------------------------------------------

(* The endpoints, and the steps of the other modules *)

CrearCarga(p) ==
    \/ \E c \in Cargas, b \in Sitios, v \in Valores \cup {Nada} : Alta(p, c, b, v)
    \/ Crear(p)

ActualizarCarga(p) ==
    \E b \in Sitios, v \in Valores \cup {Nada}, d, libre \in BOOLEAN : Actualizar(p, b, v, d, libre)

ActualizarDatosTransito(p) == \E d \in BOOLEAN : ActualizarTransito(p, d)

CambiarBultos(p) == \E n \in 1 .. 2, libre \in BOOLEAN : ReemplazarBultos(p, n, libre)

OcultarCarga(c) == Ocultar({c})

OcultarCargasMasivamente == \E cs \in SUBSET Cargas : Cardinality(cs) > 1 /\ Ocultar(cs)

Transicionar(c) == Avanzar(c, "SALIO")

ArchivarPendientes(c) == Avanzar(c, "ARCHIVADA")

Next ==
    \/ \E p \in Peticiones :
          \/ CrearCarga(p) \/ ActualizarCarga(p) \/ ActualizarDatosTransito(p)
          \/ CambiarBultos(p) \/ Cerrar(p)
          \/ \E c \in Cargas : Abrir(p, c)
    \/ \E c \in Cargas :
          \/ ResolverRevision(c) \/ OcultarCarga(c) \/ Recuperar(c)
          \/ Transicionar(c) \/ ArchivarPendientes(c)
    \/ OcultarCargasMasivamente

Spec == Init /\ [][Next]_vars

-----------------------------------------------------------------------------
(* Properties *)

\* Two shipments of one warehouse never carry the same WR, however they got to
\* that warehouse.
UnWRPorBodega ==
    \A c, d \in Cargas :
        c # d /\ wr[c] # Nada /\ wr[d] # Nada /\ carga[c].bodega = carga[d].bodega
            => wr[c].valor # wr[d].valor

\* A correction is saved over what its author saw: nobody else's change to the
\* warehouse, the WR, the pieces, the data or the visibility is lost.
NadaSePisa ==
    [][\A p \in Peticiones :
        op[p].fase = "EDITA" /\ op'[p] = Libre /\ <<carga, wr>>' # <<carga, wr>>
            => Mostrar(op[p].c) = op[p].vista]_vars

\* policies.py: "lo que viene de una bodega que emite Warehouse Receipt lleva WR,
\* y es obligatorio desde el alta".
BodegaConWR == \A c \in Cargas : Existe(c) /\ UsaWR(carga[c].bodega) => wr[c] # Nada

=============================================================================
