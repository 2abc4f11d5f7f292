------------------------------- MODULE Cargas --------------------------------
(***************************************************************************)
(* One shipment's life after delivery: retention, delivery disputes, the   *)
(* review of migrated shipments and the nightly sweep that archives.       *)
(* Sources: app/modules/shipments/service.py (transicionar,                *)
(* reportar_inconformidad, resolver_inconformidad, archivar_pendientes)    *)
(* and app/modules/shipments/gestion.py (resolver_revision).               *)
(*                                                                         *)
(* A request handler is one action: it locks the shipment's row before it  *)
(* reads it.  The sweep is two: its SELECT ... FOR UPDATE SKIP LOCKED      *)
(* takes a snapshot when it starts (BarridoLeer), and locks and archives   *)
(* rows later (BarridoArchivar).  PostgreSQL re-evaluates the conditions   *)
(* on the shipment's own row when that row changed in between, and not the *)
(* subquery on delivery_disputes, which keeps the old snapshot.            *)
(*                                                                         *)
(* The domain policies of a transition (Warehouse Receipt, requirements)   *)
(* depend on data this module does not keep, and a free change skips them: *)
(* a transition the catalogue allows may happen here whatever they say.    *)
(* legal_hold is left out: no code writes it.                              *)
(***************************************************************************)
EXTENDS CatalogoEstados, FiniteSets

CONSTANTS
    Cargas,         \* shipments
    Trabajadores,   \* sweeps that may run at the same time
    Disputas,       \* bound: disputes a shipment may ever have
    Alcanzables     \* bound: states shipments move through

ASSUME Parametros == Alcanzables \subseteq Estados

VARIABLES
    estado,         \* shipments.current_status_code
    plazo,          \* retention_until: NULL, still running, or past
    archivada,      \* archived_at IS NOT NULL
    revision,       \* legacy_review_required
    disputa,        \* disputa[c][k]: delivery_disputes.status
    barrido         \* barrido[w]: what the sweep w selected, if it is running

vars == <<estado, plazo, archivada, revision, disputa, barrido>>

EstadosDisputa == {"NINGUNA", "OPEN", "RESOLVED_CONFIRMED", "RESOLVED_REVERTED"}

Inactivo == [corre |-> FALSE, filas |-> {}]

Abierta(c) == \E k \in Disputas : disputa[c][k] = "OPEN"

-----------------------------------------------------------------------------
\* A shipment is registered in one of the initial states; migrated ones may be
\* further along and may be marked for review.
Init ==
    /\ estado \in [Cargas -> Alcanzables \cap (EstadosIniciales \cup {"DISPATCHED"})]
    /\ plazo = [c \in Cargas |-> "NULO"]
    /\ archivada = [c \in Cargas |-> FALSE]
    /\ revision \in [Cargas -> BOOLEAN]
    /\ disputa = [c \in Cargas |-> [k \in Disputas |-> "NINGUNA"]]
    /\ barrido = [w \in Trabajadores |-> Inactivo]

-----------------------------------------------------------------------------
PuedeTransicionar(c, hacia, libre) ==
    /\ ~archivada[c]
    /\ hacia \in Alcanzables
    /\ \/ <<estado[c], hacia>> \in Transiciones
       \/ libre /\ hacia # estado[c]

\* Mutant: leaving a closed state keeps the retention date.
AplicarSinLimpiar(c, hacia) ==
    /\ estado' = [estado EXCEPT ![c] = hacia]
    /\ IF hacia \in Cerrados
       THEN \E p \in {"CORRIENDO", "VENCIDO"} : plazo' = [plazo EXCEPT ![c] = p]
       ELSE UNCHANGED plazo

\* The date of the milestone comes with the request and may be long past, so
\* that a retention may be born expired.
Aplicar(c, hacia) ==
    /\ estado' = [estado EXCEPT ![c] = hacia]
    /\ \E p \in IF hacia \in Cerrados THEN {"CORRIENDO", "VENCIDO"} ELSE {"NULO"} :
         plazo' = [plazo EXCEPT ![c] = IF {hacia, estado[c]} \cap Cerrados = {} THEN @ ELSE p]

Transicionar(c, hacia, libre) ==
    /\ PuedeTransicionar(c, hacia, libre)
    /\ Aplicar(c, hacia)
    /\ UNCHANGED <<archivada, revision, disputa, barrido>>

\* One open dispute per shipment: the partial unique index guarantees it.
ReportarInconformidad(c, k) ==
    /\ ~archivada[c]
    /\ estado[c] = "DELIVERED"
    /\ ~Abierta(c)
    /\ disputa[c][k] = "NINGUNA"
    /\ disputa' = [disputa EXCEPT ![c][k] = "OPEN"]
    /\ UNCHANGED <<estado, plazo, archivada, revision, barrido>>

ConfirmarEntrega(c, k) ==
    /\ disputa[c][k] = "OPEN"
    /\ disputa' = [disputa EXCEPT ![c][k] = "RESOLVED_CONFIRMED"]
    /\ UNCHANGED <<estado, plazo, archivada, revision, barrido>>

\* Mutant: the reversal is recorded and the shipment is not moved.
RevertirSinMover(c, k, libre) ==
    /\ disputa[c][k] = "OPEN"
    /\ PuedeTransicionar(c, "DISPATCHED", libre)
    /\ disputa' = [disputa EXCEPT ![c][k] = "RESOLVED_REVERTED"]
    /\ UNCHANGED <<estado, plazo, archivada, revision, barrido>>

\* The reversal is an ordinary transition to DISPATCHED in the same transaction.
RevertirEntrega(c, k, libre) ==
    /\ disputa[c][k] = "OPEN"
    /\ PuedeTransicionar(c, "DISPATCHED", libre)
    /\ Aplicar(c, "DISPATCHED")
    /\ disputa' = [disputa EXCEPT ![c][k] = "RESOLVED_REVERTED"]
    /\ UNCHANGED <<archivada, revision, barrido>>

ResolverRevision(c) ==
    /\ revision[c]
    /\ revision' = [revision EXCEPT ![c] = FALSE]
    /\ UNCHANGED <<estado, plazo, archivada, disputa, barrido>>

\* Six months go by.
Vencer(c) ==
    /\ plazo[c] = "CORRIENDO"
    /\ plazo' = [plazo EXCEPT ![c] = "VENCIDO"]
    /\ UNCHANGED <<estado, archivada, revision, disputa, barrido>>

-----------------------------------------------------------------------------
\* The conditions on the shipment's own row, which the lock re-evaluates.
FilaArchivable(c) ==
    /\ estado[c] \in Cerrados
    /\ plazo[c] = "VENCIDO"
    /\ ~archivada[c]
    /\ ~revision[c]

Archivable(c) == FilaArchivable(c) /\ ~Abierta(c)

\* Mutant: the sweep looks at retentions that still run.
BarridoLeerCorriendo(w) ==
    /\ ~barrido[w].corre
    /\ barrido' = [barrido EXCEPT
         ![w] = [corre |-> TRUE, filas |-> {c \in Cargas : Archivable(c) /\ plazo[c] # "VENCIDO"}]]
    /\ UNCHANGED <<estado, plazo, archivada, revision, disputa>>

BarridoLeer(w) ==
    /\ ~barrido[w].corre
    /\ barrido' = [barrido EXCEPT
         ![w] = [corre |-> TRUE, filas |-> {c \in Cargas : Archivable(c)}]]
    /\ UNCHANGED <<estado, plazo, archivada, revision, disputa>>

\* Mutant: the row found in the snapshot is archived as it was found.
BarridoArchivarSinReleer(w, S) ==
    /\ barrido[w].corre
    /\ S \subseteq barrido[w].filas
    /\ archivada' = [c \in Cargas |-> archivada[c] \/ c \in S]
    /\ barrido' = [barrido EXCEPT ![w] = Inactivo]
    /\ UNCHANGED <<estado, plazo, revision, disputa>>

\* Rows another transaction holds are skipped, and a failed sweep archives
\* none: S is any part of what was selected and still qualifies.
BarridoArchivar(w, S) ==
    /\ barrido[w].corre
    /\ S \subseteq {c \in barrido[w].filas : FilaArchivable(c)}
    /\ archivada' = [c \in Cargas |-> archivada[c] \/ c \in S]
    /\ barrido' = [barrido EXCEPT ![w] = Inactivo]
    /\ UNCHANGED <<estado, plazo, revision, disputa>>

-----------------------------------------------------------------------------
Inconformidades(c) ==
    \E k \in Disputas :
        \/ ReportarInconformidad(c, k)
        \/ ConfirmarEntrega(c, k)
        \/ \E libre \in BOOLEAN : RevertirEntrega(c, k, libre)

Next ==
    \/ \E c \in Cargas :
         \/ \E hacia \in Estados, libre \in BOOLEAN : Transicionar(c, hacia, libre)
         \/ Inconformidades(c)
         \/ ResolverRevision(c)
         \/ Vencer(c)
    \/ \E w \in Trabajadores :
         \/ BarridoLeer(w)
         \/ \E S \in SUBSET Cargas : BarridoArchivar(w, S)

Spec == Init /\ [][Next]_vars

\* Celery beat starts the sweep every night, it ends, and no shipment's row is
\* locked by somebody else every single night.
Justicia ==
    \A w \in Trabajadores :
        /\ WF_vars(BarridoLeer(w))
        /\ WF_vars(\E S \in SUBSET Cargas : BarridoArchivar(w, S))
        /\ \A c \in Cargas :
             SF_vars(\E S \in SUBSET Cargas : c \in S /\ BarridoArchivar(w, S))

SpecJusta == Spec /\ Justicia

-----------------------------------------------------------------------------
\* Type invariant of shipments, disputes and sweeps.
TypeOK ==
    /\ estado \in [Cargas -> Estados]
    /\ plazo \in [Cargas -> {"NULO", "CORRIENDO", "VENCIDO"}]
    /\ archivada \in [Cargas -> BOOLEAN]
    /\ revision \in [Cargas -> BOOLEAN]
    /\ disputa \in [Cargas -> [Disputas -> EstadosDisputa]]
    /\ barrido \in [Trabajadores -> [corre : BOOLEAN, filas : SUBSET Cargas]]

\* The retention date exists exactly while the shipment is closed, whatever the
\* path of free changes, reopenings and reversals that led there (ADR-0007).
PlazoDeCerradas == \A c \in Cargas : plazo[c] # "NULO" <=> estado[c] \in Cerrados

\* What is archived is closed, past its retention and reviewed, even when it
\* changed between the sweep's snapshot and its lock.
ArchivadaCumplida ==
    \A c \in Cargas :
        archivada[c] => estado[c] \in Cerrados /\ plazo[c] = "VENCIDO" /\ ~revision[c]

\* A dispute is resolved once and for all, and resolving it as a reversal leaves
\* the shipment DISPATCHED, unarchived and with no retention, in the same step.
ReversionCoherente ==
    [][\A c \in Cargas, k \in Disputas :
         /\ disputa[c][k] \in {"RESOLVED_CONFIRMED", "RESOLVED_REVERTED"} =>
              disputa'[c][k] = disputa[c][k]
         /\ disputa[c][k] = "OPEN" /\ disputa'[c][k] = "RESOLVED_REVERTED" =>
              estado'[c] = "DISPATCHED" /\ ~archivada'[c] /\ plazo'[c] = "NULO"]_vars

\* The sweep leaves nothing behind: a shipment it may archive does not stay that
\* way for ever, it is archived or it stops qualifying.
NadaQuedaSinArchivar == \A c \in Cargas : Archivable(c) ~> ~Archivable(c)

-----------------------------------------------------------------------------
\* What comments and documents say, and the code does not do.

\* app/modules/shipments/models.py, DeliveryDispute: an open dispute keeps its
\* shipment from being archived.
DisputaBloqueaArchivado ==
    [][\A c \in Cargas : ~archivada[c] /\ archivada'[c] => ~Abierta(c)]_vars
=============================================================================
