------------------------------ MODULE Despachos ------------------------------
(***************************************************************************)
(* Dispatch requests and the shipments they claim.  Sources:               *)
(*   app/modules/dispatches/service.py   the request and its actions       *)
(*   app/modules/shipments/service.py    the transition engine they call   *)
(*   app/modules/shipments/gestion.py    the change of company            *)
(*                                                                         *)
(* An action is one committed transaction, and an error rolls the whole of *)
(* it back, so a failed call is no step at all.  That is sound where the   *)
(* transaction locks the rows it decides on (SELECT ... FOR UPDATE) before *)
(* it reads them.  Approving, dispatching and completing do not: they lock *)
(* the request's row, read the shipments and their requirements unlocked,  *)
(* and commit later.  Those are two actions here, Verificar and the commit,*)
(* and the other transactions run between them.                            *)
(* The actor is abstracted to two facts: "libre" (holds                    *)
(* shipments.status.set_any over the company) and, to cancel,              *)
(* "operaciones" (global scope).                                           *)
(***************************************************************************)
EXTENDS CatalogoEstados, FiniteSets

CONSTANTS
    Cargas,         \* shipments
    Solicitudes,    \* dispatch requests that may ever be created
    Empresas,       \* client companies
    SinEmpresa,     \* company of a request nobody has created yet
    Nadie,          \* holder of a shipment that no request claims
    Transito,       \* shipments whose facility issues no Warehouse Receipt
    SinWR,          \* shipments of a WR facility that carry no WR reference
    Iniciales,      \* bound: states a shipment is registered in
    Manuales,       \* bound: moves made by hand, pairs <<from, to>>
    ConRequisitos   \* bound: shipments somebody opens requirements on

ASSUME Parametros ==
    /\ SinEmpresa \notin Empresas
    /\ Nadie \notin Solicitudes
    /\ Transito \subseteq Cargas
    /\ SinWR \subseteq Cargas
    /\ Iniciales \subseteq EstadosIniciales
    /\ Manuales \subseteq Estados \X Estados

VARIABLES
    estado,         \* shipments.current_status_code
    archivada,      \* shipments.archived_at IS NOT NULL
    requisito,      \* an unresolved non-document requirement blocks DISPATCHED
    empresa,        \* shipments.company_id
    pedidoDesde,    \* from_status of the last event into DISPATCH_REQUESTED
    solicitud,      \* dispatch_requests.status
    clienteDe,      \* dispatch_requests.company_id
    reclamos,       \* dispatch_request_shipments with released_at IS NULL
    verificada      \* verificada[d]: the status whose checks have passed in the
                    \* transaction that holds the lock on request d, if any

cargaVars == <<estado, archivada, requisito, empresa, pedidoDesde>>
solicitudVars == <<solicitud, clienteDe, reclamos, verificada>>
vars == <<estado, archivada, requisito, empresa, pedidoDesde,
          solicitud, clienteDe, reclamos, verificada>>

-----------------------------------------------------------------------------
\* The request's own states.
EstadosDespacho == {"PENDING", "APPROVED", "PREPARING", "DISPATCHED",
                    "COMPLETED", "REJECTED", "CANCELLED"}

EstadosFinales == {"COMPLETED", "REJECTED", "CANCELLED"}

Activos == EstadosDespacho \ EstadosFinales

TransicionesDespacho ==
    {<<"PENDING", "APPROVED">>, <<"PENDING", "REJECTED">>,
     <<"PENDING", "CANCELLED">>, <<"APPROVED", "PREPARING">>,
     <<"APPROVED", "CANCELLED">>, <<"PREPARING", "DISPATCHED">>,
     <<"PREPARING", "CANCELLED">>, <<"DISPATCHED", "COMPLETED">>}

ExigenRequisitos == {"APPROVED", "DISPATCHED", "COMPLETED"}

Cancelable(operaciones) ==
    IF operaciones THEN {"PENDING", "APPROVED", "PREPARING"} ELSE {"PENDING"}

CargasActivas(d) == {c \in Cargas : <<d, c>> \in reclamos}

Reclamada(c) == \E d \in Solicitudes : <<d, c>> \in reclamos

-----------------------------------------------------------------------------
\* The transition engine, as the guard and the effect its callers share.

\* Domain policies of one transition; a free change skips them.
\* Mutant: an open requirement blocks every transition, not only DISPATCHED.
PoliticasConRequisito(c, desde, hacia) ==
    /\ hacia = "STORED" => c \in Transito \/ c \notin SinWR
    /\ ~requisito[c]

Politicas(c, desde, hacia) ==
    /\ hacia = "STORED" => c \in Transito \/ c \notin SinWR
    /\ {desde, hacia} = {"IN_TRANSIT", "DISPATCH_REQUESTED"} => c \in Transito
    /\ hacia = "DISPATCHED" => ~requisito[c]

\* Mutant: the engine forgets that an archived shipment is read-only.
PuedeTransicionarArchivada(c, desde, hacia, libre) ==
    /\ \/ <<desde, hacia>> \in Transiciones
       \/ libre /\ hacia # desde
    /\ libre \/ Politicas(c, desde, hacia)

PuedeTransicionar(c, desde, hacia, libre) ==
    /\ ~archivada[c]
    /\ \/ <<desde, hacia>> \in Transiciones
       \/ libre /\ hacia # desde
    /\ libre \/ Politicas(c, desde, hacia)

\* Status and timeline of the shipments in S once they moved to "hacia".
Mover(S, hacia) ==
    /\ estado' = [c \in Cargas |-> IF c \in S THEN hacia ELSE estado[c]]
    /\ pedidoDesde' = [c \in Cargas |->
                         IF c \in S /\ hacia = "DISPATCH_REQUESTED"
                         THEN estado[c] ELSE pedidoDesde[c]]

\* Where a rejected or cancelled request leaves a shipment, and whether the
\* walk back (PREPARING, DISPATCH_REQUESTED, available) can be completed.
Disponible(c) == IF pedidoDesde[c] = "IN_TRANSIT" THEN "IN_TRANSIT" ELSE "STORED"

SePuedeDevolver(c, libre) ==
    \/ estado[c] = Disponible(c)
    \/ /\ estado[c] \in {"PREPARING", "DISPATCH_REQUESTED"}
       /\ estado[c] = "PREPARING" =>
            PuedeTransicionar(c, "PREPARING", "DISPATCH_REQUESTED", libre)
       /\ PuedeTransicionar(c, "DISPATCH_REQUESTED", Disponible(c), libre)

\* Mutant: the walk back takes one step instead of looping.
DevolverUnPaso(S) ==
    /\ estado' = [c \in Cargas |->
                    IF c \notin S THEN estado[c]
                    ELSE IF estado[c] = "PREPARING" THEN "DISPATCH_REQUESTED"
                    ELSE Disponible(c)]
    /\ UNCHANGED pedidoDesde

Devolver(S) ==
    /\ estado' = [c \in Cargas |-> IF c \in S THEN Disponible(c) ELSE estado[c]]
    /\ pedidoDesde' = [c \in Cargas |->
                         IF c \in S /\ estado[c] = "PREPARING"
                         THEN "PREPARING" ELSE pedidoDesde[c]]

-----------------------------------------------------------------------------
Init ==
    /\ estado \in [Cargas -> Iniciales]
    /\ archivada = [c \in Cargas |-> FALSE]
    /\ requisito = [c \in Cargas |-> FALSE]
    /\ empresa \in [Cargas -> Empresas]
    /\ pedidoDesde = [c \in Cargas |-> "NINGUNO"]
    /\ solicitud = [d \in Solicitudes |-> "SIN_CREAR"]
    /\ clienteDe = [d \in Solicitudes |-> SinEmpresa]
    /\ reclamos = {}
    /\ verificada = [d \in Solicitudes |-> "NINGUNO"]

\* POST /dispatch-requests: claims every shipment or none of them.
CargaElegible(c, e) ==
    /\ empresa[c] = e
    /\ c \notin Transito
    /\ estado[c] = "STORED"

\* The partial unique index on (shipment_id) WHERE released_at IS NULL.
\* Mutant: the unique index on active claims is dropped.
SinIndiceDeReclamo(S) == S # {}

IndiceDeReclamo(S) == \A c \in S : ~Reclamada(c)

Crear(d, S, e, libre) ==
    /\ solicitud[d] = "SIN_CREAR"
    /\ S # {}
    /\ \A c \in S : CargaElegible(c, e)
    /\ IndiceDeReclamo(S)
    /\ \A c \in S : PuedeTransicionar(c, "STORED", "DISPATCH_REQUESTED", libre)
    /\ solicitud' = [solicitud EXCEPT ![d] = "PENDING"]
    /\ clienteDe' = [clienteDe EXCEPT ![d] = e]
    /\ reclamos' = reclamos \cup ({d} \X S)
    /\ Mover(S, "DISPATCH_REQUESTED")
    /\ UNCHANGED <<archivada, requisito, empresa, verificada>>

CargasDespachadas(d) == \A c \in CargasActivas(d) : estado[c] = "DISPATCHED"

SinRequisitos(d) == \A c \in CargasActivas(d) : ~requisito[c]

\* What the statuses of ExigenRequisitos ask of the request's shipments.
Comprobada(d, hacia) ==
    /\ hacia = "COMPLETED" => CargasActivas(d) # {} /\ CargasDespachadas(d)
    /\ SinRequisitos(d)

\* _cambiar_estado up to its UPDATE, for the statuses whose checks read the
\* shipments without locking them.
Verificar(d, hacia) ==
    /\ verificada[d] = "NINGUNO"
    /\ hacia \in ExigenRequisitos
    /\ <<solicitud[d], hacia>> \in TransicionesDespacho
    /\ Comprobada(d, hacia)
    /\ verificada' = [verificada EXCEPT ![d] = hacia]
    /\ UNCHANGED <<cargaVars, solicitud, clienteDe, reclamos>>

\* The transaction rolls back: a shipment cannot be moved, the connection is
\* lost, the process dies.
Revertir(d) ==
    /\ verificada[d] # "NINGUNO"
    /\ verificada' = [verificada EXCEPT ![d] = "NINGUNO"]
    /\ UNCHANGED <<cargaVars, solicitud, clienteDe, reclamos>>

\* Whoever holds the lock on the request may apply the change.
Autorizada(d, hacia) ==
    /\ <<solicitud[d], hacia>> \in TransicionesDespacho
    /\ verificada[d] = IF hacia \in ExigenRequisitos THEN hacia ELSE "NINGUNO"

CambiarEstado(d, hacia) ==
    /\ solicitud' = [solicitud EXCEPT ![d] = hacia]
    /\ verificada' = [verificada EXCEPT ![d] = "NINGUNO"]
    /\ UNCHANGED <<clienteDe, archivada, requisito, empresa>>

\* Mutant: closing a request forgets to release its shipments.
LiberarNinguna(d) == d \in Solicitudes /\ UNCHANGED reclamos

LiberarCargas(d) == reclamos' = {r \in reclamos : r[1] # d}

Aprobar(d) ==
    /\ Autorizada(d, "APPROVED")
    /\ CambiarEstado(d, "APPROVED")
    /\ UNCHANGED <<reclamos, estado, pedidoDesde>>

\* Preparing and dispatching drag the shipments along.
\* Mutant: the request advances and its shipments do not follow.
AvanzarSinCargas(d, hacia, libre) ==
    /\ Autorizada(d, hacia)
    /\ \A c \in CargasActivas(d) : PuedeTransicionar(c, estado[c], hacia, libre)
    /\ CambiarEstado(d, hacia)
    /\ UNCHANGED <<reclamos, estado, pedidoDesde>>

\* Mutant: sending the request out already releases its shipments.
AvanzarLiberando(d, hacia, libre) ==
    /\ Autorizada(d, hacia)
    /\ \A c \in CargasActivas(d) : PuedeTransicionar(c, estado[c], hacia, libre)
    /\ CambiarEstado(d, hacia)
    /\ Mover(CargasActivas(d), hacia)
    /\ IF hacia = "DISPATCHED" THEN LiberarCargas(d) ELSE UNCHANGED reclamos

Avanzar(d, hacia, libre) ==
    /\ Autorizada(d, hacia)
    /\ \A c \in CargasActivas(d) : PuedeTransicionar(c, estado[c], hacia, libre)
    /\ CambiarEstado(d, hacia)
    /\ Mover(CargasActivas(d), hacia)
    /\ UNCHANGED reclamos

Preparar(d, libre) == Avanzar(d, "PREPARING", libre)

Despachar(d, libre) == Avanzar(d, "DISPATCHED", libre)

Completar(d) ==
    /\ Autorizada(d, "COMPLETED")
    /\ CambiarEstado(d, "COMPLETED")
    /\ LiberarCargas(d)
    /\ UNCHANGED <<estado, pedidoDesde>>

\* Rejecting and cancelling give the shipments back or change nothing.
\* Mutant: rejecting or cancelling releases without giving back.
DeshacerSinDevolver(d, hacia, libre) ==
    /\ Autorizada(d, hacia)
    /\ \A c \in CargasActivas(d) : SePuedeDevolver(c, libre)
    /\ CambiarEstado(d, hacia)
    /\ LiberarCargas(d)
    /\ UNCHANGED <<estado, pedidoDesde>>

Deshacer(d, hacia, libre) ==
    /\ Autorizada(d, hacia)
    /\ \A c \in CargasActivas(d) : SePuedeDevolver(c, libre)
    /\ CambiarEstado(d, hacia)
    /\ LiberarCargas(d)
    /\ Devolver(CargasActivas(d))

Rechazar(d, libre) == Deshacer(d, "REJECTED", libre)

Cancelar(d, libre, operaciones) ==
    /\ solicitud[d] \in Cancelable(operaciones)
    /\ Deshacer(d, "CANCELLED", libre)

-----------------------------------------------------------------------------
\* What happens to the same shipments outside the request.

\* POST /shipments/{id}/transitions and bulk-transition (all or nothing).
TransicionarMasivamente(S, hacia, libre) ==
    /\ S # {}
    /\ \A c \in S : /\ <<estado[c], hacia>> \in Manuales
                    /\ PuedeTransicionar(c, estado[c], hacia, libre)
    /\ Mover(S, hacia)
    /\ UNCHANGED <<archivada, requisito, empresa, solicitudVars>>

Transicionar(c, hacia, libre) == TransicionarMasivamente({c}, hacia, libre)

\* The nightly sweep; its other conditions are module Cargas's subject.
Archivar(c) ==
    /\ estado[c] \in Cerrados
    /\ ~archivada[c]
    /\ archivada' = [archivada EXCEPT ![c] = TRUE]
    /\ UNCHANGED <<estado, requisito, empresa, pedidoDesde, solicitudVars>>

\* Only an actor with the free-change permission moves a shipment to another
\* company, and only while no request claims it.
\* Mutant: the company changes under an active request.
CambiarEmpresaReclamada(c, e) ==
    /\ e # empresa[c]
    /\ empresa' = [empresa EXCEPT ![c] = e]
    /\ UNCHANGED <<estado, archivada, requisito, pedidoDesde, solicitudVars>>

CambiarEmpresa(c, e) ==
    /\ e # empresa[c]
    /\ ~Reclamada(c)
    /\ empresa' = [empresa EXCEPT ![c] = e]
    /\ UNCHANGED <<estado, archivada, requisito, pedidoDesde, solicitudVars>>

AbrirRequisito(c) ==
    /\ c \in ConRequisitos
    /\ ~requisito[c]
    /\ requisito' = [requisito EXCEPT ![c] = TRUE]
    /\ UNCHANGED <<estado, archivada, empresa, pedidoDesde, solicitudVars>>

ResolverRequisito(c) ==
    /\ requisito[c]
    /\ requisito' = [requisito EXCEPT ![c] = FALSE]
    /\ UNCHANGED <<estado, archivada, empresa, pedidoDesde, solicitudVars>>

-----------------------------------------------------------------------------
CrearSolicitud(d) ==
    \E S \in SUBSET Cargas, e \in Empresas, libre \in BOOLEAN : Crear(d, S, e, libre)

AccionDeSolicitud(d) ==
    \/ \E hacia \in ExigenRequisitos : Verificar(d, hacia)
    \/ Revertir(d)
    \/ Aprobar(d)
    \/ Completar(d)
    \/ \E libre \in BOOLEAN :
         \/ Preparar(d, libre)
         \/ Despachar(d, libre)
         \/ Rechazar(d, libre)
         \/ \E operaciones \in BOOLEAN : Cancelar(d, libre, operaciones)
    \/ CrearSolicitud(d)

AccionDeCarga(c) ==
    \/ \E hacia \in Estados, libre \in BOOLEAN : Transicionar(c, hacia, libre)
    \/ Archivar(c)
    \/ \E e \in Empresas : CambiarEmpresa(c, e)
    \/ AbrirRequisito(c) \/ ResolverRequisito(c)

Next ==
    \/ \E d \in Solicitudes : AccionDeSolicitud(d)
    \/ \E c \in Cargas : AccionDeCarga(c)
    \/ \E S \in SUBSET Cargas, hacia \in Estados, libre \in BOOLEAN :
         TransicionarMasivamente(S, hacia, libre)

Spec == Init /\ [][Next]_vars

-----------------------------------------------------------------------------
\* Type invariant of the requests, the shipments and the claims between them.
TypeOK ==
    /\ estado \in [Cargas -> Estados]
    /\ archivada \in [Cargas -> BOOLEAN]
    /\ requisito \in [Cargas -> BOOLEAN]
    /\ empresa \in [Cargas -> Empresas]
    /\ pedidoDesde \in [Cargas -> Estados \cup {"NINGUNO"}]
    /\ solicitud \in [Solicitudes -> EstadosDespacho \cup {"SIN_CREAR"}]
    /\ clienteDe \in [Solicitudes -> Empresas \cup {SinEmpresa}]
    /\ reclamos \subseteq Solicitudes \X Cargas
    /\ verificada \in [Solicitudes -> ExigenRequisitos \cup {"NINGUNO"}]

\* No shipment is ever claimed by two requests: what the partial unique index
\* uq_active_dispatch_per_shipment and dispatches.crear are there for.
ReclamoUnico ==
    \A d1, d2 \in Solicitudes, c \in Cargas :
        <<d1, c>> \in reclamos /\ <<d2, c>> \in reclamos => d1 = d2

\* A request claims shipments exactly while it is active: no active request is
\* left without any, and no closed one keeps holding any (released_at).
ReclamoVigente ==
    \A d \in Solicitudes : solicitud[d] \in Activos <=> CargasActivas(d) # {}

\* A claimed shipment belongs to the company of the request that claims it, in
\* spite of the shipment's company being editable (_validar_cambio_de_empresa).
MismaEmpresa ==
    \A d \in Solicitudes : \A c \in CargasActivas(d) : empresa[c] = clienteDe[d]

\* Where the shipments of a request stand, by the request's status.
EstadoDeCarga(s) ==
    IF s \in {"PENDING", "APPROVED"} THEN "DISPATCH_REQUESTED" ELSE s

Alineada(d) ==
    solicitud[d] \in Activos =>
        \A c \in CargasActivas(d) : estado[c] = EstadoDeCarga(solicitud[d])

\* While nobody moves by hand the shipments of a dispatch, request and
\* shipments agree, and the dispatch states hold no unclaimed shipment other
\* than the ones of a completed request ("nunca quedan desalineados").
Alineado ==
    /\ \A d \in Solicitudes : Alineada(d)
    /\ \A c \in Cargas : estado[c] \in {"DISPATCH_REQUESTED", "PREPARING"} => Reclamada(c)

\* The status an active request goes on to when it is not called off.
Siguiente == [PENDING |-> "APPROVED", APPROVED |-> "PREPARING",
              PREPARING |-> "DISPATCHED", DISPATCHED |-> "COMPLETED"]

\* _cambiar_estado would accept the change, from an actor without the
\* free-change permission, if it ran now and alone.
PuedePasar(d, hacia) ==
    /\ <<solicitud[d], hacia>> \in TransicionesDespacho
    /\ hacia \in ExigenRequisitos => Comprobada(d, hacia)
    /\ hacia \in {"PREPARING", "DISPATCHED"} =>
         \A c \in CargasActivas(d) : PuedeTransicionar(c, estado[c], hacia, FALSE)

\* No request is ever stuck while nobody moves its shipments by hand.  Its next
\* step is open, once no requirement blocks a shipment of it if that is a step
\* that asks about them (whoever opened one may always resolve it), and until
\* it goes out Operations can cancel it, with the free-change permission only
\* where a shipment was stored without its WR.
SinTrabas ==
    \A d \in Solicitudes :
        solicitud[d] \in Activos =>
            LET hacia == Siguiente[solicitud[d]]
                libre == CargasActivas(d) \cap SinWR # {}
            IN  /\ (hacia \in ExigenRequisitos => SinRequisitos(d)) => PuedePasar(d, hacia)
                /\ hacia # "COMPLETED" =>
                     /\ solicitud[d] \in Cancelable(TRUE)
                     /\ <<solicitud[d], "CANCELLED">> \in TransicionesDespacho
                     /\ \A c \in CargasActivas(d) : SePuedeDevolver(c, libre)

\* Whatever was moved by hand in between, a step that opens, prepares or sends
\* out a request leaves every one of its shipments in the matching status, and
\* no step of a request misaligns a request that was aligned.
SigueAlineada ==
    [][\A d \in Solicitudes :
         /\ (/\ solicitud'[d] # solicitud[d]
             /\ solicitud'[d] \in {"PENDING", "PREPARING", "DISPATCHED"})
            => Alineada(d)'
         /\ (solicitud' # solicitud /\ Alineada(d)) => Alineada(d)']_vars

\* A rejected or cancelled request gives back every shipment it held, available
\* and free, or changes nothing: never part of them.
DevuelveTodo ==
    [][\A d \in Solicitudes :
         solicitud[d] \in Activos /\ solicitud'[d] \in {"REJECTED", "CANCELLED"} =>
            \A c \in CargasActivas(d) :
                /\ estado'[c] \in {"STORED", "IN_TRANSIT"}
                /\ ~Reclamada(c)']_vars

\* An archived shipment never changes status, not even when its dispatch is
\* prepared, rejected or cancelled afterwards (CargaArchivada, ADR-0007).
ArchivadaCongelada ==
    [][\A c \in Cargas : archivada[c] => archivada'[c] /\ estado'[c] = estado[c]]_vars

\* Claims seen from above: a shipment has a holder or none, a request is new,
\* active or closed, and sets are taken and given back whole.
Titular(c) ==
    IF Reclamada(c) THEN CHOOSE d \in Solicitudes : <<d, c>> \in reclamos ELSE Nadie

Fase(d) ==
    IF solicitud[d] = "SIN_CREAR" THEN "nueva"
    ELSE IF solicitud[d] \in Activos THEN "activa" ELSE "cerrada"

A == INSTANCE Apartado WITH titular <- [c \in Cargas |-> Titular(c)],
                            fase <- [d \in Solicitudes |-> Fase(d)]

\* Despachos implements Apartado.
ImplementaApartado == A!Spec

-----------------------------------------------------------------------------
\* What documents and comments say, and the code does not do.

\* docs/reescritura/04-reglas-negocio-objetivo.md, 4.3: the client can cancel
\* from PENDING.  Stated of a request whose shipments nobody moved by hand.
ClienteCancelaPendiente ==
    \A d \in Solicitudes :
        solicitud[d] = "PENDING" /\ Alineada(d) =>
            \A c \in CargasActivas(d) : SePuedeDevolver(c, FALSE)

\* docs/reescritura/04-reglas-negocio-objetivo.md, 4.2: a request that becomes
\* COMPLETED has all of its shipments out of the warehouse.
CompletaDespachadas ==
    [][\A d \in Solicitudes :
         solicitud[d] = "DISPATCHED" /\ solicitud'[d] = "COMPLETED" =>
            \A c \in CargasActivas(d) : estado[c] \in {"DISPATCHED", "DELIVERED"}]_vars

=============================================================================
