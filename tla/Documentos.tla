----------------------------- MODULE Documentos -----------------------------
(***************************************************************************)
(* The documents of one shipment and of one dispatch request: the upload   *)
(* in two steps against an object store no transaction covers, the task    *)
(* that hashes what arrived, the document requirements it satisfies, the   *)
(* invalidation of a document and the recompression after archiving.       *)
(* Sources: app/modules/documents/service.py, router.py, archivado.py,     *)
(* app/workers/tasks/documents.py, app/infrastructure/storage/s3.py and    *)
(* the review of documents in app/modules/shipments/service.py.            *)
(*                                                                         *)
(* A transaction is one action where the rows it decides on are locked.    *)
(* Four are not: completing (the commit, then the broker), processing      *)
(* (the object is read under the document's lock, which takes minutes),    *)
(* invalidating (the document's row, then the requirements', read in the   *)
(* statement's snapshot) and reviewing (only the requirement is locked,    *)
(* the document comes from the snapshot).                                  *)
(*                                                                         *)
(* Names, formats and hashes are abstracted to contents: which of them     *)
(* pass the validation of header, extension and size, and their sizes.     *)
(***************************************************************************)
EXTENDS Naturals, FiniteSets

CONSTANTS
    Documentos, Requisitos, Trabajadores,
    Contenidos,     \* what clients upload
    Validos,        \* contents that validar_contenido and validar_tamano accept
    Tamano,         \* size of each content
    TipoDe,         \* document type of each document and of each requirement
    DeDespacho,     \* documents that hang from the dispatch request
    SinMejora,      \* documents of a format that recompression leaves alone
    ProvistoPor,    \* who provides each document type
    Ninguno,        \* no document, no requirement, no content
    MaxEntregas,    \* bound: deliveries of a task waiting in the broker
    MaxFallos       \* bound: failures of the store or the broker, crashes, kills

ASSUME Parametros ==
    /\ Validos \subseteq Contenidos
    /\ DeDespacho \subseteq Documentos /\ SinMejora \subseteq Documentos
    /\ Tamano \in [Contenidos -> Nat \ {0}]
    /\ DOMAIN TipoDe = Documentos \cup Requisitos
    /\ Ninguno \notin Documentos \cup Requisitos \cup Contenidos
    /\ MaxEntregas \in Nat /\ MaxFallos \in Nat

VARIABLES
    estado,         \* documents.upload_status
    quitado,        \* documents.deleted_at IS NOT NULL
    tamano,         \* documents.size_bytes, as measured when completing
    comprimido,     \* documents.archived_compressed_at IS NOT NULL
    objeto,         \* the object in the store, with its recompressions
    url,            \* the signed upload URL is still good
    encolando,      \* a handler committed PROCESSING and has not reached the broker
    cola,           \* deliveries of documents.process waiting or under way
    tarea,          \* tarea[w]: the transaction of a worker
    requisito,      \* shipment_requirements.status
    respaldo,       \* shipment_requirements.verified_document_id
    revisado,       \* shipment_requirements.reviewed_document_id
    aMano,          \* history: the last to verify it was a reviewer, not the task
    mirada,         \* the document a reviewer's SELECT found, before it has the lock
    foto,           \* what an invalidation's statement on the requirements sees
    archivada,      \* the shipment's archived_at IS NOT NULL
    lote,           \* the nightly recompression's open transaction
    fallos,         \* failures so far
    abandonada,     \* history: documents whose task nobody will run again
    lotesPerdidos   \* history: recompression batches that were rolled back

docVars == <<estado, quitado, tamano>>
reqVars == <<requisito, respaldo, revisado, aMano, mirada>>
taskVars == <<encolando, cola, tarea, abandonada>>
archVars == <<archivada, comprimido, lote, lotesPerdidos>>
vars == <<docVars, reqVars, taskVars, archVars, objeto, url, foto, fallos>>

EstadosSubida == {"SIN_CREAR", "UPLOADING", "PROCESSING", "READY", "FAILED"}
EstadosRequisito == {"PENDING", "UPLOADED", "VERIFIED", "REJECTED",
                     "NOT_APPLICABLE", "WAIVED", "CANCELLED"}
SinObjeto == [dato |-> Ninguno, veces |-> 0]
Objetos == {SinObjeto} \cup [dato : Contenidos, veces : Nat]
Libre == [fase |-> "LIBRE", doc |-> Ninguno, dicho |-> 0, leido |-> Ninguno,
          marca |-> Ninguno]
SinFoto == [vivos |-> Documentos \cup {Ninguno}, filas |-> Requisitos]
Fotos == {SinFoto} \cup [vivos : SUBSET Documentos, filas : SUBSET Requisitos]
SinLote == [corre |-> FALSE, filas |-> {}, hechos |-> {}]

Existe(d) == objeto[d] # SinObjeto
DeTipo(r) == {d \in Documentos \ DeDespacho : TipoDe[d] = TipoDe[r]}
Vivo(d) == estado[d] = "READY" /\ ~quitado[d]

\* Nobody else holds the document's row FOR UPDATE or has written it.
FilaLibre(d) ==
    /\ \A w \in Trabajadores : tarea[w].doc # d
    /\ foto[d] = SinFoto
    /\ d \notin lote.hechos

RequisitoLibre(r) == \A w \in Trabajadores : tarea[w].marca # r

Falla == fallos < MaxFallos /\ fallos' = fallos + 1

TypeOK ==
    /\ estado \in [Documentos -> EstadosSubida]
    /\ quitado \in [Documentos -> BOOLEAN]
    /\ tamano \in [Documentos -> Nat]
    /\ comprimido \in [Documentos -> BOOLEAN]
    /\ objeto \in [Documentos -> Objetos]
    /\ url \in [Documentos -> BOOLEAN]
    /\ encolando \in [Documentos -> BOOLEAN]
    /\ cola \in [Documentos -> 0 .. MaxEntregas]
    /\ tarea \in [Trabajadores ->
         [fase : {"LIBRE", "LEYENDO", "ESCRIBIENDO"}, doc : Documentos \cup {Ninguno},
          dicho : Nat, leido : Contenidos \cup {Ninguno}, marca : Requisitos \cup {Ninguno}]]
    /\ requisito \in [Requisitos -> EstadosRequisito]
    /\ respaldo \in [Requisitos -> Documentos \cup {Ninguno}]
    /\ revisado \in [Requisitos -> Documentos \cup {Ninguno}]
    /\ aMano \in [Requisitos -> BOOLEAN]
    /\ mirada \in [Requisitos -> Documentos \cup {Ninguno}]
    /\ foto \in [Documentos -> Fotos]
    /\ archivada \in BOOLEAN
    /\ lote \in [corre : BOOLEAN, filas : SUBSET Documentos, hechos : SUBSET Documentos]
    /\ fallos \in 0 .. MaxFallos
    /\ abandonada \in [Documentos -> BOOLEAN]
    /\ lotesPerdidos \in Nat

Init ==
    /\ estado = [d \in Documentos |-> "SIN_CREAR"]
    /\ quitado = [d \in Documentos |-> FALSE]
    /\ tamano = [d \in Documentos |-> 1]
    /\ comprimido = [d \in Documentos |-> FALSE]
    /\ objeto = [d \in Documentos |-> SinObjeto]
    /\ url = [d \in Documentos |-> FALSE]
    /\ encolando = [d \in Documentos |-> FALSE]
    /\ cola = [d \in Documentos |-> 0]
    /\ tarea = [w \in Trabajadores |-> Libre]
    /\ requisito = [r \in Requisitos |-> "PENDING"]
    /\ respaldo = [r \in Requisitos |-> Ninguno]
    /\ revisado = [r \in Requisitos |-> Ninguno]
    /\ aMano = [r \in Requisitos |-> FALSE]
    /\ mirada = [r \in Requisitos |-> Ninguno]
    /\ foto = [d \in Documentos |-> SinFoto]
    /\ archivada = FALSE
    /\ lote = SinLote
    /\ fallos = 0
    /\ abandonada = [d \in Documentos |-> FALSE]
    /\ lotesPerdidos = 0

-----------------------------------------------------------------------------
(* Upload *)

\* The matrix of who may upload a type, by the actor's two permissions.
PuedeSubirTipo(d, interno, cliente) ==
    IF d \in DeDespacho THEN interno
    ELSE CASE ProvistoPor[TipoDe[d]] = "STAFF"  -> interno
           [] ProvistoPor[TipoDe[d]] = "CLIENT" -> cliente /\ ~interno
           [] OTHER -> cliente \/ interno

\* The row is reserved and the URL signed; nothing is in the store yet.
ReservarDocumento(d) ==
    /\ estado[d] = "SIN_CREAR"
    /\ estado' = [estado EXCEPT ![d] = "UPLOADING"]
    /\ url' = [url EXCEPT ![d] = TRUE]
    /\ UNCHANGED <<quitado, tamano, reqVars, taskVars, objeto, foto, archVars, fallos>>

TipoParaSubida(d) == \E interno, cliente \in BOOLEAN : PuedeSubirTipo(d, interno, cliente)

AdmiteLaCarga(d) == d \notin DeDespacho /\ ~archivada /\ TipoParaSubida(d)
AdmiteElDespacho(d) == d \in DeDespacho /\ TipoParaSubida(d)

PrepararSubida(d) == AdmiteLaCarga(d) /\ ReservarDocumento(d)
PrepararSubidaDeDespacho(d) == AdmiteElDespacho(d) /\ ReservarDocumento(d)

\* The client writes to the store directly, as often as it likes and whatever
\* the document's status, for as long as the URL is good.
Subir(d, x) ==
    /\ url[d]
    /\ objeto' = [objeto EXCEPT ![d] = [dato |-> x, veces |-> 0]]
    /\ UNCHANGED <<docVars, reqVars, taskVars, url, foto, archVars, fallos>>

VencerUrl(d) ==
    /\ url[d]
    /\ url' = [url EXCEPT ![d] = FALSE]
    /\ UNCHANGED <<docVars, reqVars, taskVars, objeto, foto, archVars, fallos>>

-----------------------------------------------------------------------------
(* Completing *)

DocumentoDelRecurso(d) == ~quitado[d] /\ FilaLibre(d)

\* The object is there and its header and size are good.
PrepararProcesamiento(d) ==
    /\ DocumentoDelRecurso(d)
    /\ estado[d] = "UPLOADING"
    /\ objeto[d].dato \in Validos
    /\ estado' = [estado EXCEPT ![d] = "PROCESSING"]
    /\ tamano' = [tamano EXCEPT ![d] = Tamano[objeto[d].dato]]

\* The commit; the broker is called afterwards.
Completar(d) ==
    /\ PrepararProcesamiento(d)
    /\ encolando' = [encolando EXCEPT ![d] = TRUE]
    /\ UNCHANGED <<quitado, reqVars, cola, tarea, abandonada, objeto, url, foto,
                   archVars, fallos>>

\* Mutant: an upload that was already completed can be completed again.
MarcarFallidoSinEstado(d) ==
    /\ DocumentoDelRecurso(d)
    /\ estado[d] # "SIN_CREAR"
    /\ objeto[d].dato \notin Validos
    /\ objeto' = [objeto EXCEPT ![d] = SinObjeto]

\* Nothing arrived, or what arrived is not acceptable and leaves the store.
\* The handler commits the failure before it answers with the error.
MarcarFallido(d) ==
    /\ DocumentoDelRecurso(d)
    /\ estado[d] = "UPLOADING"
    /\ objeto[d].dato \notin Validos
    /\ objeto' = [objeto EXCEPT ![d] = SinObjeto]

RechazarSubida(d) ==
    /\ MarcarFallido(d)
    /\ estado' = [estado EXCEPT ![d] = "FAILED"]
    /\ UNCHANGED <<quitado, tamano, reqVars, taskVars, url, foto, archVars, fallos>>

\* The process dies between the removal from the store and the commit.
RechazarYCaer(d) ==
    /\ MarcarFallido(d)
    /\ Falla
    /\ UNCHANGED <<docVars, reqVars, taskVars, url, foto, archVars>>

\* The two handlers that complete an upload.
AlCompletar(d) == Completar(d) \/ RechazarSubida(d) \/ RechazarYCaer(d)
CompletarSubida(d) == d \notin DeDespacho /\ AlCompletar(d)
CompletarDocumentoDeDespacho(d) == d \in DeDespacho /\ AlCompletar(d)

Encolar(d) ==
    /\ encolando[d]
    /\ cola[d] < MaxEntregas
    /\ encolando' = [encolando EXCEPT ![d] = FALSE]
    /\ cola' = [cola EXCEPT ![d] = @ + 1]
    /\ UNCHANGED <<docVars, reqVars, tarea, abandonada, objeto, url, foto, archVars,
                   fallos>>

\* Mutant: the document stays in processing although nobody will process it.
NoEncoladoSinVolver(d) ==
    /\ encolando[d]
    /\ FilaLibre(d)
    /\ Falla
    /\ encolando' = [encolando EXCEPT ![d] = FALSE]
    /\ cola' \in {cola, [cola EXCEPT ![d] = IF @ < MaxEntregas THEN @ + 1 ELSE @]}
    /\ UNCHANGED <<docVars, reqVars, tarea, abandonada, objeto, url, foto, archVars>>

\* The broker raises, perhaps after it took the message: the document goes back
\* to UPLOADING unless the task was faster.
NoEncolado(d) ==
    /\ encolando[d]
    /\ FilaLibre(d)
    /\ Falla
    /\ encolando' = [encolando EXCEPT ![d] = FALSE]
    /\ estado' = [estado EXCEPT ![d] = IF @ = "PROCESSING" THEN "UPLOADING" ELSE @]
    /\ cola' \in {cola, [cola EXCEPT ![d] = IF @ < MaxEntregas THEN @ + 1 ELSE @]}
    /\ UNCHANGED <<quitado, tamano, reqVars, tarea, abandonada, objeto, url, foto, archVars>>

\* The process dies between the commit and the broker.  A delivery of an earlier
\* attempt that the broker seemed to refuse may still be there.
CaerAlEncolar(d) ==
    /\ encolando[d]
    /\ Falla
    /\ encolando' = [encolando EXCEPT ![d] = FALSE]
    /\ abandonada' = [abandonada EXCEPT ![d] = @ \/ cola[d] = 0]
    /\ UNCHANGED <<docVars, reqVars, cola, tarea, objeto, url, foto, archVars>>

-----------------------------------------------------------------------------
(* The task documents.process *)

EnCurso(d) == Cardinality({w \in Trabajadores : tarea[w].doc = d})

\* Nothing will bring a task to the document once this delivery has ended.
UltimaEntrega(d) == cola[d] = 1 /\ ~encolando[d]

Tomable(w, d) == tarea[w] = Libre /\ EnCurso(d) < cola[d] /\ FilaLibre(d)

\* The worker locks the row and asks the store for the object's size.
EmpezarTarea(w, d) ==
    /\ Tomable(w, d)
    /\ estado[d] = "PROCESSING" /\ ~quitado[d] /\ Existe(d)
    /\ tarea' = [tarea EXCEPT ![w] =
         [Libre EXCEPT !.fase = "LEYENDO", !.doc = d, !.dicho = Tamano[objeto[d].dato]]]
    /\ UNCHANGED <<docVars, reqVars, encolando, cola, abandonada, objeto, url, foto,
                   archVars, fallos>>

\* A duplicate, a late delivery or a document that was removed: the task ends
\* and changes nothing.  So it does when the object is gone from the store.
DescartarTarea(w, d) ==
    /\ Tomable(w, d)
    /\ estado[d] # "PROCESSING" \/ quitado[d] \/ ~Existe(d)
    /\ cola' = [cola EXCEPT ![d] = @ - 1]
    /\ abandonada' = [abandonada EXCEPT ![d] =
         @ \/ (estado[d] = "PROCESSING" /\ UltimaEntrega(d))]
    /\ UNCHANGED <<docVars, reqVars, encolando, tarea, objeto, url, foto, archVars,
                   fallos>>

\* Requirements of the document's type that it would satisfy: it takes one.
Abiertos(d) ==
    {r \in Requisitos : /\ d \in DeTipo(r)
                        /\ requisito[r] \in {"PENDING", "REJECTED", "UPLOADED"}
                        /\ RequisitoLibre(r)}

\* An open requirement that another transaction holds is waited for.
EsperaRequisito(d) ==
    \E r \in Requisitos : /\ d \in DeTipo(r)
                          /\ requisito[r] \in {"PENDING", "REJECTED", "UPLOADED"}
                          /\ ~RequisitoLibre(r)

\* The whole object was read and its size is the one announced and the one
\* measured; the requirement it will satisfy is chosen and locked.
LeerObjeto(w) ==
    LET d == tarea[w].doc IN
    /\ tarea[w].fase = "LEYENDO"
    /\ Existe(d)
    /\ Tamano[objeto[d].dato] = tarea[w].dicho
    /\ Tamano[objeto[d].dato] = tamano[d]
    /\ ~EsperaRequisito(d)
    /\ \E r \in IF Abiertos(d) = {} THEN {Ninguno} ELSE Abiertos(d) :
         tarea' = [tarea EXCEPT ![w].fase = "ESCRIBIENDO", ![w].marca = r,
                                ![w].leido = objeto[d].dato]
    /\ UNCHANGED <<docVars, reqVars, encolando, cola, abandonada, objeto, url, foto,
                   archVars, fallos>>

\* The size changed: the failure is marked in the transaction that the error
\* rolls back, and the task is not retried.
TamanoDistinto(w) ==
    LET d == tarea[w].doc IN
    /\ tarea[w].fase = "LEYENDO"
    /\ \/ Existe(d) /\ {Tamano[objeto[d].dato]} # {tarea[w].dicho, tamano[d]}
       \/ ~Existe(d)
    /\ tarea' = [tarea EXCEPT ![w] = Libre]
    /\ cola' = [cola EXCEPT ![d] = @ - 1]
    /\ abandonada' = [abandonada EXCEPT ![d] = @ \/ UltimaEntrega(d)]
    /\ UNCHANGED <<docVars, reqVars, encolando, objeto, url, foto, archVars, fallos>>

\* The requirement, if there was one, is met by the document.
MarcarRequisitoSubido(r, d) ==
    /\ requisito' = [x \in Requisitos |-> IF x = r THEN "VERIFIED" ELSE requisito[x]]
    /\ respaldo' = [x \in Requisitos |-> IF x = r THEN d ELSE respaldo[x]]
    /\ revisado' = [x \in Requisitos |-> IF x = r THEN d ELSE revisado[x]]
    /\ aMano' = [x \in Requisitos |-> aMano[x] /\ x # r]

\* Mutant: the requirement is marked and the document stays as it was.
ConfirmarSinListo(w) ==
    LET d == tarea[w].doc  r == tarea[w].marca IN
    /\ tarea[w].fase = "ESCRIBIENDO"
    /\ MarcarRequisitoSubido(r, d)
    /\ tarea' = [tarea EXCEPT ![w] = Libre]
    /\ cola' = [cola EXCEPT ![d] = @ - 1]
    /\ UNCHANGED <<docVars, mirada, encolando, abandonada, objeto, url, foto, archVars,
                   fallos>>

\* READY, the requirement VERIFIED and the event, in one commit.
ConfirmarTarea(w) ==
    LET d == tarea[w].doc  r == tarea[w].marca IN
    /\ tarea[w].fase = "ESCRIBIENDO"
    /\ estado' = [estado EXCEPT ![d] = "READY"]
    /\ MarcarRequisitoSubido(r, d)
    /\ tarea' = [tarea EXCEPT ![w] = Libre]
    /\ cola' = [cola EXCEPT ![d] = @ - 1]
    /\ UNCHANGED <<quitado, tamano, mirada, encolando, abandonada, objeto, url, foto,
                   archVars, fallos>>

\* The worker dies whole, so that the broker delivers the message again (late
\* acknowledgement), or the store fails with one of the errors of autoretry_for
\* and retries are left: the transaction is lost and the task is not.
RepetirTarea(w) ==
    /\ tarea[w].fase # "LIBRE"
    /\ Falla
    /\ tarea' = [tarea EXCEPT ![w] = Libre]
    /\ UNCHANGED <<docVars, reqVars, encolando, cola, abandonada, objeto, url, foto,
                   archVars>>

\* The pool's child is killed, by the kernel or by the 180 seconds of the time
\* limit, and its parent acknowledges the message; or the error is not one of
\* autoretry_for, or the last of its retries: transaction and task are lost.
PerderTarea(w) ==
    LET d == tarea[w].doc IN
    /\ tarea[w].fase # "LIBRE"
    /\ Falla
    /\ tarea' = [tarea EXCEPT ![w] = Libre]
    /\ cola' = [cola EXCEPT ![d] = @ - 1]
    /\ abandonada' = [abandonada EXCEPT ![d] = @ \/ UltimaEntrega(d)]
    /\ UNCHANGED <<docVars, reqVars, encolando, objeto, url, foto, archVars>>

Procesar(w) ==
    \/ \E d \in Documentos : EmpezarTarea(w, d) \/ DescartarTarea(w, d)
    \/ LeerObjeto(w)
    \/ TamanoDistinto(w)
    \/ ConfirmarTarea(w)

-----------------------------------------------------------------------------
(* Removing a document *)

\* A requirement the statement of an invalidation updates.
Afectado(r, d) ==
    /\ d \in DeTipo(r)
    /\ d \in {respaldo[r], revisado[r]} \/ requisito[r] \in {"UPLOADED", "VERIFIED", "REJECTED"}

\* The document's row is written; the statement on the requirements starts, and
\* may wait for them with the snapshot it took.
Quitar(d) ==
    /\ estado[d] # "SIN_CREAR" /\ ~quitado[d]
    /\ FilaLibre(d)
    /\ foto' = [foto EXCEPT ![d] =
         [vivos |-> {e \in Documentos \ {d} : Vivo(e)},
          filas |-> {r \in Requisitos : Afectado(r, d)}]]
    /\ UNCHANGED <<docVars, reqVars, taskVars, archVars, objeto, url, fallos>>

\* Mutant: the removal leaves the requirements as they were.
ReabrirSinMirar(d) ==
    /\ foto[d] # SinFoto
    /\ quitado' = [quitado EXCEPT ![d] = TRUE]
    /\ foto' = [foto EXCEPT ![d] = SinFoto]
    /\ UNCHANGED <<estado, tamano, reqVars, taskVars, archVars, objeto, url, fallos>>

\* The requirements have their locks and are read again; the other documents
\* are still those of the snapshot.  The removal of the document is committed.
Reabrir(d) ==
    LET otros(r) == foto[d].vivos \cap DeTipo(r)
        filas == {r \in foto[d].filas : Afectado(r, d)}
        cambia(f, v) == [r \in Requisitos |-> IF r \in filas THEN v ELSE f[r]]
    IN
    /\ foto[d] # SinFoto
    /\ \A r \in foto[d].filas : RequisitoLibre(r)
    /\ quitado' = [quitado EXCEPT ![d] = TRUE]
    /\ foto' = [foto EXCEPT ![d] = SinFoto]
    /\ requisito' = [r \in Requisitos |->
         IF r \notin filas THEN requisito[r]
         ELSE IF otros(r) # {} THEN "UPLOADED" ELSE "PENDING"]
    /\ respaldo' = cambia(respaldo, Ninguno)
    /\ revisado' = cambia(revisado, Ninguno)
    /\ aMano' = cambia(aMano, FALSE)
    /\ UNCHANGED <<estado, tamano, mirada, taskVars, archVars, objeto, url, fallos>>

InvalidarDocumento(d) == Quitar(d) \/ Reabrir(d)

-----------------------------------------------------------------------------
(* Review *)

\* The SELECT joins the document as its snapshot has it and then waits for the
\* requirement's row.
VerDocumento(r, d) ==
    /\ mirada[r] = Ninguno
    /\ d \in DeTipo(r) /\ Vivo(d)
    /\ mirada' = [mirada EXCEPT ![r] = d]
    /\ UNCHANGED <<docVars, requisito, respaldo, revisado, aMano, taskVars, archVars,
                   objeto, url, foto, fallos>>

FilaParaRevision(r) ==
    /\ mirada[r] # Ninguno
    /\ RequisitoLibre(r)
    /\ mirada' = [mirada EXCEPT ![r] = Ninguno]
    /\ UNCHANGED <<docVars, taskVars, archVars, objeto, url, foto, fallos>>

Verificar(r) ==
    /\ requisito[r] = "UPLOADED"
    /\ requisito' = [requisito EXCEPT ![r] = "VERIFIED"]
    /\ respaldo' = [respaldo EXCEPT ![r] = mirada[r]]
    /\ revisado' = [revisado EXCEPT ![r] = mirada[r]]
    /\ aMano' = [aMano EXCEPT ![r] = TRUE]

Rechazar(r) ==
    /\ requisito[r] = "UPLOADED"
    /\ requisito' = [requisito EXCEPT ![r] = "REJECTED"]
    /\ respaldo' = [respaldo EXCEPT ![r] = Ninguno]
    /\ revisado' = [revisado EXCEPT ![r] = mirada[r]]
    /\ UNCHANGED aMano

VerificarRequisito(r) == FilaParaRevision(r) /\ Verificar(r)
RechazarRequisito(r) == FilaParaRevision(r) /\ Rechazar(r)

\* The requirement was not waiting for a review: the request is refused.
NoRevisable(r) ==
    /\ FilaParaRevision(r)
    /\ requisito[r] # "UPLOADED"
    /\ UNCHANGED <<requisito, respaldo, revisado, aMano>>

\* By hand, to any status of a document requirement but the two of a review.
ResolverRequisito(r, nuevo) ==
    /\ nuevo \in EstadosRequisito \ {"VERIFIED", "REJECTED"}
    /\ requisito[r] \notin {"CANCELLED", "WAIVED"}
    /\ RequisitoLibre(r)
    /\ requisito' = [requisito EXCEPT ![r] = nuevo]
    /\ UNCHANGED <<docVars, respaldo, revisado, aMano, mirada, taskVars, archVars,
                   objeto, url, foto, fallos>>

-----------------------------------------------------------------------------
(* Archiving and recompression *)

Archivar ==
    /\ ~archivada
    /\ archivada' = TRUE
    /\ UNCHANGED <<docVars, reqVars, taskVars, comprimido, lote, lotesPerdidos,
                   objeto, url, foto, fallos>>

\* Mutant: the batch does not look at what was compressed before.
LoteSinMarca ==
    LET filas == {d \in Documentos \ DeDespacho : Vivo(d)} IN
    /\ archivada /\ ~lote.corre
    /\ filas # {}
    /\ lote' = [corre |-> TRUE, filas |-> filas, hechos |-> {}]
    /\ UNCHANGED <<docVars, reqVars, taskVars, archivada, comprimido, lotesPerdidos,
                   objeto, url, foto, fallos>>

\* The nightly batch reads what is ready, kept, archived and not yet compressed.
DocumentosPendientes ==
    LET filas == {d \in Documentos \ DeDespacho : Vivo(d) /\ ~comprimido[d]} IN
    /\ archivada /\ ~lote.corre
    /\ filas # {}
    /\ lote' = [corre |-> TRUE, filas |-> filas, hechos |-> {}]
    /\ UNCHANGED <<docVars, reqVars, taskVars, archivada, comprimido, lotesPerdidos,
                   objeto, url, foto, fallos>>

\* The object is replaced at once; the row is written and held until the
\* batch's commit.
Recomprimir(d) ==
    /\ d \in lote.filas \ lote.hechos
    /\ FilaLibre(d)
    /\ objeto[d] # SinObjeto
    /\ objeto' = [objeto EXCEPT ![d].veces = IF d \in SinMejora THEN @ ELSE @ + 1]
    /\ lote' = [lote EXCEPT !.hechos = @ \cup {d}]
    /\ UNCHANGED <<docVars, reqVars, taskVars, archivada, comprimido, lotesPerdidos,
                   url, foto, fallos>>

RecomprimirPendientes ==
    /\ lote.corre
    /\ lote.filas = lote.hechos
    /\ comprimido' = [d \in Documentos |-> comprimido[d] \/ d \in lote.hechos]
    /\ lote' = SinLote
    /\ UNCHANGED <<docVars, reqVars, taskVars, archivada, lotesPerdidos,
                   objeto, url, foto, fallos>>

\* One document of the batch fails, or the worker dies: every row of the batch
\* is rolled back and the objects already replaced stay replaced.
PerderLote ==
    /\ lote.corre
    /\ Falla
    /\ lote' = SinLote
    /\ lotesPerdidos' = lotesPerdidos + 1
    /\ UNCHANGED <<docVars, reqVars, taskVars, archivada, comprimido, objeto, url, foto>>

-----------------------------------------------------------------------------

DelCliente(d) ==
    \/ PrepararSubida(d) \/ PrepararSubidaDeDespacho(d)
    \/ \E x \in Contenidos : Subir(d, x)
    \/ VencerUrl(d)
    \/ CompletarSubida(d) \/ CompletarDocumentoDeDespacho(d)
    \/ Encolar(d) \/ NoEncolado(d) \/ CaerAlEncolar(d)
    \/ InvalidarDocumento(d)

DelRevisor(r) ==
    \/ \E d \in Documentos : VerDocumento(r, d)
    \/ VerificarRequisito(r) \/ RechazarRequisito(r) \/ NoRevisable(r)
    \/ \E nuevo \in EstadosRequisito : ResolverRequisito(r, nuevo)

DelArchivo ==
    \/ Archivar
    \/ DocumentosPendientes \/ RecomprimirPendientes \/ PerderLote
    \/ \E d \in Documentos : Recomprimir(d)

Next ==
    \/ \E d \in Documentos : DelCliente(d)
    \/ \E w \in Trabajadores : Procesar(w) \/ RepetirTarea(w) \/ PerderTarea(w)
    \/ \E r \in Requisitos : DelRevisor(r)
    \/ DelArchivo

\* The web process finishes the requests it has begun, the workers run, and the
\* database does not lose what it holds.
Fairness ==
    /\ \A d \in Documentos : WF_vars(Encolar(d)) /\ WF_vars(Reabrir(d))
    /\ \A w \in Trabajadores :
         /\ WF_vars(LeerObjeto(w) \/ TamanoDistinto(w))
         /\ WF_vars(ConfirmarTarea(w))
         /\ \A d \in Documentos : SF_vars(EmpezarTarea(w, d) \/ DescartarTarea(w, d))
    /\ \A r \in Requisitos :
         SF_vars(VerificarRequisito(r) \/ RechazarRequisito(r) \/ NoRevisable(r))
    /\ \A d \in Documentos : SF_vars(Recomprimir(d))
    /\ WF_vars(RecomprimirPendientes)

Spec == Init /\ [][Next]_vars
FairSpec == Spec /\ Fairness

-----------------------------------------------------------------------------
(* Properties *)

\* A requirement counts as verified only on the strength of a document of its
\* type whose processing ended, whoever verified it and whatever was removed,
\* reopened or delivered twice meanwhile.
VerificadoPorListo ==
    \A r \in Requisitos : requisito[r] = "VERIFIED" =>
        respaldo[r] \in {d \in DeTipo(r) : estado[d] = "READY"}

\* The requirements the task verified lose the verification with the document:
\* only a review can leave one resting on a document that was removed.
SoloLaRevisionSeAdelanta ==
    \A r \in Requisitos :
        requisito[r] = "VERIFIED" /\ quitado[respaldo[r]] => aMano[r]

\* A document that is ready has its object in the store, although the store takes
\* part in no transaction and the rejection of an upload deletes from it.
ListoConObjeto ==
    \A d \in Documentos : estado[d] = "READY" => Existe(d)

\* An object is recompressed once, and once more for each batch that was lost.
RecompresionPorPerdida ==
    \A d \in Documentos : objeto[d].veces <= 1 + lotesPerdidos

\* A document in processing leaves it, unless the last delivery of its task was
\* lost (in a crash before the broker had it, a killed worker, an error that is
\* not retried or whose retries are spent) or the document was removed.  The
\* losses are the steps that set abandonada; a refusal of the broker, a retry or
\* a duplicate must never strand it.
SeProcesa ==
    \A d \in Documentos :
        estado[d] = "PROCESSING" ~> (estado[d] # "PROCESSING" \/ abandonada[d] \/ quitado[d])

\* workers/app.py, on late acknowledgement: "si el proceso muere a mitad de una
\* tarea, esta vuelve a la cola en vez de perderse".  Not where what dies is the
\* pool's child: nothing sets task_reject_on_worker_lost.
TareaVuelveALaCola ==
    [][\A w \in Trabajadores :
         tarea[w] # Libre /\ tarea'[w] = Libre /\ fallos' # fallos => cola' = cola]_vars

\* shipments/service.py: a document requirement is verified on "un documento
\* listo, vigente y del mismo tipo"; removing it reopens the requirement.
RequisitoConRespaldo ==
    \A r \in Requisitos : requisito[r] = "VERIFIED" => ~quitado[respaldo[r]]

\* shipments/service.py: a requirement that is cancelled or waived "no admite
\* más cambios".
DispensadoEsFinal ==
    [][\A r \in Requisitos : requisito[r] \in {"CANCELLED", "WAIVED"} =>
           requisito'[r] = requisito[r]]_vars

=============================================================================
