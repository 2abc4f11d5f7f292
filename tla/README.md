# A verification project for amvarmarLMS

amvarmarLMS is the back office of a freight forwarder: clients register shipments
("cargas"), the warehouse receives and stores them, clients ask for stored shipments to be
dispatched, people are notified of what happens, and shipments that are long over are
archived. It is a FastAPI service over PostgreSQL with Celery workers and a Redis cache.
This directory holds TLA+ models of its core, the TLC configurations that check them on small
instances, and theorems about them checked by TLAPS. Names follow the source, which is in
Spanish; paths below are relative to `src/backend/app/`.

    tlc -workers 2 -config DespachosManuales.cfg MCDespachos
    tlapm DespachosProofs.tla

## 1. The system

Every HTTP handler is one database transaction: it runs a service function and commits, or
raises and rolls everything back. Rows that are decided on are locked with
`SELECT ... FOR UPDATE`, mostly. Side effects outside the database (e-mail, files, model
calls) are requested by writing an event to `outbox_events` in the same transaction; a Celery
task delivers them later. The hard behaviour is where this discipline has a hole: a row read
unlocked, a snapshot older than a lock, an effect that a rollback cannot undo, two workers, a
process that dies.

| component | state | operations | interacts with | what makes it correct |
|---|---|---|---|---|
| Status catalogue (`shipments/catalog.py`) | none; rows of `shipment_status_transitions` | the twelve statuses and their transitions | read by the transition engine | rows name known statuses |
| Transition engine (`shipments/service.py: transicionar`) | `current_status_code`, `row_version`, timeline, `retention_until` | move one shipment, or many at once | called by people, dispatches and disputes; publishes to the outbox | archived shipments never move; retention follows closing |
| Dispatch requests (`dispatches/`) | request status, claims (`dispatch_request_shipments`) | create, approve, reject, prepare, dispatch, complete, cancel | moves shipments through the engine; reads requirements | one claim per shipment; claims exactly while active; all or nothing |
| Retention, disputes, sweep (`shipments/service.py`, `workers/tasks/shipments.py`) | `retention_until`, `archived_at`, `delivery_disputes`, review mark | report and resolve a dispute, review, archive every night | the sweep races with every handler | only what is closed, expired, reviewed and undisputed is archived, and all of it |
| Registration and editing (`shipments/gestion.py`) | data of a shipment, its WR and pieces, its company, `hidden_at` | register, edit, hide, recover, review | the company guard reads claims; triggers of the database | a WR is unique in its warehouse; nobody saves over what they did not see; a claimed shipment keeps its company |
| Requirements (`shipments/service.py`) | `shipment_requirements` | open, resolve, waive; reviewed with documents | block DISPATCHED and a request's approval | nothing leaves with an open requirement |
| Outbox (`audit/outbox.py`, `workers/tasks/outbox.py`) | `outbox_events` | publish, claim a batch, deliver, retry, give up | overlapping runs; crash; time limit of the task | at least once; settled for good; every event settled |
| Notifications (`notifications/`) | `notifications`, `notification_deliveries`, mailboxes | notice, e-mail, retry of a failed e-mail | called inside the outbox's transaction | everybody told; no copies that are not accounted for |
| Idempotency keys (`core/idempotency.py`) | `idempotency_keys` | find, reserve, save, expire after 24 h | around two creations and the confirmation of a proposal | a retry does not repeat the operation; a key that is found has an answer |
| Documents (`documents/service.py`, `router.py`, `workers/tasks/documents.py`) | `documents`, the object store, the task queue | reserve, upload, complete, process, remove | verifies requirements; store and broker take part in no transaction | a ready document has its object; a requirement rests on a processed document; processing ends |
| Recompression (`documents/archivado.py`) | `archived_compressed_at`, the objects | one nightly batch | runs after archiving | an object is recompressed once per batch that is not lost |
| Exports (`documents/exports.py`, `workers/tasks/exports.py`) | `document_export_jobs`, the ZIP | request or revive, build, publish, fail, retry, expire | worker tasks; store | what is downloaded is what was asked for, until it expires |
| Sessions (`auth/`) | `auth_sessions`, `refresh_tokens`, one-time links, the password | log in, rotate, detect reuse, revoke, change and reset the password | concurrent requests of one account | one usable token per session; a new password closes what the old one opened |
| Roles and permissions (`rbac/`), administration (`admin/`) | accounts, memberships, roles, `authz_version`; cache in Redis for 300 s | create, edit, suspend, deactivate; read permissions | every handler asks the cache | what is taken away stops being answered |
| Copilot (`copilot/`) | proposals, conversations, the quota of turns | propose, confirm, reject, expire | confirming calls the services of the other modules | a proposal takes effect at most once, and none waits for ever |
| Migration (`scripts/migrate_*.py`) | the map of identifiers, the files already uploaded | migrate in one transaction, upload one by one, compare | reads a system that is in use | repeated runs bring everything once |
| Rate limits (`core/rate_limit.py`) | counters in Redis | INCR, EXPIRE | log in and others | counters expire |
| Tariff and weights (`aranceles/motor.py`, `shipments/peso.py`) | none | decimal arithmetic | - | roundings agree |
| Queries, infrastructure, front end | - | reads, I/O | - | - |

`PROJECT.json` lists each with its status, and the hazards at their lines.

## 2. The modules

### CatalogoEstados
`shipments/catalog.py` as constant sets: the statuses, the two flows and the transition rows
`_construir_transiciones` builds from them (forward, one step back, cancel, reopen).

### Despachos, with Apartado above it
Requests (`solicitud`, `clienteDe`), claims (`reclamos`, the rows of
`dispatch_request_shipments` whose `released_at` is NULL) and the shipments they claim
(`estado`, `archivada`, `empresa`, `requisito`, `pedidoDesde`).

* An action is one committed transaction. A failed call is no step: the handler rolls back.
* Approving, dispatching and completing lock the request's row and read the shipments and
  their requirements without locking them (`_cambiar_estado`, the calls to
  `_validar_cargas_despachadas` and `validar_requisitos_de_cargas`). They are two actions,
  `Verificar` and the commit; `verificada[d]` says that a transaction which holds the lock on
  request d has passed its checks. Other transactions run in between, and `Revertir` is its
  rollback.
* `PuedeTransicionar` and `Mover` are the guard and the effect of `shipments.transicionar`,
  shared by everything that moves shipments as the function is in the code. `Devolver` and
  `SePuedeDevolver` are the loop of `_devolver_carga_al_estado_disponible`, as its outcome and
  the condition under which every one of its steps is accepted.
* Creating is atomic: it locks the shipments in a stable order before it reads them, and the
  partial unique index on active claims (`IndiceDeReclamo`) stands behind the lock.
* An actor is two facts: `libre`, whether it holds the free-change permission over the company
  (which lifts the catalogue and the policies, never the archived guard), and `operaciones`,
  its scope when it cancels. Which roles hold them is the permission tables' business.
* `row_version` is reduced to what it gives: a transition decided on a stale version fails.
* `pedidoDesde` is the origin of the last event into DISPATCH_REQUESTED; events are taken in
  commit order, while the code orders by `recorded_at`, the start of the transaction.
* Opening a requirement on a shipment takes a key-share lock on it through the foreign key, so
  it does not interleave with a transition of the same shipment, which holds the row FOR UPDATE;
  it does interleave with `Verificar`, which locks no shipment.
* `Transito` and `SinWR` are the two facts of a shipment's facility and references the policies
  read; they are constants since neither changes under a dispatch.

`Apartado` is what a request promises about claims and nothing else: a request takes a set of
free shipments whole, holds exactly that set while it is active, and gives it back whole.

### Cargas
The end of a shipment's life: `estado`, `plazo` (the retention date: none, running, past),
`archivada`, `revision`, `disputa` and `barrido`. A handler is one action, since it locks the
shipment first. The nightly sweep is two: `BarridoLeer` takes the snapshot of its
`SELECT ... FOR UPDATE SKIP LOCKED`, and `BarridoArchivar` locks and updates. PostgreSQL
re-evaluates the conditions on the shipment's row if that row changed in between
(`FilaArchivable`), but a subquery on another table keeps the old snapshot, so the open-dispute
condition is only in `Archivable`. Any part of the selection may be skipped (rows locked by
others) and none may be archived (the sweep fails).

Policies of a transition (Warehouse Receipt, requirements) are left out here: they depend on
data this module has not, and a free change skips them, so every transition the code could make
is a transition of the model. `legal_hold` is left out: nothing writes it. A milestone's date
comes with the request and may be old, so a retention may be born expired.

### Outbox
`outbox_events` (`status`, `intentos`, `listo`), the committed notices with the outcome of
their e-mail (`avisos`), and per run of the task its open transaction `tx[w]`: the claimed
batch, the event being handled, the recipients done, the notices it wrote and nobody else sees,
the events delivered and failed, and the time spent on the relay. `buzon` is what recipients
have received: no rollback undoes it. `perdidas` counts those e-mails that no committed row
tells of; it is history, no action reads it.

* `AtenderSinCorreo`, `EnviarBien` and `EnviarMal` are `notificar` for one recipient: notice
  exists already, application-only, e-mail accepted, e-mail refused or timed out. A timed-out
  e-mail may have arrived (`llegan`). A failure ends the loop over the recipients and fails
  the event, as the exception does.
* What a run sees (`Visibles`) is what is committed, overridden by its own writes.
* `Confirmar` is the commit of the batch; `Caer` is the death of the process and `Matar` the
  task's hard time limit; both lose the transaction.
* Order inside a batch and among recipients is left open: the code's own order is one of those
  the model allows. Recipients of an event are the same on every attempt. Events that notify
  nobody do nothing here.

### Documentos
One shipment's documents (and one request's) and their requirements. The database is split from
the object store (`objeto`, `url`) and from the broker (`encolando`, `cola`), which take part in
no transaction.

* Completing an upload commits PROCESSING and then calls the broker: `Completar`, then `Encolar`,
  `NoEncolado` (the broker refuses, the row goes back to UPLOADING) or `CaerAlEncolar`.
* A rejected content marks the row FAILED and deletes the object (`RechazarSubida`); the process
  may die in between (`RechazarYCaer`).
* Processing holds the document's row from `EmpezarTarea` to `ConfirmarTarea`, with the object
  read in the middle. A task that fails loses its transaction and comes again (`RepetirTarea`: the
  whole worker dies with the message unacknowledged, or the error is one of `autoretry_for` and
  retries are left) or does not (`PerderTarea`: the pool's child is killed or runs past
  `task_time_limit`, which Celery acknowledges as `task_reject_on_worker_lost` and
  `task_acks_on_failure_or_timeout` keep their defaults; or the error is another one, or the last
  of its retries). How many retries are left is not counted: either may happen at any time.
* Reviewing a requirement finds the document without locking it (`VerDocumento`) and decides
  later (`Verificar`, `Rechazar`); removing a document writes its row (`Quitar`) and then the
  requirements its statement saw (`Reabrir`).
* Recompression is one open transaction over a batch (`lote`), which may be lost (`PerderLote`).

`is_digitally_signed`, which recompression respects, is set nowhere in the application; it is
the constant `SinMejora` together with the formats that are left alone.

### Exportaciones
A job is the fingerprint it was asked for (`Fuentes`), and all its lives share a row and an object
(`zip`). Tasks are steps of a worker: claim, build and upload, publish; each reads the row again,
and a task of an earlier life may still be running. The sweep locks the expired rows, deletes
their objects and marks them, in three steps.

The resource may change, lose its last document or be gone (`fuente = Ninguno`). A task that finds
other documents than it was asked for fails for good; one that finds no resource or no documents
is retried like after any error (`FuenteCambio`).

The clock is one bit per job, `vencida`, and `VencerExportacion` sets it. A job lives
`document_export_ttl_hours` = 24 and a task an hour (`time_limit` of `documents.export`,
`workers/app.py`), so a task does not see two expiries of its job go by. The bit alone would let
it: a task of the first life, held up through the whole of the second, publishes in the third
after the sweep deleted the object, and an export is ready with nothing behind it. `SinRezagadas`
is what remains of the two lengths: a life does not end while a task builds a job that is already
published, or while two build it at once. In the code either takes a task that comes from the
life before, or one that was overtaken by such a task, so the end of the day is hours away; what
the guard excludes besides is a chain of tasks each overtaken by the next from one end of the day
to the other. Within one life TLC finds the guard to hold of every state with three workers,
three failures and two retries.

### Sesiones
One account. Every request that runs is an `op[p]` with what it read; rows it wrote stay locked and
unseen until it commits (`tomadas`, `conTokens`). Rotating takes the token, then the session;
revoking takes the session, then its tokens: the database may abort one of the two. `vista` and
`exenta` are history: which password a session was opened with, and whether it is excused.

### Accesos
`obtener_permisos_efectivos` in its four steps (version, cache, query, store), against the
administration of accounts and companies. Edits of an account read its company unlocked. The
history of the roles each account was given (`historia`) is what `RespuestaVigente` is stated with.
It is of assignments and not of what the account was effectively allowed, because the two differ
for a deleted account: an edition of its role that asked `deleted_at` before the deletion
(`actualizar_usuario`) commits after it, since `_cambiar_rol` does not ask again, and a request
that had read the account's version before then obtains the new role's permissions, which were
never effective (`_CONSULTA` of `rbac/service.py` does not ask `deleted_at` either). It takes
three requests; the runs have two, and the attempt to prove the property for any number found it.

### Gestion
The WR, the pieces, the warehouse, the visibility and the version of a shipment. A registration
asks whether the WR is free (`Alta`) and inserts later (`Crear`), where `ON CONFLICT DO NOTHING` and
the unique index decide. A correction is one step, since it locks the row, but decides on what
its author saw when the form was opened. `Referencia` is the trigger that moves a WR with its
shipment, `ConPiezas` the one that demands a piece. Transitions and archiving appear here as far
as they change the version and what may be edited.

### Propuestas
A turn of the conversation leaves proposals; a confirmation finds and reserves its key, locks the
proposal, executes and saves the answer in one transaction. The four executors refuse here what
the shipment's status, version and dispatch make them refuse; what they refuse for permissions and
for the rules of other modules is `Fallar`, which is always possible. A refusal undoes the
transaction, lock and key included, and `MarcarFallida` is the next one. The sweep looks
(`Mirar`) and updates (`Expirar`) as one statement with a subquery does.

### Migracion
Rows of the old system with their parents; a run of the migrator goes through its nine stages
inside one transaction (`corrida`), then commits, is undone, or dies. `GuardarMapa` is the map of
identifiers that makes a second run skip what the first brought. The uploader works file by file,
the object first and the row after. The old system is outside the repository: its actions
(`Aparecer`, `Corregir`, `CorregirDespacho`, `Avanzar`, `Congelar`) are external. A dispatch of an
unknown status or method is skipped and reported at every run until it is corrected (`ilegibles`),
and so is what hangs from it. Two items that pair one dispatch with one shipment are one row: the
second is dropped by its ON CONFLICT and registered as if it had come. The directory of files is assumed to
have them all; the catalogues are seeded; a person runs one script at a time.

`Traslado` is what all of this promises, without runs, stages or failures: sets of rows come whole,
each row once and none without those it needs; files follow the rows, and requirements the files.

## 3. The runs

| run | what it asks | result |
|---|---|---|
| `despachos_manuales` | Two requests, two shipments, and people who move shipments by hand in and out of every dispatch status, to delivery, to cancellation and into the archive | claims are unique and last exactly while the request is active; preparing and sending out leave all shipments aligned; closing by rejection or cancellation gives everything back or nothing; archived shipments never move |
| `despachos_alineados` | Three shipments (one in transit, one that may be stored without its WR), two companies, no manual moves between dispatch states; change of company, requirements, warehouse moves | a claimed shipment stays with the request's company; request and shipments agree; the next step of a request is open once no requirement blocks it, and it can be cancelled until it goes out; the whole implements `Apartado` |
| `cargas_ciclo` | Two shipments, two disputes each, one fair sweep | retention follows closing; what is archived is closed, expired and reviewed; reversals are coherent; the sweep leaves nothing behind |
| `outbox` | Two events with a recipient in common, two overlapping runs, a crash, runs killed by the time limit, any answer of the relay | DONE means delivered to everybody (one address is not verified); every copy beyond the first is accounted for by a lost record; settled is settled; if runs are not killed for ever, every event is settled |
| `documentos_revision` | Two documents of one type, one requirement; uploads, tasks, removals, reviews and waivers | a verified requirement rests on a document that was processed; only a review, never the task, can leave it resting on a removed one |
| `documentos_proceso` | A shipment's and a request's document, a valid and an invalid content of different sizes, repeated and lost tasks, two failures, recompression | what is ready has its object; objects are recompressed once per batch not lost; processing ends unless the last delivery of its task was lost |
| `exportaciones` | Two fingerprints and a resource that may be emptied, two workers, a retry, duplicates, a failure or crash, the sweep | what can be downloaded is the ZIP that was asked for; ready stays ready until it expires; a pending export ends |
| `sesiones` | Two requests, two sessions, two links, one change of password | one usable token per session; a new password closes the sessions of the old one |
| `accesos` | Two requests, two users, one of them an administrator, one company | permissions answered are some the account had since the request began; a deactivated account gets none |
| `gestion` | Two people, two shipments, two warehouses with WR, one number | no WR twice in a warehouse; no correction over what its author did not see |
| `propuestas` | One proposal, two confirmations with or without a key, failures, the sweep, a shipment that changes | it takes effect once; a key that is found has its answer; it does not stay pending |
| `migracion` | Eight rows of seven tables, accounts and dispatches that cannot be migrated until corrected, one run that dies, dry runs, the uploader | no row twice; a requirement given for met has its file; the whole implements `Traslado`; everything arrives after the freeze |

### Bounds, and why they are enough

* *Despachos.* Claims relate a shipment to a request: two of each are the least that compete,
  the third shipment is the one in transit, which no request may claim. Two companies are what
  a change of company needs. `Iniciales` and `Manuales` cut the statuses a shipment starts in
  and the moves people make; `ManualesDeDespacho` enters and leaves every status a request
  works with, and reaches DELIVERED and CANCELLED, so that shipments can be archived under
  an active request. `Simetria` permutes requests only, in runs without liveness.
* *Cargas.* The module tells four kinds of status apart (DELIVERED, DISPATCHED, CANCELLED, the
  open rest); `Cierre` has one of each. Two disputes let one be opened after another was
  resolved. A second sweep at the same time would only find rows already archived, which
  `FilaArchivable` checks again; the theorems cover any number of sweeps.
* *Outbox.* `MaxIntentos` = 2 stands for six: an attempt that is retried and one that gives up.
  `Limite` = 2 stands for `LOTE` = 50 and takes every event; `Presupuesto` = 2 counts the relay
  timeouts that fit in the time limit, so that three recipients may exceed it. `MaxCopias` = 2
  makes the counts of e-mails saturate, which keeps the state space finite under runs that are
  killed for ever. `CopiasPorPerdida` can then fail visibly only while no record has been lost,
  which is where a wrong retry shows first: it needs no loss at all.
* *Documentos.* Two documents of a type are what a requirement can be moved between. One failure
  and one waiting delivery are enough for a task that runs twice, since a running task may be
  delivered again; two failures, in `documentos_proceso`, let a document whose task the broker
  refused be completed again and its next task fail, be lost or run beside the first. Two contents of different sizes let an object change while it is processed.
* *Exportaciones.* Two fingerprints, so that the resource may change and change back; two lives
  of a job, so that a task of the first outlives it; two workers, so that both run. A third life
  matters to `DescargaFiel` (section 2): with `MaxVidas = 3`, `ExSpec` for `ExFairSpec` and without
  `Termina`, TLC goes through 1.8 million states in half a minute and finds no error; with the
  fairness it takes too long for a run, and the theorem is for any number of lives.
* *Sesiones.* Two requests race; three tokens are two rotations; one change of password.
* *Accesos.* Two changes of an account's version: before and after. Two requests: the one that
  reads and the one that changes. The theorems cover any number of them, which matters here: an
  edition and a deletion that race while a third request reads are beyond the run.
* *Gestion.* Two shipments collide in a number; `MaxVersion` = 3 lets one be written twice after
  it was registered.
* *Propuestas.* One proposal: two share nothing but the shipment, which `CambiarCarga` already
  changes at any time, and the key, which belongs to one request at a time. `Lote` and `Limite` of
  one reach their limits.
* *Migracion.* One row per table and two files, of which one hangs from a dispatch; one crash.

### Fairness

* `Cargas!Justicia`: Celery beat starts the sweep every night and it ends (WF), and no row is
  locked by somebody else at the moment of every single sweep that selected it (SF). The
  business transactions are short, which is the reason to believe the second.
* `Outbox!SpecJusta`: beat starts a run every ten seconds and a run that goes on takes steps
  (WF on the whole of the run, not on its parts: nothing says that the relay ever answers);
  time passes (WF of `Esperar`).
* `Outbox!SeResuelveSiCabe` carries a condition in its statement: from some moment on no run is
  killed by the time limit.
* `Documentos!Fairness`: the web process finishes what it began, workers take the tasks that
  wait and finish them, locks are released (SF where another transaction may hold the row).
* `Exportaciones!Fairness`: the same for the handlers and the tasks of exports. Deliveries are
  taken by some worker (SF: it may be busy with others). Nothing says that a crash is recovered.
* `Propuestas!Equidad`: the clock runs, beat starts the sweep every ten minutes, a confirmation
  that holds the row ends.
* `Migracion!Equidad`: a run that starts ends; the person repeats the scripts until nothing is
  reported, and gives the accounts without e-mail one. Nobody need correct a dispatch: `TodoLlega` exempts
  the ones that cannot be read, with what hangs from them.
* Nothing is assumed of clients: no request need ever be approved, no dispute resolved, no
  upload finished.

CHECK_DEADLOCK is FALSE where the system really may stop: all events settled, all requests
closed and all shipments archived, a bound of a module reached.

## 4. What is proved

`DespachosProofs.tla`, for any number of shipments, requests and companies and any moves by
hand, from the named assumption `Parametros` alone (which values name "nobody" and "no
company", that the bounds are statuses, that the two sets of facts are sets of shipments):

| theorem | statement |
|---|---|
| `TipoCorrecto` | `Spec => []TypeOK` |
| `ReclamoUnicoSiempre` | `Spec => []ReclamoUnico`: no shipment is claimed twice |
| `ReclamoVigenteSiempre` | `Spec => []ReclamoVigente`: a request holds shipments exactly while it is active |
| `MismaEmpresaSiempre` | `Spec => []MismaEmpresa`: a claimed shipment belongs to its request's company |
| `ArchivadaCongeladaSiempre` | `Spec => ArchivadaCongelada`: an archived shipment never changes status |
| `DevuelveTodoSiempre` | `Spec => DevuelveTodo`: a rejected or cancelled request leaves nothing half returned |
| `DespachosImplementaApartado` | `Spec => ImplementaApartado`: the refinement |
| `SigueAlineadaSiempre` | `Spec => SigueAlineada`: opening, preparing and sending out align the shipments of a request, and no step of a request misaligns an aligned one |
| `AlineadoSiempre` | `Spec /\ DespachosRespetados => []Alineado`: requests and shipments agree |
| `SinTrabasSiempre` | `Spec /\ DespachosRespetados => []SinTrabas`: no request is stuck |
| `AlineadoSinMovimientos` | the last two from `Spec` alone, if `SoloDeBodega` |

The argument. `TipoDePaso` shows that every action keeps the types. `PasoDeReclamos` then
sorts the steps of `Next` by what they do to claims: leave them alone (`Reposo`), open a
request over unclaimed shipments of one company (`Apertura`), or close an active request and
release all of its shipments (`Cierre`). The invariant `ReclamosOK` conjoins the types and the
three properties of claims, because `MismaEmpresa` is not inductive alone: opening request d
sets its company, which would break the property if d already claimed something, and it is
`ReclamoVigente` that says it does not. The refinement follows the same three cases (stutter,
`Tomar`, `Soltar`); `ReclamoUnico` is what makes the holder of a shipment a function of the
claims. For archived shipments two lemmas look at the two ways shipments move: `Mover`, whose
callers ask `PuedeTransicionar` of each, and `Devolver`, whose walk of an archived shipment is
either empty or refused at its last step. For `DevuelveTodo`, `OtroCambio` shows that `Deshacer` is
the only action that rejects or cancels, and `DeshacerDevuelve` that each shipment it returns
ends where it can be requested; `ReclamoUnico` says that no other request still claims it.

Alignment is a promise of the requests and not of the people: whoever may move a shipment freely
can take it out from under its request, and `despachos_manuales` lets them. What holds whatever
they do is `SigueAlineada`, step by step. What holds of every state needs that nobody does it,
and that is said as a condition on the behaviour, `DespachosRespetados`: a step that no request
takes moves no claimed shipment and puts none in DISPATCH_REQUESTED or PREPARING. The invariant
`AlineacionOK` adds to `ReclamosOK` what a walk back needs: a shipment that is requested or being
prepared was STORED before (`OrigenAlmacenado`), is claimed (`EnDespachoReclamada`), and is not
archived, as only closed shipments are (`ArchivadaCerrada`). `SinTrabas` follows from it: it asks
of each active request that its next step be accepted as soon as no requirement blocks its
shipments, if that is one of the steps that ask (`ExigenRequisitos`, completing among them), and
that until it goes out Operations may cancel it. With a shipment that was stored without its WR
cancelling takes the free-change permission, since walking back to STORED applies the policy again
(`ClienteCancelaPendiente`, section 5); with the others it takes none. How an open requirement is
resolved is not part of it: whoever may open one may resolve it, and nothing obliges them to. `SoloDeBodega` is the condition as a bound on `Manuales`;
the run `despachos_alineados` satisfies it.

`ProcesosProofs.tla` holds the theorems of the three components that work outside of requests,
which share no state: it extends all three, and so their specifications have names of their own
(`ExSpec`, `MiSpec`, and `Spec` that of Cargas). The assumptions are the `Parametros` of each.

Of Cargas, for any number of shipments, disputes and sweeps and any statuses:

| theorem | statement |
|---|---|
| `TipoCorrecto` | `Spec => []TypeOK` |
| `PlazoDeCerradasSiempre` | `Spec => []PlazoDeCerradas`: a retention date exactly while closed |
| `ArchivadaCumplidaSiempre` | `Spec => []ArchivadaCumplida`: what is archived is closed, expired, reviewed |
| `ReversionCoherenteSiempre` | `Spec => ReversionCoherente`: disputes resolve once, reversals move the shipment |

The invariant is the conjunction of the first three. A reversal leaves no retention date
because the dispatched shipment either left a closed status, which clears the date, or was in
an open one, where `PlazoDeCerradas` says there was none.

Of Exportaciones, for any number of documents, workers, lives, failures and copies of a message:

| theorem | statement |
|---|---|
| `TipoDeExportaciones` | `ExSpec => []ExTypeOK` |
| `DescargaFielSiempre` | `ExSpec => []DescargaFiel`: what can be downloaded is there and is what was asked for |
| `ListaHastaVencerSiempre` | `ExSpec => ListaHastaVencer`: ready stays ready until it expires |

`DescargaFiel` says nothing of who may still write the object, so `ExportFiel` does. A task that
builds holds the documents of its own job (`TareasFieles`), since it claimed the row only with the
fingerprint it was asked for: whichever life it is of, what it uploads is right, and the danger is
not a wrong file but none. The sweep deletes only the objects of rows that are ready and expired
and stay so while it holds them (`BarridoFiel`). And a job that expired is built by one task at
most, which is the one that has its row in processing, and by none once it is published
(`UnaObra`): so when the sweep has an object to delete nobody is left to publish the row. `UnaObra`
is where `SinRezagadas` is needed; without that guard the proof fails where TLC, with three lives,
shows the counterexample of section 2.

Of Migracion, for any set of rows, any tables and any relation of parents:

| theorem | statement |
|---|---|
| `TipoDeMigracion` | `MiSpec => []MiTypeOK` |
| `SinDuplicadosSiempre` | `MiSpec => []SinDuplicados`: nothing comes twice |
| `RequisitoConArchivoSiempre` | `MiSpec => []RequisitoConArchivo`: a requirement that is met has its file |
| `MigracionImplementaTraslado` | `MiSpec => ImplementaTraslado`: the refinement |

The map is exactly what came, each row once, and a run has read it together with what it is about
to bring (`MapaFiel`), so that nothing it brings is in the map. Neither the map nor a run has a row
without those it needs (`FamiliasFieles`): the stages go in the order of the foreign keys, but what
the proof uses is that each row asks the map for its parents. A document is of a row that came, and
is marked as uploaded after its file is in the storage (`ArchivosFieles`). Of `Traslado`, a commit
is `Traer` of the rows of the run, a mark of the uploader is `Guardar`, and everything else, dry
runs and deaths included, is a stutter; a run does not open again a requirement that was met
because it opens only those of shipments it brings.

`OutboxProofs.tla`, for any number of events, recipients and overlapping runs and any limits
greater than zero:

| theorem | statement |
|---|---|
| `TipoCorrecto` | `Spec => []TypeOK` |
| `ResueltoEsFinalSiempre` | `Spec => ResueltoEsFinal`: a settled event is never rewritten |
| `EntregaCompletaSiempre` | `Spec => []EntregaCompleta` if `ClavePropia`: DONE means that everybody was told |
| `CopiasPorPerdidaSiempre` | `Spec => []CopiasPorPerdida` if `ClavePropia`: each copy beyond the first takes a lost record |

`ResueltoEsFinal` says nothing of the open transactions, so its invariant does (`Exclusivo`): an
event in a run's hands is PENDING and in no other run's. Claiming keeps it because it skips locked
rows; a commit writes only to events in its own run's hands, which are pending, so a settled event
is out of everybody's reach. The types add that an event not settled has attempts left, so that a
commit never counts past `MaxIntentos`.

For the deliveries the invariant `EntregasOK` follows what a run *sees*, the committed notices under
its own (`Vista`): the recipients a run has attended, of the event at hand and of those it
delivered, have in its view a notice that did not fail (`RunOK`), and a notice that was sent was
received (`Sana`). The step that needs an argument is the commit of another run, which changes the
view under everybody: with keys of their own, what it writes is about events nobody else holds.
`CuentasOK` adds that a mailbox holds at most one e-mail more than those lost, and that one only
while some notice, committed or not, says SENT; a run that dies moves it to `perdidas`.

`ClavePropia` (no two events share a key) is a fact of every notice but one: handlers derive the key
from the event's id, and `_avisar_lista_para_despachar` (`notifications/handlers.py:147`) from the
shipment's, on purpose. Of that one both properties fail, and TLC shows it with `clave <- ClaveComun`:
two runs that overlap retry one failed notice, and the one that fails writes FAILED over SENT.

`GestionProofs.tla`, for any number of people, shipments, warehouses, numbers and versions:

| theorem | statement |
|---|---|
| `TipoCorrecto` | `Spec => []TypeOK` |
| `UnWRPorBodegaSiempre` | `Spec => []UnWRPorBodega`: no WR twice in a warehouse |
| `NadaSePisaSiempre` | `Spec => NadaSePisa`: no correction is saved over what its author did not see |

`UnWRPorBodega` compares the warehouses of shipments, while the index of the database compares
those written in the references: `EnSuBodega` says that they agree, which is the work of the trigger.
For `NadaSePisa` the invariant says what optimistic locking is about (`VistaFiel`): an editor's
version is not beyond the shipment's, and if it is the same, so are the contents, the WR and the
pieces among them.

`PropuestasProofs.tla`, for any number of proposals, confirmations, keys and any limits:

| theorem | statement |
|---|---|
| `TipoCorrecto` | `Spec => []TypeOK` |
| `UnSoloUsoSiempre` | `Spec => []UnSoloUso`: a proposal takes effect at most once |
| `LlaveConRespuestaSiempre` | `Spec => []LlaveConRespuesta`: a key that is found has its answer |

What is pending has not been done (`SinUsar`), and the confirmation that executes has its proposal
pending and to itself (`EnCurso`), by the lock of the row. A key is reserved by one request and is
nobody else's until it commits with its answer (`LlavesOK`). The type of the shipment needs
`Vigentes`: a proposal of the present version leads forward.

`SesionesProofs.tla`, for any number of requests, sessions, tokens and links:

| theorem | statement |
|---|---|
| `TipoCorrecto` | `Spec => []TypeOK` |
| `UnSoloTokenUsableSiempre` | `Spec => []UnSoloTokenUsable`: one usable token per session |
| `ClaveNuevaCierraLasDemasSiempre` | `Spec => []ClaveNuevaCierraLasDemas`: a new password closes the sessions of the older ones |

All the tokens of a session but the last are used (`TokensUsados`), and the rotation that marked one
had the last and is the only one of its session until it issues the next (`Rotaciones`). For the
password, `SesionesExentas` says the property of every session that is not revoked, alive or not,
since one that ran out may come back; and `ClavePorGuardar` that a link being redeemed holds the
account's row, so that nobody opens a session after it listed those there were.

`AccesosProofs.tla`, for any number of requests, accounts, companies and versions:

| theorem | statement |
|---|---|
| `TipoCorrecto` | `Spec => []TypeOK` |
| `RespuestaVigenteSiempre` | `Spec => []RespuestaVigente`: what a request obtains was given to its actor since it started, or is nothing, of a deleted account |
| `DesactivarSurteEfectoSiempre` | `Spec => []DesactivarSurteEfecto`: an account deactivated before obtains nothing |

The cache has nothing of a version to come, and of the present one what is assigned (`CacheAlDia`);
a request that read the database read what is assigned if the version is still the one it started
with (`PermisosFieles`), and so what it stores keeps `CacheAlDia`. A request that has read its version
may find it in the cache, now or after another one that read it stores what it has: both were
assigned since it started (`HallazgosFieles`). Changes of status of an account do not overlap, as
they hold its row (`EdicionesSolas`), so that what was deleted stays deleted.

`DocumentosProofs.tla`, for any number of documents, requirements, workers, contents and deliveries:

| theorem | statement |
|---|---|
| `TipoCorrecto` | `Spec => []TypeOK` |
| `VerificadoPorListoSiempre` | `Spec => []VerificadoPorListo`: verified on a document of its type whose processing ended |
| `SoloLaRevisionSeAdelantaSiempre` | `Spec => []SoloLaRevisionSeAdelanta`: tasks and removals never leave a requirement resting on a removed document |
| `ListoConObjetoSiempre` | `Spec => []ListoConObjeto`: what is ready has its object |
| `RecompresionPorPerdidaSiempre` | `Spec => []RecompresionPorPerdida`: recompressed once, and once more per lost batch |

A task holds the row, so while it works the document stays and nobody removes it (`TareasFieles`);
that is why what it verifies cannot be gone. A removal under way saw every requirement that a task
verified with its document (`FotosFieles`), because tasks wait for the row; a reviewer does not, and
only what a reviewer saw may be gone (`MiradasListas` says no more than that it was ready). The
batch of recompression holds documents not compressed yet, which have been recompressed at most
once per batch lost (`LoteFiel`).

Each of these invariants was checked by TLC on the run of its module before it was proved. The
assumptions besides those said are the `Parametros` of each module: what names "nothing" is not a
value, the bounds are numbers, some sets are subsets of others. What is only model-checked is
liveness (`NadaQuedaSinArchivar`, `SeResuelveSiCabe`, `SeProcesa`, `Termina`, `SeResuelveSola`,
`TodoLlega`), since fairness speaks of what is ENABLED, which is out of the prover's reach.

## 5. What documents, comments and tests say, and the code does not do

While modelling, the following statements of the repository turned out not to hold of the code.
Each is a definition of the module it is about, with the words it comes from; no run of the
project checks it, and TLC finds a counterexample when it replaces the properties of the .cfg
named here, with the values given.

| statement | .cfg, and what to change | what happens |
|---|---|---|
| `Despachos!ClienteCancelaPendiente` | `DespachosManuales`, `SinWR <- SoloC1`, `Cargas = {c1}`, `Solicitudes = {d1}`, `Iniciales <- Recibida`, `Manuales <- AlmacenarSinWR`, `ConRequisitos <- Ninguno`, no symmetry | an administrator stores a shipment without its WR; the client cannot cancel its own pending request, since walking back to STORED applies the policy again (`04-reglas-negocio-objetivo.md:239`) |
| `Despachos!CompletaDespachadas` | the same, `SinWR <- Ninguno`, `Iniciales <- Almacenada`, `Manuales <- Regreso`, CHECK_DEADLOCK FALSE | completing reads the shipments unlocked and moves none: one taken back between the check and the commit is in a COMPLETED request (`dispatches/service.py:544`) |
| `Cargas!DisputaBloqueaArchivado` | `CargasCiclo` | a dispute opened after the sweep's snapshot does not stop it: reporting locks the shipment's row and does not change it, so nothing is re-evaluated (`shipments/models.py:694`) |
| `Outbox!SeResuelve` | `Outbox` | nine relay timeouts of 20 s exceed `task_time_limit` = 180 and the batch is rolled back before it counts an attempt, at every run (`audit/outbox.py:38`) |
| `Outbox!UnSoloCorreo` | `Outbox` | a crash between the e-mail and the commit sends it again: the row `_ya_enviado_por_correo` looks for died with the transaction |
| `Outbox!AvisoUnico` | `Outbox`, `clave <- ClaveComun` | two runs create the notice of one key, as neither sees the other's rows; `EntregaCompleta` and `CopiasPorPerdida` fail too (section 4) |
| `Outbox!SiempreEnBandeja` | `Outbox` | one failing address ends the loop over the recipients (`docs/adr/0008-canales-notificacion.md:19`) |
| `Documentos!RequisitoConRespaldo` | `DocumentosRevision` | a document is removed between the reviewer's SELECT, which locks only the requirement, and the write: the requirement is verified on what is gone |
| `Documentos!DispensadoEsFinal` | `DocumentosRevision` | the statement that reopens requirements after a removal acts on waived ones whose document it was |
| `Documentos!TareaVuelveALaCola` | `DocumentosProceso`, `Spec` for the specification | a task whose pool child is killed, or that runs past the time limit, is acknowledged and does not come back (`workers/app.py:36`); the document stays in processing |
| `Sesiones!ClaveNoRetrocede` | `Sesiones` | a login that rehashes writes the hash of the password it verified over one changed meanwhile |
| `Accesos!SuspenderSurteEfecto` | `Accesos` | suspending increases the version, but the permissions are read again without asking for the status |
| `Gestion!BodegaConWR` | `Gestion` | of two registrations that take one number, the second loses its WR to ON CONFLICT DO NOTHING and is saved without it |
| `Propuestas!ConfirmadaEsFinal` | `Propuestas` | after a refusal, FAILED is written by id alone over a confirmation that ran in between; the sweep does the same with EXPIRED |

Others need no run, as one line shows each: creating a request does not look at `hidden_at`
(`04-reglas-negocio-objetivo.md`, 4.1, asks for shipments that are not hidden);
`gestion.actualizar` does not look at `archived_at` (ADR-0007 makes an archived shipment
read-only); a reopened shipment may go to either PRE_ALERT or IN_TRANSIT whatever it was
cancelled from (the comment in `catalog.py` says the exact status); `resolver_inconformidad`
relies on the engine to refuse a reversal from anything but DELIVERED, and the engine has a row
PREPARING -> DISPATCHED; a content the task finds invalid rolls the FAILED mark back with its
transaction and is not retried, so the document stays in processing, as it does when the retries
of its task are spent or its worker is killed (`abandonada` in `SeProcesa`); no sweep looks for
such documents; an export whose worker died stays in processing until it expires.

## 6. Not modelled, and the plan

What is left out of the modelled parts is said with each module above, and in `PROJECT.json` with
each component. Not modelled at all: the tariff calculator and the conversion of weights (pure
decimal arithmetic), the read queries and pagination (they change nothing), logging, metrics and
connections, the prompts and the tools of the assistant that only read, the counters of the rate
limits, and the front end. Row locks taken one by one by a bulk operation are one step here;
their order matters only to deadlocks, which PostgreSQL breaks by failing a whole request.

The modules are complete as planned, and every invariant, action property and refinement the runs
check is stated by a theorem.
