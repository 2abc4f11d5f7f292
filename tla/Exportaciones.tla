--------------------------- MODULE Exportaciones ---------------------------
(***************************************************************************)
(* The ZIP exports of the documents of one resource: the request that      *)
(* creates or revives a job, the task that claims it, builds the file and  *)
(* publishes it, its retries, and the hourly sweep that expires them.      *)
(* Sources: app/modules/documents/exports.py, the export endpoints of      *)
(* app/modules/documents/router.py and app/workers/tasks/exports.py.       *)
(*                                                                         *)
(* A job's key is the requester, the resource and the fingerprint of its   *)
(* documents: for one requester, a job is the fingerprint it was asked     *)
(* for.  All the lives of a job share one row and one object in the store. *)
(***************************************************************************)
EXTENDS Naturals, FiniteSets

CONSTANTS
    Fuentes,        \* the documents a resource may have: one fingerprint each
    Obreros,        \* the workers of the tasks
    Ninguno,        \* no job, no object, no documents or no resource
    MaxReintentos,  \* the retries of a task: 3 in the code
    MaxMensajes,    \* bound: copies of one message in the broker
    MaxCambios,     \* bound: changes of the resource's documents
    MaxVidas,       \* bound: times a job starts, all of them together
    MaxFallos       \* bound: failures and crashes

ASSUME ExParametros ==
    /\ Ninguno \notin Fuentes
    /\ MaxReintentos \in Nat /\ MaxMensajes \in Nat /\ MaxCambios \in Nat
    /\ MaxVidas \in Nat /\ MaxFallos \in Nat

VARIABLES
    fuente,         \* the documents the resource has now
    cambios,
    status,         \* document_export_jobs.status
    vencida,        \* expires_at <= now
    vidas,
    zip,            \* the object at the job's key: the documents it holds
    encolando,      \* a handler committed the job and has not reached the broker
    cola,           \* cola[t][n]: messages of job t that carry n retries
    tarea,          \* what each worker is doing
    limpieza,       \* the open transaction of documents.expire_exports
    fallos,
    perdida         \* history: the job lost its task to a crash since it was asked for

exVars == <<fuente, cambios, status, vencida, vidas, zip, encolando, cola, tarea,
            limpieza, fallos, perdida>>
jobVars == <<status, vencida, vidas>>

EstadosDeExportacion == {"SIN_CREAR", "PENDING", "PROCESSING", "READY", "FAILED", "EXPIRED"}
Reintentos == 0 .. MaxReintentos
Libre == [fase |-> "LIBRE", job |-> Ninguno, n |-> 0, lleva |-> Ninguno]
Quieto == [filas |-> {}, borrados |-> {}]

\* Beyond the bound, one more copy is not told apart from those that wait.
ConMensaje(t, n) == [cola EXCEPT ![t][n] = IF @ < MaxMensajes THEN @ + 1 ELSE @]

Falla == fallos < MaxFallos /\ fallos' = fallos + 1

\* Mutant: the sweep reads the expired jobs without locking them.
SinBloquear(t) == t \in Fuentes

\* The sweep does not hold the job's row.
FilaLibre(t) == t \notin limpieza.filas

ExTypeOK ==
    /\ fuente \in Fuentes \cup {Ninguno}
    /\ cambios \in 0 .. MaxCambios
    /\ status \in [Fuentes -> EstadosDeExportacion]
    /\ vencida \in [Fuentes -> BOOLEAN]
    /\ vidas \in 0 .. MaxVidas
    /\ zip \in [Fuentes -> Fuentes \cup {Ninguno}]
    /\ encolando \in [Fuentes -> BOOLEAN]
    /\ cola \in [Fuentes -> [Reintentos -> 0 .. MaxMensajes]]
    /\ tarea \in [Obreros ->
         [fase : {"LIBRE", "CONSTRUYE", "SUBIO", "FALLA", "REPROGRAMA", "REINTENTA"},
          job : Fuentes \cup {Ninguno}, n : Reintentos, lleva : Fuentes \cup {Ninguno}]]
    /\ limpieza \in [filas : SUBSET Fuentes, borrados : SUBSET Fuentes]
    /\ fallos \in 0 .. MaxFallos
    /\ perdida \in [Fuentes -> BOOLEAN]

ExInit ==
    /\ fuente \in Fuentes
    /\ cambios = 0
    /\ status = [t \in Fuentes |-> "SIN_CREAR"]
    /\ vencida = [t \in Fuentes |-> FALSE]
    /\ vidas = 0
    /\ zip = [t \in Fuentes |-> Ninguno]
    /\ encolando = [t \in Fuentes |-> FALSE]
    /\ cola = [t \in Fuentes |-> [n \in Reintentos |-> 0]]
    /\ tarea = [w \in Obreros |-> Libre]
    /\ limpieza = Quieto
    /\ fallos = 0
    /\ perdida = [t \in Fuentes |-> FALSE]

\* The resource gains or loses a document, or one becomes ready; it may lose the
\* last one, or be hidden itself.
CambiarFuente(t) ==
    /\ t # fuente
    /\ cambios < MaxCambios
    /\ fuente' = t
    /\ cambios' = cambios + 1
    /\ UNCHANGED <<jobVars, zip, encolando, cola, tarea, limpieza, fallos, perdida>>

\* The tasks that may still write the object of the job.
Construyen(t) == {w \in Obreros : tarea[w].job = t /\ tarea[w].fase \in {"CONSTRUYE", "SUBIO"}}

\* A job lives a day and a task an hour at most.  Two tasks build one job only
\* when one of them comes from an earlier life, or was overtaken by one that
\* does: by the time this life ends they are over.
SinRezagadas(t) ==
    \A w \in Construyen(t) :
        /\ status[t] # "READY"
        /\ status[t] = "PROCESSING" => Construyen(t) = {w}

\* expires_at goes by.
VencerExportacion(t) ==
    /\ status[t] # "SIN_CREAR" /\ ~vencida[t]
    /\ SinRezagadas(t)
    /\ vencida' = [vencida EXCEPT ![t] = TRUE]
    /\ UNCHANGED <<fuente, cambios, status, vidas, zip, encolando, cola, tarea, limpieza,
                   fallos, perdida>>

-----------------------------------------------------------------------------
(* The request *)

Revive(t) == status[t] \in {"SIN_CREAR", "FAILED", "EXPIRED"} \/ vencida[t]

\* The upsert: a new job, or one that failed or expired, starts again; any other
\* keeps its status.  A pending one is queued (again) after the commit.
Crear(t) ==
    /\ t = fuente
    /\ FilaLibre(t)
    /\ ~encolando[t]
    /\ Revive(t) => vidas < MaxVidas
    /\ vidas' = IF Revive(t) THEN vidas + 1 ELSE vidas
    /\ status' = [status EXCEPT ![t] = IF Revive(t) THEN "PENDING" ELSE @]
    /\ vencida' = [vencida EXCEPT ![t] = FALSE]
    /\ encolando' = [encolando EXCEPT ![t] = status'[t] = "PENDING"]
    /\ perdida' = [perdida EXCEPT ![t] = @ /\ status'[t] # "PENDING"]
    /\ UNCHANGED <<fuente, cambios, zip, cola, tarea, limpieza, fallos>>

Encolar(t) ==
    /\ encolando[t]
    /\ encolando' = [encolando EXCEPT ![t] = FALSE]
    /\ cola' = ConMensaje(t, 0)
    /\ UNCHANGED <<fuente, cambios, jobVars, zip, tarea, limpieza, fallos, perdida>>

\* The broker raises, whether or not it took the message.
NoEncolada(t) ==
    /\ encolando[t]
    /\ Falla
    /\ encolando' = [encolando EXCEPT ![t] = FALSE]
    /\ status' = [status EXCEPT ![t] = IF @ = "PENDING" THEN "FAILED" ELSE @]
    /\ cola' \in {cola, ConMensaje(t, 0)}
    /\ UNCHANGED <<fuente, cambios, vencida, vidas, zip, tarea, limpieza, perdida>>

\* The process dies between the commit and the broker.
CaerAlEncolar(t) ==
    /\ encolando[t]
    /\ Falla
    /\ encolando' = [encolando EXCEPT ![t] = FALSE]
    /\ perdida' = [perdida EXCEPT ![t] = TRUE]
    /\ UNCHANGED <<fuente, cambios, jobVars, zip, cola, tarea, limpieza>>

-----------------------------------------------------------------------------
(* The task documents.export *)

Tomar(w, t, n) ==
    /\ tarea[w] = Libre
    /\ cola[t][n] > 0
    /\ cola' = [cola EXCEPT ![t][n] = @ - 1]

\* The claim: the job is pending, not expired, and the documents are the ones
\* that were asked for.
Reclamar(w, t, n) ==
    /\ Tomar(w, t, n)
    /\ status[t] = "PENDING" /\ ~vencida[t]
    /\ fuente = t
    /\ status' = [status EXCEPT ![t] = "PROCESSING"]
    /\ tarea' = [tarea EXCEPT ![w] = [fase |-> "CONSTRUYE", job |-> t, n |-> n, lleva |-> fuente]]
    /\ UNCHANGED <<fuente, cambios, vencida, vidas, zip, encolando, limpieza, fallos, perdida>>

\* The claim is rolled back and the failure comes next.  Documents that changed
\* are not worth a retry; a resource that is gone, or has none left, raises an
\* error like any other, which is retried.
FuenteCambio(w, t, n) ==
    /\ Tomar(w, t, n)
    /\ status[t] = "PENDING" /\ ~vencida[t]
    /\ fuente # t
    /\ tarea' = [tarea EXCEPT ![w] =
         [fase |-> "FALLA", job |-> t, lleva |-> Ninguno,
          n |-> IF fuente = Ninguno THEN n ELSE MaxReintentos]]
    /\ UNCHANGED <<fuente, cambios, jobVars, zip, encolando, limpieza, fallos, perdida>>

\* A duplicate, or a job nobody can claim: the task ends.
SinCambios(w, t, n) ==
    /\ Tomar(w, t, n)
    /\ status[t] # "PENDING" \/ vencida[t]
    /\ UNCHANGED <<fuente, cambios, jobVars, zip, encolando, tarea, limpieza, fallos, perdida>>

\* The file is built from the documents claimed and uploaded, outside of any
\* transaction.
SubirZip(w) ==
    /\ tarea[w].fase = "CONSTRUYE"
    /\ zip' = [zip EXCEPT ![tarea[w].job] = tarea[w].lleva]
    /\ tarea' = [tarea EXCEPT ![w].fase = "SUBIO"]
    /\ UNCHANGED <<fuente, cambios, jobVars, encolando, cola, limpieza, fallos, perdida>>

FallarAlConstruir(w) ==
    /\ tarea[w].fase \in {"CONSTRUYE", "SUBIO"}
    /\ Falla
    /\ tarea' = [tarea EXCEPT ![w].fase = "FALLA"]
    /\ UNCHANGED <<fuente, cambios, jobVars, zip, encolando, cola, limpieza, perdida>>

\* The job is published if it is still in processing, in whatever life.
Publicar(w) ==
    LET t == tarea[w].job IN
    /\ tarea[w].fase = "SUBIO"
    /\ status[t] = "PROCESSING"
    /\ status' = [status EXCEPT ![t] = "READY"]
    /\ tarea' = [tarea EXCEPT ![w] = Libre]
    /\ UNCHANGED <<fuente, cambios, vencida, vidas, zip, encolando, cola, limpieza, fallos,
                   perdida>>

\* No row came back from the update: the task fails.
NoPublicar(w) ==
    /\ tarea[w].fase = "SUBIO"
    /\ status[tarea[w].job] # "PROCESSING"
    /\ tarea' = [tarea EXCEPT ![w].fase = "FALLA"]
    /\ UNCHANGED <<fuente, cambios, jobVars, zip, encolando, cola, limpieza, fallos, perdida>>

TrasFallar(w) ==
    IF tarea[w].n < MaxReintentos THEN [tarea[w] EXCEPT !.fase = "REPROGRAMA"] ELSE Libre

\* Mutant: the failure does not look at the job's status.
MarcarFallidaSinMirar(w) ==
    /\ tarea[w].fase = "FALLA"
    /\ FilaLibre(tarea[w].job)
    /\ status' = [status EXCEPT ![tarea[w].job] = "FAILED"]
    /\ tarea' = [tarea EXCEPT ![w] = TrasFallar(w)]
    /\ UNCHANGED <<fuente, cambios, vencida, vidas, zip, encolando, cola, limpieza, fallos,
                   perdida>>

\* The failure is written in a transaction of its own, after the rollback.
MarcarFallida(w) ==
    LET t == tarea[w].job IN
    /\ tarea[w].fase = "FALLA"
    /\ FilaLibre(t)
    /\ status' = [status EXCEPT ![t] = IF @ \in {"PENDING", "PROCESSING"} THEN "FAILED" ELSE @]
    /\ tarea' = [tarea EXCEPT ![w] = TrasFallar(w)]
    /\ UNCHANGED <<fuente, cambios, vencida, vidas, zip, encolando, cola, limpieza, fallos,
                   perdida>>

\* A failed job that has not expired goes back to pending; then the task asks
\* the broker for a retry.  Otherwise the error is the end of the task.
Reprogramar(w) ==
    LET t == tarea[w].job  va == status[t] = "FAILED" /\ ~vencida[t] IN
    /\ tarea[w].fase = "REPROGRAMA"
    /\ FilaLibre(t)
    /\ status' = [status EXCEPT ![t] = IF va THEN "PENDING" ELSE @]
    /\ tarea' = [tarea EXCEPT ![w] = IF va THEN [@ EXCEPT !.fase = "REINTENTA"] ELSE Libre]
    /\ UNCHANGED <<fuente, cambios, vencida, vidas, zip, encolando, cola, limpieza, fallos,
                   perdida>>

\* Mutant: the job goes back to pending and nobody asks the broker.
ReintentarSinCola(w) ==
    /\ tarea[w].fase = "REINTENTA"
    /\ tarea' = [tarea EXCEPT ![w] = Libre]
    /\ UNCHANGED <<fuente, cambios, jobVars, zip, encolando, cola, limpieza, fallos, perdida>>

Reintentar(w) ==
    LET t == tarea[w].job  n == tarea[w].n + 1 IN
    /\ tarea[w].fase = "REINTENTA"
    /\ cola' = ConMensaje(t, n)
    /\ tarea' = [tarea EXCEPT ![w] = Libre]
    /\ UNCHANGED <<fuente, cambios, jobVars, zip, encolando, limpieza, fallos, perdida>>

\* The worker dies.  Its message is delivered again, or was acknowledged because
\* the time limit killed the task: the job keeps the status it had.
Morir(w) ==
    LET t == tarea[w].job  n == tarea[w].n IN
    /\ tarea[w] # Libre
    /\ Falla
    /\ cola' \in {cola, ConMensaje(t, n)}
    /\ tarea' = [tarea EXCEPT ![w] = Libre]
    /\ perdida' = [perdida EXCEPT ![t] = TRUE]
    /\ UNCHANGED <<fuente, cambios, jobVars, zip, encolando, limpieza>>

-----------------------------------------------------------------------------
(* The sweep documents.expire_exports *)

\* The expired jobs are locked, FOR UPDATE SKIP LOCKED.
TomarVencidas ==
    LET filas == {t \in Fuentes : status[t] = "READY" /\ vencida[t]} IN
    /\ limpieza = Quieto /\ filas # {}
    /\ limpieza' = [filas |-> filas, borrados |-> {}]
    /\ UNCHANGED <<fuente, cambios, jobVars, zip, encolando, cola, tarea, fallos, perdida>>

BorrarZip(t) ==
    /\ t \in limpieza.filas \ limpieza.borrados
    /\ zip' = [zip EXCEPT ![t] = Ninguno]
    /\ limpieza' = [limpieza EXCEPT !.borrados = @ \cup {t}]
    /\ UNCHANGED <<fuente, cambios, jobVars, encolando, cola, tarea, fallos, perdida>>

ConfirmarBarrido ==
    /\ limpieza # Quieto /\ limpieza.filas = limpieza.borrados
    /\ status' = [t \in Fuentes |-> IF t \in limpieza.filas THEN "EXPIRED" ELSE status[t]]
    /\ limpieza' = Quieto
    /\ UNCHANGED <<fuente, cambios, vencida, vidas, zip, encolando, cola, tarea, fallos, perdida>>

\* A deletion fails or the worker dies: the rows go back, the objects do not.
PerderBarrido ==
    /\ limpieza # Quieto
    /\ Falla
    /\ limpieza' = Quieto
    /\ UNCHANGED <<fuente, cambios, jobVars, zip, encolando, cola, tarea, perdida>>

-----------------------------------------------------------------------------

Ejecutar(w) ==
    \/ \E t \in Fuentes, n \in Reintentos :
         Reclamar(w, t, n) \/ FuenteCambio(w, t, n) \/ SinCambios(w, t, n)
    \/ SubirZip(w) \/ Publicar(w) \/ NoPublicar(w)
    \/ MarcarFallida(w) \/ Reprogramar(w) \/ Reintentar(w)

Expirar == TomarVencidas \/ ConfirmarBarrido \/ \E t \in Fuentes : BorrarZip(t)

ExNext ==
    \/ \E t \in Fuentes :
         VencerExportacion(t) \/ Crear(t) \/ Encolar(t) \/ NoEncolada(t)
         \/ CaerAlEncolar(t)
    \/ \E t \in Fuentes \cup {Ninguno} : CambiarFuente(t)
    \/ \E w \in Obreros : Ejecutar(w) \/ FallarAlConstruir(w) \/ Morir(w)
    \/ Expirar \/ PerderBarrido

\* Handlers and tasks finish what they began, and the messages of a job in the
\* broker are taken by some worker, which may be busy with others meanwhile.
Fairness ==
    /\ \A t \in Fuentes :
         /\ WF_exVars(Encolar(t))
         /\ SF_exVars(\E w \in Obreros, n \in Reintentos :
                       Reclamar(w, t, n) \/ FuenteCambio(w, t, n) \/ SinCambios(w, t, n))
    /\ \A w \in Obreros :
         WF_exVars(SubirZip(w) \/ Publicar(w) \/ NoPublicar(w) \/ MarcarFallida(w)
                 \/ Reprogramar(w) \/ Reintentar(w))

ExSpec == ExInit /\ [][ExNext]_exVars
ExFairSpec == ExSpec /\ Fairness

-----------------------------------------------------------------------------
(* Properties *)

\* preparar_descarga signs a URL for a job that is ready and has not expired.
Descargable(t) == status[t] = "READY" /\ ~vencida[t]

\* What can be downloaded is there, and holds the documents that were asked for,
\* although tasks of earlier lives, duplicates and the sweep write the same key.
DescargaFiel == \A t \in Fuentes : Descargable(t) => zip[t] = t

\* A ready export stays ready until it expires: no late failure, duplicate or
\* new request takes it away.
ListaHastaVencer ==
    [][\A t \in Fuentes : Descargable(t) => status'[t] = "READY"]_exVars

\* A pending export ends ready or failed, or expires, unless a crash took its task.
Termina ==
    \A t \in Fuentes : status[t] = "PENDING" ~>
        (status[t] \in {"READY", "FAILED"} \/ vencida[t] \/ perdida[t])

=============================================================================
