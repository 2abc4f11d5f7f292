------------------------------- MODULE Outbox --------------------------------
(***************************************************************************)
(* The transactional outbox and the notifications its workers deliver.     *)
(* Sources: app/modules/audit/outbox.py, app/workers/tasks/outbox.py and   *)
(* app/modules/notifications/service.py (notificar and what it calls).     *)
(*                                                                         *)
(* A worker's run is one database transaction: it claims a batch with FOR  *)
(* UPDATE SKIP LOCKED, walks the recipients of each event and commits at   *)
(* the end.  What it writes is its own until then (tx[w]), and is lost if  *)
(* the process dies; an e-mail it sent stays sent (buzon).  Handlers other *)
(* than notificar do nothing here, and the recipients of an event are the  *)
(* same on every attempt.                                                  *)
(***************************************************************************)
EXTENDS Integers, FiniteSets

CONSTANTS
    Eventos,        \* outbox rows that may be published
    Claves,         \* deduplication keys of notices
    clave,          \* clave[e]: the key of the notice event e gives rise to
    Destinos,       \* recipients
    DestinosDe,     \* the recipients of each event
    Verificados,    \* recipients whose address is verified
    Trabajadores,   \* runs of the task that may overlap
    Ninguno,        \* no event
    MaxIntentos,    \* MAX_INTENTOS
    Limite,         \* LOTE
    Presupuesto,    \* relay timeouts that fit in task_time_limit
    MaxCaidas,      \* bound: crashes of workers
    MaxCopias       \* bound: the counts of e-mails stop here

ASSUME Parametros ==
    /\ clave \in [Eventos -> Claves]
    /\ Verificados \subseteq Destinos
    /\ DestinosDe \in [Eventos -> SUBSET Destinos]
    /\ Ninguno \notin Eventos
    /\ {MaxIntentos, Limite, Presupuesto, MaxCopias} \subseteq Nat \ {0}
    /\ MaxCaidas \in Nat

VARIABLES
    status,     \* outbox_events.status
    intentos,   \* outbox_events.attempt_count
    listo,      \* available_at <= now()
    avisos,     \* committed notices, with the status of their e-mail delivery
    tx,         \* tx[w]: the open transaction of worker w
    buzon,      \* buzon[k][r]: e-mails r has received about k
    perdidas,   \* perdidas[k][r]: those of them no committed row tells of
    caidas      \* crashes so far

eventoVars == <<status, intentos, listo>>
vars == <<status, intentos, listo, avisos, tx, buzon, perdidas, caidas>>

\* A notice is identified by the event that created it and its recipient.
Aviso == [por : Eventos, a : Destinos, correo : {"SENT", "FAILED", "SKIPPED"}]

Libre == [lote |-> {}, actual |-> Ninguno, hechos |-> {}, avisos |-> {},
          entregados |-> {}, fallidos |-> {}, gastado |-> 0]

\* Mutant: the claim does not skip the rows of another run.
ReclamablesSinBloqueo == {e \in Eventos : status[e] = "PENDING" /\ listo[e]}

Bloqueados == UNION {tx[w].lote \cup {tx[w].actual} \cup tx[w].entregados
                       \cup tx[w].fallidos : w \in Trabajadores}

Reclamables == {e \in Eventos : status[e] = "PENDING" /\ listo[e] /\ e \notin Bloqueados}

-----------------------------------------------------------------------------
Init ==
    /\ status = [e \in Eventos |-> "SIN_PUBLICAR"]
    /\ intentos = [e \in Eventos |-> 0]
    /\ listo = [e \in Eventos |-> FALSE]
    /\ avisos = {}
    /\ tx = [w \in Trabajadores |-> Libre]
    /\ buzon = [k \in Claves |-> [r \in Destinos |-> 0]]
    /\ perdidas = [k \in Claves |-> [r \in Destinos |-> 0]]
    /\ caidas = 0

\* A business transaction commits with its event inside.
Publicar(e) ==
    /\ status[e] = "SIN_PUBLICAR"
    /\ status' = [status EXCEPT ![e] = "PENDING"]
    /\ listo' = [listo EXCEPT ![e] = TRUE]
    /\ UNCHANGED <<intentos, avisos, tx, buzon, perdidas, caidas>>

\* The backoff of a failed event goes by.
Esperar(e) ==
    /\ status[e] = "PENDING"
    /\ ~listo[e]
    /\ listo' = [listo EXCEPT ![e] = TRUE]
    /\ UNCHANGED <<status, intentos, avisos, tx, buzon, perdidas, caidas>>

Reclamar(w, S) ==
    /\ tx[w] = Libre
    /\ S # {}
    /\ S \subseteq Reclamables
    /\ IF Cardinality(Reclamables) <= Limite THEN S = Reclamables
                                             ELSE Cardinality(S) = Limite
    /\ tx' = [tx EXCEPT ![w].lote = S]
    /\ UNCHANGED <<eventoVars, avisos, buzon, perdidas, caidas>>

Corre(w) == tx[w].gastado < Presupuesto

EmpezarEvento(w, e) ==
    /\ Corre(w)
    /\ tx[w].actual = Ninguno
    /\ e \in tx[w].lote
    /\ tx' = [tx EXCEPT ![w].actual = e, ![w].lote = @ \ {e}, ![w].hechos = {}]
    /\ UNCHANGED <<eventoVars, avisos, buzon, perdidas, caidas>>

-----------------------------------------------------------------------------
\* What the worker's statements see of recipient r's notices about key k: the
\* committed ones, overridden by its own.
Mias(w) == tx[w].avisos

\* Mutant: the lookup only finds what this run wrote.
VisiblesSinConfirmados(w, k, r) == {x \in Mias(w) : clave[x.por] = k /\ x.a = r}

Visibles(w, k, r) ==
    {x \in avisos \cup Mias(w) :
       /\ clave[x.por] = k /\ x.a = r
       /\ x \in Mias(w) \/ \A y \in Mias(w) : <<y.por, y.a>> # <<x.por, x.a>>}

\* Mutant: a notice that exists is never sent again.
SinReintentos(w, e, r) == {x \in Visibles(w, clave[e], r) : FALSE}

\* The notice whose e-mail is still to be sent again: it failed, and no other
\* one about the same fact was sent.
PorReintentar(w, e, r) ==
    {x \in Visibles(w, clave[e], r) :
       /\ x.correo = "FAILED"
       /\ \A y \in Visibles(w, clave[e], r) : y.correo # "SENT"}

\* The recipient needs no e-mail: it has the notice already, or gets it in the
\* application only.
AtenderSinCorreo(w, r) ==
    LET e == tx[w].actual IN
    /\ Corre(w)
    /\ e # Ninguno
    /\ r \in DestinosDe[e] \ tx[w].hechos
    /\ \/ /\ Visibles(w, clave[e], r) # {}
          /\ PorReintentar(w, e, r) = {}
          /\ tx' = [tx EXCEPT ![w].hechos = @ \cup {r}]
       \/ /\ Visibles(w, clave[e], r) = {}
          /\ r \notin Verificados
          /\ tx' = [tx EXCEPT ![w].hechos = @ \cup {r},
                              ![w].avisos = @ \cup {[por |-> e, a |-> r, correo |-> "SKIPPED"]}]
    /\ UNCHANGED <<eventoVars, avisos, buzon, perdidas, caidas>>

\* The notices about to be mailed: a new one, or one that failed before.
PorEnviar(w, r) ==
    LET e == tx[w].actual IN
    IF e = Ninguno \/ r \notin DestinosDe[e] \/ r \in tx[w].hechos THEN {}
    ELSE IF Visibles(w, clave[e], r) # {} THEN PorReintentar(w, e, r)
    ELSE IF r \in Verificados THEN {[por |-> e, a |-> r, correo |-> "FAILED"]}
    ELSE {}

Sumar(n, m) == IF n + m > MaxCopias THEN MaxCopias ELSE n + m

Reemplazar(S, x) == {y \in S : <<y.por, y.a>> # <<x.por, x.a>>} \cup {x}

EnviarBien(w, r) ==
    /\ Corre(w)
    /\ \E x \in PorEnviar(w, r) :
         /\ tx' = [tx EXCEPT
              ![w].hechos = @ \cup {r},
              ![w].avisos = Reemplazar(@, [x EXCEPT !.correo = "SENT"])]
         /\ buzon' = [buzon EXCEPT ![clave[x.por]][r] = Sumar(@, 1)]
    /\ UNCHANGED <<eventoVars, avisos, perdidas, caidas>>

\* The relay refuses (demora = 0), or does not answer before the timeout
\* (demora = 1) and may have sent the e-mail (llegan = 1).  The failure is
\* recorded, the other recipients are not reached and the event is retried.
EnviarMal(w, r, demora, llegan) ==
    /\ Corre(w)
    /\ llegan <= demora
    /\ \E x \in PorEnviar(w, r) :
         /\ tx' = [tx EXCEPT
              ![w].avisos = Reemplazar(@, x),
              ![w].fallidos = @ \cup {tx[w].actual},
              ![w].actual = Ninguno,
              ![w].hechos = {},
              ![w].gastado = @ + demora]
         /\ buzon' = [buzon EXCEPT ![clave[x.por]][r] = Sumar(@, llegan)]
         /\ perdidas' = [perdidas EXCEPT ![clave[x.por]][r] = Sumar(@, llegan)]
    /\ UNCHANGED <<eventoVars, avisos, caidas>>

TerminarEvento(w) ==
    /\ Corre(w)
    /\ tx[w].actual # Ninguno
    /\ tx[w].hechos = DestinosDe[tx[w].actual]
    /\ tx' = [tx EXCEPT ![w].entregados = @ \cup {tx[w].actual},
                        ![w].actual = Ninguno, ![w].hechos = {}]
    /\ UNCHANGED <<eventoVars, avisos, buzon, perdidas, caidas>>

-----------------------------------------------------------------------------
\* Mutant: the failed attempt is not counted.
ContarNada(n) == n

Contar(n) == n + 1

Agotado(n) == n >= MaxIntentos

Confirmar(w) ==
    /\ Corre(w)
    /\ tx[w] # Libre
    /\ tx[w].lote = {}
    /\ tx[w].actual = Ninguno
    /\ LET F == tx[w].fallidos
           T == tx[w].entregados
       IN /\ intentos' = [e \in Eventos |->
                            IF e \in F \cup T THEN Contar(intentos[e]) ELSE intentos[e]]
          /\ status' = [e \in Eventos |->
                          IF e \in T THEN "DONE"
                          ELSE IF e \in F /\ Agotado(Contar(intentos[e])) THEN "FAILED"
                          ELSE status[e]]
          /\ listo' = [e \in Eventos |-> listo[e] /\ e \notin F]
    /\ avisos' = {x \in avisos : \A y \in Mias(w) : <<y.por, y.a>> # <<x.por, x.a>>}
                 \cup Mias(w)
    /\ tx' = [tx EXCEPT ![w] = Libre]
    /\ UNCHANGED <<buzon, perdidas, caidas>>

\* The transaction of w is lost: its locks and rows go, its e-mails remain.
Perder(w) ==
    /\ tx' = [tx EXCEPT ![w] = Libre]
    /\ perdidas' = [k \in Claves |-> [r \in Destinos |->
         Sumar(perdidas[k][r],
               Cardinality({x \in Mias(w) : clave[x.por] = k /\ x.a = r /\ x.correo = "SENT"}))]]
    /\ UNCHANGED <<eventoVars, avisos, buzon>>

\* The process dies.
Caer(w) ==
    /\ tx[w] # Libre
    /\ caidas < MaxCaidas
    /\ caidas' = caidas + 1
    /\ Perder(w)

\* Celery kills the run that used up task_time_limit.
Matar(w) ==
    /\ tx[w].gastado >= Presupuesto
    /\ Perder(w)
    /\ UNCHANGED caidas

-----------------------------------------------------------------------------
Trabajar(w) ==
    \/ \E S \in SUBSET Eventos : Reclamar(w, S)
    \/ \E e \in Eventos : EmpezarEvento(w, e)
    \/ \E r \in Destinos :
         \/ AtenderSinCorreo(w, r)
         \/ EnviarBien(w, r)
         \/ \E demora, llegan \in {0, 1} : EnviarMal(w, r, demora, llegan)
    \/ TerminarEvento(w)
    \/ Confirmar(w)
    \/ Matar(w)

Next ==
    \/ \E e \in Eventos : Publicar(e) \/ Esperar(e)
    \/ \E w \in Trabajadores : Trabajar(w) \/ Caer(w)

Spec == Init /\ [][Next]_vars

\* The beat starts a run every ten seconds and a run that goes on takes steps;
\* time passes.  Nothing says that the relay ever answers.
SpecJusta ==
    /\ Spec
    /\ \A w \in Trabajadores : WF_vars(Trabajar(w))
    /\ \A e \in Eventos : WF_vars(Esperar(e))

-----------------------------------------------------------------------------
\* Type invariant of events, notices and open transactions.
TypeOK ==
    /\ status \in [Eventos -> {"SIN_PUBLICAR", "PENDING", "DONE", "FAILED"}]
    /\ intentos \in [Eventos -> 0 .. MaxIntentos]
    /\ listo \in [Eventos -> BOOLEAN]
    /\ avisos \subseteq Aviso
    /\ tx \in [Trabajadores ->
                [lote : SUBSET Eventos, actual : Eventos \cup {Ninguno},
                 hechos : SUBSET Destinos, avisos : SUBSET Aviso,
                 entregados : SUBSET Eventos, fallidos : SUBSET Eventos,
                 gastado : 0 .. Presupuesto]]
    /\ buzon \in [Claves -> [Destinos -> 0 .. MaxCopias]]
    /\ perdidas \in [Claves -> [Destinos -> 0 .. MaxCopias]]
    /\ caidas \in 0 .. MaxCaidas

\* A settled event stays as it was settled: no overlapping run, holding the
\* attempt count it read when it claimed its batch, overwrites it later.
ResueltoEsFinal ==
    [][\A e \in Eventos :
         status[e] \in {"DONE", "FAILED"} =>
            status'[e] = status[e] /\ intentos'[e] = intentos[e]]_vars

\* At least once: when an event is DONE everybody has its notice, and everybody
\* with a verified address received the e-mail, whatever failed on the way.
EntregaCompleta ==
    \A e \in Eventos : \A r \in DestinosDe[e] :
        status[e] = "DONE" =>
            \E x \in avisos :
                /\ clave[x.por] = clave[e] /\ x.a = r
                /\ IF r \in Verificados
                   THEN x.correo = "SENT" /\ buzon[clave[e]][r] > 0
                   ELSE x.correo = "SKIPPED"

\* Retries never send an e-mail twice: each copy beyond the first takes one
\* e-mail whose record was lost, with a crash, a killed run or the relay's
\* answer (ADR-0014).  Of events with keys of their own.
CopiasPorPerdida == \A k \in Claves, r \in Destinos : buzon[k][r] <= 1 + perdidas[k][r]

\* A published event is settled in the end: delivered, or given up after
\* MAX_INTENTOS attempts, whatever the relay does.
SeResuelve ==
    \A e \in Eventos : status[e] = "PENDING" ~> status[e] \in {"DONE", "FAILED"}

\* The same with the time limit (app.py, task_time_limit): if from some moment
\* on no run is killed by it, every published event is settled, whatever the
\* crashes, the overlapping runs and the answers of the relay.
SeResuelveSiCabe ==
    <>[][\A w \in Trabajadores : ~Matar(w)]_vars => SeResuelve

-----------------------------------------------------------------------------
\* What comments and documents say, and the code does not do.

\* notifications/service.py, _ya_enviado_por_correo: with the check, nobody
\* receives the same e-mail twice when a worker died before its commit.
UnSoloCorreo == \A k \in Claves, r \in Destinos : buzon[k][r] <= 1

\* notifications/service.py, _crear_notificacion: concurrent workers do not
\* create two notices of one fact for one person.
AvisoUnico ==
    \A x, y \in avisos : clave[x.por] = clave[y.por] /\ x.a = y.a => x = y

\* docs/adr/0008-canales-notificacion.md: IN_APP is always on.  Whatever happens
\* to e-mail, a settled event has reached every recipient's tray.
SiempreEnBandeja ==
    \A e \in Eventos : \A r \in DestinosDe[e] :
        status[e] \in {"DONE", "FAILED"} =>
            \E x \in avisos : clave[x.por] = clave[e] /\ x.a = r
=============================================================================
