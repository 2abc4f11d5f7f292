----------------------------- MODULE Propuestas -----------------------------
(***************************************************************************)
(* The assistant: turns of a conversation that leave proposals, and the    *)
(* confirmations that turn a proposal into a change of the system, once.   *)
(* Sources: app/modules/copilot (router, service, propuestas,              *)
(* executors_escritura, confirmaciones, historial, provider),              *)
(* app/core/idempotency.py, app/core/rate_limit.py, workers/tasks/copilot. *)
(*                                                                         *)
(* A confirmation is one transaction that locks the proposal; a second one *)
(* waits.  When the executor refuses, the transaction is undone, with the  *)
(* lock and the reserved key, and a new one marks the proposal FAILED.     *)
(* What an action does to the shipments is modelled in Cargas, Despachos   *)
(* and Gestion; here, as much as decides whether it is refused.            *)
(***************************************************************************)
EXTENDS Naturals, FiniteSets

CONSTANTS
    Peticiones, Propuestas, Llaves,     \* Llaves: values of Idempotency-Key
    Nada,
    Tope,           \* the last step of the way of a shipment: STORED
    Lote,           \* proposals a sweep expires at most (500)
    Limite,         \* turns a client may start in 30 days
    MaxVueltas,     \* copilot_max_tool_calls_por_turno
    MaxVersion      \* bound: changes of the shipment

Acciones == {"ESTADO", "FACTURA", "DESPACHO", "ALTA"}

Estados == {"PENDING", "CONFIRMED", "REJECTED", "EXPIRED", "FAILED"}

Filas == [accion : Acciones, estado : Estados, vencida : BOOLEAN, version : 1 .. MaxVersion,
          hasta : 0 .. Tope, completa : BOOLEAN]

Respuestas == {"200", "409"}

Guardadas == [respuesta : {Nada} \cup Respuestas, viva : BOOLEAN]

ASSUME Parametros ==
    /\ Nada \notin Peticiones \cup Propuestas \cup Llaves
    /\ Nada \notin Filas /\ Nada \notin Guardadas /\ Nada \notin Respuestas
    /\ Tope \in Nat \ {0} /\ Lote \in Nat \ {0} /\ MaxVersion \in Nat \ {0}
    /\ Limite \in Nat /\ MaxVueltas \in Nat

VARIABLES
    propuesta,      \* copilot_action_proposals
    llave,          \* idempotency_keys that were committed
    carga,          \* the shipment the proposals are about
    op,             \* what each confirmation is doing
    barrido,        \* the rows the sweep found expired
    turno,          \* the turn of the model
    cuota,          \* Redis: turns of the client in the window
    charla,         \* copilot_conversations: the conversation is there
    efectos         \* history: times the action of each proposal was done
turnoVars == <<turno, cuota, charla>>
vars == <<propuesta, llave, carga, op, barrido, turnoVars, efectos>>

Libre == [fase |-> "LIBRE", a |-> Nada, k |-> Nada, campos |-> FALSE, reservo |-> FALSE]

TypeOK ==
    /\ propuesta \in [Propuestas -> {Nada} \cup Filas]
    /\ llave \in [Llaves -> {Nada} \cup Guardadas]
    /\ carga \in [paso : 0 .. Tope, version : 1 .. MaxVersion, despacho : BOOLEAN]
    /\ op \in [Peticiones -> [fase : {"LIBRE", "RESERVA", "TOMA", "EJECUTA", "FALLA"},
         a : Propuestas \cup {Nada}, k : Llaves \cup {Nada}, campos : BOOLEAN,
         reservo : BOOLEAN]]
    /\ barrido \subseteq Propuestas
    /\ turno \in {Nada} \cup 0 .. MaxVueltas
    /\ cuota \in 0 .. Limite /\ charla \in BOOLEAN
    /\ efectos \in [Propuestas -> Nat]

Init ==
    /\ propuesta = [a \in Propuestas |-> Nada]
    /\ llave = [k \in Llaves |-> Nada]
    /\ carga = [paso |-> 0, version |-> 1, despacho |-> FALSE]
    /\ op = [p \in Peticiones |-> Libre]
    /\ barrido = {}
    /\ turno = Nada /\ cuota = 0 /\ charla = FALSE
    /\ efectos = [a \in Propuestas |-> 0]

-----------------------------------------------------------------------------
(* A turn of the model *)

\* respond: the quota is charged and the question saved before the provider is
\* called.
Responder ==
    /\ turno = Nada /\ cuota < Limite
    /\ turno' = 0 /\ cuota' = cuota + 1 /\ charla' = TRUE
    /\ UNCHANGED <<propuesta, llave, carga, op, barrido, efectos>>

\* crear: a round in which the model asks for a tool that prepares an action.
\* The proposal is committed at once, with the version the shipment has.
Preparar(a, accion, hasta, completa) ==
    /\ turno # Nada /\ turno < MaxVueltas
    /\ propuesta[a] = Nada
    /\ propuesta' = [propuesta EXCEPT ![a] = [accion |-> accion, estado |-> "PENDING",
         vencida |-> FALSE, version |-> carga.version, hasta |-> hasta, completa |-> completa]]
    /\ turno' = turno + 1
    /\ UNCHANGED <<llave, carga, op, barrido, cuota, charla, efectos>>

ProponerCambioEstado(a) == \E hasta \in carga.paso + 1 .. Tope : Preparar(a, "ESTADO", hasta, TRUE)

ProponerDespacho(a) ==
    /\ carga.paso = Tope /\ ~carga.despacho
    /\ Preparar(a, "DESPACHO", 0, TRUE)

\* The invoice may have no number that can be read, and the draft of a
\* registration may lack what is obligatory: the person completes them.
ProcesarFactura(a) == \E completa \in BOOLEAN : Preparar(a, "FACTURA", 0, completa)

CrearPrealerta(a) == \E completa \in BOOLEAN : Preparar(a, "ALTA", 0, completa)

\* The other tools, those that fail and those that propose nothing.
Consultar ==
    /\ turno # Nada /\ turno < MaxVueltas
    /\ turno' = turno + 1
    /\ UNCHANGED <<propuesta, llave, carga, op, barrido, cuota, charla, efectos>>

\* The answer is given, the rounds are spent, the provider fails, the stream is
\* closed or the conversation is not there any more: what was proposed stays.
TerminarTurno ==
    /\ turno # Nada
    /\ turno' = Nada
    /\ UNCHANGED <<propuesta, llave, carga, op, barrido, cuota, charla, efectos>>

\* Deleted by its owner, or unused for 180 days.
BorrarCharla ==
    /\ charla
    /\ charla' = FALSE
    /\ UNCHANGED <<propuesta, llave, carga, op, barrido, turno, cuota, efectos>>

-----------------------------------------------------------------------------
(* Confirmation *)

Fin(p) == op' = [op EXCEPT ![p] = Libre]

\* Mutant: the proposal is read without FOR UPDATE.
SinBloquear(a) == a \in Propuestas

\* The row of the proposal is locked by a confirmation that is executing it.
FilaLibre(a) == \A q \in Peticiones : ~(op[q].fase = "EJECUTA" /\ op[q].a = a)

\* buscar_respuesta_previa: a key of the last 24 hours.
Encontrada(k) == k # Nada /\ llave[k] # Nada /\ llave[k].viva

\* A key that is found ends the request: its answer is repeated, or refused
\* when what was asked is not the same.
Confirmar(p, a, k, campos) ==
    /\ op[p] = Libre
    /\ propuesta[a] # Nada
    /\ ~Encontrada(k)
    /\ op' = [op EXCEPT ![p] = [Libre EXCEPT !.fase = IF k = Nada THEN "TOMA" ELSE "RESERVA",
                                             !.a = a, !.k = k, !.campos = campos]]
    /\ UNCHANGED <<propuesta, llave, carga, barrido, turnoVars, efectos>>

\* reservar: the unique index makes it wait for another transaction that has
\* the key; nobody looks at whether the row was inserted.
Reservar(p) ==
    /\ op[p].fase = "RESERVA"
    /\ \A q \in Peticiones : ~(op[q].reservo /\ op[q].k = op[p].k)
    /\ op' = [op EXCEPT ![p].fase = "TOMA", ![p].reservo = llave[op[p].k] = Nada]
    /\ UNCHANGED <<propuesta, llave, carga, barrido, turnoVars, efectos>>

\* guardar_respuesta, with the commit.
GuardarRespuesta(p, r) ==
    llave' = IF op[p].k = Nada THEN llave
             ELSE IF op[p].reservo
             THEN [llave EXCEPT ![op[p].k] = [respuesta |-> r, viva |-> TRUE]]
             ELSE [llave EXCEPT ![op[p].k].respuesta = r]

\* The proposal was resolved: the refusal is kept under the key.
RechazarNoPendiente(p) ==
    /\ op[p].fase = "TOMA"
    /\ FilaLibre(op[p].a)
    /\ propuesta[op[p].a].estado # "PENDING"
    /\ GuardarRespuesta(p, "409")
    /\ Fin(p)
    /\ UNCHANGED <<propuesta, carga, barrido, turnoVars, efectos>>

MarcarVencida(p) ==
    /\ op[p].fase = "TOMA"
    /\ FilaLibre(op[p].a)
    /\ propuesta[op[p].a].estado = "PENDING" /\ propuesta[op[p].a].vencida
    /\ propuesta' = [propuesta EXCEPT ![op[p].a].estado = "EXPIRED"]
    /\ GuardarRespuesta(p, "409")
    /\ Fin(p)
    /\ UNCHANGED <<carga, barrido, turnoVars, efectos>>

Tomar(p) ==
    /\ op[p].fase = "TOMA"
    /\ FilaLibre(op[p].a)
    /\ propuesta[op[p].a].estado = "PENDING" /\ ~propuesta[op[p].a].vencida
    /\ op' = [op EXCEPT ![p].fase = "EJECUTA"]
    /\ UNCHANGED <<propuesta, llave, carga, barrido, turnoVars, efectos>>

\* What the executors ask and do: the data are complete, with what the person
\* wrote, and the shipment is the one that was proposed.  Several transitions
\* are one transaction; a registration creates another shipment.
Cambiar(paso, despacho, n) ==
    /\ carga.version + n <= MaxVersion
    /\ carga' = [paso |-> paso, despacho |-> despacho, version |-> carga.version + n]

ConfirmarCambioEstado(r) ==
    /\ r.accion = "ESTADO" /\ carga.version = r.version
    /\ Cambiar(r.hasta, carga.despacho, r.hasta - carga.paso)

ConfirmarFactura(r, campos) ==
    /\ r.accion = "FACTURA" /\ carga.version = r.version
    /\ r.completa \/ campos
    /\ Cambiar(carga.paso, carga.despacho, 1)

ConfirmarDespacho(r) ==
    /\ r.accion = "DESPACHO" /\ carga.paso = Tope /\ ~carga.despacho
    /\ Cambiar(carga.paso, TRUE, 1)

ConfirmarPrealerta(r, campos) ==
    /\ r.accion = "ALTA"
    /\ r.completa \/ campos
    /\ UNCHANGED carga

Ejecutar(p) ==
    LET a == op[p].a  campos == op[p].campos IN
    /\ op[p].fase = "EJECUTA"
    /\ \/ ConfirmarCambioEstado(propuesta[a]) \/ ConfirmarFactura(propuesta[a], campos)
       \/ ConfirmarDespacho(propuesta[a]) \/ ConfirmarPrealerta(propuesta[a], campos)
    /\ efectos' = [efectos EXCEPT ![a] = @ + 1]
    /\ propuesta' = [propuesta EXCEPT ![a].estado = "CONFIRMED"]
    /\ GuardarRespuesta(p, "200")
    /\ Fin(p)
    /\ UNCHANGED <<barrido, turnoVars>>

\* The executor refuses, for one of those reasons or for a rule of the module
\* it calls: rollback, which frees the row and the key.
Fallar(p) ==
    /\ op[p].fase = "EJECUTA"
    /\ op' = [op EXCEPT ![p].fase = "FALLA", ![p].reservo = FALSE]
    /\ UNCHANGED <<propuesta, llave, carga, barrido, turnoVars, efectos>>

\* By its id, whatever became of the proposal meanwhile.
MarcarFallida(p) ==
    /\ op[p].fase = "FALLA"
    /\ FilaLibre(op[p].a)
    /\ propuesta' = [propuesta EXCEPT ![op[p].a].estado = "FAILED"]
    /\ Fin(p)
    /\ UNCHANGED <<llave, carga, barrido, turnoVars, efectos>>

\* Mutant: the key is left reserved by a request that ends without an answer.
AbandonarReservada(p) ==
    /\ op[p].fase # "LIBRE"
    /\ llave' = IF op[p].reservo
                THEN [llave EXCEPT ![op[p].k] = [respuesta |-> Nada, viva |-> TRUE]]
                ELSE llave
    /\ Fin(p)
    /\ UNCHANGED <<propuesta, carga, barrido, turnoVars, efectos>>

\* The permission is gone, an error nobody expected, or the process dies:
\* nothing was committed.
Abandonar(p) ==
    /\ op[p].fase # "LIBRE"
    /\ Fin(p)
    /\ UNCHANGED <<propuesta, llave, carga, barrido, turnoVars, efectos>>

\* rechazar_propuesta
Rechazar(a) ==
    /\ propuesta[a] # Nada /\ propuesta[a].estado = "PENDING"
    /\ FilaLibre(a)
    /\ propuesta' = [propuesta EXCEPT
         ![a].estado = IF propuesta[a].vencida THEN "EXPIRED" ELSE "REJECTED"]
    /\ UNCHANGED <<llave, carga, op, barrido, turnoVars, efectos>>

-----------------------------------------------------------------------------
(* Time, the sweep and the rest of the system *)

Vencidas == {a \in Propuestas :
    propuesta[a] # Nada /\ propuesta[a].estado = "PENDING" /\ propuesta[a].vencida}

\* Thirty minutes go by.
Vencer(a) ==
    /\ propuesta[a] # Nada /\ ~propuesta[a].vencida
    /\ propuesta' = [propuesta EXCEPT ![a].vencida = TRUE]
    /\ UNCHANGED <<llave, carga, op, barrido, turnoVars, efectos>>

\* Mutant: the sweep never finds anything.
NoMirar == FALSE /\ UNCHANGED vars

\* expirar: the subquery chooses up to Lote rows.
Mirar ==
    /\ barrido = {} /\ Vencidas # {}
    /\ \E as \in SUBSET Vencidas : as # {} /\ Cardinality(as) <= Lote /\ barrido' = as
    /\ UNCHANGED <<propuesta, llave, carga, op, turnoVars, efectos>>

\* The update waits for the locked rows and, when it has them, asks again only
\* for the id: the status was a condition of the subquery.
Expirar ==
    /\ barrido # {}
    /\ \A a \in barrido : FilaLibre(a)
    /\ propuesta' = [a \in Propuestas |->
         IF a \in barrido THEN [propuesta[a] EXCEPT !.estado = "EXPIRED"] ELSE propuesta[a]]
    /\ barrido' = {}
    /\ UNCHANGED <<llave, carga, op, turnoVars, efectos>>

\* 24 hours: the row stays, but is not found any more.
CaducarLlave(k) ==
    /\ llave[k] # Nada /\ llave[k].viva
    /\ llave' = [llave EXCEPT ![k].viva = FALSE]
    /\ UNCHANGED <<propuesta, carga, op, barrido, turnoVars, efectos>>

\* Somebody moves or edits the shipment from its own screen.
CambiarCarga ==
    /\ carga.version < MaxVersion
    /\ \E n \in {carga.paso, carga.paso + 1} :
          n <= Tope /\ carga' = [carga EXCEPT !.paso = n, !.version = @ + 1]
    /\ UNCHANGED <<propuesta, llave, op, barrido, turnoVars, efectos>>

-----------------------------------------------------------------------------

Confirmacion(p) ==
    \/ \E a \in Propuestas, k \in Llaves \cup {Nada}, campos \in BOOLEAN : Confirmar(p, a, k, campos)
    \/ Reservar(p)
    \/ RechazarNoPendiente(p) \/ MarcarVencida(p) \/ Tomar(p)
    \/ Ejecutar(p) \/ Fallar(p) \/ MarcarFallida(p)
    \/ Abandonar(p)

Turno ==
    \/ Responder \/ Consultar \/ TerminarTurno \/ BorrarCharla
    \/ \E a \in Propuestas :
          ProponerCambioEstado(a) \/ ProponerDespacho(a) \/ ProcesarFactura(a) \/ CrearPrealerta(a)

Next ==
    \/ \E p \in Peticiones : Confirmacion(p)
    \/ Turno
    \/ \E a \in Propuestas : Rechazar(a) \/ Vencer(a)
    \/ Mirar \/ Expirar
    \/ \E k \in Llaves : CaducarLlave(k)
    \/ CambiarCarga

Spec == Init /\ [][Next]_vars

\* The clock, beat's sweep every ten minutes, and requests that end.
Equidad ==
    /\ \A a \in Propuestas : WF_vars(Vencer(a))
    /\ WF_vars(Mirar) /\ WF_vars(Expirar)
    /\ \A p \in Peticiones : WF_vars(Ejecutar(p) \/ Fallar(p) \/ Abandonar(p))

FairSpec == Spec /\ Equidad

-----------------------------------------------------------------------------
(* Properties *)

\* The action of a proposal is done at most once, however many confirmations,
\* retries, failures and sweeps there are.
UnSoloUso == \A a \in Propuestas : efectos[a] <= 1

\* A key that is found always has an answer: a client that retries is never
\* told that a request which died is still running.
LlaveConRespuesta == \A k \in Llaves : llave[k] # Nada => llave[k].respuesta # Nada

\* No proposal waits for ever.
SeResuelveSola ==
    \A a \in Propuestas :
        (propuesta[a] # Nada /\ propuesta[a].estado = "PENDING")
            ~> (propuesta[a] # Nada /\ propuesta[a].estado # "PENDING")

\* tests/integration/test_copilot_router.py asserts of a confirmation that was
\* done that it stays the result of the proposal; see README.
ConfirmadaEsFinal ==
    [][\A a \in Propuestas : propuesta[a] # Nada /\ propuesta[a].estado = "CONFIRMED"
         => propuesta'[a].estado = "CONFIRMED"]_vars

=============================================================================
