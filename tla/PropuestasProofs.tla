--------------------------- MODULE PropuestasProofs ---------------------------
(***************************************************************************)
(* What holds of Propuestas for any number of confirmations, proposals and *)
(* keys: the action of a proposal is done at most once, and a key that can *)
(* be found has an answer.                                                 *)
(***************************************************************************)
EXTENDS Propuestas, TLAPS

Pendiente(a) == propuesta[a] # Nada /\ propuesta[a].estado = "PENDING"

\* A confirmation is of a proposal there is; the one that executes has it
\* pending and to itself, by the lock of its row.
EnCurso ==
    \A p \in Peticiones :
        /\ op[p].fase # "LIBRE" => op[p].a \in Propuestas /\ propuesta[op[p].a] # Nada
        /\ op[p].fase = "EJECUTA" =>
             /\ Pendiente(op[p].a)
             /\ \A q \in Peticiones \ {p} : op[q].fase = "EJECUTA" => op[q].a # op[p].a

\* What is pending has not been done, and nothing is done twice.
SinUsar ==
    \A a \in Propuestas :
        efectos[a] <= 1 /\ (propuesta[a] = Nada \/ Pendiente(a) => efectos[a] = 0)

\* A proposal was made of a version the shipment had; while that is the present
\* one, a change of status leads forward.
Vigentes ==
    \A a \in Propuestas : propuesta[a] # Nada =>
        /\ propuesta[a].version <= carga.version
        /\ propuesta[a].accion = "ESTADO" /\ propuesta[a].version = carga.version
             => carga.paso < propuesta[a].hasta

\* The sweep found proposals.
Encontradas == \A a \in barrido : propuesta[a] # Nada

ConLlave(p) == op[p].fase \in {"TOMA", "EJECUTA"} /\ op[p].k # Nada

\* A key is reserved by one request and not in the table yet; a request that has
\* a key and did not reserve it found its row there.
LlavesOK ==
    /\ \A p \in Peticiones :
         /\ op[p].fase = "RESERVA" => op[p].k # Nada
         /\ op[p].reservo => ConLlave(p) /\ llave[op[p].k] = Nada
         /\ op[p].reservo => \A q \in Peticiones \ {p} : op[q].reservo => op[q].k # op[p].k
         /\ ConLlave(p) /\ ~op[p].reservo => llave[op[p].k] # Nada
    /\ LlaveConRespuesta

UsoOK == TypeOK /\ EnCurso /\ SinUsar /\ Vigentes /\ Encontradas /\ LlavesOK

-----------------------------------------------------------------------------
FormaDeOp == [fase : {"LIBRE", "RESERVA", "TOMA", "EJECUTA", "FALLA"}, a : Propuestas \cup {Nada},
              k : Llaves \cup {Nada}, campos : BOOLEAN, reservo : BOOLEAN]

\* A confirmation that is doing nothing.
LEMMA LibreTipada == Libre \in FormaDeOp /\ Libre.fase = "LIBRE" /\ ~Libre.reservo
  BY DEF Libre, FormaDeOp

\* At the start there are no proposals, no keys and no confirmations.
LEMMA UsoInicial == Init => UsoOK
<1> SUFFICES ASSUME Init PROVE UsoOK
  OBVIOUS
<1>1. TypeOK
  <2>1. carga \in [paso : 0 .. Tope, version : 1 .. MaxVersion, despacho : BOOLEAN]
    BY Parametros DEF Init
  <2>2. op \in [Peticiones -> FormaDeOp]
    BY LibreTipada DEF Init
  <2>3. turno \in {Nada} \cup 0 .. MaxVueltas /\ cuota \in 0 .. Limite
    BY Parametros DEF Init
  <2>4. charla \in BOOLEAN
    BY DEF Init
  <2> QED
    BY <2>1, <2>2, <2>3, <2>4 DEF Init, TypeOK, FormaDeOp
<1>2. LlavesOK /\ EnCurso
  BY LibreTipada DEF Init, LlavesOK, LlaveConRespuesta, ConLlave, EnCurso
<1> QED
  BY <1>1, <1>2 DEF Init, UsoOK, SinUsar, Vigentes, Encontradas, Pendiente

-----------------------------------------------------------------------------
(* The keys *)

\* What a confirmation holds of its key stays the same: it goes from the key to
\* the execution, or it stops without having reserved.
MismaLlave(p) ==
    \/ /\ op'[p].k = op[p].k /\ op'[p].reservo = op[p].reservo
       /\ op'[p].fase = op[p].fase \/ (op[p].fase = "TOMA" /\ op'[p].fase = "EJECUTA")
    \/ op'[p].fase \in {"LIBRE", "FALLA"} /\ ~op'[p].reservo

\* The keys stay right under steps that write none and reserve none.
LEMMA LlavesSiguen ==
    ASSUME UsoOK, llave' = llave,
           \A p \in Peticiones : MismaLlave(p)
    PROVE  LlavesOK'
<1>1. LlaveConRespuesta'
  BY DEF UsoOK, LlavesOK, LlaveConRespuesta
<1>2. ASSUME NEW p \in Peticiones
      PROVE  /\ op'[p].reservo => op[p].reservo /\ op'[p].k = op[p].k
             /\ ConLlave(p)' => ConLlave(p) /\ op'[p].k = op[p].k /\ op'[p].reservo = op[p].reservo
  BY <1>2, MismaLlave(p) DEF MismaLlave, ConLlave
<1>3. ASSUME NEW p \in Peticiones, op'[p].fase = "RESERVA"
      PROVE  op'[p].k # Nada
  BY <1>3, MismaLlave(p) DEF MismaLlave, UsoOK, LlavesOK
<1>4. ASSUME NEW p \in Peticiones, op'[p].reservo
      PROVE  ConLlave(p)' /\ llave'[op'[p].k] = Nada
  <2>1. op[p].reservo /\ ConLlave(p) /\ llave[op[p].k] = Nada
    BY <1>2, <1>4 DEF UsoOK, LlavesOK
  <2> QED
    BY <1>4, <2>1, MismaLlave(p) DEF MismaLlave, ConLlave
<1>5. ASSUME NEW p \in Peticiones, NEW q \in Peticiones \ {p}, op'[p].reservo, op'[q].reservo
      PROVE  op'[q].k # op'[p].k
  <2>1. op[p].reservo /\ op'[p].k = op[p].k /\ op[q].reservo /\ op'[q].k = op[q].k
    BY <1>2, <1>5
  <2> QED
    BY <2>1 DEF UsoOK, LlavesOK
<1>6. ASSUME NEW p \in Peticiones, ConLlave(p)', ~op'[p].reservo
      PROVE  llave'[op'[p].k] # Nada
  BY <1>2, <1>6 DEF UsoOK, LlavesOK
<1> QED
  BY <1>1, <1>3, <1>4, <1>5, <1>6 DEF LlavesOK

\* An answer is kept under a key with the commit: the row is inserted by the
\* request that reserved it, or is there.
LEMMA GuardarConserva ==
    ASSUME UsoOK, NEW p \in Peticiones, op[p].fase \in {"TOMA", "EJECUTA"},
           NEW r \in Respuestas, GuardarRespuesta(p, r), op' = [op EXCEPT ![p] = Libre]
    PROVE  LlavesOK' /\ llave' \in [Llaves -> {Nada} \cup Guardadas]
<1>0. llave \in [Llaves -> {Nada} \cup Guardadas] /\ op \in [Peticiones -> FormaDeOp]
  BY DEF UsoOK, TypeOK, FormaDeOp
<1>1. \A q \in Peticiones : op'[q] = IF q = p THEN Libre ELSE op[q]
  BY <1>0
<1>2. CASE op[p].k = Nada
  <2>1. llave' = llave
    BY <1>2 DEF GuardarRespuesta
  <2>2. \A q \in Peticiones : MismaLlave(q)
    BY <1>1, LibreTipada DEF MismaLlave
  <2> QED
    BY <1>0, <2>1, <2>2, LlavesSiguen
<1>3. CASE op[p].k # Nada
  <2>0. PICK k \in Llaves : k = op[p].k
    BY <1>0, <1>3 DEF FormaDeOp
  <2> DEFINE f == IF op[p].reservo THEN [respuesta |-> r, viva |-> TRUE]
                  ELSE [llave[k] EXCEPT !.respuesta = r]
  <2>1. ~op[p].reservo => llave[k] \in Guardadas
    BY <1>0, <1>3, <2>0 DEF UsoOK, LlavesOK, ConLlave
  <2>2. f \in Guardadas /\ f.respuesta = r /\ f # Nada
    <3>1. CASE op[p].reservo
      <4>1. f = [respuesta |-> r, viva |-> TRUE]
        BY <3>1
      <4> HIDE DEF f
      <4>2. f \in Guardadas /\ f.respuesta = r
        BY <4>1 DEF Guardadas
      <4> QED
        BY <4>2, Parametros
    <3>2. CASE ~op[p].reservo
      BY <2>1, <3>2, Parametros DEF Guardadas
    <3> QED
      BY <3>1, <3>2
  <2>3. llave' = [llave EXCEPT ![k] = f]
    BY <1>0, <1>3, <2>0, <2>1 DEF GuardarRespuesta
  <2> HIDE DEF f
  <2>4. llave' \in [Llaves -> {Nada} \cup Guardadas]
    BY <1>0, <2>2, <2>3
  <2>5. \A l \in Llaves : llave'[l] = IF l = k THEN f ELSE llave[l]
    BY <1>0, <2>3
  <2>6. LlaveConRespuesta'
    BY <2>2, <2>5, Parametros DEF UsoOK, LlavesOK, LlaveConRespuesta
  <2>7. \A q \in Peticiones : op[q].k \in Llaves \cup {Nada}
    BY <1>0 DEF FormaDeOp
  <2>8. \A q \in Peticiones \ {p} : op[q].reservo => op[q].k # k
    <3> SUFFICES ASSUME NEW q \in Peticiones \ {p}, op[q].reservo, op[q].k = k
                 PROVE  FALSE
      OBVIOUS
    <3>1. llave[k] = Nada
      BY DEF UsoOK, LlavesOK
    <3>2. op[p].reservo
      BY <1>3, <2>0, <3>1 DEF UsoOK, LlavesOK, ConLlave
    <3> QED
      BY <2>0, <3>2 DEF UsoOK, LlavesOK
  <2>9. \A q \in Peticiones : ConLlave(q)' <=> q # p /\ ConLlave(q)
    BY <1>1, LibreTipada DEF ConLlave
  <2> QED
    BY <1>1, <2>2, <2>4, <2>5, <2>6, <2>7, <2>8, <2>9, LibreTipada
       DEF UsoOK, LlavesOK, ConLlave
<1> QED
  BY <1>2, <1>3

-----------------------------------------------------------------------------
(* The proposals *)

\* The rest of the invariant stays right under a change of one proposal that
\* nobody else is executing, or that leaves its status alone.
LEMMA EscribirPropuesta ==
    ASSUME UsoOK, NEW a \in Propuestas, propuesta[a] # Nada,
           NEW f \in Filas, propuesta' = [propuesta EXCEPT ![a] = f],
           f.version = propuesta[a].version, f.accion = propuesta[a].accion,
           f.hasta = propuesta[a].hasta, f.estado = "PENDING" => Pendiente(a),
           \/ f.estado = propuesta[a].estado
           \/ \A q \in Peticiones : op'[q].fase = "EJECUTA" => op'[q].a # a,
           \A q \in Peticiones : op'[q] = op[q] \/ op'[q] = Libre,
           UNCHANGED <<carga, barrido, efectos>>
    PROVE  EnCurso' /\ SinUsar' /\ Vigentes' /\ Encontradas'
           /\ propuesta' \in [Propuestas -> {Nada} \cup Filas]
<1>1. propuesta \in [Propuestas -> {Nada} \cup Filas]
  BY DEF UsoOK, TypeOK
<1>2. \A b \in Propuestas : propuesta'[b] = IF b = a THEN f ELSE propuesta[b]
  BY <1>1
<1>3. f # Nada
  BY Parametros
<1>4. propuesta' \in [Propuestas -> {Nada} \cup Filas]
  BY <1>1
<1>5. \A b \in Propuestas : (propuesta'[b] # Nada <=> propuesta[b] # Nada)
                            /\ (Pendiente(b)' => Pendiente(b))
  BY <1>2, <1>3 DEF Pendiente
<1>6. EnCurso'
  <2>1. \A q \in Peticiones : op'[q].fase # "LIBRE" => op'[q] = op[q]
    BY LibreTipada
  <2>2. ASSUME NEW q \in Peticiones, op'[q].fase = "EJECUTA"
        PROVE  Pendiente(op[q].a)'
    <3>1. op'[q] = op[q] /\ op[q].a \in Propuestas /\ Pendiente(op[q].a)
      BY <2>1, <2>2 DEF UsoOK, EnCurso
    <3>2. propuesta'[op[q].a] # Nada /\ propuesta'[op[q].a].estado = "PENDING"
      BY <1>2, <1>3, <2>2, <3>1 DEF Pendiente
    <3> QED
      BY <3>1, <3>2 DEF Pendiente
  <2> QED
    BY <1>5, <2>1, <2>2 DEF UsoOK, EnCurso
<1>7. SinUsar'
  BY <1>5 DEF UsoOK, SinUsar
<1>8. Vigentes'
  BY <1>2, <1>5 DEF UsoOK, Vigentes
<1>9. Encontradas'
  BY <1>5 DEF UsoOK, Encontradas, TypeOK
<1> QED
  BY <1>4, <1>6, <1>7, <1>8, <1>9

\* Steps that write neither the proposals nor the shipment keep what is said of
\* them, when whoever starts to execute has the proposal pending and free.
LEMMA SinEscribir ==
    ASSUME UsoOK, UNCHANGED <<propuesta, carga, barrido, efectos>>,
           \A p \in Peticiones : op'[p].fase # "LIBRE" =>
               \/ op'[p].a = op[p].a /\ op[p].fase # "LIBRE"
               \/ op'[p].a \in Propuestas /\ propuesta[op'[p].a] # Nada,
           \A p \in Peticiones : op'[p].fase = "EJECUTA" =>
               \/ op'[p] = op[p]
               \/ op'[p].a = op[p].a /\ FilaLibre(op[p].a) /\ Pendiente(op[p].a)
                  /\ \A q \in Peticiones \ {p} : op'[q] = op[q]
    PROVE  EnCurso' /\ SinUsar' /\ Vigentes' /\ Encontradas'
<1>1. SinUsar' /\ Vigentes' /\ Encontradas'
  BY DEF UsoOK, SinUsar, Vigentes, Encontradas, Pendiente
<1>2. EnCurso'
  <2> SUFFICES ASSUME NEW p \in Peticiones
               PROVE  /\ op'[p].fase # "LIBRE" => op'[p].a \in Propuestas /\ propuesta'[op'[p].a] # Nada
                      /\ op'[p].fase = "EJECUTA" =>
                           /\ propuesta'[op'[p].a] # Nada /\ propuesta'[op'[p].a].estado = "PENDING"
                           /\ \A q \in Peticiones \ {p} : op'[q].fase = "EJECUTA" => op'[q].a # op'[p].a
    BY DEF EnCurso, Pendiente
  <2>1. op'[p].fase # "LIBRE" => op'[p].a \in Propuestas /\ propuesta'[op'[p].a] # Nada
    BY DEF UsoOK, EnCurso
  <2>2. ASSUME op'[p].fase = "EJECUTA"
        PROVE  propuesta'[op'[p].a] # Nada /\ propuesta'[op'[p].a].estado = "PENDING"
    BY <2>2 DEF UsoOK, EnCurso, Pendiente
  <2>3. ASSUME op'[p].fase = "EJECUTA", NEW q \in Peticiones \ {p}, op'[q].fase = "EJECUTA"
        PROVE  op'[q].a # op'[p].a
    <3>1. CASE op'[p] = op[p] /\ op'[q] = op[q]
      BY <2>3, <3>1 DEF UsoOK, EnCurso
    <3>2. CASE op'[p] # op[p]
      BY <2>3, <3>2 DEF FilaLibre
    <3>3. CASE op'[q] # op[q]
      BY <2>3, <3>3 DEF FilaLibre
    <3> QED
      BY <3>1, <3>2, <3>3
  <2> QED
    BY <2>1, <2>2, <2>3
<1> QED
  BY <1>1, <1>2

\* A confirmation that begins, reserves its key, takes the proposal, is undone
\* or ends with nothing committed.
LEMMA ConfirmacionConserva ==
    ASSUME UsoOK, NEW p \in Peticiones,
           \/ \E a \in Propuestas, k \in Llaves \cup {Nada}, c \in BOOLEAN : Confirmar(p, a, k, c)
           \/ Reservar(p) \/ Tomar(p) \/ Fallar(p) \/ Abandonar(p)
    PROVE  UsoOK'
<1>0. op \in [Peticiones -> FormaDeOp]
  BY DEF UsoOK, TypeOK, FormaDeOp
<1>1. UNCHANGED <<propuesta, llave, carga, barrido, turnoVars, efectos>>
  BY DEF Confirmar, Reservar, Tomar, Fallar, Abandonar
<1>2. LlaveConRespuesta'
  BY <1>1 DEF UsoOK, LlavesOK, LlaveConRespuesta
<1>3. ASSUME NEW o \in FormaDeOp, op' = [op EXCEPT ![p] = o], LlavesOK',
             o.fase # "LIBRE" => \/ o.a = op[p].a /\ op[p].fase # "LIBRE"
                                 \/ o.a \in Propuestas /\ propuesta[o.a] # Nada,
             o.fase = "EJECUTA" => o.a = op[p].a /\ FilaLibre(op[p].a) /\ Pendiente(op[p].a)
      PROVE  UsoOK'
  <2>1. \A q \in Peticiones : op'[q] = IF q = p THEN o ELSE op[q]
    BY <1>0, <1>3
  <2>2. EnCurso' /\ SinUsar' /\ Vigentes' /\ Encontradas'
    BY <1>1, <1>3, <2>1, SinEscribir
  <2>3. TypeOK'
    BY <1>0, <1>1, <1>3 DEF UsoOK, TypeOK, FormaDeOp, turnoVars
  <2> QED
    BY <1>3, <2>2, <2>3 DEF UsoOK
<1>4. ASSUME NEW a \in Propuestas, NEW k \in Llaves \cup {Nada}, NEW c \in BOOLEAN,
             Confirmar(p, a, k, c)
      PROVE  UsoOK'
  <2> DEFINE f == IF k = Nada THEN "TOMA" ELSE "RESERVA"
             o == [Libre EXCEPT !.fase = f, !.a = a, !.k = k, !.campos = c]
  <2>1. op' = [op EXCEPT ![p] = o] /\ propuesta[a] # Nada
    BY <1>4 DEF Confirmar
  <2>2. o \in FormaDeOp /\ o.a = a /\ o.fase = f /\ o.k = k /\ ~o.reservo
    BY LibreTipada DEF FormaDeOp
  <2>3. f # "EJECUTA" /\ (k # Nada => f = "RESERVA") /\ (k = Nada => f = "TOMA")
    OBVIOUS
  <2> HIDE DEF f, o
  <2>4. \A q \in Peticiones : op'[q] = IF q = p THEN o ELSE op[q]
    BY <1>0, <2>1
  <2>5. LlavesOK'
    BY <1>1, <1>2, <2>2, <2>3, <2>4 DEF UsoOK, LlavesOK, ConLlave
  <2> QED
    BY <1>3, <2>1, <2>2, <2>3, <2>5
<1>5. CASE Reservar(p)
  <2> DEFINE r == llave[op[p].k] = Nada
             o == [op[p] EXCEPT !.fase = "TOMA", !.reservo = r]
  <2>1. op' = [op EXCEPT ![p] = o] /\ op[p].fase = "RESERVA"
        /\ \A q \in Peticiones : ~(op[q].reservo /\ op[q].k = op[p].k)
    BY <1>0, <1>5 DEF Reservar
  <2>2. o \in FormaDeOp /\ o.a = op[p].a /\ o.fase = "TOMA" /\ o.k = op[p].k
        /\ (o.reservo <=> llave[op[p].k] = Nada)
    BY <1>0 DEF FormaDeOp
  <2> HIDE DEF r, o
  <2>3. \A q \in Peticiones : op'[q] = IF q = p THEN o ELSE op[q]
    BY <1>0, <2>1
  <2>4. LlavesOK'
    BY <1>1, <1>2, <2>1, <2>2, <2>3 DEF UsoOK, LlavesOK, ConLlave
  <2> QED
    BY <1>3, <2>1, <2>2, <2>4
<1>6. CASE Tomar(p)
  <2> DEFINE o == [op[p] EXCEPT !.fase = "EJECUTA"]
  <2>1. op' = [op EXCEPT ![p] = o] /\ op[p].fase = "TOMA" /\ FilaLibre(op[p].a)
        /\ propuesta[op[p].a].estado = "PENDING"
    BY <1>0, <1>6 DEF Tomar
  <2>2. Pendiente(op[p].a)
    BY <2>1 DEF Pendiente, UsoOK, EnCurso
  <2>3. o \in FormaDeOp /\ o.a = op[p].a /\ o.fase = "EJECUTA" /\ o.k = op[p].k
        /\ o.reservo = op[p].reservo
    BY <1>0 DEF FormaDeOp
  <2> HIDE DEF o
  <2>4. \A q \in Peticiones : MismaLlave(q)
    BY <1>0, <2>1, <2>3 DEF MismaLlave
  <2> QED
    BY <1>1, <1>3, <2>1, <2>2, <2>3, <2>4, LlavesSiguen
<1>7. CASE Fallar(p)
  <2> DEFINE o == [op[p] EXCEPT !.fase = "FALLA", !.reservo = FALSE]
  <2>1. op' = [op EXCEPT ![p] = o] /\ op[p].fase = "EJECUTA"
    BY <1>0, <1>7 DEF Fallar
  <2>2. o \in FormaDeOp /\ o.a = op[p].a /\ o.fase = "FALLA" /\ ~o.reservo
    BY <1>0 DEF FormaDeOp
  <2> HIDE DEF o
  <2>3. \A q \in Peticiones : MismaLlave(q)
    BY <1>0, <2>1, <2>2 DEF MismaLlave
  <2> QED
    BY <1>1, <1>3, <2>1, <2>2, <2>3, LlavesSiguen
<1>8. CASE Abandonar(p)
  <2>1. op' = [op EXCEPT ![p] = Libre]
    BY <1>8 DEF Abandonar, Fin
  <2>2. \A q \in Peticiones : MismaLlave(q)
    BY <1>0, <2>1, LibreTipada DEF MismaLlave
  <2> QED
    BY <1>1, <1>3, <2>1, <2>2, LibreTipada, LlavesSiguen
<1> QED
  BY <1>4, <1>5, <1>6, <1>7, <1>8

\* A confirmation that ends without doing anything: the proposal was resolved,
\* had expired, or its executor refused and the failure is written down.
LEMMA SinHacerConserva ==
    ASSUME UsoOK, NEW p \in Peticiones,
           RechazarNoPendiente(p) \/ MarcarVencida(p) \/ MarcarFallida(p)
    PROVE  UsoOK'
<1>0. /\ op \in [Peticiones -> FormaDeOp] /\ propuesta \in [Propuestas -> {Nada} \cup Filas]
      /\ llave \in [Llaves -> {Nada} \cup Guardadas]
  BY DEF UsoOK, TypeOK, FormaDeOp
<1>1. op' = [op EXCEPT ![p] = Libre] /\ UNCHANGED <<carga, barrido, turnoVars, efectos>>
      /\ op[p].fase \in {"TOMA", "FALLA"} /\ FilaLibre(op[p].a)
  BY DEF RechazarNoPendiente, MarcarVencida, MarcarFallida, Fin
<1>2. \A q \in Peticiones : op'[q] = IF q = p THEN Libre ELSE op[q]
  BY <1>0, <1>1
<1>3. op' \in [Peticiones -> FormaDeOp]
  BY <1>0, <1>1, LibreTipada
<1>4. PICK a \in Propuestas : a = op[p].a /\ propuesta[a] # Nada
  BY <1>1 DEF UsoOK, EnCurso
<1>5. propuesta[a] \in Filas
  BY <1>0, <1>4
<1>6. \A q \in Peticiones : op'[q].fase = "EJECUTA" => op'[q].a # a
  BY <1>1, <1>2, <1>4, LibreTipada DEF FilaLibre
<1>7. ASSUME LlavesOK', llave' \in [Llaves -> {Nada} \cup Guardadas],
             NEW s \in Estados \ {"PENDING"}, propuesta' = [propuesta EXCEPT ![a].estado = s]
      PROVE  UsoOK'
  <2> DEFINE f == [propuesta[a] EXCEPT !.estado = s]
  <2>1. /\ f \in Filas /\ f.version = propuesta[a].version /\ f.accion = propuesta[a].accion
        /\ f.hasta = propuesta[a].hasta /\ f.estado = s
    BY <1>5 DEF Filas
  <2>2. propuesta' = [propuesta EXCEPT ![a] = f]
    BY <1>0, <1>5, <1>7
  <2> HIDE DEF f
  <2>3. EnCurso' /\ SinUsar' /\ Vigentes' /\ Encontradas'
        /\ propuesta' \in [Propuestas -> {Nada} \cup Filas]
    BY <1>1, <1>2, <1>4, <1>6, <2>1, <2>2, EscribirPropuesta
  <2>4. TypeOK'
    BY <1>1, <1>3, <1>7, <2>3 DEF UsoOK, TypeOK, FormaDeOp, turnoVars
  <2> QED
    BY <1>7, <2>3, <2>4 DEF UsoOK
<1>8. CASE RechazarNoPendiente(p)
  <2>1. GuardarRespuesta(p, "409") /\ propuesta' = propuesta /\ op[p].fase = "TOMA"
    BY <1>8 DEF RechazarNoPendiente
  <2>2. LlavesOK' /\ llave' \in [Llaves -> {Nada} \cup Guardadas]
    BY <1>1, <2>1, GuardarConserva DEF Respuestas
  <2>3. EnCurso' /\ SinUsar' /\ Vigentes' /\ Encontradas'
    BY <1>1, <1>2, <2>1, LibreTipada, SinEscribir
  <2>4. TypeOK'
    BY <1>1, <1>3, <2>1, <2>2 DEF UsoOK, TypeOK, FormaDeOp, turnoVars
  <2> QED
    BY <2>2, <2>3, <2>4 DEF UsoOK
<1>9. CASE MarcarVencida(p)
  <2>1. GuardarRespuesta(p, "409") /\ op[p].fase = "TOMA"
        /\ propuesta' = [propuesta EXCEPT ![a].estado = "EXPIRED"]
    BY <1>4, <1>9 DEF MarcarVencida
  <2>2. LlavesOK' /\ llave' \in [Llaves -> {Nada} \cup Guardadas]
    BY <1>1, <2>1, GuardarConserva DEF Respuestas
  <2> QED
    BY <1>7, <2>1, <2>2 DEF Estados
<1>10. CASE MarcarFallida(p)
  <2>1. llave' = llave /\ propuesta' = [propuesta EXCEPT ![a].estado = "FAILED"]
    BY <1>4, <1>10 DEF MarcarFallida
  <2>2. \A q \in Peticiones : MismaLlave(q)
    BY <1>2, LibreTipada DEF MismaLlave
  <2> QED
    BY <1>0, <1>7, <2>1, <2>2, LlavesSiguen DEF Estados
<1> QED
  BY <1>8, <1>9, <1>10

\* The person rejects a proposal, or its half hour goes by.
LEMMA RechazarVencerConservan ==
    ASSUME UsoOK, NEW a \in Propuestas, Rechazar(a) \/ Vencer(a)
    PROVE  UsoOK'
<1>0. propuesta \in [Propuestas -> {Nada} \cup Filas]
  BY DEF UsoOK, TypeOK
<1>1. propuesta[a] # Nada /\ propuesta[a] \in Filas
      /\ UNCHANGED <<llave, carga, op, barrido, turnoVars, efectos>>
  BY <1>0 DEF Rechazar, Vencer
<1>2. LlavesOK'
  <2>1. \A q \in Peticiones : MismaLlave(q)
    BY <1>1 DEF MismaLlave
  <2> QED
    BY <1>1, <2>1, LlavesSiguen
<1>3. ASSUME NEW f \in Filas, propuesta' = [propuesta EXCEPT ![a] = f],
             f.version = propuesta[a].version, f.accion = propuesta[a].accion,
             f.hasta = propuesta[a].hasta, f.estado = "PENDING" => Pendiente(a),
             f.estado = propuesta[a].estado \/ FilaLibre(a)
      PROVE  UsoOK'
  <2>1. EnCurso' /\ SinUsar' /\ Vigentes' /\ Encontradas'
        /\ propuesta' \in [Propuestas -> {Nada} \cup Filas]
    BY <1>1, <1>3, EscribirPropuesta DEF FilaLibre
  <2>2. TypeOK'
    BY <1>1, <2>1 DEF UsoOK, TypeOK, turnoVars
  <2> QED
    BY <1>2, <2>1, <2>2 DEF UsoOK
<1>4. CASE Rechazar(a)
  <2>1. PICK s \in {"EXPIRED", "REJECTED"} : propuesta' = [propuesta EXCEPT ![a].estado = s]
    BY <1>4 DEF Rechazar
  <2> DEFINE f == [propuesta[a] EXCEPT !.estado = s]
  <2>2. /\ f \in Filas /\ f.version = propuesta[a].version /\ f.accion = propuesta[a].accion
        /\ f.hasta = propuesta[a].hasta /\ f.estado # "PENDING"
    BY <1>1 DEF Filas, Estados
  <2>3. propuesta' = [propuesta EXCEPT ![a] = f] /\ FilaLibre(a)
    BY <1>0, <1>1, <1>4, <2>1 DEF Rechazar
  <2> HIDE DEF f
  <2> QED
    BY <1>3, <2>2, <2>3
<1>5. CASE Vencer(a)
  <2> DEFINE f == [propuesta[a] EXCEPT !.vencida = TRUE]
  <2>1. /\ f \in Filas /\ f.version = propuesta[a].version /\ f.accion = propuesta[a].accion
        /\ f.hasta = propuesta[a].hasta /\ f.estado = propuesta[a].estado
    BY <1>1 DEF Filas
  <2>2. propuesta' = [propuesta EXCEPT ![a] = f]
    BY <1>0, <1>1, <1>5 DEF Vencer
  <2> HIDE DEF f
  <2> QED
    BY <1>1, <1>3, <2>1, <2>2 DEF Pendiente
<1> QED
  BY <1>4, <1>5

\* Every change of the shipment raises its version, so what was proposed of the
\* version before is not carried out any more.
LEMMA CargaAvanza ==
    ASSUME UsoOK, NEW paso \in 0 .. Tope, NEW d \in BOOLEAN, NEW n \in 1 .. MaxVersion,
           carga.version + n <= MaxVersion,
           carga' = [paso |-> paso, despacho |-> d, version |-> carga.version + n],
           \A a \in Propuestas : propuesta'[a] # Nada =>
               propuesta[a] # Nada /\ propuesta'[a].version = propuesta[a].version
    PROVE  Vigentes' /\ carga' \in [paso : 0 .. Tope, version : 1 .. MaxVersion, despacho : BOOLEAN]
<1>1. carga.version \in 1 .. MaxVersion /\ MaxVersion \in Nat
      /\ propuesta \in [Propuestas -> {Nada} \cup Filas]
  BY Parametros DEF UsoOK, TypeOK
<1>2. carga.version + n \in 1 .. MaxVersion /\ carga.version < carga.version + n
  BY <1>1
<1>3. carga'.version = carga.version + n
  OBVIOUS
<1>4. carga' \in [paso : 0 .. Tope, version : 1 .. MaxVersion, despacho : BOOLEAN]
  BY <1>2
<1>5. ASSUME NEW a \in Propuestas, propuesta'[a] # Nada
      PROVE  propuesta'[a].version < carga'.version /\ propuesta'[a].version \in Nat
  <2>1. propuesta[a] \in Filas /\ propuesta[a].version <= carga.version
        /\ propuesta'[a].version = propuesta[a].version
    BY <1>1, <1>5 DEF UsoOK, Vigentes
  <2>2. propuesta[a].version \in Nat
    BY <1>1, <2>1 DEF Filas
  <2> QED
    BY <1>1, <1>2, <1>3, <2>1, <2>2
<1>6. Vigentes'
  BY <1>1, <1>2, <1>3, <1>5 DEF Vigentes
<1> QED
  BY <1>4, <1>6

\* Only what is pending and held is done, and doing it resolves it.
LEMMA EjecutarConserva ==
    ASSUME UsoOK, NEW p \in Peticiones, Ejecutar(p)
    PROVE  UsoOK'
<1>0. /\ op \in [Peticiones -> FormaDeOp] /\ propuesta \in [Propuestas -> {Nada} \cup Filas]
      /\ llave \in [Llaves -> {Nada} \cup Guardadas] /\ efectos \in [Propuestas -> Nat]
      /\ carga.paso \in 0 .. Tope /\ carga.despacho \in BOOLEAN /\ carga.version \in 1 .. MaxVersion
      /\ MaxVersion \in Nat /\ Tope \in Nat
  BY Parametros DEF UsoOK, TypeOK, FormaDeOp
<1>1. op' = [op EXCEPT ![p] = Libre] /\ UNCHANGED <<barrido, turnoVars>> /\ op[p].fase = "EJECUTA"
      /\ GuardarRespuesta(p, "200")
  BY DEF Ejecutar, Fin
<1>2. PICK a \in Propuestas : a = op[p].a /\ Pendiente(a)
  BY <1>1 DEF UsoOK, EnCurso
<1>3. /\ efectos' = [efectos EXCEPT ![a] = @ + 1]
      /\ propuesta' = [propuesta EXCEPT ![a].estado = "CONFIRMED"]
      /\ \/ ConfirmarCambioEstado(propuesta[a]) \/ ConfirmarFactura(propuesta[a], op[p].campos)
         \/ ConfirmarDespacho(propuesta[a]) \/ ConfirmarPrealerta(propuesta[a], op[p].campos)
  BY <1>2 DEF Ejecutar
<1>4. propuesta[a] \in Filas /\ propuesta[a] # Nada
  BY <1>0, <1>2 DEF Pendiente
<1> DEFINE f == [propuesta[a] EXCEPT !.estado = "CONFIRMED"]
<1>5. /\ f \in Filas /\ f.version = propuesta[a].version /\ f.accion = propuesta[a].accion
      /\ f.hasta = propuesta[a].hasta /\ f.estado = "CONFIRMED" /\ f # Nada
  <2>1. f \in Filas
    BY <1>4 DEF Filas, Estados
  <2> QED
    BY <1>4, <2>1, Parametros DEF Filas
<1>6. \A b \in Propuestas : propuesta'[b] = IF b = a THEN f ELSE propuesta[b]
  BY <1>0, <1>3, <1>4
<1>7. propuesta' \in [Propuestas -> {Nada} \cup Filas]
  BY <1>0, <1>3, <1>4, <1>5
<1> HIDE DEF f
<1>8. \A q \in Peticiones : op'[q] = IF q = p THEN Libre ELSE op[q]
  BY <1>0, <1>1
<1>9. LlavesOK' /\ llave' \in [Llaves -> {Nada} \cup Guardadas]
  BY <1>1, GuardarConserva DEF Respuestas
<1>10. EnCurso'
  <2>1. \A b \in Propuestas : propuesta'[b] # Nada <=> propuesta[b] # Nada
    BY <1>4, <1>5, <1>6
  <2>2. ASSUME NEW q \in Peticiones, op'[q].fase = "EJECUTA"
        PROVE  /\ op'[q] = op[q] /\ op[q].a \in Propuestas /\ op[q].a # a
               /\ propuesta'[op[q].a] # Nada /\ propuesta'[op[q].a].estado = "PENDING"
    <3>1. q # p /\ op'[q] = op[q]
      BY <1>8, <2>2, LibreTipada
    <3>2. op[q].a \in Propuestas /\ op[q].a # a /\ Pendiente(op[q].a)
      BY <1>1, <1>2, <2>2, <3>1 DEF UsoOK, EnCurso
    <3> QED
      BY <1>6, <3>1, <3>2 DEF Pendiente
  <2>3. ASSUME NEW q \in Peticiones, op'[q].fase # "LIBRE"
        PROVE  op'[q].a \in Propuestas /\ propuesta'[op'[q].a] # Nada
    BY <1>8, <2>1, <2>3, LibreTipada DEF UsoOK, EnCurso
  <2>4. ASSUME NEW q \in Peticiones, NEW r \in Peticiones \ {q},
               op'[q].fase = "EJECUTA", op'[r].fase = "EJECUTA"
        PROVE  op'[r].a # op'[q].a
    BY <2>2, <2>4 DEF UsoOK, EnCurso
  <2> QED
    BY <2>2, <2>3, <2>4 DEF EnCurso, Pendiente
<1>11. SinUsar' /\ efectos' \in [Propuestas -> Nat]
  <2>1. efectos[a] = 0 /\ \A b \in Propuestas : efectos[b] <= 1
    BY <1>2 DEF UsoOK, SinUsar
  <2>2. \A b \in Propuestas : efectos'[b] = IF b = a THEN 1 ELSE efectos[b]
    BY <1>0, <1>3, <2>1
  <2>3. efectos' \in [Propuestas -> Nat]
    BY <1>0, <1>3, <2>1
  <2> QED
    BY <1>5, <1>6, <2>1, <2>2, <2>3 DEF UsoOK, SinUsar, Pendiente
<1>12. Encontradas'
  BY <1>1, <1>5, <1>6 DEF UsoOK, Encontradas, TypeOK
<1>13. \A b \in Propuestas : propuesta'[b] # Nada =>
          /\ propuesta[b] # Nada /\ propuesta'[b].version = propuesta[b].version
          /\ propuesta'[b].accion = propuesta[b].accion /\ propuesta'[b].hasta = propuesta[b].hasta
  BY <1>4, <1>5, <1>6
<1>14. Vigentes' /\ carga' \in [paso : 0 .. Tope, version : 1 .. MaxVersion, despacho : BOOLEAN]
  <2>1. ASSUME NEW paso \in 0 .. Tope, NEW d \in BOOLEAN, NEW n \in Nat \ {0}, Cambiar(paso, d, n)
        PROVE  Vigentes' /\ carga' \in [paso : 0 .. Tope, version : 1 .. MaxVersion, despacho : BOOLEAN]
    <3>1. carga.version + n <= MaxVersion
          /\ carga' = [paso |-> paso, despacho |-> d, version |-> carga.version + n]
      BY <2>1 DEF Cambiar
    <3>2. n \in 1 .. MaxVersion
      BY <1>0, <3>1
    <3> QED
      BY <1>13, <3>1, <3>2, CargaAvanza
  <2>2. CASE ConfirmarCambioEstado(propuesta[a])
    <3>1. /\ propuesta[a].accion = "ESTADO" /\ carga.version = propuesta[a].version
          /\ Cambiar(propuesta[a].hasta, carga.despacho, propuesta[a].hasta - carga.paso)
      BY <2>2 DEF ConfirmarCambioEstado
    <3>2. propuesta[a].hasta \in 0 .. Tope /\ carga.paso < propuesta[a].hasta
      BY <1>4, <3>1 DEF Filas, UsoOK, Vigentes
    <3>3. propuesta[a].hasta - carga.paso \in Nat \ {0}
      BY <1>0, <3>2
    <3> QED
      BY <1>0, <2>1, <3>1, <3>2, <3>3
  <2>3. CASE ConfirmarFactura(propuesta[a], op[p].campos)
    BY <1>0, <2>1, <2>3 DEF ConfirmarFactura
  <2>4. CASE ConfirmarDespacho(propuesta[a])
    <3>1. PICK d \in BOOLEAN : Cambiar(carga.paso, d, 1)
      BY <2>4, Zenon DEF ConfirmarDespacho
    <3> QED
      BY <1>0, <2>1, <3>1
  <2>5. CASE ConfirmarPrealerta(propuesta[a], op[p].campos)
    BY <1>13, <2>5 DEF ConfirmarPrealerta, UsoOK, Vigentes, TypeOK
  <2> QED
    BY <1>3, <2>2, <2>3, <2>4, <2>5
<1>15. TypeOK'
  <2>1. op' \in [Peticiones -> FormaDeOp]
    BY <1>0, <1>1, LibreTipada
  <2> QED
    BY <1>1, <1>7, <1>9, <1>11, <1>14, <2>1 DEF UsoOK, TypeOK, FormaDeOp, turnoVars
<1> QED
  BY <1>9, <1>10, <1>11, <1>12, <1>14, <1>15 DEF UsoOK

\* A turn of the model adds at most a proposal, of the shipment as it is; and
\* a change of status goes forward.
LEMMA TurnoConserva == UsoOK /\ Turno => UsoOK'
<1> SUFFICES ASSUME UsoOK, Turno PROVE UsoOK'
  OBVIOUS
<1>0. /\ propuesta \in [Propuestas -> {Nada} \cup Filas]
      /\ carga.paso \in 0 .. Tope /\ carga.version \in 1 .. MaxVersion
      /\ MaxVersion \in Nat /\ Tope \in Nat /\ MaxVueltas \in Nat /\ Limite \in Nat
  BY Parametros DEF UsoOK, TypeOK
<1>1. ASSUME UNCHANGED <<llave, op>>
      PROVE  LlavesOK'
  BY <1>1, LlavesSiguen DEF MismaLlave
<1>2. CASE Responder \/ Consultar \/ TerminarTurno \/ BorrarCharla
  <2>1. UNCHANGED <<propuesta, llave, carga, op, barrido, efectos>>
    BY <1>2 DEF Responder, Consultar, TerminarTurno, BorrarCharla
  <2>2. EnCurso' /\ SinUsar' /\ Vigentes' /\ Encontradas'
    BY <2>1 DEF UsoOK, EnCurso, SinUsar, Vigentes, Encontradas, Pendiente
  <2>3. turno' \in {Nada} \cup 0 .. MaxVueltas /\ cuota' \in 0 .. Limite
    BY <1>0, <1>2 DEF Responder, Consultar, TerminarTurno, BorrarCharla, UsoOK, TypeOK
  <2>4. charla' \in BOOLEAN
    BY <1>2 DEF Responder, Consultar, TerminarTurno, BorrarCharla, UsoOK, TypeOK
  <2>5. TypeOK'
    BY <2>1, <2>3, <2>4 DEF UsoOK, TypeOK
  <2> QED
    BY <1>1, <2>1, <2>2, <2>5 DEF UsoOK
<1>3. ASSUME NEW a \in Propuestas, NEW accion \in Acciones, NEW hasta \in 0 .. Tope,
             NEW completa \in BOOLEAN, accion = "ESTADO" => carga.paso < hasta,
             Preparar(a, accion, hasta, completa)
      PROVE  UsoOK'
  <2> DEFINE f == [accion |-> accion, estado |-> "PENDING", vencida |-> FALSE,
                   version |-> carga.version, hasta |-> hasta, completa |-> completa]
  <2>1. /\ propuesta[a] = Nada /\ propuesta' = [propuesta EXCEPT ![a] = f]
        /\ turno < MaxVueltas /\ turno # Nada /\ turno' = turno + 1
        /\ UNCHANGED <<llave, carga, op, barrido, cuota, charla, efectos>>
    BY <1>3 DEF Preparar
  <2>2. f \in Filas
    BY <1>0, <1>3 DEF Filas, Estados
  <2>3. f.version = carga.version /\ f.accion = accion /\ f.hasta = hasta /\ f # Nada
    BY <2>2, Parametros
  <2> HIDE DEF f
  <2>4. \A b \in Propuestas : propuesta'[b] = IF b = a THEN f ELSE propuesta[b]
    BY <1>0, <2>1
  <2>5. propuesta' \in [Propuestas -> {Nada} \cup Filas]
    BY <1>0, <2>1, <2>2
  <2>6. EnCurso'
    BY <2>1, <2>4 DEF UsoOK, EnCurso, Pendiente
  <2>7. SinUsar'
    BY <2>1, <2>4 DEF UsoOK, SinUsar, Pendiente
  <2>8. Vigentes'
    BY <1>0, <1>3, <2>1, <2>3, <2>4 DEF UsoOK, Vigentes
  <2>9. Encontradas'
    BY <2>1, <2>4 DEF UsoOK, Encontradas, TypeOK
  <2>10. TypeOK'
    <3>1. turno' \in 0 .. MaxVueltas
      BY <1>0, <2>1 DEF UsoOK, TypeOK
    <3> QED
      BY <2>1, <2>5, <3>1 DEF UsoOK, TypeOK
  <2> QED
    BY <1>1, <2>1, <2>6, <2>7, <2>8, <2>9, <2>10 DEF UsoOK
<1>4. ASSUME NEW a \in Propuestas,
             ProponerCambioEstado(a) \/ ProponerDespacho(a) \/ ProcesarFactura(a) \/ CrearPrealerta(a)
      PROVE  UsoOK'
  <2>1. CASE ProponerCambioEstado(a)
    <3>1. PICK hasta \in carga.paso + 1 .. Tope : Preparar(a, "ESTADO", hasta, TRUE)
      BY <2>1 DEF ProponerCambioEstado
    <3>2. hasta \in 0 .. Tope /\ carga.paso < hasta
      BY <1>0
    <3>3. TRUE \in BOOLEAN
      OBVIOUS
    <3> QED
      BY <1>3, <3>1, <3>2, <3>3 DEF Acciones
  <2>2. CASE ~ProponerCambioEstado(a)
    <3>1. PICK accion \in Acciones \ {"ESTADO"}, completa \in BOOLEAN :
            Preparar(a, accion, 0, completa)
      BY <1>4, <2>2 DEF ProponerDespacho, ProcesarFactura, CrearPrealerta, Acciones
    <3> QED
      BY <1>0, <1>3, <3>1
  <2> QED
    BY <2>1, <2>2
<1> QED
  BY <1>2, <1>4 DEF Turno

\* The sweep writes only proposals that nobody is executing, and what it writes
\* is not pending any more.
LEMMA BarridoConserva ==
    ASSUME UsoOK, Mirar \/ Expirar
    PROVE  UsoOK'
<1>0. propuesta \in [Propuestas -> {Nada} \cup Filas] /\ barrido \subseteq Propuestas
  BY DEF UsoOK, TypeOK
<1>1. UNCHANGED <<llave, carga, op, turnoVars, efectos>>
  BY DEF Mirar, Expirar
<1>2. LlavesOK'
  BY <1>1, LlavesSiguen DEF MismaLlave
<1>3. CASE Mirar
  <2>1. propuesta' = propuesta /\ barrido' \subseteq Vencidas
    BY <1>3 DEF Mirar
  <2>2. EnCurso' /\ SinUsar' /\ Vigentes'
    BY <1>1, <2>1 DEF UsoOK, EnCurso, SinUsar, Vigentes, Pendiente
  <2>3. Encontradas'
    BY <2>1 DEF Encontradas, Vencidas
  <2>4. TypeOK'
    BY <1>1, <2>1 DEF UsoOK, TypeOK, turnoVars, Vencidas
  <2> QED
    BY <1>2, <2>2, <2>3, <2>4 DEF UsoOK
<1>4. CASE Expirar
  <2> DEFINE f(a) == [propuesta[a] EXCEPT !.estado = "EXPIRED"]
  <2>1. /\ propuesta' = [a \in Propuestas |-> IF a \in barrido THEN f(a) ELSE propuesta[a]]
        /\ barrido' = {} /\ \A a \in barrido : FilaLibre(a)
    BY <1>4 DEF Expirar
  <2>2. ASSUME NEW a \in barrido
        PROVE  /\ f(a) \in Filas /\ f(a) # Nada /\ f(a).estado = "EXPIRED"
               /\ f(a).version = propuesta[a].version /\ f(a).accion = propuesta[a].accion
               /\ f(a).hasta = propuesta[a].hasta /\ propuesta[a] # Nada
    <3>1. propuesta[a] \in Filas /\ propuesta[a] # Nada
      BY <1>0 DEF UsoOK, Encontradas
    <3>2. f(a) \in Filas
      BY <3>1 DEF Filas, Estados
    <3> QED
      BY <3>1, <3>2, Parametros DEF Filas
  <2> HIDE DEF f
  <2>3. \A a \in Propuestas : propuesta'[a] = IF a \in barrido THEN f(a) ELSE propuesta[a]
    BY <2>1
  <2>4. propuesta' \in [Propuestas -> {Nada} \cup Filas]
    BY <1>0, <2>1, <2>2
  <2>5. EnCurso'
    <3>1. ASSUME NEW q \in Peticiones, op[q].fase = "EJECUTA"
          PROVE  op[q].a \in Propuestas \ barrido
      BY <2>1, <3>1 DEF FilaLibre, UsoOK, EnCurso
    <3> QED
      BY <1>1, <2>2, <2>3, <3>1 DEF UsoOK, EnCurso, Pendiente
  <2>6. SinUsar'
    BY <1>1, <2>2, <2>3 DEF UsoOK, SinUsar, Pendiente
  <2>7. Vigentes'
    BY <1>1, <2>2, <2>3 DEF UsoOK, Vigentes
  <2>8. Encontradas'
    BY <2>1 DEF Encontradas
  <2>9. TypeOK'
    BY <1>1, <2>1, <2>4 DEF UsoOK, TypeOK, turnoVars
  <2> QED
    BY <1>2, <2>5, <2>6, <2>7, <2>8, <2>9 DEF UsoOK
<1> QED
  BY <1>3, <1>4

\* A key that grew old is still in the table.
LEMMA CaducarConserva ==
    ASSUME UsoOK, NEW k \in Llaves, CaducarLlave(k)
    PROVE  UsoOK'
<1>0. llave \in [Llaves -> {Nada} \cup Guardadas] /\ op \in [Peticiones -> FormaDeOp]
  BY DEF UsoOK, TypeOK, FormaDeOp
<1> DEFINE f == [llave[k] EXCEPT !.viva = FALSE]
<1>1. /\ llave[k] # Nada /\ llave' = [llave EXCEPT ![k] = f]
      /\ UNCHANGED <<propuesta, carga, op, barrido, turnoVars, efectos>>
  BY <1>0 DEF CaducarLlave
<1>2. f \in Guardadas /\ f.respuesta = llave[k].respuesta /\ f # Nada
  <2>1. f \in Guardadas
    BY <1>0, <1>1 DEF Guardadas
  <2> QED
    BY <1>0, <1>1, <2>1, Parametros DEF Guardadas
<1> HIDE DEF f
<1>3. \A l \in Llaves : llave'[l] = IF l = k THEN f ELSE llave[l]
  BY <1>0, <1>1
<1>4. TypeOK'
  BY <1>0, <1>1, <1>2 DEF UsoOK, TypeOK, turnoVars
<1>5. \A q \in Peticiones : op[q].k \in Llaves \cup {Nada}
  BY <1>0 DEF FormaDeOp
<1>6. LlaveConRespuesta'
  BY <1>1, <1>2, <1>3 DEF UsoOK, LlavesOK, LlaveConRespuesta
<1>7. LlavesOK'
  BY <1>1, <1>2, <1>3, <1>5, <1>6 DEF UsoOK, LlavesOK, ConLlave
<1>8. EnCurso' /\ SinUsar' /\ Vigentes' /\ Encontradas'
  BY <1>1 DEF UsoOK, EnCurso, SinUsar, Vigentes, Encontradas, Pendiente
<1> QED
  BY <1>4, <1>7, <1>8 DEF UsoOK

\* Somebody changes the shipment from its own screen.
LEMMA CambiarCargaConserva ==
    ASSUME UsoOK, CambiarCarga
    PROVE  UsoOK'
<1>0. /\ carga \in [paso : 0 .. Tope, version : 1 .. MaxVersion, despacho : BOOLEAN]
      /\ MaxVersion \in Nat \ {0} /\ Tope \in Nat
  BY Parametros DEF UsoOK, TypeOK
<1>1. PICK n \in {carga.paso, carga.paso + 1} :
        n <= Tope /\ carga' = [carga EXCEPT !.paso = n, !.version = @ + 1]
  BY DEF CambiarCarga
<1>2. carga.version < MaxVersion /\ UNCHANGED <<propuesta, llave, op, barrido, turnoVars, efectos>>
  BY DEF CambiarCarga
<1>3. /\ n \in 0 .. Tope /\ 1 \in 1 .. MaxVersion /\ carga.version + 1 <= MaxVersion
      /\ carga' = [paso |-> n, despacho |-> carga.despacho, version |-> carga.version + 1]
      /\ carga.despacho \in BOOLEAN
  <2>1. n \in 0 .. Tope /\ 1 \in 1 .. MaxVersion /\ carga.version + 1 <= MaxVersion
    BY <1>0, <1>1, <1>2
  <2>2. carga' = [paso |-> n, despacho |-> carga.despacho, version |-> carga.version + 1]
    BY <1>0, <1>1
  <2>3. carga.despacho \in BOOLEAN
    BY <1>0
  <2> QED
    BY <2>1, <2>2, <2>3
<1>4. Vigentes' /\ carga' \in [paso : 0 .. Tope, version : 1 .. MaxVersion, despacho : BOOLEAN]
  BY <1>2, <1>3, CargaAvanza
<1>5. LlavesOK'
  BY <1>2, LlavesSiguen DEF MismaLlave
<1>6. EnCurso' /\ SinUsar' /\ Encontradas'
  BY <1>2 DEF UsoOK, EnCurso, SinUsar, Encontradas, Pendiente
<1>7. TypeOK'
  BY <1>2, <1>4 DEF UsoOK, TypeOK, turnoVars
<1> QED
  BY <1>4, <1>5, <1>6, <1>7 DEF UsoOK

\* Every step keeps the invariant.
LEMMA UsoPaso == UsoOK /\ [Next]_vars => UsoOK'
<1> SUFFICES ASSUME UsoOK, [Next]_vars PROVE UsoOK'
  OBVIOUS
<1>1. ASSUME NEW p \in Peticiones, Confirmacion(p)
      PROVE  UsoOK'
  BY <1>1, ConfirmacionConserva, SinHacerConserva, EjecutarConserva DEF Confirmacion
<1>2. ASSUME NEW a \in Propuestas, Rechazar(a) \/ Vencer(a)
      PROVE  UsoOK'
  BY <1>2, RechazarVencerConservan
<1>3. CASE Turno \/ Mirar \/ Expirar \/ CambiarCarga
  BY <1>3, TurnoConserva, BarridoConserva, CambiarCargaConserva
<1>4. ASSUME NEW k \in Llaves, CaducarLlave(k)
      PROVE  UsoOK'
  BY <1>4, CaducarConserva
<1>5. CASE UNCHANGED vars
  <2>1. LlavesOK'
    BY <1>5, LlavesSiguen DEF vars, MismaLlave
  <2> QED
    BY <1>5, <2>1
       DEF vars, turnoVars, UsoOK, TypeOK, EnCurso, SinUsar, Vigentes, Encontradas, Pendiente
<1> QED
  BY <1>1, <1>2, <1>3, <1>4, <1>5 DEF Next

\* The invariant holds throughout.
LEMMA UsoSiempre == Spec => []UsoOK
<1> QED
  BY UsoInicial, UsoPaso, PTL DEF Spec

-----------------------------------------------------------------------------
\* The proposals, the keys and the shipment keep their form: in particular no
\* confirmation takes the shipment backwards.
THEOREM TipoCorrecto == Spec => []TypeOK
<1>1. UsoOK => TypeOK
  BY DEF UsoOK
<1> QED
  BY <1>1, UsoSiempre, PTL

\* The action of a proposal is done at most once, however many confirmations,
\* retries, failures and sweeps there are.
THEOREM UnSoloUsoSiempre == Spec => []UnSoloUso
<1>1. UsoOK => UnSoloUso
  BY DEF UsoOK, SinUsar, UnSoloUso
<1> QED
  BY <1>1, UsoSiempre, PTL

\* A key that is found has an answer, whichever request reserved it and however
\* it ended.
THEOREM LlaveConRespuestaSiempre == Spec => []LlaveConRespuesta
<1>1. UsoOK => LlaveConRespuesta
  BY DEF UsoOK, LlavesOK
<1> QED
  BY <1>1, UsoSiempre, PTL
===============================================================================
