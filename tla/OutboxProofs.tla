----------------------------- MODULE OutboxProofs -----------------------------
(***************************************************************************)
(* What holds of Outbox for any number of events, recipients and runs that *)
(* overlap, and for any limits: a settled event is never touched again.    *)
(* A run writes, when it commits, the outcome of events it claimed long    *)
(* before; what makes that safe is that an event in somebody's hands is    *)
(* still pending and is in nobody else's.                                  *)
(***************************************************************************)
EXTENDS Outbox, FiniteSetTheorems, TLAPS

\* The events a run has claimed and not committed.
Manos(w) == (tx[w].lote \cup {tx[w].actual} \cup tx[w].entregados \cup tx[w].fallidos)
            \ {Ninguno}

FormaDeTx ==
    [lote : SUBSET Eventos, actual : Eventos \cup {Ninguno},
     hechos : SUBSET Destinos, avisos : SUBSET Aviso,
     entregados : SUBSET Eventos, fallidos : SUBSET Eventos, gastado : Int]

\* Exclusivity, with as much of the types as it needs.
Exclusivo ==
    /\ tx \in [Trabajadores -> FormaDeTx]
    /\ status \in [Eventos -> {"SIN_PUBLICAR", "PENDING", "DONE", "FAILED"}]
    /\ intentos \in [Eventos -> Int]
    /\ avisos \subseteq Aviso
    /\ \A w \in Trabajadores : \A e \in Manos(w) : status[e] = "PENDING"
    /\ \A v, w \in Trabajadores : v # w => Manos(v) \cap Manos(w) = {}

\* A run that has not claimed anything holds nothing.
LEMMA LibreSinManos ==
    ASSUME NEW w \in Trabajadores, tx[w] = Libre
    PROVE  Manos(w) = {}
  BY DEF Libre, Manos

\* An open transaction of nobody's events has the right form.
LEMMA FormaDeLibre == Libre \in FormaDeTx
  BY DEF Libre, FormaDeTx

\* At the start nobody holds anything.
LEMMA ExclusivoInicial == Init => Exclusivo
<1> SUFFICES ASSUME Init PROVE Exclusivo
  OBVIOUS
<1>1. \A w \in Trabajadores : tx[w] = Libre
  BY DEF Init
<1>2. \A w \in Trabajadores : Manos(w) = {}
  BY <1>1, LibreSinManos
<1> QED
  BY <1>2, FormaDeLibre DEF Init, Exclusivo

\* A step that replaces the transaction of run w changes no other's hands.
LEMMA ManosAjenas ==
    ASSUME Exclusivo, NEW w \in Trabajadores, NEW t \in FormaDeTx,
           tx' = [tx EXCEPT ![w] = t]
    PROVE  /\ tx' \in [Trabajadores -> FormaDeTx]
           /\ tx'[w] = t
           /\ \A v \in Trabajadores \ {w} : Manos(v)' = Manos(v)
           /\ Manos(w)' = (t.lote \cup {t.actual} \cup t.entregados \cup t.fallidos) \ {Ninguno}
  BY DEF Exclusivo, Manos

\* A step of run w that claims nothing new, while events stay as they are.
LEMMA PasoDeTx ==
    ASSUME Exclusivo, NEW w \in Trabajadores, NEW t \in FormaDeTx,
           tx' = [tx EXCEPT ![w] = t],
           (t.lote \cup {t.actual} \cup t.entregados \cup t.fallidos) \ {Ninguno}
             \subseteq Manos(w),
           UNCHANGED <<status, intentos, avisos>>
    PROVE  Exclusivo'
<1>1. \A v \in Trabajadores : Manos(v)' \subseteq Manos(v)
  BY ManosAjenas
<1>2. tx' \in [Trabajadores -> FormaDeTx]
  BY ManosAjenas
<1> QED
  BY <1>1, <1>2 DEF Exclusivo

\* Losing a transaction gives its events back as they were.
LEMMA PerderConserva ==
    ASSUME Exclusivo, NEW w \in Trabajadores, Perder(w)
    PROVE  Exclusivo'
<1>1. (Libre.lote \cup {Libre.actual} \cup Libre.entregados \cup Libre.fallidos) \ {Ninguno} = {}
  BY DEF Libre
<1> QED
  BY <1>1, FormaDeLibre, PasoDeTx DEF Perder, eventoVars

\* Claiming takes pending events that nobody holds.
LEMMA ReclamarConserva ==
    ASSUME Exclusivo, NEW w \in Trabajadores, NEW S \in SUBSET Eventos, Reclamar(w, S)
    PROVE  Exclusivo'
<1> DEFINE t == [Libre EXCEPT !.lote = S]
<1>1. t \in FormaDeTx /\ tx' = [tx EXCEPT ![w] = t]
  BY DEF Reclamar, Exclusivo, FormaDeTx, Libre
<1>2. Manos(w)' = S
  <2>1. t.lote = S /\ t.actual = Ninguno /\ t.entregados = {} /\ t.fallidos = {}
    BY DEF Libre
  <2> HIDE DEF t
  <2>2. Manos(w)' = (t.lote \cup {t.actual} \cup t.entregados \cup t.fallidos) \ {Ninguno}
    BY <1>1, ManosAjenas
  <2> QED
    BY <2>1, <2>2, Parametros
<1>3. \A v \in Trabajadores \ {w} : Manos(v)' = Manos(v)
  BY <1>1, ManosAjenas
<1>4. \A v \in Trabajadores : Manos(v) \cap S = {}
  BY DEF Reclamar, Reclamables, Bloqueados, Manos
<1>5. \A e \in S : status[e] = "PENDING"
  BY DEF Reclamar, Reclamables
<1>6. UNCHANGED <<status, intentos, avisos>> /\ tx' \in [Trabajadores -> FormaDeTx]
  BY <1>1, ManosAjenas DEF Reclamar, eventoVars
<1> HIDE DEF t
<1> QED
  BY <1>2, <1>3, <1>4, <1>5, <1>6 DEF Exclusivo

\* What the commit of run w writes to the events: only to those it holds.
LEMMA EfectoDeConfirmar ==
    ASSUME Exclusivo, NEW w \in Trabajadores, Confirmar(w)
    PROVE  /\ status' \in [Eventos -> {"SIN_PUBLICAR", "PENDING", "DONE", "FAILED"}]
           /\ intentos' \in [Eventos -> Int]
           /\ avisos' \subseteq Aviso
           /\ \A e \in Eventos \ Manos(w) :
                status'[e] = status[e] /\ intentos'[e] = intentos[e]
           /\ tx' = [tx EXCEPT ![w] = Libre]
<1>1. tx[w] \in FormaDeTx
  BY DEF Exclusivo
<1>2. tx[w].entregados \cup tx[w].fallidos \subseteq Manos(w)
  BY <1>1, Parametros DEF Manos, FormaDeTx
<1>3. \A e \in Eventos : status[e] \in {"SIN_PUBLICAR", "PENDING", "DONE", "FAILED"}
                          /\ intentos[e] \in Int
  BY DEF Exclusivo
<1>4. intentos' = [e \in Eventos |-> IF e \in tx[w].fallidos \cup tx[w].entregados
                                     THEN Contar(intentos[e]) ELSE intentos[e]]
  BY DEF Confirmar
<1>5. status' = [e \in Eventos |->
                   IF e \in tx[w].entregados THEN "DONE"
                   ELSE IF e \in tx[w].fallidos /\ Agotado(Contar(intentos[e])) THEN "FAILED"
                   ELSE status[e]]
  BY DEF Confirmar
<1>6. tx' = [tx EXCEPT ![w] = Libre]
  BY DEF Confirmar
<1>7. intentos' \in [Eventos -> Int]
  BY <1>3, <1>4 DEF Contar
<1>8. status' \in [Eventos -> {"SIN_PUBLICAR", "PENDING", "DONE", "FAILED"}]
  BY <1>3, <1>5
<1>9. \A e \in Eventos \ Manos(w) : status'[e] = status[e] /\ intentos'[e] = intentos[e]
  BY <1>2, <1>4, <1>5
<1>10. avisos' \subseteq Aviso
  BY <1>1 DEF Confirmar, Mias, Exclusivo, FormaDeTx
<1> QED
  BY <1>6, <1>7, <1>8, <1>9, <1>10

\* The commit settles events of one run's hands, which it opens.
LEMMA ConfirmarConserva ==
    ASSUME Exclusivo, NEW w \in Trabajadores, Confirmar(w)
    PROVE  Exclusivo'
<1>1. tx' \in [Trabajadores -> FormaDeTx] /\ tx'[w] = Libre
  BY EfectoDeConfirmar, FormaDeLibre, ManosAjenas
<1>2. Manos(w)' = {}
  BY <1>1 DEF Manos, Libre
<1>3. \A v \in Trabajadores \ {w} : Manos(v)' = Manos(v)
  BY EfectoDeConfirmar, FormaDeLibre, ManosAjenas
<1>4. \A v \in Trabajadores : Manos(v) \subseteq Eventos
  BY DEF Exclusivo, Manos, FormaDeTx
<1>5. \A v \in Trabajadores \ {w} : \A e \in Manos(v) : status'[e] = status[e]
  BY <1>4, EfectoDeConfirmar DEF Exclusivo
<1> QED
  BY <1>1, <1>2, <1>3, <1>5, EfectoDeConfirmar DEF Exclusivo

\* Walking a batch moves events from one hand to the other and takes no new one.
LEMMA ManejarConserva ==
    ASSUME Exclusivo, NEW w \in Trabajadores,
           \/ \E e \in Eventos : EmpezarEvento(w, e)
           \/ \E r \in Destinos : AtenderSinCorreo(w, r)
           \/ \E r \in Destinos : EnviarBien(w, r)
           \/ \E r \in Destinos : \E demora, llegan \in {0, 1} : EnviarMal(w, r, demora, llegan)
           \/ TerminarEvento(w)
    PROVE  Exclusivo'
<1>0. tx[w] \in FormaDeTx /\ tx \in [Trabajadores -> FormaDeTx]
  BY DEF Exclusivo
<1>1. ASSUME NEW e \in Eventos, EmpezarEvento(w, e)
      PROVE  Exclusivo'
  <2> DEFINE t == [tx[w] EXCEPT !.actual = e, !.lote = @ \ {e}, !.hechos = {}]
  <2>1. t \in FormaDeTx /\ tx' = [tx EXCEPT ![w] = t] /\ UNCHANGED <<status, intentos, avisos>>
    BY <1>0, <1>1 DEF EmpezarEvento, FormaDeTx, eventoVars
  <2>2. (t.lote \cup {t.actual} \cup t.entregados \cup t.fallidos) \ {Ninguno} \subseteq Manos(w)
    BY <1>0, <1>1, Parametros DEF EmpezarEvento, Manos, FormaDeTx
  <2> HIDE DEF t
  <2> QED
    BY <2>1, <2>2, PasoDeTx
<1>2. ASSUME NEW r \in Destinos, AtenderSinCorreo(w, r)
      PROVE  Exclusivo'
  <2> DEFINE n == [por |-> tx[w].actual, a |-> r, correo |-> "SKIPPED"]
             t1 == [tx[w] EXCEPT !.hechos = @ \cup {r}]
             t2 == [tx[w] EXCEPT !.hechos = @ \cup {r}, !.avisos = @ \cup {n}]
  <2>1. n \in Aviso
    BY <1>0, <1>2 DEF AtenderSinCorreo, FormaDeTx, Aviso
  <2>2. t1 \in FormaDeTx /\ t2 \in FormaDeTx
    BY <1>0, <2>1 DEF FormaDeTx
  <2>3. tx' = [tx EXCEPT ![w] = t1] \/ tx' = [tx EXCEPT ![w] = t2]
    BY <1>0, <1>2 DEF AtenderSinCorreo
  <2>4. PICK t \in {t1, t2} : tx' = [tx EXCEPT ![w] = t]
    BY <2>3
  <2>5. /\ t.lote = tx[w].lote /\ t.actual = tx[w].actual
        /\ t.entregados = tx[w].entregados /\ t.fallidos = tx[w].fallidos
    BY <1>0, <2>4 DEF FormaDeTx
  <2>6. UNCHANGED <<status, intentos, avisos>>
    BY <1>2 DEF AtenderSinCorreo, eventoVars
  <2>7. t \in FormaDeTx
    BY <2>2, <2>4
  <2> HIDE DEF t1, t2
  <2> QED
    BY <2>4, <2>5, <2>6, <2>7, PasoDeTx DEF Manos
<1>3. ASSUME NEW r \in Destinos, NEW x \in PorEnviar(w, r)
      PROVE  /\ tx[w].actual \in Eventos
             /\ x \in Aviso
             /\ [x EXCEPT !.correo = "SENT"] \in Aviso
  <2>1. tx[w].actual \in Eventos
    BY <1>0, <1>3 DEF PorEnviar, FormaDeTx
  <2>2. x \in Aviso
    <3>1. CASE x \in PorReintentar(w, tx[w].actual, r)
      BY <1>0, <3>1 DEF PorReintentar, Visibles, Mias, Exclusivo, FormaDeTx
    <3>2. CASE x \in {[por |-> tx[w].actual, a |-> r, correo |-> "FAILED"]}
      BY <2>1, <3>2 DEF Aviso
    <3> QED
      BY <1>3, <3>1, <3>2 DEF PorEnviar
  <2> QED
    BY <2>1, <2>2 DEF Aviso
<1>4. ASSUME NEW r \in Destinos, EnviarBien(w, r)
      PROVE  Exclusivo'
  <2>1. PICK x \in PorEnviar(w, r) :
          tx' = [tx EXCEPT ![w].hechos = @ \cup {r},
                           ![w].avisos = Reemplazar(@, [x EXCEPT !.correo = "SENT"])]
    BY <1>4 DEF EnviarBien
  <2> DEFINE t == [tx[w] EXCEPT !.hechos = @ \cup {r},
                                !.avisos = Reemplazar(@, [x EXCEPT !.correo = "SENT"])]
  <2>2. Reemplazar(tx[w].avisos, [x EXCEPT !.correo = "SENT"]) \subseteq Aviso
    BY <1>0, <1>3 DEF Reemplazar, FormaDeTx
  <2>3. t \in FormaDeTx
    BY <1>0, <2>2 DEF FormaDeTx
  <2>4. tx' = [tx EXCEPT ![w] = t]
    BY <1>0, <2>1
  <2>5. /\ t.lote = tx[w].lote /\ t.actual = tx[w].actual
        /\ t.entregados = tx[w].entregados /\ t.fallidos = tx[w].fallidos
    BY <1>0 DEF FormaDeTx
  <2>6. UNCHANGED <<status, intentos, avisos>>
    BY <1>4 DEF EnviarBien, eventoVars
  <2> HIDE DEF t
  <2> QED
    BY <2>3, <2>4, <2>5, <2>6, PasoDeTx DEF Manos
<1>5. ASSUME NEW r \in Destinos, NEW demora \in {0, 1}, NEW llegan \in {0, 1},
             EnviarMal(w, r, demora, llegan)
      PROVE  Exclusivo'
  <2>1. PICK x \in PorEnviar(w, r) :
          tx' = [tx EXCEPT ![w].avisos = Reemplazar(@, x),
                           ![w].fallidos = @ \cup {tx[w].actual},
                           ![w].actual = Ninguno,
                           ![w].hechos = {},
                           ![w].gastado = @ + demora]
    BY <1>5 DEF EnviarMal
  <2> DEFINE t == [tx[w] EXCEPT !.avisos = Reemplazar(@, x),
                                !.fallidos = @ \cup {tx[w].actual},
                                !.actual = Ninguno,
                                !.hechos = {},
                                !.gastado = @ + demora]
  <2>2. Reemplazar(tx[w].avisos, x) \subseteq Aviso
    BY <1>0, <1>3 DEF Reemplazar, FormaDeTx
  <2>3. t \in FormaDeTx
    <3>1. /\ tx[w].gastado + demora \in Int
          /\ tx[w].fallidos \cup {tx[w].actual} \in SUBSET Eventos
      <4>1. tx[w].gastado \in Int /\ tx[w].fallidos \in SUBSET Eventos
        BY <1>0 DEF FormaDeTx
      <4>2. tx[w].actual \in Eventos
        BY <1>3
      <4>3. demora \in Int
        OBVIOUS
      <4> HIDE DEF t
      <4> QED
        BY <4>1, <4>2, <4>3
    <3>2. t = [tx[w] EXCEPT !.avisos = Reemplazar(tx[w].avisos, x),
                            !.fallidos = tx[w].fallidos \cup {tx[w].actual},
                            !.actual = Ninguno, !.hechos = {},
                            !.gastado = tx[w].gastado + demora]
      OBVIOUS
    <3> QED
      BY <1>0, <2>2, <3>1, <3>2 DEF FormaDeTx
  <2>4. tx' = [tx EXCEPT ![w] = t]
    BY <1>0, <2>1
  <2>5. /\ t.lote = tx[w].lote /\ t.actual = Ninguno
        /\ t.entregados = tx[w].entregados
        /\ t.fallidos = tx[w].fallidos \cup {tx[w].actual}
    BY <1>0 DEF FormaDeTx
  <2>6. UNCHANGED <<status, intentos, avisos>>
    BY <1>5 DEF EnviarMal, eventoVars
  <2> HIDE DEF t
  <2> QED
    BY <2>3, <2>4, <2>5, <2>6, PasoDeTx DEF Manos
<1>6. ASSUME TerminarEvento(w)
      PROVE  Exclusivo'
  <2> DEFINE t == [tx[w] EXCEPT !.entregados = @ \cup {tx[w].actual},
                                !.actual = Ninguno, !.hechos = {}]
  <2>1. t \in FormaDeTx /\ tx' = [tx EXCEPT ![w] = t]
    BY <1>0, <1>6 DEF TerminarEvento, FormaDeTx
  <2>2. /\ t.lote = tx[w].lote /\ t.actual = Ninguno
        /\ t.entregados = tx[w].entregados \cup {tx[w].actual}
        /\ t.fallidos = tx[w].fallidos
    BY <1>0 DEF FormaDeTx
  <2>3. UNCHANGED <<status, intentos, avisos>>
    BY <1>6 DEF TerminarEvento, eventoVars
  <2> HIDE DEF t
  <2> QED
    BY <2>1, <2>2, <2>3, PasoDeTx DEF Manos
<1> QED
  BY <1>1, <1>2, <1>4, <1>5, <1>6

\* Exclusivity is inductive.
LEMMA ExclusivoPaso == Exclusivo /\ [Next]_vars => Exclusivo'
<1> SUFFICES ASSUME Exclusivo, [Next]_vars
             PROVE  Exclusivo'
  OBVIOUS
<1>1. ASSUME NEW e \in Eventos, Publicar(e)
      PROVE  Exclusivo'
  <2>1. \A w \in Trabajadores : Manos(w)' = Manos(w)
    BY <1>1 DEF Publicar, Manos
  <2>2. /\ UNCHANGED <<tx, intentos, avisos>>
        /\ status' = [status EXCEPT ![e] = "PENDING"]
    BY <1>1 DEF Publicar
  <2> QED
    BY <2>1, <2>2 DEF Exclusivo
<1>2. ASSUME NEW e \in Eventos, Esperar(e)
      PROVE  Exclusivo'
  BY <1>2 DEF Esperar, Exclusivo, Manos
<1>3. ASSUME NEW w \in Trabajadores, Trabajar(w)
      PROVE  Exclusivo'
  BY <1>3, ReclamarConserva, ManejarConserva, ConfirmarConserva, PerderConserva
     DEF Trabajar, Matar
<1>4. ASSUME NEW w \in Trabajadores, Caer(w)
      PROVE  Exclusivo'
  BY <1>4, PerderConserva DEF Caer
<1>5. CASE UNCHANGED vars
  BY <1>5 DEF vars, eventoVars, Exclusivo, Manos
<1> QED
  BY <1>1, <1>2, <1>3, <1>4, <1>5 DEF Next

\* Overlapping runs never hold the same event, and hold pending ones only.
LEMMA ExclusivoSiempre == Spec => []Exclusivo
  BY ExclusivoInicial, ExclusivoPaso, PTL DEF Spec

-----------------------------------------------------------------------------
Final ==
    \A e \in Eventos :
        status[e] \in {"DONE", "FAILED"} =>
            status'[e] = status[e] /\ intentos'[e] = intentos[e]

\* No step touches a settled event: a run commits on pending events only.
LEMMA PasoFinal == Exclusivo /\ [Next]_vars => Final
<1> SUFFICES ASSUME Exclusivo, [Next]_vars
             PROVE  Final
  OBVIOUS
<1>1. ASSUME UNCHANGED <<status, intentos>>
      PROVE  Final
  BY <1>1 DEF Final
<1>2. ASSUME NEW e \in Eventos, Publicar(e) \/ Esperar(e)
      PROVE  Final
  BY <1>2 DEF Publicar, Esperar, Final, Exclusivo
<1>3. ASSUME NEW w \in Trabajadores, Confirmar(w)
      PROVE  Final
  <2>1. \A e \in Manos(w) : status[e] = "PENDING"
    BY DEF Exclusivo
  <2> QED
    BY <1>3, <2>1, EfectoDeConfirmar DEF Final
<1>4. ASSUME NEW w \in Trabajadores, Trabajar(w), ~Confirmar(w)
      PROVE  Final
  BY <1>1, <1>4
     DEF Trabajar, Reclamar, EmpezarEvento, AtenderSinCorreo, EnviarBien, EnviarMal,
         TerminarEvento, Matar, Perder, eventoVars
<1>5. ASSUME NEW w \in Trabajadores, Caer(w)
      PROVE  Final
  BY <1>1, <1>5 DEF Caer, Perder, eventoVars
<1>6. CASE UNCHANGED vars
  BY <1>1, <1>6 DEF vars, eventoVars
<1> QED
  BY <1>2, <1>3, <1>4, <1>5, <1>6 DEF Next

\* A settled event stays settled, with the attempts it took, however many runs
\* overlap and however late they commit.
THEOREM ResueltoEsFinalSiempre == Spec => ResueltoEsFinal
<1>1. Exclusivo /\ [Next]_vars => [Final]_vars
  BY PasoFinal
<1>2. Spec => [][Final]_vars
  BY <1>1, ExclusivoSiempre, PTL DEF Spec
<1>3. [Final]_vars => [\A e \in Eventos :
         status[e] \in {"DONE", "FAILED"} =>
            status'[e] = status[e] /\ intentos'[e] = intentos[e]]_vars
  BY DEF Final
<1> QED
  BY <1>2, <1>3, PTL DEF ResueltoEsFinal

-----------------------------------------------------------------------------
\* What a run's steps do to its open transaction, field by field.
Solo(w) == \A v \in Trabajadores \ {w} : tx'[v] = tx[v]

\* Taking an event out of the batch.
LEMMA EfectoDeEmpezar ==
    ASSUME Exclusivo, NEW w \in Trabajadores, NEW e \in Eventos, EmpezarEvento(w, e)
    PROVE  /\ Solo(w)
           /\ tx'[w].lote = tx[w].lote \ {e} /\ tx'[w].actual = e /\ tx'[w].hechos = {}
           /\ tx'[w].avisos = tx[w].avisos /\ tx'[w].entregados = tx[w].entregados
           /\ tx'[w].fallidos = tx[w].fallidos /\ tx'[w].gastado = tx[w].gastado
<1> DEFINE t == [tx[w] EXCEPT !.actual = e, !.lote = @ \ {e}, !.hechos = {}]
<1>1. tx' = [tx EXCEPT ![w] = t] /\ tx[w] \in FormaDeTx /\ tx \in [Trabajadores -> FormaDeTx]
  BY DEF EmpezarEvento, Exclusivo
<1>2. /\ t.lote = tx[w].lote \ {e} /\ t.actual = e /\ t.hechos = {}
      /\ t.avisos = tx[w].avisos /\ t.entregados = tx[w].entregados
      /\ t.fallidos = tx[w].fallidos /\ t.gastado = tx[w].gastado
  BY <1>1 DEF FormaDeTx
<1> HIDE DEF t
<1> QED
  BY <1>1, <1>2 DEF Solo

\* A run's transaction with one more recipient done and other notices.
LEMMA EfectoDeAnotar ==
    ASSUME Exclusivo, NEW w \in Trabajadores, NEW r, NEW N,
           tx' = [tx EXCEPT ![w].hechos = @ \cup {r}, ![w].avisos = N]
    PROVE  /\ Solo(w)
           /\ tx'[w].lote = tx[w].lote /\ tx'[w].actual = tx[w].actual
           /\ tx'[w].hechos = tx[w].hechos \cup {r} /\ tx'[w].avisos = N
           /\ tx'[w].entregados = tx[w].entregados
           /\ tx'[w].fallidos = tx[w].fallidos /\ tx'[w].gastado = tx[w].gastado
<1> DEFINE t == [tx[w] EXCEPT !.hechos = @ \cup {r}, !.avisos = N]
<1>1. tx' = [tx EXCEPT ![w] = t] /\ tx[w] \in FormaDeTx /\ tx \in [Trabajadores -> FormaDeTx]
  BY DEF Exclusivo
<1>2. /\ t.lote = tx[w].lote /\ t.actual = tx[w].actual
      /\ t.hechos = tx[w].hechos \cup {r} /\ t.avisos = N
      /\ t.entregados = tx[w].entregados
      /\ t.fallidos = tx[w].fallidos /\ t.gastado = tx[w].gastado
  BY <1>1 DEF FormaDeTx
<1> HIDE DEF t
<1> QED
  BY <1>1, <1>2 DEF Solo

\* The relay refused: the failure is noted and the event put aside.
LEMMA EfectoDeFallar ==
    ASSUME Exclusivo, NEW w \in Trabajadores, NEW demora \in {0, 1}, NEW x,
           tx' = [tx EXCEPT ![w].avisos = Reemplazar(@, x),
                            ![w].fallidos = @ \cup {tx[w].actual},
                            ![w].actual = Ninguno,
                            ![w].hechos = {},
                            ![w].gastado = @ + demora]
    PROVE  /\ Solo(w)
           /\ tx'[w].lote = tx[w].lote /\ tx'[w].actual = Ninguno /\ tx'[w].hechos = {}
           /\ tx'[w].avisos = Reemplazar(tx[w].avisos, x)
           /\ tx'[w].entregados = tx[w].entregados
           /\ tx'[w].fallidos = tx[w].fallidos \cup {tx[w].actual}
           /\ tx'[w].gastado = tx[w].gastado + demora
<1> DEFINE t == [tx[w] EXCEPT !.avisos = Reemplazar(@, x),
                              !.fallidos = @ \cup {tx[w].actual},
                              !.actual = Ninguno,
                              !.hechos = {},
                              !.gastado = @ + demora]
<1>1. tx' = [tx EXCEPT ![w] = t] /\ tx[w] \in FormaDeTx /\ tx \in [Trabajadores -> FormaDeTx]
  BY DEF Exclusivo
<1>2. /\ t.lote = tx[w].lote /\ t.actual = Ninguno /\ t.hechos = {}
      /\ t.avisos = Reemplazar(tx[w].avisos, x)
      /\ t.entregados = tx[w].entregados
      /\ t.fallidos = tx[w].fallidos \cup {tx[w].actual}
      /\ t.gastado = tx[w].gastado + demora
  BY <1>1 DEF FormaDeTx
<1> HIDE DEF t
<1> QED
  BY <1>1, <1>2 DEF Solo

\* Everybody was attended.
LEMMA EfectoDeTerminar ==
    ASSUME Exclusivo, NEW w \in Trabajadores, TerminarEvento(w)
    PROVE  /\ Solo(w)
           /\ tx'[w].lote = tx[w].lote /\ tx'[w].actual = Ninguno /\ tx'[w].hechos = {}
           /\ tx'[w].avisos = tx[w].avisos
           /\ tx'[w].entregados = tx[w].entregados \cup {tx[w].actual}
           /\ tx'[w].fallidos = tx[w].fallidos /\ tx'[w].gastado = tx[w].gastado
<1> DEFINE t == [tx[w] EXCEPT !.entregados = @ \cup {tx[w].actual},
                              !.actual = Ninguno, !.hechos = {}]
<1>1. tx' = [tx EXCEPT ![w] = t] /\ tx[w] \in FormaDeTx /\ tx \in [Trabajadores -> FormaDeTx]
  BY DEF TerminarEvento, Exclusivo
<1>2. /\ t.lote = tx[w].lote /\ t.actual = Ninguno /\ t.hechos = {}
      /\ t.avisos = tx[w].avisos
      /\ t.entregados = tx[w].entregados \cup {tx[w].actual}
      /\ t.fallidos = tx[w].fallidos /\ t.gastado = tx[w].gastado
  BY <1>1 DEF FormaDeTx
<1> HIDE DEF t
<1> QED
  BY <1>1, <1>2 DEF Solo

\* Claiming fills the batch of a run that had nothing.
LEMMA EfectoDeReclamar ==
    ASSUME Exclusivo, NEW w \in Trabajadores, NEW S \in SUBSET Eventos, Reclamar(w, S)
    PROVE  /\ Solo(w)
           /\ tx'[w].lote = S /\ tx'[w].actual = Ninguno /\ tx'[w].hechos = {}
           /\ tx'[w].avisos = {} /\ tx'[w].entregados = {} /\ tx'[w].fallidos = {}
           /\ tx'[w].gastado = 0
<1> DEFINE t == [Libre EXCEPT !.lote = S]
<1>1. tx' = [tx EXCEPT ![w] = t] /\ tx \in [Trabajadores -> FormaDeTx]
  BY DEF Reclamar, Exclusivo
<1>2. /\ t.lote = S /\ t.actual = Ninguno /\ t.hechos = {}
      /\ t.avisos = {} /\ t.entregados = {} /\ t.fallidos = {} /\ t.gastado = 0
  BY DEF Libre
<1> HIDE DEF t
<1> QED
  BY <1>1, <1>2 DEF Solo

\* A run that commits or is lost holds nothing.
LEMMA EfectoDeSoltar ==
    ASSUME Exclusivo, NEW w \in Trabajadores, tx' = [tx EXCEPT ![w] = Libre]
    PROVE  /\ Solo(w)
           /\ tx'[w] = Libre
           /\ tx'[w].lote = {} /\ tx'[w].actual = Ninguno /\ tx'[w].hechos = {}
           /\ tx'[w].avisos = {} /\ tx'[w].entregados = {} /\ tx'[w].fallidos = {}
           /\ tx'[w].gastado = 0
<1>1. tx'[w] = Libre /\ Solo(w)
  BY DEF Exclusivo, Solo
<1> QED
  BY <1>1 DEF Libre

\* The three ways a recipient is attended are one: a notice is written or none.
LEMMA EfectoDeAtender ==
    ASSUME Exclusivo, NEW w \in Trabajadores, NEW r \in Destinos, AtenderSinCorreo(w, r)
    PROVE  \E N : /\ tx' = [tx EXCEPT ![w].hechos = @ \cup {r}, ![w].avisos = N]
                  /\ \/ /\ N = tx[w].avisos
                        /\ Visibles(w, clave[tx[w].actual], r) # {}
                        /\ PorReintentar(w, tx[w].actual, r) = {}
                     \/ /\ N = tx[w].avisos \cup
                                 {[por |-> tx[w].actual, a |-> r, correo |-> "SKIPPED"]}
                        /\ Visibles(w, clave[tx[w].actual], r) = {}
                        /\ r \notin Verificados
<1>0. tx[w] \in FormaDeTx /\ tx \in [Trabajadores -> FormaDeTx]
  BY DEF Exclusivo
<1>1. CASE /\ Visibles(w, clave[tx[w].actual], r) # {}
           /\ PorReintentar(w, tx[w].actual, r) = {}
           /\ tx' = [tx EXCEPT ![w].hechos = @ \cup {r}]
  <2>1. [tx[w] EXCEPT !.hechos = @ \cup {r}]
          = [tx[w] EXCEPT !.hechos = @ \cup {r}, !.avisos = tx[w].avisos]
    BY <1>0 DEF FormaDeTx
  <2>2. tx' = [tx EXCEPT ![w].hechos = @ \cup {r}, ![w].avisos = tx[w].avisos]
    BY <1>0, <1>1, <2>1
  <2> QED
    BY <1>1, <2>2
<1>2. CASE /\ Visibles(w, clave[tx[w].actual], r) = {}
           /\ r \notin Verificados
           /\ tx' = [tx EXCEPT ![w].hechos = @ \cup {r},
                ![w].avisos = @ \cup {[por |-> tx[w].actual, a |-> r, correo |-> "SKIPPED"]}]
  BY <1>2
<1> QED
  BY <1>1, <1>2 DEF AtenderSinCorreo

-----------------------------------------------------------------------------
\* The types.  The attempts of an event that is not settled are below the limit,
\* so that a commit never counts past it, and a run writes finitely many notices.
TiposOK ==
    /\ Exclusivo
    /\ \A w \in Trabajadores : IsFiniteSet(tx[w].avisos) /\ tx[w].gastado \in 0 .. Presupuesto
    /\ \A e \in Eventos :
         /\ intentos[e] \in 0 .. MaxIntentos
         /\ status[e] \in {"SIN_PUBLICAR", "PENDING"} => intentos[e] < MaxIntentos
    /\ listo \in [Eventos -> BOOLEAN]
    /\ buzon \in [Claves -> [Destinos -> 0 .. MaxCopias]]
    /\ perdidas \in [Claves -> [Destinos -> 0 .. MaxCopias]]
    /\ caidas \in 0 .. MaxCaidas

\* TypeOK says no more than that.
LEMMA TiposDanTypeOK == TiposOK => TypeOK
<1> SUFFICES ASSUME TiposOK PROVE TypeOK
  OBVIOUS
<1>1. intentos \in [Eventos -> 0 .. MaxIntentos]
  BY DEF TiposOK, Exclusivo
<1>2. \A w \in Trabajadores :
        tx[w] \in [lote : SUBSET Eventos, actual : Eventos \cup {Ninguno},
                   hechos : SUBSET Destinos, avisos : SUBSET Aviso,
                   entregados : SUBSET Eventos, fallidos : SUBSET Eventos,
                   gastado : 0 .. Presupuesto]
  BY DEF TiposOK, Exclusivo, FormaDeTx
<1> QED
  BY <1>1, <1>2 DEF TypeOK, TiposOK, Exclusivo

\* The limits are positive.
LEMMA Cotas ==
    /\ MaxIntentos \in Nat /\ MaxIntentos > 0 /\ Presupuesto \in Nat /\ Presupuesto > 0
    /\ MaxCopias \in Nat /\ MaxCopias > 0 /\ MaxCaidas \in Nat
    /\ 0 \in 0 .. Presupuesto /\ 0 \in 0 .. MaxCopias /\ 0 \in 0 .. MaxCaidas
<1>1. /\ MaxIntentos \in Nat \ {0} /\ Presupuesto \in Nat \ {0}
      /\ MaxCopias \in Nat \ {0} /\ MaxCaidas \in Nat
  BY Parametros
<1> QED
  BY <1>1

\* Counting stops at the bound and never goes down.
LEMMA SumarTipo ==
    ASSUME NEW n \in 0 .. MaxCopias, NEW m \in Nat
    PROVE  Sumar(n, m) \in 0 .. MaxCopias /\ n <= Sumar(n, m) /\ Sumar(n, m) <= n + m
           /\ (m > 0 => Sumar(n, m) > 0)
  BY Cotas DEF Sumar

\* Replacing a notice adds one at most.
LEMMA ReemplazarFinito ==
    ASSUME NEW S, IsFiniteSet(S), NEW x
    PROVE  IsFiniteSet(Reemplazar(S, x))
<1>1. IsFiniteSet({y \in S : <<y.por, y.a>> # <<x.por, x.a>>})
  BY FS_Subset
<1> QED
  BY <1>1, FS_AddElement DEF Reemplazar

\* The types at the start.
LEMMA TiposInicial == Init => TiposOK
<1> SUFFICES ASSUME Init PROVE TiposOK
  OBVIOUS
<1>1. \A w \in Trabajadores : IsFiniteSet(tx[w].avisos) /\ tx[w].gastado \in 0 .. Presupuesto
  <2>1. \A w \in Trabajadores : tx[w].avisos = {} /\ tx[w].gastado = 0
    BY DEF Init, Libre
  <2> QED
    BY <2>1, FS_EmptySet, Cotas
<1>2. \A e \in Eventos : /\ intentos[e] \in 0 .. MaxIntentos
                         /\ intentos[e] < MaxIntentos
  BY Cotas DEF Init
<1>3. 0 \in 0 .. MaxCopias /\ 0 \in 0 .. MaxCaidas
  BY Cotas
<1>4. listo \in [Eventos -> BOOLEAN]
  BY DEF Init
<1> QED
  BY <1>1, <1>2, <1>3, <1>4, ExclusivoInicial DEF TiposOK, Init

\* A step of one run that leaves the events and the crashes alone.
LEMMA TiposDeTx ==
    ASSUME TiposOK, [Next]_vars, NEW w \in Trabajadores, Solo(w),
           IsFiniteSet(tx'[w].avisos), tx'[w].gastado \in 0 .. Presupuesto,
           buzon' \in [Claves -> [Destinos -> 0 .. MaxCopias]],
           perdidas' \in [Claves -> [Destinos -> 0 .. MaxCopias]],
           UNCHANGED eventoVars, caidas' \in 0 .. MaxCaidas
    PROVE  TiposOK'
<1>1. Exclusivo'
  BY ExclusivoPaso DEF TiposOK
<1>2. \A v \in Trabajadores : IsFiniteSet(tx'[v].avisos) /\ tx'[v].gastado \in 0 .. Presupuesto
  BY DEF TiposOK, Solo
<1> QED
  BY <1>1, <1>2 DEF TiposOK, eventoVars

\* Sending and failing to send keep the types.
LEMMA TiposDeEnviar ==
    ASSUME TiposOK, [Next]_vars, NEW w \in Trabajadores, NEW r \in Destinos,
           \/ EnviarBien(w, r)
           \/ \E demora, llegan \in {0, 1} : EnviarMal(w, r, demora, llegan)
    PROVE  TiposOK'
<1>0. Exclusivo /\ IsFiniteSet(tx[w].avisos) /\ tx[w].gastado \in 0 .. Presupuesto
  BY DEF TiposOK
<1>1. CASE EnviarBien(w, r)
  <2>1. PICK x \in PorEnviar(w, r) :
          /\ tx' = [tx EXCEPT ![w].hechos = @ \cup {r},
                              ![w].avisos = Reemplazar(@, [x EXCEPT !.correo = "SENT"])]
          /\ buzon' = [buzon EXCEPT ![clave[x.por]][r] = Sumar(@, 1)]
    BY <1>1 DEF EnviarBien
  <2> DEFINE N == Reemplazar(tx[w].avisos, [x EXCEPT !.correo = "SENT"])
  <2>2. tx' = [tx EXCEPT ![w].hechos = @ \cup {r}, ![w].avisos = N]
    BY <2>1
  <2>3. IsFiniteSet(N)
    BY <1>0, ReemplazarFinito
  <2> HIDE DEF N
  <2>4. Solo(w) /\ tx'[w].avisos = N /\ tx'[w].gastado = tx[w].gastado
    BY <1>0, <2>2, EfectoDeAnotar
  <2>5. buzon' \in [Claves -> [Destinos -> 0 .. MaxCopias]]
    BY <2>1, SumarTipo DEF TiposOK
  <2>6. UNCHANGED <<eventoVars, perdidas, caidas>>
    BY <1>1 DEF EnviarBien
  <2> QED
    BY <1>0, <2>3, <2>4, <2>5, <2>6, TiposDeTx DEF TiposOK
<1>2. ASSUME NEW demora \in {0, 1}, NEW llegan \in {0, 1}, EnviarMal(w, r, demora, llegan)
      PROVE  TiposOK'
  <2>1. PICK x \in PorEnviar(w, r) :
          /\ tx' = [tx EXCEPT ![w].avisos = Reemplazar(@, x),
                              ![w].fallidos = @ \cup {tx[w].actual},
                              ![w].actual = Ninguno,
                              ![w].hechos = {},
                              ![w].gastado = @ + demora]
          /\ buzon' = [buzon EXCEPT ![clave[x.por]][r] = Sumar(@, llegan)]
          /\ perdidas' = [perdidas EXCEPT ![clave[x.por]][r] = Sumar(@, llegan)]
    BY <1>2 DEF EnviarMal
  <2>2. /\ Solo(w) /\ tx'[w].avisos = Reemplazar(tx[w].avisos, x)
        /\ tx'[w].gastado = tx[w].gastado + demora
    BY <1>0, <2>1, EfectoDeFallar
  <2>3. tx'[w].gastado \in 0 .. Presupuesto
    <3>1. tx[w].gastado < Presupuesto
      BY <1>2 DEF EnviarMal, Corre
    <3>2. demora \in 0 .. 1
      OBVIOUS
    <3> QED
      BY <1>0, <2>2, <3>1, <3>2, Cotas
  <2>4. llegan \in Nat
    OBVIOUS
  <2>5. /\ buzon' \in [Claves -> [Destinos -> 0 .. MaxCopias]]
        /\ perdidas' \in [Claves -> [Destinos -> 0 .. MaxCopias]]
    BY <2>1, <2>4, SumarTipo DEF TiposOK
  <2>6. UNCHANGED <<eventoVars, caidas>>
    BY <1>2 DEF EnviarMal
  <2>7. IsFiniteSet(tx'[w].avisos)
    BY <1>0, <2>2, ReemplazarFinito
  <2> QED
    BY <2>2, <2>3, <2>5, <2>6, <2>7, TiposDeTx DEF TiposOK
<1> QED
  BY <1>1, <1>2

\* A commit counts an attempt of each event it held, and settles the ones that
\* reach the limit.
LEMMA TiposDeConfirmar ==
    ASSUME TiposOK, [Next]_vars, NEW w \in Trabajadores, Confirmar(w)
    PROVE  TiposOK'
<1>0. Exclusivo /\ tx[w] \in FormaDeTx
  BY DEF TiposOK, Exclusivo
<1>1. Exclusivo'
  BY ExclusivoPaso DEF TiposOK
<1>2. \A e \in tx[w].fallidos \cup tx[w].entregados : status[e] = "PENDING"
  BY <1>0, Parametros DEF Exclusivo, Manos, FormaDeTx
<1>3. ASSUME NEW e \in Eventos
      PROVE  /\ intentos'[e] \in 0 .. MaxIntentos
             /\ status'[e] \in {"SIN_PUBLICAR", "PENDING"} => intentos'[e] < MaxIntentos
  <2>1. /\ intentos[e] \in 0 .. MaxIntentos
        /\ status[e] \in {"SIN_PUBLICAR", "PENDING"} => intentos[e] < MaxIntentos
    BY DEF TiposOK
  <2>2. intentos'[e] = IF e \in tx[w].fallidos \cup tx[w].entregados
                       THEN intentos[e] + 1 ELSE intentos[e]
    BY DEF Confirmar, Contar
  <2>3. status'[e] = IF e \in tx[w].entregados THEN "DONE"
                     ELSE IF e \in tx[w].fallidos /\ intentos[e] + 1 >= MaxIntentos THEN "FAILED"
                     ELSE status[e]
    BY DEF Confirmar, Contar, Agotado
  <2> QED
    BY <1>2, <2>1, <2>2, <2>3, Cotas
<1>4. Solo(w) /\ tx'[w].avisos = {} /\ tx'[w].gastado = 0
  BY <1>0, EfectoDeSoltar DEF Confirmar
<1>5. ASSUME NEW v \in Trabajadores
      PROVE  IsFiniteSet(tx'[v].avisos) /\ tx'[v].gastado \in 0 .. Presupuesto
  <2>1. CASE v = w
    BY <1>4, <2>1, FS_EmptySet, Cotas
  <2>2. CASE v # w
    BY <1>4, <2>2 DEF TiposOK, Solo
  <2> QED
    BY <2>1, <2>2
<1>6. listo' \in [Eventos -> BOOLEAN]
  BY DEF Confirmar
<1>7. UNCHANGED <<buzon, perdidas, caidas>>
  BY DEF Confirmar
<1> QED
  BY <1>1, <1>3, <1>5, <1>6, <1>7 DEF TiposOK

\* A lost run leaves its e-mails counted.
LEMMA TiposDePerder ==
    ASSUME TiposOK, [Next]_vars, NEW w \in Trabajadores, Perder(w), caidas' \in 0 .. MaxCaidas
    PROVE  TiposOK'
<1>1. Solo(w) /\ tx'[w].avisos = {} /\ tx'[w].gastado = 0
  BY EfectoDeSoltar DEF Perder, TiposOK
<1>2. ASSUME NEW k \in Claves, NEW r \in Destinos
      PROVE  perdidas'[k][r] \in 0 .. MaxCopias
  <2> DEFINE N == {x \in Mias(w) : clave[x.por] = k /\ x.a = r /\ x.correo = "SENT"}
  <2>1. IsFiniteSet(N)
    BY FS_Subset DEF TiposOK, Mias
  <2>2. Cardinality(N) \in Nat
    BY <2>1, FS_CardinalityType
  <2>3. perdidas'[k][r] = Sumar(perdidas[k][r], Cardinality(N))
    BY DEF Perder
  <2> HIDE DEF N
  <2> QED
    BY <2>2, <2>3, SumarTipo DEF TiposOK
<1>3. perdidas' \in [Claves -> [Destinos -> 0 .. MaxCopias]]
  BY <1>2 DEF Perder
<1>4. UNCHANGED <<eventoVars, buzon>>
  BY DEF Perder
<1>5. IsFiniteSet(tx'[w].avisos) /\ tx'[w].gastado \in 0 .. Presupuesto
  BY <1>1, FS_EmptySet, Cotas
<1> QED
  BY <1>1, <1>3, <1>4, <1>5, TiposDeTx DEF TiposOK

\* The types are inductive.
LEMMA TiposPaso == TiposOK /\ [Next]_vars => TiposOK'
<1> SUFFICES ASSUME TiposOK, [Next]_vars
             PROVE  TiposOK'
  OBVIOUS
<1>0. Exclusivo /\ Exclusivo'
  BY ExclusivoPaso DEF TiposOK
<1>1. ASSUME NEW e \in Eventos, Publicar(e)
      PROVE  TiposOK'
  <2>1. \A f \in Eventos :
          /\ intentos'[f] \in 0 .. MaxIntentos
          /\ status'[f] \in {"SIN_PUBLICAR", "PENDING"} => intentos'[f] < MaxIntentos
    BY <1>0, <1>1 DEF Publicar, TiposOK, Exclusivo
  <2>2. listo' \in [Eventos -> BOOLEAN] /\ UNCHANGED <<tx, buzon, perdidas, caidas>>
    BY <1>1 DEF Publicar, TiposOK
  <2> QED
    BY <1>0, <2>1, <2>2 DEF TiposOK
<1>2. ASSUME NEW e \in Eventos, Esperar(e)
      PROVE  TiposOK'
  <2>1. listo' \in [Eventos -> BOOLEAN]
        /\ UNCHANGED <<status, intentos, tx, buzon, perdidas, caidas>>
    BY <1>2 DEF Esperar, TiposOK
  <2> QED
    BY <1>0, <2>1 DEF TiposOK
<1>3. ASSUME NEW w \in Trabajadores, Trabajar(w)
      PROVE  TiposOK'
  <2>0. IsFiniteSet(tx[w].avisos) /\ tx[w].gastado \in 0 .. Presupuesto
    BY DEF TiposOK
  <2>1. ASSUME NEW S \in SUBSET Eventos, Reclamar(w, S)
        PROVE  TiposOK'
    <3>1. Solo(w) /\ tx'[w].avisos = {} /\ tx'[w].gastado = 0
      BY <1>0, <2>1, EfectoDeReclamar
    <3>2. UNCHANGED <<eventoVars, buzon, perdidas, caidas>>
      BY <2>1 DEF Reclamar
    <3>3. IsFiniteSet(tx'[w].avisos) /\ tx'[w].gastado \in 0 .. Presupuesto
      BY <3>1, FS_EmptySet, Cotas
    <3> QED
      BY <3>1, <3>2, <3>3, TiposDeTx DEF TiposOK
  <2>2. ASSUME NEW e \in Eventos, EmpezarEvento(w, e)
        PROVE  TiposOK'
    <3>1. Solo(w) /\ tx'[w].avisos = tx[w].avisos /\ tx'[w].gastado = tx[w].gastado
      BY <1>0, <2>2, EfectoDeEmpezar
    <3>2. UNCHANGED <<eventoVars, buzon, perdidas, caidas>>
      BY <2>2 DEF EmpezarEvento
    <3> QED
      BY <2>0, <3>1, <3>2, TiposDeTx DEF TiposOK
  <2>3. ASSUME NEW r \in Destinos, AtenderSinCorreo(w, r)
        PROVE  TiposOK'
    <3>1. PICK N : /\ tx' = [tx EXCEPT ![w].hechos = @ \cup {r}, ![w].avisos = N]
                   /\ \/ N = tx[w].avisos
                      \/ N = tx[w].avisos \cup
                               {[por |-> tx[w].actual, a |-> r, correo |-> "SKIPPED"]}
      BY <1>0, <2>3, EfectoDeAtender
    <3>2. Solo(w) /\ tx'[w].avisos = N /\ tx'[w].gastado = tx[w].gastado
      <4>1. tx' = [tx EXCEPT ![w].hechos = @ \cup {r}, ![w].avisos = N]
        BY <3>1
      <4> QED
        BY <1>0, <4>1, EfectoDeAnotar
    <3>3. IsFiniteSet(N)
      BY <2>0, <3>1, FS_AddElement
    <3>4. UNCHANGED <<eventoVars, buzon, perdidas, caidas>>
      BY <2>3 DEF AtenderSinCorreo
    <3> QED
      BY <2>0, <3>2, <3>3, <3>4, TiposDeTx DEF TiposOK
  <2>4. ASSUME NEW r \in Destinos,
               \/ EnviarBien(w, r)
               \/ \E demora, llegan \in {0, 1} : EnviarMal(w, r, demora, llegan)
        PROVE  TiposOK'
    BY <2>4, TiposDeEnviar
  <2>5. CASE TerminarEvento(w)
    <3>1. Solo(w) /\ tx'[w].avisos = tx[w].avisos /\ tx'[w].gastado = tx[w].gastado
      BY <1>0, <2>5, EfectoDeTerminar
    <3>2. UNCHANGED <<eventoVars, buzon, perdidas, caidas>>
      BY <2>5 DEF TerminarEvento
    <3> QED
      BY <2>0, <3>1, <3>2, TiposDeTx DEF TiposOK
  <2>6. CASE Confirmar(w)
    BY <2>6, TiposDeConfirmar
  <2>7. CASE Matar(w)
    BY <2>7, TiposDePerder DEF Matar, TiposOK
  <2> QED
    BY <1>3, <2>1, <2>2, <2>3, <2>4, <2>5, <2>6, <2>7 DEF Trabajar
<1>4. ASSUME NEW w \in Trabajadores, Caer(w)
      PROVE  TiposOK'
  <2>1. caidas' \in 0 .. MaxCaidas
    BY <1>4, Parametros DEF Caer, TiposOK
  <2> QED
    BY <1>4, <2>1, TiposDePerder DEF Caer
<1>5. CASE UNCHANGED vars
  BY <1>0, <1>5 DEF vars, eventoVars, TiposOK
<1> QED
  BY <1>1, <1>2, <1>3, <1>4, <1>5 DEF Next

\* The types hold of every behaviour.
LEMMA TiposSiempre == Spec => []TiposOK
  BY TiposInicial, TiposPaso, PTL DEF Spec

\* Outbox keeps its types for every value of its constants.
THEOREM TipoCorrecto == Spec => []TypeOK
  BY TiposSiempre, TiposDanTypeOK, PTL

-----------------------------------------------------------------------------
\* Deliveries, of events that have keys of their own (outbox.publicar is given a
\* key per fact): what a notice says is then said by one event's handler only.
ClavePropia == \A e, f \in Eventos : clave[e] = clave[f] => e = f

\* What a run's statements see: committed notices under its own.
VistaDe(S, M) ==
    {x \in S \cup M : x \in M \/ \A y \in M : <<y.por, y.a>> # <<x.por, x.a>>}

Vista(w) == VistaDe(avisos, tx[w].avisos)

Atendido(S, e, r) == \E x \in S : x.por = e /\ x.a = r /\ x.correo # "FAILED"

\* A notice is skipped only where there is no address, and sent means received.
Sana(x) ==
    /\ x.correo = "SKIPPED" <=> x.a \notin Verificados
    /\ x.correo = "SENT" => buzon[clave[x.por]][x.a] > 0

\* A run's own part: it writes about events in its hands, and knows of everybody
\* it has counted as attended.
RunOK(w) ==
    /\ tx[w].lote \cap tx[w].entregados = {}
    /\ tx[w].actual \notin tx[w].lote \cup tx[w].entregados
    /\ \A x \in tx[w].avisos : x.por \in Manos(w) /\ Sana(x)
    /\ \A e \in tx[w].entregados : \A r \in DestinosDe[e] : Atendido(Vista(w), e, r)
    /\ \A r \in tx[w].hechos : Atendido(Vista(w), tx[w].actual, r)

EntregasOK ==
    /\ TiposOK
    /\ \A w \in Trabajadores : RunOK(w)
    /\ \A x \in avisos : Sana(x)
    /\ \A e \in Eventos : status[e] = "DONE" => \A r \in DestinosDe[e] : Atendido(avisos, e, r)

\* No mailbox is ever emptied.
Crece == \A k \in Claves, r \in Destinos : buzon[k][r] > 0 => buzon'[k][r] > 0

\* What the invariant says that the proofs below use all the time.
LEMMA Entregas ==
    ASSUME EntregasOK, NEW w \in Trabajadores
    PROVE  /\ Exclusivo /\ RunOK(w) /\ tx[w] \in FormaDeTx /\ tx[w].avisos \subseteq Aviso
           /\ avisos \subseteq Aviso
           /\ \A x \in Vista(w) : x \in Aviso /\ Sana(x)
           /\ Manos(w) \subseteq Eventos
<1>1. Exclusivo /\ RunOK(w) /\ tx[w] \in FormaDeTx /\ avisos \subseteq Aviso
  BY DEF EntregasOK, TiposOK, Exclusivo
<1>2. tx[w].avisos \subseteq Aviso /\ Manos(w) \subseteq Eventos
  BY <1>1 DEF FormaDeTx, Manos
<1>3. \A x \in avisos : Sana(x)
  BY DEF EntregasOK
<1>4. \A x \in tx[w].avisos : Sana(x)
  BY <1>1 DEF RunOK
<1> QED
  BY <1>1, <1>2, <1>3, <1>4 DEF Vista, VistaDe

\* What was said stays true as mailboxes fill.
LEMMA SanaSigue ==
    ASSUME NEW x \in Aviso, Sana(x), Crece
    PROVE  Sana(x)'
<1>1. clave[x.por] \in Claves /\ x.a \in Destinos
  BY Parametros DEF Aviso
<1> QED
  BY <1>1 DEF Sana, Crece

\* Writing a notice over the one of the same event and recipient.
LEMMA VistaReemplazada ==
    ASSUME NEW S, NEW M, NEW n
    PROVE  VistaDe(S, Reemplazar(M, n))
             = {x \in VistaDe(S, M) : <<x.por, x.a>> # <<n.por, n.a>>} \cup {n}
  BY DEF VistaDe, Reemplazar

\* A run sees what it saw while another one works.
LEMMA RunAjena ==
    ASSUME EntregasOK, NEW v \in Trabajadores, tx'[v] = tx[v], UNCHANGED avisos, Crece
    PROVE  RunOK(v)'
<1>1. Vista(v)' = Vista(v) /\ Manos(v)' = Manos(v)
  BY DEF Vista, Manos
<1>2. \A x \in tx[v].avisos : x.por \in Manos(v) /\ Sana(x)'
  BY Entregas, SanaSigue DEF RunOK
<1> QED
  BY <1>1, <1>2, Entregas DEF RunOK

\* A run's step that commits nothing keeps the invariant if it keeps its part.
LEMMA PasoDeNotas ==
    ASSUME EntregasOK, [Next]_vars, NEW w \in Trabajadores, Solo(w), Crece,
           UNCHANGED <<avisos, status>>, RunOK(w)'
    PROVE  EntregasOK'
<1>1. \A v \in Trabajadores \ {w} : RunOK(v)'
  BY RunAjena DEF Solo
<1>2. \A x \in avisos' : Sana(x)'
  BY Entregas, SanaSigue DEF EntregasOK
<1>3. TiposOK'
  BY TiposPaso DEF EntregasOK
<1> QED
  BY <1>1, <1>2, <1>3 DEF EntregasOK

\* A run that has nothing in its hands.
LEMMA RunVacia ==
    ASSUME NEW w \in Trabajadores, NEW S \in SUBSET Eventos,
           tx'[w].lote = S, tx'[w].actual = Ninguno, tx'[w].hechos = {},
           tx'[w].avisos = {}, tx'[w].entregados = {}
    PROVE  RunOK(w)'
  BY Parametros DEF RunOK

\* Taking an event out of the batch.
LEMMA RunEmpieza ==
    ASSUME EntregasOK, NEW w \in Trabajadores, NEW e \in Eventos, EmpezarEvento(w, e)
    PROVE  RunOK(w)' /\ Solo(w)
<1>1. /\ Exclusivo /\ RunOK(w) /\ tx[w] \in FormaDeTx
      /\ \A x \in Vista(w) : x \in Aviso /\ Sana(x)
  BY Entregas
<1>2. /\ Solo(w)
      /\ tx'[w].lote = tx[w].lote \ {e} /\ tx'[w].actual = e /\ tx'[w].hechos = {}
      /\ tx'[w].avisos = tx[w].avisos /\ tx'[w].entregados = tx[w].entregados
      /\ tx'[w].fallidos = tx[w].fallidos
  BY <1>1, EfectoDeEmpezar
<1>3. e \in tx[w].lote /\ tx[w].actual = Ninguno /\ UNCHANGED <<avisos, buzon>>
  BY DEF EmpezarEvento
<1>4. Vista(w)' = Vista(w)
  BY <1>2, <1>3 DEF Vista
<1>5. Manos(w) \subseteq Manos(w)'
  BY <1>2, <1>3, Parametros DEF Manos
<1>6. \A x \in tx[w].avisos : x.por \in Manos(w)' /\ Sana(x)'
  BY <1>1, <1>3, <1>5 DEF RunOK, Sana
<1> QED
  BY <1>1, <1>2, <1>3, <1>4, <1>6 DEF RunOK

\* The recipients of an event were all attended.
LEMMA RunTermina ==
    ASSUME EntregasOK, NEW w \in Trabajadores, TerminarEvento(w)
    PROVE  RunOK(w)' /\ Solo(w)
<1>1. /\ Exclusivo /\ RunOK(w) /\ tx[w] \in FormaDeTx
  BY Entregas
<1>2. /\ Solo(w)
      /\ tx'[w].lote = tx[w].lote /\ tx'[w].actual = Ninguno /\ tx'[w].hechos = {}
      /\ tx'[w].avisos = tx[w].avisos
      /\ tx'[w].entregados = tx[w].entregados \cup {tx[w].actual}
      /\ tx'[w].fallidos = tx[w].fallidos
  BY <1>1, EfectoDeTerminar
<1>3. UNCHANGED <<avisos, buzon>> /\ tx[w].hechos = DestinosDe[tx[w].actual]
  BY DEF TerminarEvento
<1>4. Vista(w)' = Vista(w)
  BY <1>2, <1>3 DEF Vista
<1>5. Manos(w) \subseteq Manos(w)'
  BY <1>2 DEF Manos
<1>6. \A x \in tx[w].avisos : x.por \in Manos(w)' /\ Sana(x)'
  BY <1>1, <1>3, <1>5 DEF RunOK, Sana
<1>7. \A e \in tx'[w].entregados : \A r \in DestinosDe[e] : Atendido(Vista(w), e, r)
  BY <1>1, <1>2, <1>3 DEF RunOK
<1>8. tx'[w].actual \notin tx'[w].lote \cup tx'[w].entregados
  <2>1. tx[w].lote \subseteq Eventos /\ tx[w].entregados \subseteq Eventos
    BY <1>1 DEF FormaDeTx
  <2>2. tx[w].actual # Ninguno
    BY DEF TerminarEvento
  <2> QED
    BY <1>2, <2>1, <2>2, Parametros
<1>9. tx'[w].lote \cap tx'[w].entregados = {}
  BY <1>1, <1>2 DEF RunOK
<1> QED
  BY <1>2, <1>4, <1>6, <1>7, <1>8, <1>9 DEF RunOK

\* Attending a recipient with a notice that reached it.
LEMMA RunAnota ==
    ASSUME EntregasOK, NEW w \in Trabajadores, NEW n \in Aviso, Solo(w),
           tx[w].actual \in Eventos, n.por = tx[w].actual, n.correo # "FAILED", Sana(n)',
           Crece, UNCHANGED avisos,
           tx'[w].lote = tx[w].lote, tx'[w].actual = tx[w].actual,
           tx'[w].hechos = tx[w].hechos \cup {n.a},
           tx'[w].avisos = Reemplazar(tx[w].avisos, n),
           tx'[w].entregados = tx[w].entregados, tx'[w].fallidos = tx[w].fallidos
    PROVE  RunOK(w)'
<1>1. RunOK(w) /\ tx[w] \in FormaDeTx /\ tx[w].avisos \subseteq Aviso
  BY Entregas
<1>2. Vista(w)' = {x \in Vista(w) : <<x.por, x.a>> # <<n.por, n.a>>} \cup {n}
  BY VistaReemplazada DEF Vista
<1>3. Manos(w)' = Manos(w) /\ n.por \in Manos(w)
  BY Parametros DEF Manos
<1>4. \A x \in tx'[w].avisos : x.por \in Manos(w)' /\ Sana(x)'
  <2>1. \A x \in tx[w].avisos : x.por \in Manos(w)' /\ Sana(x)'
    BY <1>1, <1>3, SanaSigue DEF RunOK
  <2> QED
    BY <1>3, <2>1 DEF Reemplazar
<1>5. ASSUME NEW e, NEW r, Atendido(Vista(w), e, r)
      PROVE  Atendido(Vista(w)', e, r)
  BY <1>2, <1>5 DEF Atendido
<1>6. Atendido(Vista(w)', tx[w].actual, n.a)
  BY <1>2 DEF Atendido
<1> QED
  BY <1>1, <1>4, <1>5, <1>6 DEF RunOK

\* With keys of their own, what a run finds under an event's key is the event's.
LEMMA VisiblesPropios ==
    ASSUME ClavePropia, EntregasOK, NEW w \in Trabajadores, NEW e \in Eventos, NEW r
    PROVE  Visibles(w, clave[e], r) = {x \in Vista(w) : x.por = e /\ x.a = r}
<1>1. Visibles(w, clave[e], r) = {x \in Vista(w) : clave[x.por] = clave[e] /\ x.a = r}
  BY DEF Visibles, Vista, VistaDe, Mias
<1>2. \A x \in Vista(w) : x.por \in Eventos
  BY Entregas DEF Aviso
<1> QED
  BY <1>1, <1>2 DEF ClavePropia

\* What a run is about to mail: a notice of its event that nobody was sent.
LEMMA PorEnviarFiel ==
    ASSUME ClavePropia, EntregasOK, NEW w \in Trabajadores, NEW r \in Destinos,
           NEW x \in PorEnviar(w, r)
    PROVE  /\ tx[w].actual \in Eventos /\ r \in Verificados
           /\ x \in Aviso /\ x.por = tx[w].actual /\ x.a = r /\ x.correo = "FAILED"
           /\ \A y \in Vista(w) : y.por = tx[w].actual /\ y.a = r => y.correo # "SENT"
<1> DEFINE e == tx[w].actual
<1>1. e \in Eventos
  BY Entregas DEF PorEnviar, FormaDeTx
<1> HIDE DEF e
<1>2. Visibles(w, clave[e], r) = {y \in Vista(w) : y.por = e /\ y.a = r}
  BY <1>1, VisiblesPropios
<1>3. CASE Visibles(w, clave[e], r) # {}
  <2>1. x \in PorReintentar(w, e, r)
    BY <1>3 DEF PorEnviar, e
  <2>2. x \in Vista(w) /\ x.por = e /\ x.a = r /\ x.correo = "FAILED"
    BY <1>2, <2>1 DEF PorReintentar
  <2>3. x \in Aviso /\ Sana(x)
    BY <2>2, Entregas
  <2>4. \A y \in Vista(w) : y.por = e /\ y.a = r => y.correo # "SENT"
    BY <1>2, <2>1 DEF PorReintentar
  <2> QED
    BY <1>1, <2>2, <2>3, <2>4 DEF Sana, e
<1>4. CASE Visibles(w, clave[e], r) = {}
  <2>1. r \in Verificados /\ x = [por |-> e, a |-> r, correo |-> "FAILED"]
    BY <1>4 DEF PorEnviar, e
  <2>2. \A y \in Vista(w) : ~(y.por = e /\ y.a = r)
    BY <1>2, <1>4
  <2> QED
    BY <1>1, <2>1, <2>2 DEF Aviso, e
<1> QED
  BY <1>3, <1>4

\* A recipient that needs no e-mail has the notice already, or gets it here.
LEMMA RunAtiende ==
    ASSUME ClavePropia, EntregasOK, NEW w \in Trabajadores, NEW r \in Destinos,
           AtenderSinCorreo(w, r)
    PROVE  RunOK(w)' /\ Solo(w)
<1> DEFINE e == tx[w].actual
<1>0. /\ Exclusivo /\ RunOK(w) /\ tx[w] \in FormaDeTx /\ tx[w].avisos \subseteq Aviso
      /\ e \in Eventos /\ UNCHANGED <<avisos, buzon>>
  BY Entregas DEF AtenderSinCorreo, FormaDeTx
<1>1. PICK N : /\ tx' = [tx EXCEPT ![w].hechos = @ \cup {r}, ![w].avisos = N]
               /\ \/ /\ N = tx[w].avisos
                     /\ Visibles(w, clave[e], r) # {}
                     /\ PorReintentar(w, e, r) = {}
                  \/ /\ N = tx[w].avisos \cup {[por |-> e, a |-> r, correo |-> "SKIPPED"]}
                     /\ Visibles(w, clave[e], r) = {}
                     /\ r \notin Verificados
  BY <1>0, EfectoDeAtender
<1>2. tx' = [tx EXCEPT ![w].hechos = @ \cup {r}, ![w].avisos = N]
  BY <1>1
<1>3. /\ Solo(w)
      /\ tx'[w].lote = tx[w].lote /\ tx'[w].actual = e
      /\ tx'[w].hechos = tx[w].hechos \cup {r} /\ tx'[w].avisos = N
      /\ tx'[w].entregados = tx[w].entregados /\ tx'[w].fallidos = tx[w].fallidos
  BY <1>0, <1>2, EfectoDeAnotar
<1> HIDE DEF e
<1>4. Visibles(w, clave[e], r) = {x \in Vista(w) : x.por = e /\ x.a = r}
  BY <1>0, VisiblesPropios
<1>5. CASE N = tx[w].avisos /\ Visibles(w, clave[e], r) # {} /\ PorReintentar(w, e, r) = {}
  <2>1. PICK n \in Visibles(w, clave[e], r) : TRUE
    BY <1>5
  <2>2. \E y \in Visibles(w, clave[e], r) : y.correo # "FAILED"
    BY <1>5, <2>1 DEF PorReintentar
  <2>3. Atendido(Vista(w), e, r)
    BY <1>4, <2>2 DEF Atendido
  <2>4. Vista(w)' = Vista(w) /\ Manos(w)' = Manos(w)
    BY <1>0, <1>3, <1>5 DEF Vista, Manos, e
  <2>5. \A x \in tx[w].avisos : x.por \in Manos(w)' /\ Sana(x)'
    BY <1>0, <2>4 DEF RunOK, Sana
  <2> QED
    BY <1>0, <1>3, <1>5, <2>3, <2>4, <2>5 DEF RunOK, e
<1>6. CASE /\ N = tx[w].avisos \cup {[por |-> e, a |-> r, correo |-> "SKIPPED"]}
           /\ Visibles(w, clave[e], r) = {}
           /\ r \notin Verificados
  <2>1. PICK n \in Aviso : n = [por |-> e, a |-> r, correo |-> "SKIPPED"]
    BY <1>0 DEF Aviso
  <2>2. N = tx[w].avisos \cup {n} /\ n.por = e /\ n.a = r /\ n.correo = "SKIPPED"
    BY <1>6, <2>1
  <2>3. \A y \in tx[w].avisos : <<y.por, y.a>> # <<n.por, n.a>>
    BY <1>4, <1>6, <2>2 DEF Vista, VistaDe
  <2>4. N = Reemplazar(tx[w].avisos, n)
    BY <2>2, <2>3 DEF Reemplazar
  <2>5. Sana(n)' /\ Crece
    BY <1>0, <1>6, <2>2 DEF Sana, Crece
  <2> QED
    BY <1>0, <1>3, <2>1, <2>2, <2>4, <2>5, RunAnota DEF e
<1> QED
  BY <1>1, <1>3, <1>5, <1>6

\* Mailboxes only fill, as far as they are counted.
LEMMA CreceAlSumar ==
    ASSUME TiposOK, NEW k \in Claves, NEW r \in Destinos, NEW m \in Nat,
           buzon' = [buzon EXCEPT ![k][r] = Sumar(@, m)]
    PROVE  Crece /\ buzon'[k][r] = Sumar(buzon[k][r], m)
           /\ \A l \in Claves, s \in Destinos :
                <<l, s>> # <<k, r>> => buzon'[l][s] = buzon[l][s]
<1>1. buzon[k][r] \in 0 .. MaxCopias
  BY DEF TiposOK
<1>2. Sumar(buzon[k][r], m) \in 0 .. MaxCopias /\ buzon[k][r] <= Sumar(buzon[k][r], m)
  BY <1>1, SumarTipo
<1>3. buzon'[k][r] = Sumar(buzon[k][r], m)
      /\ \A l \in Claves, s \in Destinos :
           <<l, s>> # <<k, r>> => buzon'[l][s] = buzon[l][s]
  BY DEF TiposOK
<1>4. buzon[k][r] > 0 => buzon'[k][r] > 0
  BY <1>1, <1>2, <1>3, Cotas
<1> QED
  BY <1>3, <1>4 DEF Crece

\* An e-mail that was sent.
LEMMA RunEnvia ==
    ASSUME ClavePropia, EntregasOK, NEW w \in Trabajadores, NEW r \in Destinos, EnviarBien(w, r)
    PROVE  RunOK(w)' /\ Solo(w) /\ Crece
<1>0. /\ TiposOK /\ Exclusivo
      /\ UNCHANGED avisos
  BY Entregas DEF EnviarBien, EntregasOK
<1>1. PICK x \in PorEnviar(w, r) :
        /\ tx' = [tx EXCEPT ![w].hechos = @ \cup {r},
                            ![w].avisos = Reemplazar(@, [x EXCEPT !.correo = "SENT"])]
        /\ buzon' = [buzon EXCEPT ![clave[x.por]][r] = Sumar(@, 1)]
  BY DEF EnviarBien
<1>2. /\ tx[w].actual \in Eventos /\ r \in Verificados
      /\ x \in Aviso /\ x.por = tx[w].actual /\ x.a = r
  BY PorEnviarFiel
<1> DEFINE n == [x EXCEPT !.correo = "SENT"]
<1>3. n \in Aviso /\ n.por = tx[w].actual /\ n.a = r /\ n.correo = "SENT"
  BY <1>2 DEF Aviso
<1>4. tx' = [tx EXCEPT ![w].hechos = @ \cup {r}, ![w].avisos = Reemplazar(tx[w].avisos, n)]
  BY <1>1
<1> HIDE DEF n
<1>5. /\ Solo(w)
      /\ tx'[w].lote = tx[w].lote /\ tx'[w].actual = tx[w].actual
      /\ tx'[w].hechos = tx[w].hechos \cup {r}
      /\ tx'[w].avisos = Reemplazar(tx[w].avisos, n)
      /\ tx'[w].entregados = tx[w].entregados /\ tx'[w].fallidos = tx[w].fallidos
  BY <1>0, <1>4, EfectoDeAnotar
<1>6. clave[x.por] \in Claves
  BY <1>2, Parametros
<1>7. Crece /\ buzon'[clave[x.por]][r] = Sumar(buzon[clave[x.por]][r], 1)
  BY <1>0, <1>1, <1>6, CreceAlSumar
<1>8. Sumar(buzon[clave[x.por]][r], 1) > 0
  BY <1>0, <1>6, SumarTipo DEF TiposOK
<1>9. Sana(n)'
  BY <1>2, <1>3, <1>7, <1>8 DEF Sana
<1> QED
  BY <1>0, <1>2, <1>3, <1>5, <1>7, <1>9, RunAnota

\* An e-mail that failed: the run's other events do not notice.
LEMMA RunFalla ==
    ASSUME ClavePropia, EntregasOK, NEW w \in Trabajadores, NEW r \in Destinos,
           NEW demora \in {0, 1}, NEW llegan \in {0, 1}, EnviarMal(w, r, demora, llegan)
    PROVE  RunOK(w)' /\ Solo(w) /\ Crece
<1>0. /\ TiposOK /\ Exclusivo /\ RunOK(w) /\ tx[w] \in FormaDeTx /\ tx[w].avisos \subseteq Aviso
      /\ UNCHANGED avisos
  BY Entregas DEF EnviarMal, EntregasOK
<1>1. PICK x \in PorEnviar(w, r) :
        /\ tx' = [tx EXCEPT ![w].avisos = Reemplazar(@, x),
                            ![w].fallidos = @ \cup {tx[w].actual},
                            ![w].actual = Ninguno,
                            ![w].hechos = {},
                            ![w].gastado = @ + demora]
        /\ buzon' = [buzon EXCEPT ![clave[x.por]][r] = Sumar(@, llegan)]
  BY DEF EnviarMal
<1>2. /\ tx[w].actual \in Eventos /\ r \in Verificados
      /\ x \in Aviso /\ x.por = tx[w].actual /\ x.a = r /\ x.correo = "FAILED"
  BY PorEnviarFiel
<1>3. /\ Solo(w)
      /\ tx'[w].lote = tx[w].lote /\ tx'[w].actual = Ninguno /\ tx'[w].hechos = {}
      /\ tx'[w].avisos = Reemplazar(tx[w].avisos, x)
      /\ tx'[w].entregados = tx[w].entregados
      /\ tx'[w].fallidos = tx[w].fallidos \cup {tx[w].actual}
  BY <1>0, <1>1, EfectoDeFallar
<1>4. clave[x.por] \in Claves /\ llegan \in Nat
  BY <1>2, Parametros
<1>5. Crece
  BY <1>0, <1>1, <1>4, CreceAlSumar
<1>6. Vista(w)' = {y \in Vista(w) : <<y.por, y.a>> # <<x.por, x.a>>} \cup {x}
  BY <1>0, <1>3, VistaReemplazada DEF Vista
<1>7. Manos(w)' = Manos(w) /\ x.por \in Manos(w)
  BY <1>2, <1>3, Parametros DEF Manos
<1>8. \A y \in tx'[w].avisos : y.por \in Manos(w)' /\ Sana(y)'
  <2>1. \A y \in tx[w].avisos : y.por \in Manos(w)' /\ Sana(y)'
    BY <1>0, <1>5, <1>7, SanaSigue DEF RunOK
  <2>2. Sana(x)'
    BY <1>2 DEF Sana
  <2> QED
    BY <1>3, <1>7, <2>1, <2>2 DEF Reemplazar
<1>9. \A e \in tx[w].entregados : \A s \in DestinosDe[e] : Atendido(Vista(w)', e, s)
  BY <1>0, <1>2, <1>6 DEF RunOK, Atendido
<1>10. tx'[w].actual \notin tx'[w].lote \cup tx'[w].entregados
  BY <1>0, <1>3, Parametros DEF FormaDeTx
<1> QED
  BY <1>0, <1>3, <1>5, <1>8, <1>9, <1>10 DEF RunOK

\* The commit makes everybody see what the run saw, and disturbs nobody: what it
\* wrote is about events in its hands only.
LEMMA EntregasDeConfirmar ==
    ASSUME EntregasOK, [Next]_vars, NEW w \in Trabajadores, Confirmar(w)
    PROVE  EntregasOK'
<1>0. /\ Exclusivo /\ RunOK(w) /\ tx[w] \in FormaDeTx
      /\ \A x \in Vista(w) : x \in Aviso /\ Sana(x)
  BY Entregas
<1>1. avisos' = Vista(w) /\ UNCHANGED buzon
  BY DEF Confirmar, Vista, VistaDe, Mias
<1>2. \A x \in avisos' : Sana(x)'
  BY <1>0, <1>1 DEF Sana
<1>3. /\ Solo(w)
      /\ tx'[w].lote = {} /\ tx'[w].actual = Ninguno /\ tx'[w].hechos = {}
      /\ tx'[w].avisos = {} /\ tx'[w].entregados = {}
  BY <1>0, EfectoDeSoltar DEF Confirmar
<1>4. RunOK(w)'
  BY <1>3, RunVacia
<1>5. ASSUME NEW x \in avisos, x.por \notin Manos(w)
      PROVE  x \in avisos'
  BY <1>0, <1>1, <1>5 DEF Vista, VistaDe, RunOK
<1>6. ASSUME NEW v \in Trabajadores, v # w
      PROVE  RunOK(v)'
  <2>0. RunOK(v) /\ tx[v] \in FormaDeTx /\ \A x \in Vista(v) : x \in Aviso
    BY Entregas
  <2>1. tx'[v] = tx[v] /\ Manos(v)' = Manos(v) /\ Manos(v) \cap Manos(w) = {}
    BY <1>0, <1>3, <1>6 DEF Solo, Manos, Exclusivo
  <2>2. ASSUME NEW e \in Manos(v), NEW r, Atendido(Vista(v), e, r)
        PROVE  Atendido(Vista(v)', e, r)
    <3>1. PICK x \in Vista(v) : x.por = e /\ x.a = r /\ x.correo # "FAILED"
      BY <2>2 DEF Atendido
    <3>2. x \in Vista(v)'
      BY <1>5, <2>1, <3>1 DEF Vista, VistaDe
    <3> QED
      BY <3>1, <3>2 DEF Atendido
  <2>3. \A e \in tx[v].entregados : e \in Manos(v)
    BY <2>0, Parametros DEF Manos, FormaDeTx
  <2>4. tx[v].hechos # {} => tx[v].actual \in Manos(v)
    <3>1. tx[v].hechos # {} => tx[v].actual \in Eventos
      BY <2>0 DEF RunOK, Atendido, Aviso
    <3> QED
      BY <3>1, Parametros DEF Manos
  <2>5. \A x \in tx[v].avisos : x.por \in Manos(v)' /\ Sana(x)'
    BY <1>1, <2>0, <2>1 DEF RunOK, Sana
  <2> QED
    BY <2>0, <2>1, <2>2, <2>3, <2>4, <2>5 DEF RunOK
<1>7. ASSUME NEW e \in Eventos, status'[e] = "DONE", NEW r \in DestinosDe[e]
      PROVE  Atendido(avisos', e, r)
  <2>1. CASE e \in tx[w].entregados
    BY <1>0, <1>1, <2>1 DEF RunOK
  <2>2. CASE e \notin tx[w].entregados
    <3>1. status[e] = "DONE"
      BY <1>7, <2>2 DEF Confirmar
    <3>2. Atendido(avisos, e, r) /\ e \notin Manos(w)
      BY <1>0, <1>7, <3>1 DEF EntregasOK, Exclusivo
    <3> QED
      BY <1>5, <3>2 DEF Atendido
  <2> QED
    BY <2>1, <2>2
<1>8. TiposOK'
  BY TiposPaso DEF EntregasOK
<1> QED
  BY <1>2, <1>4, <1>6, <1>7, <1>8 DEF EntregasOK

\* The invariant of deliveries at the start.
LEMMA EntregasInicial == Init => EntregasOK
<1> SUFFICES ASSUME Init PROVE EntregasOK
  OBVIOUS
<1>1. \A w \in Trabajadores : RunOK(w)
  <2>1. \A w \in Trabajadores : tx[w] = Libre
    BY DEF Init
  <2> QED
    BY <2>1 DEF RunOK, Libre
<1> QED
  BY <1>1, TiposInicial DEF EntregasOK, Init

\* The invariant of deliveries is inductive.
LEMMA EntregasPaso == ClavePropia => (EntregasOK /\ [Next]_vars => EntregasOK')
<1> SUFFICES ASSUME ClavePropia, EntregasOK, [Next]_vars
             PROVE  EntregasOK'
  OBVIOUS
<1>0. Exclusivo /\ TiposOK
  BY DEF EntregasOK, TiposOK
<1>1. ASSUME UNCHANGED <<tx, avisos, buzon>>,
             \A e \in Eventos : status'[e] = "DONE" => status[e] = "DONE"
      PROVE  EntregasOK'
  <2>1. \A w \in Trabajadores : RunOK(w)'
    BY <1>1, RunAjena DEF Crece
  <2>2. TiposOK'
    BY <1>0, TiposPaso
  <2> QED
    BY <1>1, <2>1, <2>2 DEF EntregasOK, Sana
<1>2. ASSUME NEW w \in Trabajadores, Perder(w)
      PROVE  EntregasOK'
  <2>1. /\ Solo(w)
        /\ tx'[w].lote = {} /\ tx'[w].actual = Ninguno /\ tx'[w].hechos = {}
        /\ tx'[w].avisos = {} /\ tx'[w].entregados = {}
    BY <1>0, <1>2, EfectoDeSoltar DEF Perder
  <2>2. UNCHANGED <<avisos, status, buzon>>
    BY <1>2 DEF Perder, eventoVars
  <2> QED
    BY <2>1, <2>2, RunVacia, PasoDeNotas DEF Crece
<1>3. ASSUME NEW w \in Trabajadores, Trabajar(w)
      PROVE  EntregasOK'
  <2>1. ASSUME NEW S \in SUBSET Eventos, Reclamar(w, S)
        PROVE  EntregasOK'
    <3>1. /\ Solo(w)
          /\ tx'[w].lote = S /\ tx'[w].actual = Ninguno /\ tx'[w].hechos = {}
          /\ tx'[w].avisos = {} /\ tx'[w].entregados = {}
      BY <1>0, <2>1, EfectoDeReclamar
    <3>2. UNCHANGED <<avisos, status, buzon>>
      BY <2>1 DEF Reclamar, eventoVars
    <3> QED
      BY <3>1, <3>2, RunVacia, PasoDeNotas DEF Crece
  <2>2. ASSUME NEW e \in Eventos, EmpezarEvento(w, e)
        PROVE  EntregasOK'
    <3>1. UNCHANGED <<avisos, status, buzon>>
      BY <2>2 DEF EmpezarEvento, eventoVars
    <3> QED
      BY <2>2, <3>1, RunEmpieza, PasoDeNotas DEF Crece
  <2>3. ASSUME NEW r \in Destinos, AtenderSinCorreo(w, r)
        PROVE  EntregasOK'
    <3>1. UNCHANGED <<avisos, status, buzon>>
      BY <2>3 DEF AtenderSinCorreo, eventoVars
    <3> QED
      BY <2>3, <3>1, RunAtiende, PasoDeNotas DEF Crece
  <2>4. ASSUME NEW r \in Destinos, EnviarBien(w, r)
        PROVE  EntregasOK'
    <3>1. UNCHANGED <<avisos, status>>
      BY <2>4 DEF EnviarBien, eventoVars
    <3> QED
      BY <2>4, <3>1, RunEnvia, PasoDeNotas
  <2>5. ASSUME NEW r \in Destinos, NEW demora \in {0, 1}, NEW llegan \in {0, 1},
               EnviarMal(w, r, demora, llegan)
        PROVE  EntregasOK'
    <3>1. UNCHANGED <<avisos, status>>
      BY <2>5 DEF EnviarMal, eventoVars
    <3> QED
      BY <2>5, <3>1, RunFalla, PasoDeNotas
  <2>6. CASE TerminarEvento(w)
    <3>1. UNCHANGED <<avisos, status, buzon>>
      BY <2>6 DEF TerminarEvento, eventoVars
    <3> QED
      BY <2>6, <3>1, RunTermina, PasoDeNotas DEF Crece
  <2>7. CASE Confirmar(w)
    BY <2>7, EntregasDeConfirmar
  <2>8. CASE Matar(w)
    BY <1>2, <2>8 DEF Matar
  <2> QED
    BY <1>3, <2>1, <2>2, <2>3, <2>4, <2>5, <2>6, <2>7, <2>8 DEF Trabajar
<1>4. ASSUME NEW e \in Eventos, Publicar(e) \/ Esperar(e)
      PROVE  EntregasOK'
  BY <1>0, <1>1, <1>4 DEF Publicar, Esperar, Exclusivo
<1>5. ASSUME NEW w \in Trabajadores, Caer(w)
      PROVE  EntregasOK'
  BY <1>2, <1>5 DEF Caer
<1>6. CASE UNCHANGED vars
  BY <1>1, <1>6 DEF vars, eventoVars
<1> QED
  BY <1>3, <1>4, <1>5, <1>6 DEF Next

\* What is committed about a settled event is what its delivery promises.
LEMMA EntregasBastan == EntregasOK => EntregaCompleta
<1> SUFFICES ASSUME EntregasOK, NEW e \in Eventos, NEW r \in DestinosDe[e], status[e] = "DONE"
             PROVE  \E x \in avisos :
                      /\ clave[x.por] = clave[e] /\ x.a = r
                      /\ IF r \in Verificados
                         THEN x.correo = "SENT" /\ buzon[clave[e]][r] > 0
                         ELSE x.correo = "SKIPPED"
  BY DEF EntregaCompleta
<1>1. PICK x \in avisos : x.por = e /\ x.a = r /\ x.correo # "FAILED"
  BY DEF EntregasOK, Atendido
<1>2. Sana(x) /\ x \in Aviso
  BY DEF EntregasOK, TiposOK, Exclusivo
<1>3. x.correo \in {"SENT", "SKIPPED"}
  BY <1>1, <1>2 DEF Aviso
<1> QED
  BY <1>1, <1>2, <1>3 DEF Sana

\* At least once, whatever fails, dies or overlaps: an event that is DONE has
\* reached everybody it had to reach.
THEOREM EntregaCompletaSiempre ==
    ASSUME ClavePropia
    PROVE  Spec => []EntregaCompleta
<1>1. EntregasOK /\ [Next]_vars => EntregasOK'
  BY EntregasPaso
<1> QED
  BY <1>1, EntregasInicial, EntregasBastan, PTL DEF Spec

-----------------------------------------------------------------------------
\* Copies.  A mailbox holds at most one e-mail that some notice, committed or in
\* an open transaction, tells of; every other one was lost.
Va(x, k, r) == clave[x.por] = k /\ x.a = r /\ x.correo = "SENT"

Enviado(k, r) ==
    \/ \E x \in avisos : Va(x, k, r)
    \/ \E w \in Trabajadores : \E x \in tx[w].avisos : Va(x, k, r)

\* No run has written over the record of an e-mail that was sent.
SinPisar(w) ==
    \A x \in avisos, y \in tx[w].avisos : x.correo = "SENT" => <<y.por, y.a>> # <<x.por, x.a>>

Cuenta(k, r) ==
    /\ buzon[k][r] <= perdidas[k][r] + 1
    /\ buzon[k][r] <= perdidas[k][r] \/ Enviado(k, r)

CuentasOK ==
    /\ EntregasOK
    /\ \A w \in Trabajadores : SinPisar(w)
    /\ \A k \in Claves, r \in Destinos : Cuenta(k, r)

\* The counts are numbers within their bound.
LEMMA Numeros ==
    ASSUME CuentasOK, NEW k \in Claves, NEW r \in Destinos
    PROVE  /\ buzon[k][r] \in 0 .. MaxCopias /\ perdidas[k][r] \in 0 .. MaxCopias
           /\ buzon[k][r] \in Int /\ perdidas[k][r] \in Int
  BY DEF CuentasOK, EntregasOK, TiposOK

\* A step that sends and loses nothing.
LEMMA CuentaQuieta ==
    ASSUME CuentasOK, UNCHANGED <<buzon, perdidas>>, NEW k \in Claves, NEW r \in Destinos,
           Enviado(k, r) => Enviado(k, r)'
    PROVE  Cuenta(k, r)'
  BY DEF CuentasOK, Cuenta

\* A run that holds an event knows of every e-mail about it that was recorded.
LEMMA EnviadoSeVe ==
    ASSUME ClavePropia, CuentasOK, NEW w \in Trabajadores, NEW e \in Eventos, e = tx[w].actual,
           NEW r \in Destinos, Enviado(clave[e], r)
    PROVE  \E x \in Vista(w) : x.por = e /\ x.a = r /\ x.correo = "SENT"
<1>0. /\ Exclusivo /\ avisos \subseteq Aviso /\ SinPisar(w) /\ e \in Manos(w)
  BY Entregas, Parametros DEF CuentasOK, Manos
<1>1. ASSUME NEW x \in avisos, Va(x, clave[e], r)
      PROVE  x \in Vista(w) /\ x.por = e /\ x.a = r /\ x.correo = "SENT"
  BY <1>0, <1>1 DEF Va, Vista, VistaDe, SinPisar, ClavePropia, Aviso
<1>2. ASSUME NEW v \in Trabajadores, NEW x \in tx[v].avisos, Va(x, clave[e], r)
      PROVE  x \in Vista(w) /\ x.por = e /\ x.a = r /\ x.correo = "SENT"
  <2>1. RunOK(v) /\ x \in Aviso
    BY <1>2, Entregas DEF CuentasOK
  <2>2. x.por = e /\ x.a = r /\ x.correo = "SENT" /\ x.por \in Manos(v)
    BY <1>2, <2>1 DEF Va, ClavePropia, Aviso, RunOK
  <2>3. v = w
    BY <1>0, <2>2 DEF Exclusivo
  <2> QED
    BY <1>2, <2>2, <2>3 DEF Vista, VistaDe
<1> QED
  BY <1>1, <1>2 DEF Enviado

\* What a run is about to mail was recorded as sent by nobody.
LEMMA PorEnviarNoEnviado ==
    ASSUME ClavePropia, CuentasOK, NEW w \in Trabajadores, NEW r \in Destinos,
           NEW x \in PorEnviar(w, r)
    PROVE  ~Enviado(clave[x.por], r)
<1>1. /\ tx[w].actual \in Eventos /\ x.por = tx[w].actual
      /\ \A y \in Vista(w) : y.por = tx[w].actual /\ y.a = r => y.correo # "SENT"
  BY PorEnviarFiel DEF CuentasOK
<1> QED
  BY <1>1, EnviadoSeVe

\* Writing notice n, of which nothing sent is known, in the open transaction of w.
LEMMA PasoDeNota ==
    ASSUME ClavePropia, CuentasOK, [Next]_vars, NEW w \in Trabajadores, NEW n \in Aviso,
           Solo(w), UNCHANGED avisos, tx'[w].avisos = Reemplazar(tx[w].avisos, n),
           ~Enviado(clave[n.por], n.a)
    PROVE  /\ \A v \in Trabajadores : SinPisar(v)'
           /\ \A k \in Claves, r \in Destinos : Enviado(k, r) => Enviado(k, r)'
           /\ n.correo = "SENT" => Enviado(clave[n.por], n.a)'
<1>1. \A x \in avisos : x.correo = "SENT" => <<n.por, n.a>> # <<x.por, x.a>>
  BY DEF Enviado, Va
<1>2. SinPisar(w)'
  BY <1>1 DEF CuentasOK, SinPisar, Reemplazar
<1>3. \A v \in Trabajadores \ {w} : SinPisar(v)'
  BY DEF CuentasOK, SinPisar, Solo
<1>4. ASSUME NEW k \in Claves, NEW r \in Destinos, Enviado(k, r)
      PROVE  Enviado(k, r)'
  <2>1. CASE \E x \in avisos : Va(x, k, r)
    BY <2>1 DEF Enviado, Va
  <2>2. ASSUME NEW v \in Trabajadores, NEW x \in tx[v].avisos, Va(x, k, r)
        PROVE  Enviado(k, r)'
    <3>1. CASE v # w
      BY <2>2, <3>1 DEF Enviado, Va, Solo
    <3>2. CASE v = w
      <4>1. <<x.por, x.a>> # <<n.por, n.a>>
        BY <2>2, <3>2 DEF Enviado, Va
      <4>2. x \in tx'[w].avisos
        BY <2>2, <3>2, <4>1 DEF Reemplazar
      <4> QED
        BY <2>2, <4>2 DEF Enviado, Va
    <3> QED
      BY <3>1, <3>2
  <2> QED
    BY <1>4, <2>1, <2>2 DEF Enviado
<1>5. n.correo = "SENT" => Enviado(clave[n.por], n.a)'
  BY DEF Enviado, Va, Reemplazar
<1> QED
  BY <1>2, <1>3, <1>4, <1>5

\* A step that writes no notice.
LEMMA CuentasSinNota ==
    ASSUME CuentasOK, EntregasOK', UNCHANGED <<avisos, buzon, perdidas>>,
           \A v \in Trabajadores : tx'[v].avisos = tx[v].avisos
    PROVE  CuentasOK'
<1>1. \A v \in Trabajadores : SinPisar(v)'
  BY DEF CuentasOK, SinPisar
<1>2. \A k \in Claves, r \in Destinos : Enviado(k, r) => Enviado(k, r)'
  BY DEF Enviado, Va
<1> QED
  BY <1>1, <1>2, CuentaQuieta DEF CuentasOK

\* Attending without an e-mail.
LEMMA CuentasDeAtender ==
    ASSUME ClavePropia, CuentasOK, EntregasOK', [Next]_vars, NEW w \in Trabajadores,
           NEW r \in Destinos, AtenderSinCorreo(w, r)
    PROVE  CuentasOK'
<1> DEFINE e == tx[w].actual
<1>0. /\ EntregasOK /\ Exclusivo /\ e \in Eventos /\ UNCHANGED <<avisos, buzon, perdidas>>
  BY Entregas DEF AtenderSinCorreo, FormaDeTx, CuentasOK
<1>1. PICK N : /\ tx' = [tx EXCEPT ![w].hechos = @ \cup {r}, ![w].avisos = N]
               /\ \/ N = tx[w].avisos
                  \/ /\ N = tx[w].avisos \cup {[por |-> e, a |-> r, correo |-> "SKIPPED"]}
                     /\ Visibles(w, clave[e], r) = {}
  BY <1>0, EfectoDeAtender
<1>2. tx' = [tx EXCEPT ![w].hechos = @ \cup {r}, ![w].avisos = N]
  BY <1>1
<1>3. Solo(w) /\ tx'[w].avisos = N
  BY <1>0, <1>2, EfectoDeAnotar
<1> HIDE DEF e
<1>4. CASE N = tx[w].avisos
  <2>1. \A v \in Trabajadores : tx'[v].avisos = tx[v].avisos
    BY <1>3, <1>4 DEF Solo
  <2> QED
    BY <1>0, <2>1, CuentasSinNota
<1>5. CASE /\ N = tx[w].avisos \cup {[por |-> e, a |-> r, correo |-> "SKIPPED"]}
           /\ Visibles(w, clave[e], r) = {}
  <2>1. PICK n \in Aviso : n = [por |-> e, a |-> r, correo |-> "SKIPPED"]
    BY <1>0 DEF Aviso
  <2>2. N = tx[w].avisos \cup {n} /\ n.por = e /\ n.a = r
    BY <1>5, <2>1
  <2>3. \A x \in Vista(w) : ~(x.por = e /\ x.a = r)
    BY <1>0, <1>5, VisiblesPropios
  <2>4. N = Reemplazar(tx[w].avisos, n)
    BY <2>2, <2>3 DEF Reemplazar, Vista, VistaDe
  <2>5. ~Enviado(clave[n.por], n.a)
    BY <1>0, <2>2, <2>3, EnviadoSeVe DEF e
  <2>6. /\ \A v \in Trabajadores : SinPisar(v)'
        /\ \A k \in Claves, s \in Destinos : Enviado(k, s) => Enviado(k, s)'
    BY <1>0, <1>3, <2>4, <2>5, PasoDeNota
  <2> QED
    BY <1>0, <2>6, CuentaQuieta DEF CuentasOK
<1> QED
  BY <1>1, <1>4, <1>5

\* Counting the same on both sides keeps their order.
LEMMA SumarMonotono ==
    ASSUME NEW b \in 0 .. MaxCopias, NEW p \in 0 .. MaxCopias, NEW m \in Nat, b <= p
    PROVE  Sumar(b, m) <= Sumar(p, m)
  BY Cotas DEF Sumar

\* The e-mail that goes out is the first that a notice tells of.
LEMMA CuentasDeEnviar ==
    ASSUME ClavePropia, CuentasOK, EntregasOK', [Next]_vars, NEW w \in Trabajadores,
           NEW r \in Destinos, EnviarBien(w, r)
    PROVE  CuentasOK'
<1>0. EntregasOK /\ TiposOK /\ Exclusivo /\ UNCHANGED <<avisos, perdidas>>
  BY Entregas DEF EnviarBien, CuentasOK, EntregasOK
<1>1. PICK x \in PorEnviar(w, r) :
        /\ tx' = [tx EXCEPT ![w].hechos = @ \cup {r},
                            ![w].avisos = Reemplazar(@, [x EXCEPT !.correo = "SENT"])]
        /\ buzon' = [buzon EXCEPT ![clave[x.por]][r] = Sumar(@, 1)]
  BY DEF EnviarBien
<1>2. x \in Aviso /\ x.a = r
  BY <1>0, PorEnviarFiel
<1> DEFINE n == [x EXCEPT !.correo = "SENT"]
<1>3. n \in Aviso /\ n.por = x.por /\ n.a = r /\ n.correo = "SENT"
  BY <1>2 DEF Aviso
<1>4. tx' = [tx EXCEPT ![w].hechos = @ \cup {r}, ![w].avisos = Reemplazar(tx[w].avisos, n)]
  BY <1>1
<1> HIDE DEF n
<1>5. Solo(w) /\ tx'[w].avisos = Reemplazar(tx[w].avisos, n)
  BY <1>0, <1>4, EfectoDeAnotar
<1>6. ~Enviado(clave[n.por], n.a)
  BY <1>3, PorEnviarNoEnviado
<1>7. /\ \A v \in Trabajadores : SinPisar(v)'
      /\ \A k \in Claves, s \in Destinos : Enviado(k, s) => Enviado(k, s)'
      /\ Enviado(clave[n.por], n.a)'
  BY <1>0, <1>3, <1>5, <1>6, PasoDeNota
<1>8. clave[x.por] \in Claves
  BY <1>2, Parametros DEF Aviso
<1>9. /\ buzon'[clave[x.por]][r] = Sumar(buzon[clave[x.por]][r], 1)
      /\ \A l \in Claves, s \in Destinos :
           <<l, s>> # <<clave[x.por], r>> => buzon'[l][s] = buzon[l][s]
  <2>1. TiposOK /\ 1 \in Nat /\ buzon' = [buzon EXCEPT ![clave[x.por]][r] = Sumar(@, 1)]
    BY <1>0, <1>1
  <2> QED
    BY <1>8, <2>1, CreceAlSumar
<1>10. Cuenta(clave[x.por], r)'
  <2>1. /\ buzon[clave[x.por]][r] \in 0 .. MaxCopias /\ perdidas[clave[x.por]][r] \in 0 .. MaxCopias
    BY <1>8, Numeros
  <2>2. buzon[clave[x.por]][r] <= perdidas[clave[x.por]][r]
    BY <1>3, <1>6, <1>8 DEF CuentasOK, Cuenta
  <2>3. /\ Sumar(buzon[clave[x.por]][r], 1) <= buzon[clave[x.por]][r] + 1
        /\ Sumar(buzon[clave[x.por]][r], 1) \in 0 .. MaxCopias
    BY <2>1, SumarTipo
  <2>4. Sumar(buzon[clave[x.por]][r], 1) <= perdidas[clave[x.por]][r] + 1
    BY <2>1, <2>2, <2>3, Cotas
  <2> QED
    BY <1>0, <1>3, <1>7, <1>9, <2>4 DEF Cuenta
<1>11. ASSUME NEW k \in Claves, NEW s \in Destinos, <<k, s>> # <<clave[x.por], r>>
       PROVE  Cuenta(k, s)'
  BY <1>0, <1>7, <1>9, <1>11 DEF CuentasOK, Cuenta
<1> QED
  BY <1>7, <1>10, <1>11 DEF CuentasOK

\* An e-mail the relay may have sent is counted as received and as lost.
LEMMA CuentasDeFallar ==
    ASSUME ClavePropia, CuentasOK, EntregasOK', [Next]_vars, NEW w \in Trabajadores,
           NEW r \in Destinos, NEW demora \in {0, 1}, NEW llegan \in {0, 1},
           EnviarMal(w, r, demora, llegan)
    PROVE  CuentasOK'
<1>0. EntregasOK /\ TiposOK /\ Exclusivo /\ UNCHANGED avisos
  BY Entregas DEF EnviarMal, CuentasOK, EntregasOK
<1>1. PICK x \in PorEnviar(w, r) :
        /\ tx' = [tx EXCEPT ![w].avisos = Reemplazar(@, x),
                            ![w].fallidos = @ \cup {tx[w].actual},
                            ![w].actual = Ninguno,
                            ![w].hechos = {},
                            ![w].gastado = @ + demora]
        /\ buzon' = [buzon EXCEPT ![clave[x.por]][r] = Sumar(@, llegan)]
        /\ perdidas' = [perdidas EXCEPT ![clave[x.por]][r] = Sumar(@, llegan)]
  BY DEF EnviarMal
<1>2. x \in Aviso /\ x.a = r
  BY <1>0, PorEnviarFiel
<1>3. Solo(w) /\ tx'[w].avisos = Reemplazar(tx[w].avisos, x)
  BY <1>0, <1>1, EfectoDeFallar
<1>4. ~Enviado(clave[x.por], x.a)
  BY <1>2, PorEnviarNoEnviado
<1>5. /\ \A v \in Trabajadores : SinPisar(v)'
      /\ \A k \in Claves, s \in Destinos : Enviado(k, s) => Enviado(k, s)'
  BY <1>0, <1>2, <1>3, <1>4, PasoDeNota
<1>6. clave[x.por] \in Claves /\ llegan \in Nat
  BY <1>2, Parametros DEF Aviso
<1>7. /\ buzon'[clave[x.por]][r] = Sumar(buzon[clave[x.por]][r], llegan)
      /\ \A l \in Claves, s \in Destinos :
           <<l, s>> # <<clave[x.por], r>> => buzon'[l][s] = buzon[l][s]
  BY <1>0, <1>1, <1>6, CreceAlSumar
<1>8. /\ perdidas'[clave[x.por]][r] = Sumar(perdidas[clave[x.por]][r], llegan)
      /\ \A l \in Claves, s \in Destinos :
           <<l, s>> # <<clave[x.por], r>> => perdidas'[l][s] = perdidas[l][s]
  BY <1>0, <1>1, <1>6 DEF TiposOK
<1>9. Cuenta(clave[x.por], r)'
  <2>1. /\ buzon[clave[x.por]][r] \in 0 .. MaxCopias /\ perdidas[clave[x.por]][r] \in 0 .. MaxCopias
    BY <1>6, Numeros
  <2>2. buzon[clave[x.por]][r] <= perdidas[clave[x.por]][r]
    BY <1>2, <1>4, <1>6 DEF CuentasOK, Cuenta
  <2>3. Sumar(buzon[clave[x.por]][r], llegan) <= Sumar(perdidas[clave[x.por]][r], llegan)
    BY <1>6, <2>1, <2>2, SumarMonotono
  <2>4. /\ Sumar(buzon[clave[x.por]][r], llegan) \in 0 .. MaxCopias
        /\ Sumar(perdidas[clave[x.por]][r], llegan) \in 0 .. MaxCopias
    BY <1>6, <2>1, SumarTipo
  <2>5. Sumar(buzon[clave[x.por]][r], llegan) <= Sumar(perdidas[clave[x.por]][r], llegan) + 1
    BY <2>3, <2>4, Cotas
  <2> QED
    BY <1>7, <1>8, <2>3, <2>5 DEF Cuenta
<1>10. ASSUME NEW k \in Claves, NEW s \in Destinos, <<k, s>> # <<clave[x.por], r>>
       PROVE  Cuenta(k, s)'
  BY <1>5, <1>7, <1>8, <1>10 DEF CuentasOK, Cuenta
<1> QED
  BY <1>5, <1>9, <1>10 DEF CuentasOK

\* The e-mails of a lost run are counted as lost.
LEMMA CuentasDePerder ==
    ASSUME CuentasOK, EntregasOK', NEW w \in Trabajadores, Perder(w)
    PROVE  CuentasOK'
<1>0. TiposOK /\ Exclusivo /\ UNCHANGED <<avisos, buzon>>
  BY DEF Perder, CuentasOK, EntregasOK, TiposOK
<1>1. Solo(w) /\ tx'[w].avisos = {}
  BY <1>0, EfectoDeSoltar DEF Perder
<1>2. \A v \in Trabajadores : SinPisar(v)'
  BY <1>0, <1>1 DEF CuentasOK, SinPisar, Solo
<1>3. ASSUME NEW k \in Claves, NEW r \in Destinos
      PROVE  Cuenta(k, r)'
  <2> DEFINE N == {x \in tx[w].avisos : clave[x.por] = k /\ x.a = r /\ x.correo = "SENT"}
  <2>1. IsFiniteSet(N)
    BY <1>0, FS_Subset DEF TiposOK
  <2>2. Cardinality(N) \in Nat /\ (Cardinality(N) = 0 <=> N = {})
    BY <2>1, FS_CardinalityType, FS_EmptySet
  <2>3. perdidas'[k][r] = Sumar(perdidas[k][r], Cardinality(N))
    BY DEF Perder, Mias
  <2>4. /\ buzon[k][r] \in 0 .. MaxCopias /\ perdidas[k][r] \in 0 .. MaxCopias
        /\ buzon[k][r] <= perdidas[k][r] + 1
    BY Numeros DEF CuentasOK, Cuenta
  <2>5. CASE N # {}
    <3>1. Cardinality(N) >= 1
      BY <2>2, <2>5
    <3> HIDE DEF N
    <3>2. buzon[k][r] <= Sumar(perdidas[k][r], Cardinality(N))
      BY <2>2, <2>4, <3>1, Cotas DEF Sumar
    <3>3. Sumar(perdidas[k][r], Cardinality(N)) \in 0 .. MaxCopias
      BY <2>2, <2>4, SumarTipo
    <3>4. buzon[k][r] <= Sumar(perdidas[k][r], Cardinality(N)) + 1
      BY <2>4, <3>2, <3>3, Cotas
    <3> QED
      BY <1>0, <2>3, <3>2, <3>4 DEF Cuenta
  <2>6. CASE N = {}
    <3>1. Enviado(k, r) => Enviado(k, r)'
      BY <1>0, <1>1, <2>6 DEF Enviado, Va, Solo
    <3>2. Cardinality(N) = 0
      BY <2>2, <2>6
    <3> HIDE DEF N
    <3>3. perdidas'[k][r] = perdidas[k][r]
      BY <2>3, <2>4, <3>2, Cotas DEF Sumar
    <3> QED
      BY <1>0, <3>1, <3>3 DEF CuentasOK, Cuenta
  <2> QED
    BY <2>5, <2>6
<1> QED
  BY <1>2, <1>3 DEF CuentasOK

\* A commit keeps every record of an e-mail that was sent.
LEMMA CuentasDeConfirmar ==
    ASSUME CuentasOK, EntregasOK', NEW w \in Trabajadores, Confirmar(w)
    PROVE  CuentasOK'
<1>0. EntregasOK /\ Exclusivo /\ RunOK(w) /\ SinPisar(w)
  BY Entregas DEF CuentasOK
<1>1. avisos' = Vista(w) /\ UNCHANGED <<buzon, perdidas>>
  BY DEF Confirmar, Vista, VistaDe, Mias
<1>2. Solo(w) /\ tx'[w].avisos = {}
  BY <1>0, EfectoDeSoltar DEF Confirmar
<1>3. ASSUME NEW v \in Trabajadores
      PROVE  SinPisar(v)'
  <2>1. CASE v = w
    BY <1>2, <2>1 DEF SinPisar
  <2>2. CASE v # w
    <3>1. tx'[v] = tx[v] /\ RunOK(v) /\ SinPisar(v) /\ Manos(v) \cap Manos(w) = {}
      BY <1>0, <1>2, <2>2, Entregas DEF Solo, Exclusivo, CuentasOK
    <3>2. \A x \in tx[w].avisos, y \in tx[v].avisos : x.por # y.por
      BY <1>0, <3>1 DEF RunOK
    <3> QED
      BY <1>1, <3>1, <3>2 DEF SinPisar, Vista, VistaDe
  <2> QED
    BY <2>1, <2>2
<1>4. ASSUME NEW k \in Claves, NEW r \in Destinos, Enviado(k, r)
      PROVE  Enviado(k, r)'
  <2>1. ASSUME NEW x \in avisos, Va(x, k, r)
        PROVE  Enviado(k, r)'
    <3>1. x \in avisos'
      BY <1>0, <1>1, <2>1 DEF Va, SinPisar, Vista, VistaDe
    <3> QED
      BY <2>1, <3>1 DEF Enviado, Va
  <2>2. ASSUME NEW v \in Trabajadores, NEW x \in tx[v].avisos, Va(x, k, r)
        PROVE  Enviado(k, r)'
    <3>1. CASE v = w
      <4>1. x \in avisos'
        BY <1>1, <2>2, <3>1 DEF Vista, VistaDe
      <4> QED
        BY <2>2, <4>1 DEF Enviado, Va
    <3>2. CASE v # w
      BY <1>2, <2>2, <3>2 DEF Enviado, Va, Solo
    <3> QED
      BY <3>1, <3>2
  <2> QED
    BY <1>4, <2>1, <2>2 DEF Enviado
<1> QED
  BY <1>1, <1>3, <1>4, CuentaQuieta DEF CuentasOK

\* Nothing was sent at the start.
LEMMA CuentasInicial == Init => CuentasOK
<1> SUFFICES ASSUME Init PROVE CuentasOK
  OBVIOUS
<1>1. \A w \in Trabajadores : SinPisar(w)
  BY DEF Init, SinPisar
<1>2. \A k \in Claves, r \in Destinos : Cuenta(k, r)
  BY DEF Init, Cuenta
<1> QED
  BY <1>1, <1>2, EntregasInicial DEF CuentasOK

\* The invariant of copies is inductive.
LEMMA CuentasPaso == ClavePropia => (CuentasOK /\ [Next]_vars => CuentasOK')
<1> SUFFICES ASSUME ClavePropia, CuentasOK, [Next]_vars
             PROVE  CuentasOK'
  OBVIOUS
<1>0. EntregasOK /\ Exclusivo /\ EntregasOK'
  BY EntregasPaso DEF CuentasOK, EntregasOK, TiposOK
<1>1. ASSUME NEW w \in Trabajadores, Trabajar(w)
      PROVE  CuentasOK'
  <2>1. ASSUME NEW S \in SUBSET Eventos, Reclamar(w, S)
        PROVE  CuentasOK'
    <3>1. tx[w].avisos = {}
      BY <2>1 DEF Reclamar, Libre
    <3>2. Solo(w) /\ tx'[w].avisos = {}
      BY <1>0, <2>1, EfectoDeReclamar
    <3>3. UNCHANGED <<avisos, buzon, perdidas>>
      BY <2>1 DEF Reclamar
    <3>4. \A v \in Trabajadores : tx'[v].avisos = tx[v].avisos
      BY <3>1, <3>2 DEF Solo
    <3> QED
      BY <1>0, <3>3, <3>4, CuentasSinNota
  <2>2. ASSUME NEW e \in Eventos, EmpezarEvento(w, e)
        PROVE  CuentasOK'
    <3>1. Solo(w) /\ tx'[w].avisos = tx[w].avisos
      BY <1>0, <2>2, EfectoDeEmpezar
    <3>2. UNCHANGED <<avisos, buzon, perdidas>>
      BY <2>2 DEF EmpezarEvento
    <3>3. \A v \in Trabajadores : tx'[v].avisos = tx[v].avisos
      BY <3>1 DEF Solo
    <3> QED
      BY <1>0, <3>2, <3>3, CuentasSinNota
  <2>3. ASSUME NEW r \in Destinos, AtenderSinCorreo(w, r)
        PROVE  CuentasOK'
    BY <1>0, <2>3, CuentasDeAtender
  <2>4. ASSUME NEW r \in Destinos, EnviarBien(w, r)
        PROVE  CuentasOK'
    BY <1>0, <2>4, CuentasDeEnviar
  <2>5. ASSUME NEW r \in Destinos, NEW demora \in {0, 1}, NEW llegan \in {0, 1},
               EnviarMal(w, r, demora, llegan)
        PROVE  CuentasOK'
    BY <1>0, <2>5, CuentasDeFallar
  <2>6. CASE TerminarEvento(w)
    <3>1. Solo(w) /\ tx'[w].avisos = tx[w].avisos
      BY <1>0, <2>6, EfectoDeTerminar
    <3>2. UNCHANGED <<avisos, buzon, perdidas>>
      BY <2>6 DEF TerminarEvento
    <3>3. \A v \in Trabajadores : tx'[v].avisos = tx[v].avisos
      BY <3>1 DEF Solo
    <3> QED
      BY <1>0, <3>2, <3>3, CuentasSinNota
  <2>7. CASE Confirmar(w)
    BY <1>0, <2>7, CuentasDeConfirmar
  <2>8. CASE Matar(w)
    BY <1>0, <2>8, CuentasDePerder DEF Matar
  <2> QED
    BY <1>1, <2>1, <2>2, <2>3, <2>4, <2>5, <2>6, <2>7, <2>8 DEF Trabajar
<1>2. ASSUME UNCHANGED <<tx, avisos, buzon, perdidas>>
      PROVE  CuentasOK'
  BY <1>0, <1>2, CuentasSinNota
<1>3. ASSUME NEW e \in Eventos, Publicar(e) \/ Esperar(e)
      PROVE  CuentasOK'
  BY <1>2, <1>3 DEF Publicar, Esperar
<1>4. ASSUME NEW w \in Trabajadores, Caer(w)
      PROVE  CuentasOK'
  BY <1>0, <1>4, CuentasDePerder DEF Caer
<1>5. CASE UNCHANGED vars
  BY <1>2, <1>5 DEF vars
<1> QED
  BY <1>1, <1>3, <1>4, <1>5 DEF Next

\* The counts give what the run checks.
LEMMA CuentasBastan == CuentasOK => CopiasPorPerdida
<1> SUFFICES ASSUME CuentasOK, NEW k \in Claves, NEW r \in Destinos
             PROVE  buzon[k][r] <= 1 + perdidas[k][r]
  BY DEF CopiasPorPerdida
<1>1. buzon[k][r] <= perdidas[k][r] + 1 /\ perdidas[k][r] \in Int
  BY Numeros DEF CuentasOK, Cuenta
<1> QED
  BY <1>1

\* Retries send nothing twice: of the copies somebody receives, all but one are
\* e-mails whose record was lost.
THEOREM CopiasPorPerdidaSiempre ==
    ASSUME ClavePropia
    PROVE  Spec => []CopiasPorPerdida
<1>1. CuentasOK /\ [Next]_vars => CuentasOK'
  BY CuentasPaso
<1> QED
  BY <1>1, CuentasInicial, CuentasBastan, PTL DEF Spec
=============================================================================
