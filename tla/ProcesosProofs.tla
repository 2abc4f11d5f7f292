--------------------------- MODULE ProcesosProofs ---------------------------
(***************************************************************************)
(* What holds of the work done outside of the requests, for any number of  *)
(* everything: the nightly archiving (Cargas), the tasks that build the    *)
(* exports (Exportaciones) and the scripts that bring the old system over  *)
(* (Migracion).  They share no state, and no theorem combines them.        *)
(***************************************************************************)
EXTENDS Cargas, Exportaciones, Migracion, TLAPS

-----------------------------------------------------------------------------
(* Archiving.  The three properties of retention lean on one another: an   *)
(* archived shipment stays closed because nothing moves it, and a reverted *)
(* one has no retention because only closed shipments have one.            *)

RetencionOK == TypeOK /\ PlazoDeCerradas /\ ArchivadaCumplida

\* Dispatched is not a closed status, and only closed statuses are archived.
LEMMA CerradosSonEstados ==
    /\ Cerrados \subseteq Estados
    /\ EstadosIniciales \subseteq Estados
    /\ EstadosIniciales \cap Cerrados = {}
    /\ "DISPATCHED" \in Estados \ Cerrados
  BY DEF Cerrados, Estados, EstadosIniciales, SecuenciaInicial, SecuenciaMaritima

\* A shipment is registered open, without a retention date, and not archived.
LEMMA RetencionInicial == Init => RetencionOK
  BY CerradosSonEstados
     DEF Init, RetencionOK, TypeOK, PlazoDeCerradas, ArchivadaCumplida,
         EstadosDisputa, Inactivo

\* The effect of a transition on status and retention date.
LEMMA EfectoDeAplicar ==
    ASSUME TypeOK, PlazoDeCerradas, NEW c \in Cargas, NEW hacia \in Estados,
           Aplicar(c, hacia)
    PROVE  /\ estado' = [estado EXCEPT ![c] = hacia]
           /\ plazo' \in [Cargas -> {"NULO", "CORRIENDO", "VENCIDO"}]
           /\ \A x \in Cargas \ {c} : plazo'[x] = plazo[x]
           /\ plazo'[c] # "NULO" <=> hacia \in Cerrados
<1>1. PICK p \in IF hacia \in Cerrados THEN {"CORRIENDO", "VENCIDO"} ELSE {"NULO"} :
        plazo' = [plazo EXCEPT ![c] = IF {hacia, estado[c]} \cap Cerrados = {}
                                      THEN @ ELSE p]
  BY DEF Aplicar
<1>2. plazo[c] # "NULO" <=> estado[c] \in Cerrados
  BY DEF PlazoDeCerradas
<1>3. plazo'[c] = IF hacia \notin Cerrados /\ estado[c] \notin Cerrados
                  THEN plazo[c] ELSE p
  BY <1>1 DEF TypeOK
<1> QED
  BY <1>1, <1>2, <1>3 DEF TypeOK, Aplicar

\* A transition of a shipment that is not archived keeps the invariant.
LEMMA AplicarConserva ==
    ASSUME RetencionOK, NEW c \in Cargas, NEW hacia \in Estados, ~archivada[c],
           Aplicar(c, hacia), UNCHANGED <<archivada, revision, barrido>>,
           disputa' \in [Cargas -> [Disputas -> EstadosDisputa]]
    PROVE  RetencionOK'
<1>0. TypeOK /\ PlazoDeCerradas /\ ArchivadaCumplida
  BY DEF RetencionOK
<1>1. TypeOK'
  BY <1>0, EfectoDeAplicar DEF TypeOK
<1>2. PlazoDeCerradas'
  BY <1>0, EfectoDeAplicar DEF TypeOK, PlazoDeCerradas
<1>3. ArchivadaCumplida'
  BY <1>0, EfectoDeAplicar DEF TypeOK, ArchivadaCumplida
<1> QED
  BY <1>1, <1>2, <1>3 DEF RetencionOK

\* Every step of a handler, of time and of the sweep keeps the invariant.
LEMMA RetencionPaso == RetencionOK /\ [Next]_vars => RetencionOK'
<1> SUFFICES ASSUME RetencionOK, [Next]_vars
             PROVE  RetencionOK'
  OBVIOUS
<1>0. TypeOK /\ PlazoDeCerradas /\ ArchivadaCumplida
  BY DEF RetencionOK
<1>1. ASSUME NEW c \in Cargas, NEW hacia \in Estados, NEW libre \in BOOLEAN,
             Transicionar(c, hacia, libre)
      PROVE  RetencionOK'
  BY <1>0, <1>1, AplicarConserva DEF Transicionar, PuedeTransicionar, TypeOK
<1>2. ASSUME NEW c \in Cargas, NEW k \in Disputas, ReportarInconformidad(c, k)
      PROVE  RetencionOK'
  BY <1>0, <1>2
     DEF ReportarInconformidad, RetencionOK, TypeOK, PlazoDeCerradas, ArchivadaCumplida,
         EstadosDisputa
<1>3. ASSUME NEW c \in Cargas, NEW k \in Disputas, ConfirmarEntrega(c, k)
      PROVE  RetencionOK'
  BY <1>0, <1>3
     DEF ConfirmarEntrega, RetencionOK, TypeOK, PlazoDeCerradas, ArchivadaCumplida,
         EstadosDisputa
<1>4. ASSUME NEW c \in Cargas, NEW k \in Disputas, NEW libre \in BOOLEAN,
             RevertirEntrega(c, k, libre)
      PROVE  RetencionOK'
  <2>1. disputa' \in [Cargas -> [Disputas -> EstadosDisputa]]
    BY <1>0, <1>4 DEF RevertirEntrega, TypeOK, EstadosDisputa
  <2> QED
    BY <1>0, <1>4, <2>1, AplicarConserva, CerradosSonEstados
       DEF RevertirEntrega, PuedeTransicionar
<1>5. ASSUME NEW c \in Cargas, ResolverRevision(c) \/ Vencer(c)
      PROVE  RetencionOK'
  BY <1>0, <1>5
     DEF ResolverRevision, Vencer, RetencionOK, TypeOK, PlazoDeCerradas, ArchivadaCumplida
<1>6. ASSUME NEW w \in Trabajadores, BarridoLeer(w)
      PROVE  RetencionOK'
  BY <1>0, <1>6
     DEF BarridoLeer, RetencionOK, TypeOK, PlazoDeCerradas, ArchivadaCumplida
<1>7. ASSUME NEW w \in Trabajadores, NEW S \in SUBSET Cargas, BarridoArchivar(w, S)
      PROVE  RetencionOK'
  <2>1. \A c \in S : FilaArchivable(c)
    BY <1>7 DEF BarridoArchivar
  <2> QED
    BY <1>0, <1>7, <2>1
       DEF BarridoArchivar, FilaArchivable, RetencionOK, TypeOK, PlazoDeCerradas,
           ArchivadaCumplida, Inactivo
<1>8. CASE UNCHANGED vars
  BY <1>0, <1>8 DEF vars, RetencionOK, TypeOK, PlazoDeCerradas, ArchivadaCumplida
<1> QED
  BY <1>1, <1>2, <1>3, <1>4, <1>5, <1>6, <1>7, <1>8 DEF Next, Inconformidades

\* The invariant holds of every behaviour.
LEMMA RetencionSiempre == Spec => []RetencionOK
  BY RetencionInicial, RetencionPaso, PTL DEF Spec

\* Shipments, disputes and sweeps keep their types.
THEOREM TipoCorrecto == Spec => []TypeOK
  BY RetencionSiempre, PTL DEF RetencionOK

\* A shipment has a retention date exactly while it is closed.
THEOREM PlazoDeCerradasSiempre == Spec => []PlazoDeCerradas
  BY RetencionSiempre, PTL DEF RetencionOK

\* Whatever changed between the sweep's snapshot and its lock, what is archived
\* is closed, expired and reviewed.
THEOREM ArchivadaCumplidaSiempre == Spec => []ArchivadaCumplida
  BY RetencionSiempre, PTL DEF RetencionOK

-----------------------------------------------------------------------------
\* What a step does to the disputes.
Coherente ==
    \A c \in Cargas, k \in Disputas :
        /\ disputa[c][k] \in {"RESOLVED_CONFIRMED", "RESOLVED_REVERTED"} =>
             disputa'[c][k] = disputa[c][k]
        /\ disputa[c][k] = "OPEN" /\ disputa'[c][k] = "RESOLVED_REVERTED" =>
             estado'[c] = "DISPATCHED" /\ ~archivada'[c] /\ plazo'[c] = "NULO"

\* Every step resolves a dispute for good and a reversal moves its shipment.
LEMMA PasoCoherente == RetencionOK /\ [Next]_vars => Coherente
<1> SUFFICES ASSUME RetencionOK, [Next]_vars
             PROVE  Coherente
  OBVIOUS
<1>0. TypeOK /\ PlazoDeCerradas /\ ArchivadaCumplida
  BY DEF RetencionOK
<1>1. ASSUME UNCHANGED disputa
      PROVE  Coherente
  BY <1>0, <1>1 DEF Coherente, TypeOK
<1>2. ASSUME NEW c \in Cargas, NEW k \in Disputas,
             ReportarInconformidad(c, k) \/ ConfirmarEntrega(c, k)
      PROVE  Coherente
  BY <1>0, <1>2 DEF ReportarInconformidad, ConfirmarEntrega, Coherente, TypeOK
<1>3. ASSUME NEW c \in Cargas, NEW k \in Disputas, NEW libre \in BOOLEAN,
             RevertirEntrega(c, k, libre)
      PROVE  Coherente
  <2>1. /\ estado' = [estado EXCEPT ![c] = "DISPATCHED"]
        /\ plazo'[c] = "NULO"
    BY <1>0, <1>3, EfectoDeAplicar, CerradosSonEstados DEF RevertirEntrega
  <2>2. disputa' = [disputa EXCEPT ![c][k] = "RESOLVED_REVERTED"] /\ disputa[c][k] = "OPEN"
    BY <1>3 DEF RevertirEntrega
  <2>3. ~archivada'[c]
    BY <1>3 DEF RevertirEntrega, PuedeTransicionar
  <2> QED
    BY <1>0, <2>1, <2>2, <2>3 DEF Coherente, TypeOK
<1>4. ASSUME NEW c \in Cargas, NEW hacia \in Estados, NEW libre \in BOOLEAN,
             Transicionar(c, hacia, libre)
      PROVE  Coherente
  BY <1>1, <1>4 DEF Transicionar
<1>5. ASSUME NEW c \in Cargas, ResolverRevision(c) \/ Vencer(c)
      PROVE  Coherente
  BY <1>1, <1>5 DEF ResolverRevision, Vencer
<1>6. ASSUME NEW w \in Trabajadores, NEW S \in SUBSET Cargas,
             BarridoLeer(w) \/ BarridoArchivar(w, S)
      PROVE  Coherente
  BY <1>1, <1>6 DEF BarridoLeer, BarridoArchivar
<1>7. CASE UNCHANGED vars
  BY <1>1, <1>7 DEF vars
<1> QED
  BY <1>2, <1>3, <1>4, <1>5, <1>6, <1>7 DEF Next, Inconformidades

\* A dispute is resolved once; resolving it as a reversal leaves its shipment
\* dispatched, out of the archive and without a retention date.
THEOREM ReversionCoherenteSiempre == Spec => ReversionCoherente
<1>1. RetencionOK /\ [Next]_vars => [Coherente]_vars
  BY PasoCoherente
<1>2. Spec => [][Coherente]_vars
  BY <1>1, RetencionSiempre, PTL DEF Spec
<1>3. [Coherente]_vars =>
        [\A c \in Cargas, k \in Disputas :
         /\ disputa[c][k] \in {"RESOLVED_CONFIRMED", "RESOLVED_REVERTED"} =>
              disputa'[c][k] = disputa[c][k]
         /\ disputa[c][k] = "OPEN" /\ disputa'[c][k] = "RESOLVED_REVERTED" =>
              estado'[c] = "DISPATCHED" /\ ~archivada'[c] /\ plazo'[c] = "NULO"]_vars
  BY DEF Coherente
<1> QED
  BY <1>2, <1>3, PTL DEF ReversionCoherente

-----------------------------------------------------------------------------
(* Exports.  A task that uploaded its file holds what its job was asked    *)
(* for, and keeps holding it: the sweep deletes an object only when its    *)
(* row is ready and expired, and then nobody is building it.               *)

\* The worker may still write the object of the job.
Construye(w, t) == tarea[w].job = t /\ tarea[w].fase \in {"CONSTRUYE", "SUBIO"}

\* A task builds what its job was asked for, and what it uploaded is there.
TareasFieles ==
    \A w \in Obreros :
        /\ tarea[w].fase # "LIBRE" => tarea[w].job \in Fuentes
        /\ tarea[w].fase \in {"CONSTRUYE", "SUBIO"} => tarea[w].lleva = tarea[w].job
        /\ tarea[w].fase = "SUBIO" => zip[tarea[w].job] = tarea[w].job

\* The sweep holds rows that are ready and expired; they cannot be revived.
BarridoFiel == \A t \in limpieza.filas : status[t] = "READY" /\ vencida[t]

\* Once a job expired, nobody builds a ready one, and one task at most one in
\* processing: who had lost it is over, and nobody claims an expired job.
UnaObra ==
    \A t \in Fuentes, w \in Obreros :
        vencida[t] /\ Construye(w, t) =>
            /\ status[t] # "READY"
            /\ status[t] = "PROCESSING" => \A v \in Obreros : Construye(v, t) => v = w

ExportFiel == TareasFieles /\ BarridoFiel /\ UnaObra /\ DescargaFiel
ExportOK == ExTypeOK /\ ExportFiel

\* There are no jobs, tasks or objects.
LEMMA ExportInicial == ExInit => ExportOK
  BY ExParametros DEF ExInit, ExportOK, ExportFiel, ExTypeOK, EstadosDeExportacion, Reintentos, Libre,
         Quieto, TareasFieles, BarridoFiel, UnaObra, Construye, DescargaFiel, Descargable

\* A message more in the broker, within the bound of copies.
LEMMA ConMensajeTipado ==
    ASSUME ExTypeOK, NEW t, NEW n
    PROVE  ConMensaje(t, n) \in [Fuentes -> [Reintentos -> 0 .. MaxMensajes]]
<1>1. CASE t \in Fuentes
  <2>1. CASE n \in Reintentos
    <3> DEFINE k == IF cola[t][n] < MaxMensajes THEN cola[t][n] + 1 ELSE cola[t][n]
               uno == [cola[t] EXCEPT ![n] = k]
    <3>1. cola[t] \in [Reintentos -> 0 .. MaxMensajes]
      BY <1>1 DEF ExTypeOK
    <3>2. k \in 0 .. MaxMensajes
      BY ExParametros, <2>1, <3>1
    <3> HIDE DEF k
    <3>3. uno \in [Reintentos -> 0 .. MaxMensajes]
      BY <3>1, <3>2
    <3> HIDE DEF uno
    <3>4. [cola EXCEPT ![t] = uno] \in [Fuentes -> [Reintentos -> 0 .. MaxMensajes]]
      BY <3>3 DEF ExTypeOK
    <3>5. ConMensaje(t, n) = [cola EXCEPT ![t] = uno]
      BY DEF ConMensaje, uno, k
    <3> QED
      BY <3>4, <3>5
  <2>2. CASE n \notin Reintentos
    BY <1>1, <2>2 DEF ConMensaje, ExTypeOK
  <2> QED
    BY <2>1, <2>2
<1>2. CASE t \notin Fuentes
  BY <1>2 DEF ConMensaje, ExTypeOK
<1> QED
  BY <1>1, <1>2

\* A message less.
LEMMA TomarTipado ==
    ASSUME ExTypeOK, NEW w \in Obreros, NEW t \in Fuentes, NEW n \in Reintentos,
           Tomar(w, t, n)
    PROVE  cola' \in [Fuentes -> [Reintentos -> 0 .. MaxMensajes]]
<1> DEFINE k == cola[t][n] - 1
           uno == [cola[t] EXCEPT ![n] = k]
<1>1. cola[t] \in [Reintentos -> 0 .. MaxMensajes] /\ cola[t][n] > 0
  BY DEF ExTypeOK, Tomar
<1>2. k \in 0 .. MaxMensajes
  BY ExParametros, <1>1
<1> HIDE DEF k
<1>3. uno \in [Reintentos -> 0 .. MaxMensajes]
  BY <1>1, <1>2
<1> HIDE DEF uno
<1>4. [cola EXCEPT ![t] = uno] \in [Fuentes -> [Reintentos -> 0 .. MaxMensajes]]
  BY <1>3 DEF ExTypeOK
<1>5. cola' = [cola EXCEPT ![t] = uno]
  BY DEF Tomar, uno, k
<1> QED
  BY <1>4, <1>5

\* The records of tarea.
Fases == {"LIBRE", "CONSTRUYE", "SUBIO", "FALLA", "REPROGRAMA", "REINTENTA"}
Tareas == [fase : Fases, job : Fuentes \cup {Ninguno}, n : Reintentos, lleva : Fuentes \cup {Ninguno}]

\* Ending a task and changing its phase give tasks.
LEMMA TareasTipadas ==
    ASSUME ExTypeOK, NEW w \in Obreros
    PROVE  /\ tarea \in [Obreros -> Tareas]
           /\ Libre \in Tareas
           /\ \A f \in Fases : [tarea[w] EXCEPT !.fase = f] \in Tareas
           /\ TrasFallar(w) \in Tareas
<1>1. tarea \in [Obreros -> Tareas]
  BY DEF ExTypeOK, Tareas, Fases
<1>2. Libre \in Tareas
  BY ExParametros DEF Libre, Tareas, Fases, Reintentos
<1>3. ASSUME NEW f \in Fases
      PROVE  [tarea[w] EXCEPT !.fase = f] \in Tareas
  BY <1>1 DEF Tareas
<1>4. TrasFallar(w) \in Tareas
  BY <1>2, <1>3 DEF TrasFallar, Fases
<1> QED
  BY <1>1, <1>2, <1>3, <1>4

\* Every step keeps the types.
LEMMA TipoPaso == ExTypeOK /\ TareasFieles /\ [ExNext]_exVars => ExTypeOK'
<1> SUFFICES ASSUME ExTypeOK, TareasFieles, [ExNext]_exVars
             PROVE  ExTypeOK'
  OBVIOUS
<1> USE DEF jobVars
<1>0. ASSUME NEW t \in Fuentes \cup {Ninguno}, CambiarFuente(t)
      PROVE  ExTypeOK'
  BY ExParametros, <1>0 DEF ExTypeOK, CambiarFuente
<1>1. ASSUME NEW t \in Fuentes, VencerExportacion(t) \/ Crear(t)
      PROVE  ExTypeOK'
  <2>2. CASE VencerExportacion(t)
    BY <2>2 DEF ExTypeOK, VencerExportacion
  <2>3. CASE Crear(t)
    <3>1. status' \in [Fuentes -> EstadosDeExportacion] /\ vidas' \in 0 .. MaxVidas
      BY ExParametros, <2>3 DEF ExTypeOK, Crear, EstadosDeExportacion
    <3> QED
      BY <2>3, <3>1 DEF ExTypeOK, Crear
  <2> QED
    BY <1>1, <2>2, <2>3
<1>2. ASSUME NEW t \in Fuentes, Encolar(t) \/ NoEncolada(t) \/ CaerAlEncolar(t)
      PROVE  ExTypeOK'
  <2>1. cola' \in [Fuentes -> [Reintentos -> 0 .. MaxMensajes]]
    BY <1>2, ConMensajeTipado DEF ExTypeOK, Encolar, NoEncolada, CaerAlEncolar
  <2>2. status' \in [Fuentes -> EstadosDeExportacion]
    BY <1>2 DEF ExTypeOK, Encolar, NoEncolada, CaerAlEncolar, EstadosDeExportacion
  <2>3. fallos' \in 0 .. MaxFallos
    BY ExParametros, <1>2 DEF ExTypeOK, Encolar, NoEncolada, CaerAlEncolar, Falla
  <2>4. encolando' \in [Fuentes -> BOOLEAN] /\ perdida' \in [Fuentes -> BOOLEAN]
    BY <1>2 DEF ExTypeOK, Encolar, NoEncolada, CaerAlEncolar
  <2> QED
    BY <1>2, <2>1, <2>2, <2>3, <2>4 DEF ExTypeOK, Encolar, NoEncolada, CaerAlEncolar
<1>3. ASSUME NEW w \in Obreros, NEW t \in Fuentes, NEW n \in Reintentos,
             Reclamar(w, t, n) \/ FuenteCambio(w, t, n) \/ SinCambios(w, t, n)
      PROVE  ExTypeOK'
  <2>1. cola' \in [Fuentes -> [Reintentos -> 0 .. MaxMensajes]]
    BY <1>3, TomarTipado DEF Reclamar, FuenteCambio, SinCambios
  <2>2. tarea' \in [Obreros -> Tareas]
    <3>1. MaxReintentos \in Reintentos
      BY ExParametros DEF Reintentos
    <3>2. fuente \in Fuentes \cup {Ninguno}
      BY DEF ExTypeOK
    <3>3. [fase |-> "CONSTRUYE", job |-> t, n |-> n, lleva |-> fuente] \in Tareas
      BY <3>2 DEF Tareas, Fases
    <3>4. [fase |-> "FALLA", job |-> t, lleva |-> Ninguno,
           n |-> IF fuente = Ninguno THEN n ELSE MaxReintentos] \in Tareas
      BY <3>1 DEF Tareas, Fases
    <3> QED
      BY <1>3, <3>3, <3>4, TareasTipadas DEF Reclamar, FuenteCambio, SinCambios
  <2>3. status' \in [Fuentes -> EstadosDeExportacion]
    BY <1>3 DEF ExTypeOK, Reclamar, FuenteCambio, SinCambios, EstadosDeExportacion
  <2> QED
    BY <1>3, <2>1, <2>2, <2>3 DEF ExTypeOK, Reclamar, FuenteCambio, SinCambios, Tareas,
        Fases
<1>4. ASSUME NEW w \in Obreros,
             SubirZip(w) \/ FallarAlConstruir(w) \/ Publicar(w) \/ NoPublicar(w)
      PROVE  ExTypeOK'
  <2>1. tarea' \in [Obreros -> Tareas]
    BY <1>4, TareasTipadas DEF SubirZip, FallarAlConstruir, Publicar, NoPublicar, Fases
  <2>2. status' \in [Fuentes -> EstadosDeExportacion]
    BY <1>4 DEF ExTypeOK, SubirZip, FallarAlConstruir, Publicar, NoPublicar, EstadosDeExportacion
  <2>3. zip' \in [Fuentes -> Fuentes \cup {Ninguno}]
    BY <1>4 DEF ExTypeOK, SubirZip, FallarAlConstruir, Publicar, NoPublicar
  <2>4. fallos' \in 0 .. MaxFallos
    <3>1. fallos' = fallos \/ Falla
      BY <1>4 DEF SubirZip, FallarAlConstruir, Publicar, NoPublicar
    <3> QED
      BY ExParametros, <3>1 DEF ExTypeOK, Falla
  <2> QED
    BY <1>4, <2>1, <2>2, <2>3, <2>4
       DEF ExTypeOK, SubirZip, FallarAlConstruir, Publicar, NoPublicar, Tareas, Fases
<1>5. ASSUME NEW w \in Obreros, MarcarFallida(w) \/ Reprogramar(w)
      PROVE  ExTypeOK'
  <2>1. tarea' \in [Obreros -> Tareas]
    BY <1>5, TareasTipadas DEF MarcarFallida, Reprogramar, Fases
  <2>2. status' \in [Fuentes -> EstadosDeExportacion]
    BY <1>5 DEF ExTypeOK, MarcarFallida, Reprogramar, EstadosDeExportacion
  <2> QED
    BY <1>5, <2>1, <2>2 DEF ExTypeOK, MarcarFallida, Reprogramar, Tareas, Fases
<1>6. ASSUME NEW w \in Obreros, Reintentar(w) \/ Morir(w)
      PROVE  ExTypeOK'
  <2>1. cola' \in [Fuentes -> [Reintentos -> 0 .. MaxMensajes]]
    BY <1>6, ConMensajeTipado DEF ExTypeOK, Reintentar, Morir
  <2>2. tarea' \in [Obreros -> Tareas]
    BY <1>6, TareasTipadas DEF Reintentar, Morir
  <2>3. fallos' \in 0 .. MaxFallos
    BY ExParametros, <1>6 DEF ExTypeOK, Reintentar, Morir, Falla
  <2>4. perdida' \in [Fuentes -> BOOLEAN]
    BY <1>6 DEF ExTypeOK, Reintentar, Morir
  <2> QED
    BY <1>6, <2>1, <2>2, <2>3, <2>4 DEF ExTypeOK, Reintentar, Morir, Tareas, Fases
<1>7. ASSUME \/ TomarVencidas \/ ConfirmarBarrido \/ PerderBarrido
             \/ \E t \in Fuentes : BorrarZip(t)
      PROVE  ExTypeOK'
  <2>1. CASE TomarVencidas
    BY <2>1 DEF ExTypeOK, TomarVencidas
  <2>2. CASE ConfirmarBarrido
    BY <2>2 DEF ExTypeOK, ConfirmarBarrido, EstadosDeExportacion, Quieto
  <2>3. CASE PerderBarrido
    BY ExParametros, <2>3 DEF ExTypeOK, PerderBarrido, Falla, Quieto
  <2>4. ASSUME NEW t \in Fuentes, BorrarZip(t)
        PROVE  ExTypeOK'
    BY <2>4 DEF ExTypeOK, BorrarZip
  <2> QED
    BY <1>7, <2>1, <2>2, <2>3, <2>4
<1>8. CASE UNCHANGED exVars
  BY <1>8 DEF exVars, ExTypeOK
<1> QED
  BY <1>0, <1>1, <1>2, <1>3, <1>4, <1>5, <1>6, <1>7, <1>8 DEF ExNext, Ejecutar, Expirar

\* A task that no longer builds disturbs neither the others nor the count of
\* those that do, if no job is published or claimed meanwhile.
LEMMA TareaQueDeja ==
    ASSUME tarea \in [Obreros -> Tareas], TareasFieles, UnaObra,
           NEW w \in Obreros, NEW r, tarea' = [tarea EXCEPT ![w] = r],
           r.fase \notin {"CONSTRUYE", "SUBIO"}, r.fase # "LIBRE" => r.job \in Fuentes,
           zip' = zip, vencida' = vencida,
           \A t \in Fuentes : status'[t] \in {"READY", "PROCESSING"} => status'[t] = status[t]
    PROVE  TareasFieles' /\ UnaObra'
<1>1. tarea'[w] = r /\ \A v \in Obreros \ {w} : tarea'[v] = tarea[v]
  OBVIOUS
<1>2. TareasFieles'
  BY <1>1 DEF TareasFieles
<1>3. UnaObra'
  BY <1>1 DEF UnaObra, Construye
<1> QED
  BY <1>2, <1>3

\* What the steps that end or fail a task leave of it.
LEMMA DejanLaObra ==
    ASSUME tarea \in [Obreros -> Tareas], TareasFieles, NEW w \in Obreros,
           \/ FallarAlConstruir(w) \/ NoPublicar(w) \/ Reintentar(w) \/ Morir(w)
           \/ MarcarFallida(w) \/ Reprogramar(w)
    PROVE  \E r : /\ tarea' = [tarea EXCEPT ![w] = r]
                  /\ r.fase \notin {"CONSTRUYE", "SUBIO"}
                  /\ r.fase # "LIBRE" => r.job \in Fuentes
<1> DEFINE con(f) == [tarea[w] EXCEPT !.fase = f]
<1>1. tarea[w] \in Tareas
  OBVIOUS
<1>2. \A f : con(f).fase = f /\ con(f).job = tarea[w].job
  BY <1>1 DEF Tareas
<1>3. Libre.fase = "LIBRE"
  BY DEF Libre
<1>4. CASE FallarAlConstruir(w) \/ NoPublicar(w)
  <2>1. tarea' = [tarea EXCEPT ![w] = con("FALLA")] /\ tarea[w].job \in Fuentes
    BY <1>4 DEF FallarAlConstruir, NoPublicar, TareasFieles
  <2> QED
    BY <1>2, <2>1
<1>5. CASE Reintentar(w) \/ Morir(w)
  <2>1. tarea' = [tarea EXCEPT ![w] = Libre]
    BY <1>5 DEF Reintentar, Morir
  <2> QED
    BY <1>3, <2>1
<1>6. CASE MarcarFallida(w) \/ Reprogramar(w)
  <2>1. tarea[w].job \in Fuentes
    BY <1>6 DEF MarcarFallida, Reprogramar, TareasFieles
  <2>2. \/ tarea' = [tarea EXCEPT ![w] = Libre]
        \/ tarea' = [tarea EXCEPT ![w] = con("REPROGRAMA")]
        \/ tarea' = [tarea EXCEPT ![w] = con("REINTENTA")]
    BY <1>6 DEF MarcarFallida, Reprogramar, TrasFallar
  <2> HIDE DEF con
  <2> QED
    BY <1>2, <1>3, <2>1, <2>2
<1> QED
  BY <1>4, <1>5, <1>6

\* Every step keeps the rest of the invariant.
LEMMA FielPaso == ExportOK /\ [ExNext]_exVars => ExportFiel'
<1> SUFFICES ASSUME ExportOK, [ExNext]_exVars
             PROVE  ExportFiel'
  OBVIOUS
<1>0. ExTypeOK /\ TareasFieles /\ BarridoFiel /\ UnaObra /\ DescargaFiel
  BY DEF ExportOK, ExportFiel
<1>t. /\ status \in [Fuentes -> EstadosDeExportacion] /\ vencida \in [Fuentes -> BOOLEAN]
      /\ zip \in [Fuentes -> Fuentes \cup {Ninguno}]
      /\ tarea \in [Obreros -> Tareas]
      /\ limpieza.filas \in SUBSET Fuentes
      /\ Ninguno \notin Fuentes
  BY ExParametros, <1>0 DEF ExTypeOK, Tareas, Fases
<1> USE DEF jobVars, Construye, ExportFiel
<1>f. ASSUME NEW t \in Fuentes \cup {Ninguno}, CambiarFuente(t)
      PROVE  ExportFiel'
  BY <1>0, <1>f DEF CambiarFuente, TareasFieles, BarridoFiel, UnaObra, DescargaFiel,
                    Descargable
<1>1. ASSUME NEW t \in Fuentes, Encolar(t) \/ CaerAlEncolar(t)
      PROVE  ExportFiel'
  BY <1>0, <1>1 DEF Encolar, CaerAlEncolar, TareasFieles, BarridoFiel, UnaObra,
                    DescargaFiel, Descargable
<1>2. ASSUME NEW t \in Fuentes, VencerExportacion(t)
      PROVE  ExportFiel'
  <2>1. (TareasFieles /\ BarridoFiel /\ DescargaFiel)'
    BY <1>0, <1>t, <1>2 DEF VencerExportacion, TareasFieles, BarridoFiel, DescargaFiel, Descargable
  <2>2. UnaObra'
    BY <1>0, <1>t, <1>2 DEF VencerExportacion, UnaObra, SinRezagadas, Construyen
  <2> QED
    BY <2>1, <2>2
<1>3. ASSUME NEW t \in Fuentes, Crear(t)
      PROVE  ExportFiel'
  <2>1. TareasFieles'
    BY <1>0, <1>3 DEF Crear, TareasFieles
  <2>2. BarridoFiel'
    BY <1>0, <1>t, <1>3 DEF Crear, BarridoFiel, FilaLibre
  <2>3. UnaObra'
    BY <1>0, <1>t, <1>3 DEF Crear, UnaObra
  <2>4. DescargaFiel'
    BY <1>0, <1>t, <1>3 DEF Crear, DescargaFiel, Descargable, Revive
  <2> QED
    BY <2>1, <2>2, <2>3, <2>4
<1>4. ASSUME NEW t \in Fuentes, NoEncolada(t)
      PROVE  ExportFiel'
  BY <1>0, <1>t, <1>4 DEF NoEncolada, TareasFieles, BarridoFiel, UnaObra, DescargaFiel,
                          Descargable
<1>5. ASSUME NEW w \in Obreros, NEW t \in Fuentes, NEW n \in Reintentos,
             Reclamar(w, t, n) \/ FuenteCambio(w, t, n) \/ SinCambios(w, t, n)
      PROVE  ExportFiel'
  <2>1. TareasFieles'
    BY <1>0, <1>t, <1>5 DEF Reclamar, FuenteCambio, SinCambios, TareasFieles
  <2>2. BarridoFiel'
    BY <1>0, <1>t, <1>5 DEF Reclamar, FuenteCambio, SinCambios, BarridoFiel
  <2>3. UnaObra'
    BY <1>0, <1>t, <1>5 DEF Reclamar, FuenteCambio, SinCambios, UnaObra
  <2>4. DescargaFiel'
    BY <1>0, <1>t, <1>5 DEF Reclamar, FuenteCambio, SinCambios, DescargaFiel,
        Descargable
  <2> QED
    BY <2>1, <2>2, <2>3, <2>4
<1>6. ASSUME NEW w \in Obreros, SubirZip(w)
      PROVE  ExportFiel'
  <2>0. tarea[w].job \in Fuentes /\ tarea[w].lleva = tarea[w].job
    BY <1>0, <1>6 DEF SubirZip, TareasFieles
  <2>1. zip' = [zip EXCEPT ![tarea[w].job] = tarea[w].job]
    BY <1>6, <2>0 DEF SubirZip
  <2>2. TareasFieles'
    BY <1>0, <1>t, <1>6, <2>0, <2>1 DEF SubirZip, TareasFieles
  <2>3. UnaObra'
    BY <1>0, <1>t, <1>6 DEF SubirZip, UnaObra
  <2>4. BarridoFiel' /\ DescargaFiel'
    BY <1>0, <1>t, <1>6, <2>0, <2>1 DEF SubirZip, BarridoFiel, DescargaFiel, Descargable
  <2> QED
    BY <2>2, <2>3, <2>4
<1>7. ASSUME NEW w \in Obreros,
             FallarAlConstruir(w) \/ NoPublicar(w) \/ Reintentar(w) \/ Morir(w)
      PROVE  ExportFiel'
  <2>0. zip' = zip /\ vencida' = vencida /\ status' = status /\ limpieza' = limpieza
    BY <1>7 DEF FallarAlConstruir, NoPublicar, Reintentar, Morir
  <2>1. TareasFieles' /\ UnaObra'
    <3>1. PICK r : /\ tarea' = [tarea EXCEPT ![w] = r]
                   /\ r.fase \notin {"CONSTRUYE", "SUBIO"}
                   /\ r.fase # "LIBRE" => r.job \in Fuentes
      BY <1>0, <1>t, <1>7, DejanLaObra
    <3> QED
      BY <1>0, <1>t, <2>0, <3>1, TareaQueDeja
  <2>2. BarridoFiel' /\ DescargaFiel'
    BY <1>0, <2>0 DEF BarridoFiel, DescargaFiel, Descargable
  <2> QED
    BY <2>1, <2>2
<1>8. ASSUME NEW w \in Obreros, Publicar(w)
      PROVE  ExportFiel'
  <2>0. tarea[w].job \in Fuentes /\ zip[tarea[w].job] = tarea[w].job /\ Construye(w, tarea[w].job)
    BY <1>0, <1>8 DEF Publicar, TareasFieles
  <2>1. TareasFieles'
    BY <1>0, <1>t, <1>8 DEF Publicar, Libre, TareasFieles
  <2>2. BarridoFiel'
    BY <1>0, <1>t, <1>8 DEF Publicar, BarridoFiel
  <2>3. UnaObra'
    BY <1>0, <1>t, <1>8, <2>0 DEF Publicar, Libre, UnaObra
  <2>4. DescargaFiel'
    BY <1>0, <1>t, <1>8, <2>0 DEF Publicar, DescargaFiel, Descargable
  <2> QED
    BY <2>1, <2>2, <2>3, <2>4
<1>9. ASSUME NEW w \in Obreros, MarcarFallida(w) \/ Reprogramar(w)
      PROVE  ExportFiel'
  <2>0. tarea[w].job \in Fuentes
    BY <1>0, <1>9 DEF MarcarFallida, Reprogramar, TareasFieles
  <2>1. zip' = zip /\ vencida' = vencida /\ limpieza' = limpieza
    BY <1>9 DEF MarcarFallida, Reprogramar
  <2>2. \A t \in Fuentes :
            \/ status'[t] = status[t]
            \/ /\ status[t] # "READY"
               /\ status'[t] \notin {"READY", "PROCESSING"}
    BY <1>t, <1>9 DEF MarcarFallida, Reprogramar
  <2>3. TareasFieles' /\ UnaObra'
    <3>1. PICK r : /\ tarea' = [tarea EXCEPT ![w] = r]
                   /\ r.fase \notin {"CONSTRUYE", "SUBIO"}
                   /\ r.fase # "LIBRE" => r.job \in Fuentes
      BY <1>0, <1>t, <1>9, DejanLaObra
    <3> QED
      BY <1>0, <1>t, <2>1, <2>2, <3>1, TareaQueDeja
  <2>4. BarridoFiel' /\ DescargaFiel'
    BY <1>0, <1>t, <2>1, <2>2 DEF BarridoFiel, DescargaFiel, Descargable
  <2> QED
    BY <2>3, <2>4
<1>10. CASE TomarVencidas \/ PerderBarrido
  BY <1>0, <1>10 DEF TomarVencidas, PerderBarrido, Quieto, TareasFieles, BarridoFiel,
      UnaObra,
                     DescargaFiel, Descargable
<1>11. ASSUME NEW t \in Fuentes, BorrarZip(t)
       PROVE  ExportFiel'
  <2>0. t \in limpieza.filas /\ status[t] = "READY" /\ vencida[t]
    BY <1>0, <1>11 DEF BorrarZip, BarridoFiel
  <2>1. TareasFieles'
    BY <1>0, <1>t, <1>11, <2>0 DEF BorrarZip, TareasFieles, UnaObra
  <2>2. BarridoFiel'
    BY <1>0, <1>11 DEF BorrarZip, BarridoFiel
  <2>3. UnaObra'
    BY <1>0, <1>11 DEF BorrarZip, UnaObra
  <2>4. DescargaFiel'
    BY <1>0, <1>t, <1>11, <2>0 DEF BorrarZip, DescargaFiel, Descargable
  <2> QED
    BY <2>1, <2>2, <2>3, <2>4
<1>12. CASE ConfirmarBarrido
  BY <1>0, <1>t, <1>12 DEF ConfirmarBarrido, Quieto, TareasFieles, BarridoFiel, UnaObra,
                     DescargaFiel, Descargable
<1>13. CASE UNCHANGED exVars
  BY <1>0, <1>13 DEF exVars, TareasFieles, BarridoFiel, UnaObra, DescargaFiel, Descargable
<1> QED
  BY <1>f, <1>1, <1>2, <1>3, <1>4, <1>5, <1>6, <1>7, <1>8, <1>9, <1>10, <1>11, <1>12, <1>13
     DEF ExNext, Ejecutar, Expirar

\* The invariant is inductive.
LEMMA ExportPaso == ExportOK /\ [ExNext]_exVars => ExportOK'
  BY TipoPaso, FielPaso DEF ExportOK, ExportFiel

\* It holds in every state.
LEMMA ExportSiempre == ExSpec => []ExportOK
  BY ExportInicial, ExportPaso, PTL DEF ExSpec

\* Jobs, objects, messages and tasks keep their types.
THEOREM TipoDeExportaciones == ExSpec => []ExTypeOK
<1>1. ExportOK => ExTypeOK
  BY DEF ExportOK
<1> QED
  BY <1>1, ExportSiempre, PTL

\* What can be downloaded is the file that was asked for, whatever late tasks,
\* duplicates, retries and sweeps share the key it is stored under.
THEOREM DescargaFielSiempre == ExSpec => []DescargaFiel
<1>1. ExportOK => DescargaFiel
  BY DEF ExportOK, ExportFiel
<1> QED
  BY <1>1, ExportSiempre, PTL

\* A step that finds an export ready and not expired leaves it ready.
LEMMA SigueLista ==
    ASSUME ExportOK, [ExNext]_exVars, NEW t \in Fuentes, Descargable(t)
    PROVE  status'[t] = "READY"
<1>0. /\ status[t] = "READY" /\ ~vencida[t] /\ t \notin limpieza.filas
      /\ status \in [Fuentes -> EstadosDeExportacion] /\ TareasFieles
  BY DEF ExportOK, ExportFiel, ExTypeOK, Descargable, BarridoFiel
<1> USE DEF jobVars
<1>f. ASSUME NEW x \in Fuentes \cup {Ninguno}, CambiarFuente(x)
      PROVE  status'[t] = "READY"
  BY <1>0, <1>f DEF CambiarFuente
<1>1. ASSUME NEW x \in Fuentes,
             VencerExportacion(x) \/ Encolar(x) \/ CaerAlEncolar(x) \/ BorrarZip(x)
      PROVE  status'[t] = "READY"
  BY <1>0, <1>1 DEF VencerExportacion, Encolar, CaerAlEncolar, BorrarZip
<1>2. ASSUME NEW x \in Fuentes, Crear(x) \/ NoEncolada(x)
      PROVE  status'[t] = "READY"
  BY <1>0, <1>2 DEF Crear, NoEncolada, Revive
<1>3. ASSUME NEW w \in Obreros, NEW x \in Fuentes, NEW n \in Reintentos,
             Reclamar(w, x, n) \/ FuenteCambio(w, x, n) \/ SinCambios(w, x, n)
      PROVE  status'[t] = "READY"
  BY <1>0, <1>3 DEF Reclamar, FuenteCambio, SinCambios
<1>4. ASSUME NEW w \in Obreros,
             SubirZip(w) \/ FallarAlConstruir(w) \/ Publicar(w) \/ NoPublicar(w)
             \/ MarcarFallida(w) \/ Reprogramar(w) \/ Reintentar(w) \/ Morir(w)
      PROVE  status'[t] = "READY"
  BY <1>0, <1>4 DEF SubirZip, FallarAlConstruir, Publicar, NoPublicar, MarcarFallida,
                    Reprogramar, Reintentar, Morir
<1>5. CASE TomarVencidas \/ ConfirmarBarrido \/ PerderBarrido
  BY <1>0, <1>5 DEF TomarVencidas, ConfirmarBarrido, PerderBarrido
<1>6. CASE UNCHANGED exVars
  BY <1>0, <1>6 DEF exVars
<1> QED
  BY <1>f, <1>1, <1>2, <1>3, <1>4, <1>5, <1>6 DEF ExNext, Ejecutar, Expirar

\* A ready export stays ready until it expires: failures that come late look at
\* the status, requests keep it, and the sweep takes only what expired.
THEOREM ListaHastaVencerSiempre == ExSpec => ListaHastaVencer
<1>1. ExportOK /\ [ExNext]_exVars
      => [\A t \in Fuentes : Descargable(t) => status'[t] = "READY"]_exVars
  BY SigueLista
<1> QED
  BY <1>1, ExportSiempre, PTL DEF ExSpec, ListaHastaVencer

-----------------------------------------------------------------------------
(* The migration.  The correspondences are exactly what came, once; a run  *)
(* inserts what is in none of those it read and whose parents it has.      *)

\* A row came once if it is in the map and never otherwise; what a run is about
\* to commit is not in the map it read, which nobody else writes.
MapaFiel ==
    /\ \A f \in Filas : nueva[f] = IF f \in mapa THEN 1 ELSE 0
    /\ corrida.filas \cap mapa = {}
    /\ corrida.etapa # 0 => corrida.mapa = mapa \cup corrida.filas

\* A document belongs to a row that came; one that is in the storage has its
\* file there, as has the one the uploader is about to mark.
ArchivosFieles ==
    /\ \A f \in Archivos : archivo[f] # Nada => f \in mapa
    /\ \A f \in Archivos : archivo[f] = "s3" => f \in objeto
    /\ subida.fase = "GUARDA" => subida.actual \in objeto /\ archivo[subida.actual] # Nada
    /\ \A f \in subida.faltan : archivo[f] # Nada

\* Nothing is in the map, or in the run, without what it needs; requirements are
\* those of shipments that came, and a run opens only those it brings.
FamiliasFieles ==
    /\ \A f \in mapa : Necesita[f] \subseteq mapa
    /\ \A f \in corrida.filas : Necesita[f] \subseteq mapa \cup corrida.filas
    /\ \A c \in mapa \cap CargasViejas : Piezas[c] \cap mapa # {}
    /\ corrida.abre \subseteq corrida.filas
    /\ \A c \in CargasViejas : requisito[c] # "NO" => c \in mapa

MigracionOK == MiTypeOK /\ MapaFiel /\ FamiliasFieles /\ ArchivosFieles /\ RequisitoConArchivo

\* The rows of a table are rows.
LEMMA DeFilas ==
    Archivos \subseteq Filas /\ CargasViejas \subseteq Filas /\ \A t : De(t) \subseteq Filas
  BY DEF Archivos, CargasViejas, De

\* The stages of Migrador.ejecutar.
LEMMA NueveEtapas == Len(Etapas) = 9
  BY DEF Etapas

\* The records of corrida.
Corridas == [etapa : 0 .. Len(Etapas) + 1, seco : BOOLEAN, mapa : SUBSET Filas,
             filas : SUBSET Filas, abre : SUBSET CargasViejas]

\* The new system is empty.
LEMMA MigracionInicial == MiInit => MigracionOK
<1> SUFFICES ASSUME MiInit PROVE MigracionOK
  OBVIOUS
<1>1. MiTypeOK
  <2>1. corrida \in Corridas
    BY NueveEtapas DEF MiInit, Parada, Corridas
  <2>2. subida \in [fase : {"PARADA", "SUBE", "GUARDA"}, faltan : SUBSET Archivos,
                    actual : Archivos \cup {Nada}]
    BY DEF MiInit, Quieta
  <2>3. cuenta \in [De("users") -> Cuentas] /\ situacion \in [CargasViejas -> Situaciones]
    BY DEF MiInit, Cuentas, Situaciones
  <2>4. nueva \in [Filas -> Nat] /\ requisito \in [CargasViejas -> {"NO", "PENDING", "VERIFIED"}]
    BY DEF MiInit
  <2>5. archivo \in [Archivos -> {Nada, "legacy", "s3"}] /\ caidas \in 0 .. MaxCaidas
    BY MiParametros DEF MiInit
  <2> QED
    BY <2>1, <2>2, <2>3, <2>4, <2>5 DEF MiInit, MiTypeOK, Corridas
<1>2. MapaFiel /\ FamiliasFieles /\ RequisitoConArchivo
  BY DEF MiInit, MapaFiel, FamiliasFieles, RequisitoConArchivo, Parada
<1>3. ArchivosFieles
  BY MiParametros DEF MiInit, ArchivosFieles, Quieta
<1> QED
  BY <1>1, <1>2, <1>3 DEF MigracionOK

\* What a stage adds to the run.
LEMMA EtapaTipada ==
    ASSUME corrida \in Corridas, NEW t, NEW abre \in SUBSET CargasViejas, Etapa(t, abre)
    PROVE  /\ corrida' \in Corridas
           /\ corrida'.etapa = corrida.etapa + 1 /\ corrida.etapa \in 1 .. Len(Etapas)
           /\ corrida'.mapa = corrida.mapa \cup PorMigrar(t)
           /\ corrida'.filas = corrida.filas \cup PorMigrar(t)
           /\ corrida'.abre = corrida.abre \cup abre
<1>1. corrida.etapa \in 1 .. Len(Etapas)
  BY DEF Etapa
<1>2. corrida.etapa + 1 \in 0 .. Len(Etapas) + 1
  BY <1>1, NueveEtapas
<1>3. PorMigrar(t) \subseteq Filas
  BY DeFilas DEF PorMigrar
<1> DEFINE a == [corrida EXCEPT !.etapa = corrida.etapa + 1]
           b == [a EXCEPT !.mapa = corrida.mapa \cup PorMigrar(t)]
           c == [b EXCEPT !.filas = corrida.filas \cup PorMigrar(t)]
           d == [c EXCEPT !.abre = corrida.abre \cup abre]
<1>4. corrida' = d
  BY DEF Etapa
<1>5. a \in Corridas /\ a.etapa = corrida.etapa + 1
  BY <1>2 DEF Corridas
<1> HIDE DEF a
<1>6. b \in Corridas /\ b.etapa = a.etapa /\ b.mapa = corrida.mapa \cup PorMigrar(t)
  BY <1>3, <1>5 DEF Corridas
<1> HIDE DEF b
<1>7. /\ c \in Corridas /\ c.etapa = b.etapa /\ c.mapa = b.mapa
      /\ c.filas = corrida.filas \cup PorMigrar(t)
  BY <1>3, <1>6 DEF Corridas
<1> HIDE DEF c
<1>8. /\ d \in Corridas /\ d.etapa = c.etapa /\ d.mapa = c.mapa /\ d.filas = c.filas
      /\ d.abre = corrida.abre \cup abre
  BY <1>7 DEF Corridas
<1> HIDE DEF d
<1> QED
  BY <1>1, <1>4, <1>5, <1>6, <1>7, <1>8

\* The nine stages differ in the table and in the requirements they open.
LEMMA MigrarEsEtapa ==
    ASSUME Migrar
    PROVE  \E t \in Tablas, abre \in SUBSET CargasViejas :
              abre \subseteq PorMigrar(t) /\ Etapa(t, abre)
<1>1. /\ {c \in PorMigrar("shipments") : AbreRequisito(c)} \in SUBSET CargasViejas
      /\ {c \in PorMigrar("shipments") : AbreRequisito(c)} \subseteq PorMigrar("shipments")
  BY DEF PorMigrar, CargasViejas
<1>2. {"companies", "users", "shipments", "packages", "dispatches", "items", "documents",
       "invoices", "attachments"} \subseteq Tablas
  BY DEF Tablas, Etapas
<1> QED
  BY <1>1, <1>2 DEF Migrar, MigrarEmpresas, MigrarUsuarios, MigrarCargas,
      MigrarPaquetes,
       MigrarDespachos, MigrarCargasDeDespacho, MigrarDocumentos, MigrarDocumentosDeDespacho,
       MigrarAdjuntos

\* A stage adds rows that are in no correspondence, with what they need.
LEMMA EtapaConserva ==
    ASSUME MigracionOK, Migrar
    PROVE  MigracionOK'
<1>0. MiTypeOK /\ MapaFiel /\ FamiliasFieles /\ ArchivosFieles /\ RequisitoConArchivo
  BY DEF MigracionOK
<1>1. corrida \in Corridas
  BY <1>0 DEF MiTypeOK, Corridas
<1>2. PICK t \in Tablas, abre \in SUBSET CargasViejas :
        abre \subseteq PorMigrar(t) /\ Etapa(t, abre)
  BY MigrarEsEtapa
<1>3. /\ corrida' \in Corridas
      /\ corrida'.etapa = corrida.etapa + 1 /\ corrida.etapa \in 1 .. Len(Etapas)
      /\ corrida'.mapa = corrida.mapa \cup PorMigrar(t)
      /\ corrida'.filas = corrida.filas \cup PorMigrar(t)
      /\ corrida'.abre = corrida.abre \cup abre
  BY <1>1, <1>2, EtapaTipada
<1>4. UNCHANGED <<viejoVars, nuevoVars, archivoVars, caidas>>
  BY <1>2 DEF Etapa
<1>5. MiTypeOK'
  BY <1>0, <1>3, <1>4 DEF MiTypeOK, Corridas, viejoVars, nuevoVars, archivoVars
<1>6. corrida.mapa = mapa \cup corrida.filas /\ PorMigrar(t) \cap corrida.mapa = {}
  BY <1>0, <1>3, NueveEtapas DEF MapaFiel, PorMigrar
<1>7. MapaFiel'
  BY <1>0, <1>3, <1>4, <1>6 DEF MapaFiel, nuevoVars
<1>8. ArchivosFieles' /\ RequisitoConArchivo'
  BY <1>0, <1>4 DEF ArchivosFieles, RequisitoConArchivo, nuevoVars, archivoVars
<1>9. FamiliasFieles'
  <2>1. \A f \in PorMigrar(t) : Necesita[f] \subseteq corrida.mapa
    BY DeFilas DEF PorMigrar, Migrable, Necesita
  <2> QED
    BY <1>0, <1>2, <1>3, <1>4, <1>6, <2>1 DEF FamiliasFieles, nuevoVars
<1> QED
  BY <1>5, <1>7, <1>8, <1>9 DEF MigracionOK

\* The commit brings the rows of the run, none of which had come.
LEMMA ConfirmarConserva ==
    ASSUME MigracionOK, Confirmar
    PROVE  MigracionOK'
<1>0. MiTypeOK /\ MapaFiel /\ FamiliasFieles /\ ArchivosFieles /\ RequisitoConArchivo
  BY DEF MigracionOK
<1>1. /\ nueva \in [Filas -> Nat] /\ mapa \in SUBSET Filas /\ corrida.filas \in SUBSET Filas
      /\ archivo \in [Archivos -> {Nada, "legacy", "s3"}]
  BY <1>0 DEF MiTypeOK
<1>2. /\ nueva' = [f \in Filas |-> IF f \in corrida.filas THEN nueva[f] + 1 ELSE nueva[f]]
      /\ mapa' = mapa \cup corrida.filas
      /\ requisito' = [c \in CargasViejas |-> IF c \in corrida.abre THEN "PENDING" ELSE requisito[c]]
      /\ archivo' = [f \in Archivos |-> IF f \in corrida.filas THEN "legacy" ELSE archivo[f]]
      /\ corrida' = Parada
      /\ UNCHANGED <<viejoVars, objeto, subida, caidas>>
  BY DEF Confirmar, GuardarMapa
<1>3. Parada \in Corridas /\ Parada.filas = {} /\ Parada.etapa = 0 /\ Parada.abre = {}
  BY NueveEtapas DEF Parada, Corridas
<1>4. MiTypeOK'
  <2>1. nueva' \in [Filas -> Nat] /\ mapa' \in SUBSET Filas
    BY <1>1, <1>2
  <2>2. /\ requisito' \in [CargasViejas -> {"NO", "PENDING", "VERIFIED"}]
        /\ archivo' \in [Archivos -> {Nada, "legacy", "s3"}]
    BY <1>0, <1>2 DEF MiTypeOK
  <2> QED
    BY <1>0, <1>2, <1>3, <2>1, <2>2 DEF MiTypeOK, viejoVars, Corridas
<1>5. MapaFiel'
  BY <1>0, <1>1, <1>2, <1>3 DEF MapaFiel
<1>6. \A f \in Archivos : archivo[f] # Nada => archivo'[f] = archivo[f]
  BY <1>0, <1>1, <1>2 DEF ArchivosFieles, MapaFiel
<1>7. ArchivosFieles'
  <2>1. \A f \in Archivos : archivo'[f] # Nada => f \in mapa'
    BY <1>0, <1>2 DEF ArchivosFieles
  <2>2. \A f \in Archivos : archivo'[f] = "s3" => f \in objeto'
    BY <1>0, <1>2 DEF ArchivosFieles
  <2>3. subida.actual \in Archivos \cup {Nada} /\ subida.faltan \subseteq Archivos
    BY <1>0 DEF MiTypeOK
  <2>4. objeto \subseteq Archivos
    BY <1>0 DEF MiTypeOK
  <2> QED
    BY <1>0, <1>2, <1>6, <2>1, <2>2, <2>3, <2>4 DEF ArchivosFieles
<1>8. RequisitoConArchivo'
  BY MiParametros, <1>0, <1>2, <1>6 DEF RequisitoConArchivo
<1>9. FamiliasFieles'
  <2>1. \A c \in corrida.filas \cap CargasViejas : Piezas[c] \cap (mapa \cup corrida.filas) # {}
    BY <1>0, <1>1, DeFilas
       DEF Confirmar, ConSusPiezas, ConPiezas, Piezas, EnLaNueva, MapaFiel
  <2>2. \A c \in CargasViejas : requisito'[c] # "NO" => c \in mapa'
    BY <1>0, <1>2 DEF FamiliasFieles
  <2> QED
    BY <1>0, <1>2, <1>3, <2>1, <2>2 DEF FamiliasFieles
<1> QED
  BY <1>4, <1>5, <1>7, <1>8, <1>9 DEF MigracionOK

\* The uploader marks a document whose file is in the storage.
LEMMA GuardarConserva ==
    ASSUME MigracionOK, NEW x \in Archivos, Guardar(x)
    PROVE  MigracionOK'
<1>0. MiTypeOK /\ MapaFiel /\ FamiliasFieles /\ ArchivosFieles /\ RequisitoConArchivo
  BY DEF MigracionOK
<1>1. /\ x \in objeto /\ archivo[x] # Nada
      /\ archivo \in [Archivos -> {Nada, "legacy", "s3"}]
      /\ requisito \in [CargasViejas -> {"NO", "PENDING", "VERIFIED"}]
  BY <1>0 DEF MiTypeOK, ArchivosFieles, Guardar
<1>2. /\ archivo' = [archivo EXCEPT ![x] = "s3"]
      /\ requisito' = [c \in CargasViejas |->
           IF Tabla[x] = "invoices" /\ c \in Padres[x] /\ requisito[c] = "PENDING"
           THEN "VERIFIED" ELSE requisito[c]]
      /\ UNCHANGED <<viejoVars, corrida, nueva, mapa, objeto, caidas>>
  BY DEF Guardar
<1>3. /\ subida' \in [fase : {"PARADA", "SUBE", "GUARDA"}, faltan : SUBSET Archivos,
                        actual : Archivos \cup {Nada}]
      /\ subida'.fase # "GUARDA" /\ subida'.faltan \subseteq subida.faltan
  <2>1. CASE subida.faltan = {}
    BY <2>1 DEF Guardar, Quieta
  <2>2. CASE subida.faltan # {}
    <3> DEFINE a == [subida EXCEPT !.fase = "SUBE"]
               b == [a EXCEPT !.actual = Nada]
    <3>1. subida' = b
      BY <2>2 DEF Guardar
    <3>2. /\ a \in [fase : {"PARADA", "SUBE", "GUARDA"}, faltan : SUBSET Archivos,
                    actual : Archivos \cup {Nada}]
          /\ a.fase = "SUBE" /\ a.faltan = subida.faltan
      BY <1>0 DEF MiTypeOK
    <3> HIDE DEF a
    <3> QED
      BY <3>1, <3>2
  <2> QED
    BY <2>1, <2>2
<1>4. MiTypeOK'
  <2>1. /\ archivo' \in [Archivos -> {Nada, "legacy", "s3"}]
        /\ requisito' \in [CargasViejas -> {"NO", "PENDING", "VERIFIED"}]
    BY <1>1, <1>2
  <2> QED
    BY <1>0, <1>2, <1>3, <2>1 DEF MiTypeOK, viejoVars
<1>5. MapaFiel' /\ FamiliasFieles'
  BY <1>0, <1>2 DEF MapaFiel, FamiliasFieles
<1>6. ArchivosFieles'
  <2>1. subida.faltan \subseteq Archivos
    BY <1>0 DEF MiTypeOK
  <2> QED
    BY MiParametros, <1>0, <1>1, <1>2, <1>3, <2>1 DEF ArchivosFieles
<1>7. RequisitoConArchivo'
  BY <1>0, <1>1, <1>2 DEF RequisitoConArchivo
<1> QED
  BY <1>4, <1>5, <1>6, <1>7 DEF MigracionOK

\* It sends the files of documents that came.
LEMMA SubidaConserva ==
    ASSUME MigracionOK, Listar \/ CaeSubida \/ (\E x \in Archivos : Subir(x))
    PROVE  MigracionOK'
<1>0. MiTypeOK /\ MapaFiel /\ FamiliasFieles /\ ArchivosFieles /\ RequisitoConArchivo
  BY DEF MigracionOK
<1> DEFINE Subidas == [fase : {"PARADA", "SUBE", "GUARDA"}, faltan : SUBSET Archivos,
                       actual : Archivos \cup {Nada}]
<1>1. UNCHANGED <<viejoVars, corrida, nuevoVars, archivo>>
  BY DEF Listar, CaeSubida, Subir
<1>2. objeto \subseteq objeto' /\ objeto' \subseteq Archivos
  BY <1>0 DEF Listar, CaeSubida, Subir, MiTypeOK
<1>3. caidas' \in 0 .. MaxCaidas
  BY MiParametros, <1>0 DEF Listar, CaeSubida, Subir, MiTypeOK
<1>4. /\ subida' \in Subidas
      /\ subida'.fase = "GUARDA" => subida'.actual \in objeto' /\ archivo[subida'.actual] # Nada
      /\ \A f \in subida'.faltan : archivo[f] # Nada
  <2>1. CASE Listar
    <3> DEFINE a == [Quieta EXCEPT !.fase = "SUBE"]
               b == [a EXCEPT !.faltan = Pendientes]
    <3>1. subida' = b
      BY <2>1 DEF Listar
    <3>2. a \in Subidas /\ a.fase = "SUBE"
      BY DEF Quieta
    <3>3. Pendientes \subseteq Archivos /\ \A f \in Pendientes : archivo[f] # Nada
      BY MiParametros DEF Pendientes
    <3> HIDE DEF a
    <3> QED
      BY <3>1, <3>2, <3>3
  <2>2. CASE CaeSubida
    BY <2>2 DEF CaeSubida, Quieta
  <2>3. ASSUME NEW x \in Archivos, Subir(x)
        PROVE  /\ subida' \in Subidas
               /\ subida'.fase = "GUARDA" => subida'.actual \in objeto' /\ archivo[subida'.actual] # Nada
               /\ \A f \in subida'.faltan : archivo[f] # Nada
    <3>1. x \in subida.faltan /\ subida.faltan \subseteq Archivos
      BY <1>0, <2>3 DEF Subir, MiTypeOK
    <3>2. /\ subida' = [fase |-> "GUARDA", faltan |-> subida.faltan \ {x}, actual |-> x]
          /\ objeto' = objeto \cup {x}
      BY <2>3 DEF Subir
    <3> QED
      BY <1>0, <3>1, <3>2 DEF ArchivosFieles
  <2> QED
    BY <2>1, <2>2, <2>3
<1>5. MiTypeOK'
  BY <1>0, <1>1, <1>2, <1>3, <1>4 DEF MiTypeOK, viejoVars, nuevoVars
<1>6. MapaFiel' /\ FamiliasFieles' /\ RequisitoConArchivo'
  BY <1>0, <1>1, <1>2 DEF MapaFiel, FamiliasFieles, RequisitoConArchivo, nuevoVars
<1>7. ArchivosFieles'
  BY <1>0, <1>1, <1>2, <1>4 DEF ArchivosFieles, nuevoVars
<1> QED
  BY <1>5, <1>6, <1>7 DEF MigracionOK

\* A run that starts has the present map, and nothing of its own.
LEMMA CorridaConserva ==
    ASSUME MigracionOK,
           Deshacer \/ CaeMigrador \/ (\E seco \in BOOLEAN : Correr(seco))
    PROVE  MigracionOK'
<1>0. MiTypeOK /\ MapaFiel /\ FamiliasFieles /\ ArchivosFieles /\ RequisitoConArchivo
  BY DEF MigracionOK
<1>1. UNCHANGED <<viejoVars, nuevoVars, archivoVars>>
  BY DEF Deshacer, CaeMigrador, Correr
<1>2. caidas' \in 0 .. MaxCaidas
  <2>1. caidas' = caidas \/ (caidas < MaxCaidas /\ caidas' = caidas + 1)
    BY DEF Deshacer, CaeMigrador, Correr
  <2> QED
    BY MiParametros, <1>0, <2>1 DEF MiTypeOK
<1>3. Parada \in Corridas /\ Parada.filas = {} /\ Parada.etapa = 0 /\ Parada.abre = {}
  BY NueveEtapas DEF Parada, Corridas
<1>4. /\ corrida' \in Corridas /\ corrida'.filas = {} /\ corrida'.abre = {}
      /\ corrida'.etapa # 0 => corrida'.mapa = mapa
  <2>1. CASE Deshacer \/ CaeMigrador
    BY <1>3, <2>1 DEF Deshacer, CaeMigrador
  <2>2. ASSUME NEW seco \in BOOLEAN, Correr(seco)
        PROVE  /\ corrida' \in Corridas /\ corrida'.filas = {} /\ corrida'.abre = {}
               /\ corrida'.etapa # 0 => corrida'.mapa = mapa
    <3>1. corrida' = [etapa |-> 1, seco |-> seco, mapa |-> mapa, filas |-> {}, abre |-> {}]
      BY <2>2 DEF Correr, Parada
    <3>2. mapa \subseteq Filas /\ 1 \in 0 .. Len(Etapas) + 1
      BY <1>0, NueveEtapas DEF MiTypeOK
    <3> QED
      BY <3>1, <3>2 DEF Corridas
  <2> QED
    BY <2>1, <2>2
<1>5. MiTypeOK'
  BY <1>0, <1>1, <1>2, <1>4 DEF MiTypeOK, Corridas, viejoVars, nuevoVars, archivoVars
<1>6. MapaFiel' /\ FamiliasFieles' /\ ArchivosFieles' /\ RequisitoConArchivo'
  BY <1>0, <1>1, <1>4
     DEF MapaFiel, FamiliasFieles, ArchivosFieles, RequisitoConArchivo, nuevoVars,
         archivoVars
<1> QED
  BY <1>5, <1>6 DEF MigracionOK

\* The old system may change under the run: what was read is not read again.
LEMMA ViejoConserva ==
    ASSUME MigracionOK, Viejo
    PROVE  MigracionOK'
<1>0. MiTypeOK /\ MapaFiel /\ FamiliasFieles /\ ArchivosFieles /\ RequisitoConArchivo
  BY DEF MigracionOK
<1>1. UNCHANGED <<corrida, nuevoVars, archivoVars, caidas>>
  BY DEF Viejo, Aparecer, Corregir, CorregirDespacho, Avanzar, Congelar
<1>2. vieja' \subseteq Filas /\ congelada' \in BOOLEAN
  BY <1>0 DEF MiTypeOK, Viejo, Aparecer, Corregir, CorregirDespacho, Avanzar, Congelar
<1>3. cuenta' \in [De("users") -> Cuentas]
  <2>1. \/ cuenta' = cuenta
        \/ \E u \in Filas, c \in Cuentas : cuenta' = [cuenta EXCEPT ![u] = c]
    <3>1. "BIEN" \in Cuentas /\ De("users") \subseteq Filas
      BY DeFilas DEF Cuentas
    <3> QED
      BY <3>1 DEF Viejo, Aparecer, Corregir, CorregirDespacho, Avanzar, Congelar
  <2> QED
    BY <1>0, <2>1 DEF MiTypeOK
<1>4. situacion' \in [CargasViejas -> Situaciones]
  <2>1. situacion' = situacion \/ \E c \in CargasViejas : Avanzar(c)
    BY DEF Viejo, Aparecer, Corregir, CorregirDespacho, Congelar
  <2> QED
    BY <1>0, <2>1 DEF MiTypeOK, Avanzar, Situaciones
<1>5. ilegibles' \subseteq De("dispatches")
  <2>1. \/ ilegibles' \subseteq ilegibles
        \/ \E f \in Filas : Tabla[f] = "dispatches" /\ ilegibles' = ilegibles \cup {f}
    BY DEF Viejo, Aparecer, Corregir, CorregirDespacho, Avanzar, Congelar
  <2>2. \A f \in Filas : Tabla[f] = "dispatches" => f \in De("dispatches")
    BY DEF De
  <2> QED
    BY <1>0, <2>1, <2>2 DEF MiTypeOK
<1>6. MiTypeOK'
  BY <1>0, <1>1, <1>2, <1>3, <1>4, <1>5 DEF MiTypeOK, nuevoVars, archivoVars
<1>7. MapaFiel' /\ FamiliasFieles' /\ ArchivosFieles' /\ RequisitoConArchivo'
  BY <1>0, <1>1
     DEF MapaFiel, FamiliasFieles, ArchivosFieles, RequisitoConArchivo, nuevoVars,
         archivoVars
<1> QED
  BY <1>6, <1>7 DEF MigracionOK

\* The invariant is inductive.
LEMMA MigracionPaso == MigracionOK /\ [MiNext]_miVars => MigracionOK'
<1> SUFFICES ASSUME MigracionOK, [MiNext]_miVars
             PROVE  MigracionOK'
  OBVIOUS
<1>1. CASE Viejo
  BY <1>1, ViejoConserva
<1>2. CASE Migrador
  BY <1>2, CorridaConserva, EtapaConserva, ConfirmarConserva DEF Migrador
<1>3. CASE Subidor
  BY <1>3, SubidaConserva, GuardarConserva DEF Subidor
<1>4. CASE UNCHANGED miVars
  <2>0. MiTypeOK /\ MapaFiel /\ FamiliasFieles /\ ArchivosFieles /\ RequisitoConArchivo
    BY DEF MigracionOK
  <2>1. UNCHANGED <<viejoVars, corrida, nuevoVars, archivoVars, caidas>>
    BY <1>4 DEF miVars
  <2>2. MiTypeOK'
    BY <2>0, <2>1 DEF MiTypeOK, viejoVars, nuevoVars, archivoVars
  <2>3. MapaFiel' /\ FamiliasFieles' /\ ArchivosFieles' /\ RequisitoConArchivo'
    BY <2>0, <2>1
       DEF MapaFiel, FamiliasFieles, ArchivosFieles, RequisitoConArchivo, nuevoVars,
           archivoVars
  <2> QED
    BY <2>2, <2>3 DEF MigracionOK
<1> QED
  BY <1>1, <1>2, <1>3, <1>4 DEF MiNext

\* It holds in every state.
LEMMA MigracionSiempre == MiSpec => []MigracionOK
  BY MigracionInicial, MigracionPaso, PTL DEF MiSpec

\* Rows, correspondences, documents and runs keep their types.
THEOREM TipoDeMigracion == MiSpec => []MiTypeOK
<1>1. MigracionOK => MiTypeOK
  BY DEF MigracionOK
<1> QED
  BY <1>1, MigracionSiempre, PTL

\* However often the migrator is run, cut or simulated, no row comes twice.
THEOREM SinDuplicadosSiempre == MiSpec => []SinDuplicados
<1>1. MigracionOK => SinDuplicados
  BY DEF MigracionOK, MapaFiel, SinDuplicados
<1> QED
  BY <1>1, MigracionSiempre, PTL

\* A requirement given for met has its file in the storage, although the mark
\* of one and the upload of the other are not one transaction.
THEOREM RequisitoConArchivoSiempre == MiSpec => []RequisitoConArchivo
<1>1. MigracionOK => RequisitoConArchivo
  BY DEF MigracionOK
<1> QED
  BY <1>1, MigracionSiempre, PTL

\* Nothing came.
LEMMA TrasladoInicial == MiInit => T!Init
<1> SUFFICES ASSUME MiInit PROVE T!Init
  OBVIOUS
<1>1. nueva = [f \in Filas |-> 0]
  BY DEF MiInit
<1>2. {f \in Archivos : archivo[f] = "s3"} = {}
  BY MiParametros DEF MiInit
<1>3. {c \in CargasViejas : requisito[c] = "VERIFIED"} = {}
  BY DEF MiInit
<1> QED
  BY <1>1, <1>2, <1>3 DEF T!Init

\* A commit brings a whole set of new rows, an uploaded file is saved, and every
\* other step is a stutter.
LEMMA TrasladoPaso == MigracionOK /\ [MiNext]_miVars => [T!Next]_T!vars
<1> SUFFICES ASSUME MigracionOK, [MiNext]_miVars
             PROVE  [T!Next]_T!vars
  OBVIOUS
<1>0. MiTypeOK /\ MapaFiel /\ FamiliasFieles /\ ArchivosFieles
  BY DEF MigracionOK
<1> DEFINE Guardados == {f \in Archivos : archivo[f] = "s3"}
           Cumplidos == {c \in CargasViejas : requisito[c] = "VERIFIED"}
<1>1. T!Traidas = mapa
  BY <1>0 DEF T!Traidas, MapaFiel, MiTypeOK
<1>2. ASSUME nueva' = nueva, archivo' = archivo, requisito' = requisito
      PROVE  [T!Next]_T!vars
  BY <1>2 DEF T!vars
<1>3. CASE Confirmar
  <2> DEFINE S == corrida.filas
  <2>0. S \subseteq Filas /\ S \cap mapa = {} /\ corrida.abre \subseteq S
    BY <1>0 DEF MiTypeOK, MapaFiel, FamiliasFieles
  <2>1. nueva' = [f \in Filas |-> IF f \in S THEN 1 ELSE nueva[f]]
    BY <1>0, <1>3, <2>0 DEF Confirmar, MapaFiel
  <2>2. Guardados' = Guardados
    BY MiParametros, <1>0, <1>3, <2>0 DEF Confirmar, ArchivosFieles
  <2>3. Cumplidos' = Cumplidos
    BY <1>0, <1>3, <2>0 DEF Confirmar, FamiliasFieles
  <2>4. CASE S = {}
    <3>1. nueva' = nueva
      BY <1>0, <2>1, <2>4 DEF MiTypeOK
    <3> QED
      BY <2>2, <2>3, <3>1 DEF T!vars
  <2>5. CASE S # {}
    <3>1. \A f \in mapa \cup S : Necesita[f] \subseteq mapa \cup S
      BY <1>0 DEF FamiliasFieles
    <3>2. \A c \in (mapa \cup S) \cap CargasViejas : Piezas[c] \cap (mapa \cup S) # {}
      <4>1. \A c \in S \cap CargasViejas : Piezas[c] \cap (mapa \cup S) # {}
        BY <1>0, <1>3, DeFilas
       DEF Confirmar, ConSusPiezas, ConPiezas, Piezas, EnLaNueva, MapaFiel
      <4> QED
        BY <1>0, <4>1 DEF FamiliasFieles
    <3>3. T!Entero(T!Traidas \cup S)
      BY <1>1, <3>1, <3>2 DEF T!Entero
    <3>4. T!Traer(S)
      BY <2>1, <2>2, <2>3, <2>5, <3>3 DEF T!Traer
    <3>5. S \in SUBSET (Filas \ T!Traidas)
      BY <1>1, <2>0
    <3> QED
      BY <3>4, <3>5 DEF T!Next
  <2> QED
    BY <2>4, <2>5
<1>4. ASSUME NEW x \in Archivos, Guardar(x)
      PROVE  [T!Next]_T!vars
  <2>1. x \in T!Traidas
    BY <1>0, <1>1, <1>4 DEF Guardar, ArchivosFieles
  <2>2. Guardados' = Guardados \cup {x}
    <3>1. archivo' = [archivo EXCEPT ![x] = "s3"]
      BY <1>4 DEF Guardar
    <3>2. archivo \in [Archivos -> {Nada, "legacy", "s3"}]
      BY <1>0 DEF MiTypeOK
    <3> QED
      BY <3>1, <3>2
  <2>3. PICK C \in SUBSET Respalda[x] : Cumplidos' = Cumplidos \cup C
    <3> DEFINE D == {c \in CargasViejas : /\ Tabla[x] = "invoices" /\ c \in Padres[x]
                                    /\ requisito[c] = "PENDING"}
    <3>1. Cumplidos' = Cumplidos \cup D
      BY <1>4 DEF Guardar
    <3>2. D \in SUBSET Respalda[x]
      BY DEF Respalda
    <3> HIDE DEF D
    <3> QED
      BY <3>1, <3>2
  <2>4. nueva' = nueva
    BY <1>4 DEF Guardar
  <2>5. T!Guardar(x, C)
    BY <2>1, <2>2, <2>3, <2>4 DEF T!Guardar
  <2> QED
    BY <2>5 DEF T!Next
<1>5. CASE \/ Viejo \/ Migrar \/ Deshacer \/ CaeMigrador \/ Listar \/ CaeSubida
           \/ UNCHANGED miVars
           \/ (\E seco \in BOOLEAN : Correr(seco)) \/ (\E x \in Archivos : Subir(x))
  <2>1. CASE Migrar
    <3>1. PICK t \in Tablas, abre \in SUBSET CargasViejas : Etapa(t, abre)
      BY <2>1, MigrarEsEtapa
    <3> QED
      BY <1>2, <3>1 DEF Etapa, nuevoVars, archivoVars
  <2>2. CASE ~Migrar
    <3>1. nueva' = nueva /\ archivo' = archivo /\ requisito' = requisito
      BY <1>5, <2>2 DEF Viejo, Aparecer, Corregir, CorregirDespacho, Avanzar, Congelar, Deshacer,
          CaeMigrador, Listar,
           CaeSubida, Correr, Subir, miVars, nuevoVars, archivoVars
    <3> QED
      BY <1>2, <3>1
  <2> QED
    BY <2>1, <2>2
<1> QED
  BY <1>3, <1>4, <1>5 DEF MiNext, Migrador, Subidor

\* Migracion implements Traslado: whatever is cut and repeated, whole sets of rows
\* come once, their files after them, and nothing goes back.
THEOREM MigracionImplementaTraslado == MiSpec => ImplementaTraslado
<1>1. MiInit => T!Init
  BY TrasladoInicial
<1>2. MigracionOK /\ [MiNext]_miVars => [T!Next]_T!vars
  BY TrasladoPaso
<1> QED
  BY <1>1, <1>2, MigracionSiempre, PTL DEF MiSpec, T!Spec, ImplementaTraslado

=============================================================================
