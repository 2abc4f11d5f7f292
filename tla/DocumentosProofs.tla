--------------------------- MODULE DocumentosProofs ---------------------------
(***************************************************************************)
(* What holds of Documentos for any number of documents, requirements and  *)
(* workers: a requirement is verified on a document that is ready, only a  *)
(* review can leave it on one that was removed, a document that is ready   *)
(* has its object, and an object is recompressed once per batch lost.      *)
(***************************************************************************)
EXTENDS Documentos, FiniteSetTheorems, TLAPS

\* A worker at work has the document to itself, and so the document stays, with
\* its object and its delivery; it chose a requirement of the document's type.
TareasFieles ==
    \A w \in Trabajadores : tarea[w].fase # "LIBRE" =>
        /\ tarea[w].doc \in Documentos /\ Existe(tarea[w].doc)
        /\ ~quitado[tarea[w].doc] /\ foto[tarea[w].doc] = SinFoto /\ cola[tarea[w].doc] > 0
        /\ tarea[w].marca # Ninguno => tarea[w].doc \in DeTipo(tarea[w].marca)
        /\ \A v \in Trabajadores \ {w} : tarea[v].fase # "LIBRE" => tarea[v].doc # tarea[w].doc

\* What a reviewer saw is ready, although it may have been removed since.
MiradasListas ==
    \A r \in Requisitos : mirada[r] # Ninguno =>
        mirada[r] \in {d \in DeTipo(r) : estado[d] = "READY"}

\* A removal under way saw the requirements the task verified with the document.
FotosFieles ==
    \A d \in Documentos, r \in Requisitos :
        foto[d] # SinFoto /\ requisito[r] = "VERIFIED" /\ respaldo[r] = d /\ ~aMano[r]
            => r \in foto[d].filas

\* The batch has documents that were not compressed; one that was, or that the
\* batch has done, may have been recompressed once more than batches were lost.
LoteFiel ==
    /\ ~lote.corre => lote.filas = {}
    /\ lote.hechos \subseteq lote.filas
    /\ \A d \in lote.filas : ~comprimido[d]
    /\ \A d \in Documentos :
         objeto[d].veces <= IF comprimido[d] \/ d \in lote.hechos THEN 1 + lotesPerdidos
                            ELSE lotesPerdidos

DocumentosOK ==
    /\ TypeOK /\ TareasFieles /\ ListoConObjeto /\ MiradasListas /\ VerificadoPorListo
    /\ FotosFieles /\ SoloLaRevisionSeAdelanta /\ LoteFiel

-----------------------------------------------------------------------------
FormaDeTarea ==
    [fase : {"LIBRE", "LEYENDO", "ESCRIBIENDO"}, doc : Documentos \cup {Ninguno},
     dicho : Nat, leido : Contenidos \cup {Ninguno}, marca : Requisitos \cup {Ninguno}]

\* A worker that is doing nothing.
LEMMA LibreTipada ==
    /\ Libre \in FormaDeTarea /\ Libre.fase = "LIBRE"
    /\ Libre.doc = Ninguno /\ Libre.marca = Ninguno
  BY DEF Libre, FormaDeTarea

\* What there is in the store: nothing, or a content with its recompressions.
LEMMA ObjetoTipado ==
    /\ SinObjeto \in Objetos /\ SinObjeto.veces = 0 /\ SinObjeto.dato = Ninguno
    /\ \A o \in Objetos : o.veces \in Nat /\ (o # SinObjeto => o.dato \in Contenidos)
    /\ \A x \in Contenidos, n \in Nat :
         /\ [dato |-> x, veces |-> n] \in Objetos /\ [dato |-> x, veces |-> n] # SinObjeto
         /\ [dato |-> x, veces |-> n].veces = n
  BY Parametros DEF Objetos, SinObjeto

\* A snapshot is not the absence of one.
LEMMA FotoTipada ==
    /\ SinFoto \in Fotos
    /\ \A f \in Fotos : f # SinFoto => f.vivos \subseteq Documentos /\ f.filas \subseteq Requisitos
    /\ \A v \in SUBSET Documentos, f \in SUBSET Requisitos :
         /\ [vivos |-> v, filas |-> f] \in Fotos /\ [vivos |-> v, filas |-> f] # SinFoto
         /\ [vivos |-> v, filas |-> f].filas = f
  BY Parametros DEF Fotos, SinFoto

\* What a step may use of the types.
LEMMA Tipos ==
    ASSUME TypeOK
    PROVE  /\ estado \in [Documentos -> EstadosSubida] /\ quitado \in [Documentos -> BOOLEAN]
           /\ tamano \in [Documentos -> Nat] /\ comprimido \in [Documentos -> BOOLEAN]
           /\ objeto \in [Documentos -> Objetos] /\ url \in [Documentos -> BOOLEAN]
           /\ encolando \in [Documentos -> BOOLEAN] /\ cola \in [Documentos -> 0 .. MaxEntregas]
           /\ tarea \in [Trabajadores -> FormaDeTarea] /\ foto \in [Documentos -> Fotos]
           /\ requisito \in [Requisitos -> EstadosRequisito]
           /\ respaldo \in [Requisitos -> Documentos \cup {Ninguno}]
           /\ revisado \in [Requisitos -> Documentos \cup {Ninguno}]
           /\ mirada \in [Requisitos -> Documentos \cup {Ninguno}]
           /\ aMano \in [Requisitos -> BOOLEAN] /\ archivada \in BOOLEAN
           /\ lote \in [corre : BOOLEAN, filas : SUBSET Documentos, hechos : SUBSET Documentos]
           /\ fallos \in 0 .. MaxFallos /\ abandonada \in [Documentos -> BOOLEAN]
           /\ lotesPerdidos \in Nat
  BY DEF TypeOK, FormaDeTarea

\* At the start nothing was uploaded and nobody is at work.
LEMMA DocumentosInicial == Init => DocumentosOK
<1> SUFFICES ASSUME Init PROVE DocumentosOK
  OBVIOUS
<1>1. TypeOK
  <2>1. tarea \in [Trabajadores -> FormaDeTarea] /\ objeto \in [Documentos -> Objetos]
        /\ foto \in [Documentos -> Fotos]
    BY LibreTipada, ObjetoTipado, FotoTipada DEF Init
  <2>2. 0 \in 0 .. MaxEntregas /\ 0 \in 0 .. MaxFallos
    BY Parametros
  <2>3. archivada \in BOOLEAN
    BY Zenon DEF Init
  <2>4. lote \in [corre : BOOLEAN, filas : SUBSET Documentos, hechos : SUBSET Documentos]
    BY DEF Init, SinLote
  <2>5. /\ estado \in [Documentos -> EstadosSubida] /\ quitado \in [Documentos -> BOOLEAN]
        /\ tamano \in [Documentos -> Nat] /\ comprimido \in [Documentos -> BOOLEAN]
        /\ url \in [Documentos -> BOOLEAN] /\ encolando \in [Documentos -> BOOLEAN]
        /\ cola \in [Documentos -> 0 .. MaxEntregas] /\ fallos \in 0 .. MaxFallos
        /\ abandonada \in [Documentos -> BOOLEAN] /\ lotesPerdidos \in Nat
    BY <2>2 DEF Init, EstadosSubida
  <2>6. /\ requisito \in [Requisitos -> EstadosRequisito] /\ aMano \in [Requisitos -> BOOLEAN]
        /\ respaldo \in [Requisitos -> Documentos \cup {Ninguno}]
        /\ revisado \in [Requisitos -> Documentos \cup {Ninguno}]
        /\ mirada \in [Requisitos -> Documentos \cup {Ninguno}]
    BY DEF Init, EstadosRequisito
  <2> QED
    BY <2>1, <2>3, <2>4, <2>5, <2>6 DEF TypeOK, FormaDeTarea
<1>2. TareasFieles
  BY LibreTipada DEF Init, TareasFieles
<1>3. ListoConObjeto /\ MiradasListas /\ VerificadoPorListo /\ FotosFieles
      /\ SoloLaRevisionSeAdelanta
  BY DEF Init, ListoConObjeto, MiradasListas, VerificadoPorListo, FotosFieles,
         SoloLaRevisionSeAdelanta
<1>4. LoteFiel
  BY ObjetoTipado DEF Init, LoteFiel, SinLote
<1> QED
  BY <1>1, <1>2, <1>3, <1>4 DEF DocumentosOK

-----------------------------------------------------------------------------
(* What each part of the invariant asks of a step that leaves it alone *)

\* The workers go on if their documents keep object, row and delivery.
LEMMA TareasQuietas ==
    ASSUME DocumentosOK, UNCHANGED <<tarea, quitado>>,
           \A w \in Trabajadores : tarea[w].fase # "LIBRE" =>
               /\ objeto'[tarea[w].doc] # SinObjeto /\ cola'[tarea[w].doc] > 0
               /\ foto'[tarea[w].doc] = SinFoto
    PROVE  TareasFieles'
  BY DEF DocumentosOK, TareasFieles, Existe, DeTipo

\* The requirements go on if what was ready stays so.
LEMMA RequisitosQuietos ==
    ASSUME DocumentosOK, UNCHANGED <<requisito, respaldo, aMano, mirada, quitado, foto>>,
           \A d \in Documentos : estado[d] = "READY" => estado'[d] = "READY"
    PROVE  MiradasListas' /\ VerificadoPorListo' /\ FotosFieles' /\ SoloLaRevisionSeAdelanta'
<1>1. \A r \in Requisitos : DeTipo(r) \subseteq Documentos /\ DeTipo(r)' = DeTipo(r)
  BY DEF DeTipo
<1>2. MiradasListas' /\ VerificadoPorListo'
  BY <1>1 DEF DocumentosOK, MiradasListas, VerificadoPorListo
<1>3. FotosFieles' /\ SoloLaRevisionSeAdelanta'
  BY DEF DocumentosOK, FotosFieles, SoloLaRevisionSeAdelanta
<1> QED
  BY <1>2, <1>3

\* The recompression goes on if no object has more recompressions than it had.
LEMMA ArchivoQuieto ==
    ASSUME DocumentosOK, UNCHANGED <<lote, comprimido, lotesPerdidos>>,
           \A d \in Documentos : objeto'[d].veces \in Nat /\ objeto'[d].veces <= objeto[d].veces
    PROVE  LoteFiel'
<1>1. lotesPerdidos \in Nat /\ \A d \in Documentos : objeto[d].veces \in Nat
  BY Tipos, ObjetoTipado DEF DocumentosOK
<1>2. /\ ~lote.corre => lote.filas = {}
      /\ lote.hechos \subseteq lote.filas
      /\ \A d \in lote.filas : ~comprimido[d]
  BY DEF DocumentosOK, LoteFiel
<1>3. ASSUME NEW d \in Documentos
      PROVE  objeto'[d].veces <= IF comprimido[d] \/ d \in lote.hechos THEN 1 + lotesPerdidos
                                 ELSE lotesPerdidos
  <2>1. PICK n \in Nat : n = IF comprimido[d] \/ d \in lote.hechos THEN 1 + lotesPerdidos
                             ELSE lotesPerdidos
    BY <1>1
  <2>2. objeto[d].veces <= n
    BY <2>1 DEF DocumentosOK, LoteFiel
  <2> QED
    BY <1>1, <2>1, <2>2
<1> QED
  BY <1>2, <1>3 DEF LoteFiel

-----------------------------------------------------------------------------
(* Upload *)

\* A step of an upload keeps the invariant when no document becomes ready, none
\* that is ready or being worked on loses its object, and no delivery is lost.
LEMMA SubirGenerico ==
    ASSUME DocumentosOK, TypeOK', UNCHANGED <<reqVars, archVars>>, UNCHANGED <<tarea, quitado, foto>>,
           \A d \in Documentos : estado[d] = "READY" <=> estado'[d] = "READY",
           \A d \in Documentos : \/ objeto'[d] # SinObjeto \/ objeto[d] = SinObjeto
                                 \/ estado[d] # "READY" /\ FilaLibre(d),
           \A d \in Documentos : objeto'[d].veces <= objeto[d].veces /\ cola[d] <= cola'[d]
    PROVE  DocumentosOK'
<1> USE DEF reqVars, archVars
<1>1. TareasFieles'
  <2>1. ASSUME NEW w \in Trabajadores, tarea[w].fase # "LIBRE"
        PROVE  /\ objeto'[tarea[w].doc] # SinObjeto /\ cola'[tarea[w].doc] > 0
               /\ foto'[tarea[w].doc] = SinFoto
    <3>1. PICK d \in Documentos : d = tarea[w].doc
      BY <2>1 DEF DocumentosOK, TareasFieles
    <3>2. objeto[d] # SinObjeto /\ cola[d] > 0 /\ foto[d] = SinFoto /\ ~FilaLibre(d)
      BY <2>1, <3>1 DEF DocumentosOK, TareasFieles, Existe, FilaLibre
    <3>3. cola[d] \in Nat /\ cola'[d] \in Nat
      BY Parametros DEF DocumentosOK, TypeOK
    <3> QED
      BY <3>1, <3>2, <3>3
  <2> QED
    BY <2>1, TareasQuietas
<1>2. ListoConObjeto'
  BY DEF DocumentosOK, ListoConObjeto, Existe
<1>3. MiradasListas' /\ VerificadoPorListo' /\ FotosFieles' /\ SoloLaRevisionSeAdelanta'
  BY RequisitosQuietos
<1>4. LoteFiel'
  <2>1. \A d \in Documentos : objeto'[d].veces \in Nat
    BY ObjetoTipado DEF TypeOK
  <2> QED
    BY <2>1, ArchivoQuieto
<1> QED
  BY <1>1, <1>2, <1>3, <1>4 DEF DocumentosOK

\* The reservation and the client's own writes to the store.
LEMMA ReservaConserva ==
    ASSUME DocumentosOK, NEW d \in Documentos,
           ReservarDocumento(d) \/ VencerUrl(d) \/ \E x \in Contenidos : Subir(d, x)
    PROVE  DocumentosOK'
<1>0. TypeOK
  BY DEF DocumentosOK
<1>1. \A e \in Documentos : objeto[e].veces \in Nat /\ cola[e] \in Nat
  BY <1>0, Tipos, ObjetoTipado, Parametros
<1>2. CASE ReservarDocumento(d)
  <2>1. /\ UNCHANGED <<reqVars, archVars>> /\ UNCHANGED <<tarea, quitado, foto>>
        /\ UNCHANGED <<tamano, encolando, cola, abandonada, objeto, fallos>>
        /\ estado[d] = "SIN_CREAR" /\ estado' = [estado EXCEPT ![d] = "UPLOADING"]
        /\ url' = [url EXCEPT ![d] = TRUE]
    BY <1>2 DEF ReservarDocumento, taskVars
  <2>2. estado' \in [Documentos -> EstadosSubida] /\ url' \in [Documentos -> BOOLEAN]
    BY <1>0, <2>1, Tipos DEF EstadosSubida
  <2>3. TypeOK'
    BY <1>0, <2>1, <2>2 DEF TypeOK, reqVars, archVars
  <2>4. \A e \in Documentos : estado[e] = "READY" <=> estado'[e] = "READY"
    BY <1>0, <2>1, Tipos
  <2> QED
    BY <1>1, <2>1, <2>3, <2>4, SubirGenerico
<1>3. CASE VencerUrl(d)
  <2>1. /\ UNCHANGED <<reqVars, archVars>> /\ UNCHANGED <<tarea, quitado, foto>>
        /\ UNCHANGED <<estado, tamano, encolando, cola, abandonada, objeto, fallos>>
        /\ url' = [url EXCEPT ![d] = FALSE]
    BY <1>3 DEF VencerUrl, taskVars, docVars
  <2>2. url' \in [Documentos -> BOOLEAN]
    BY <1>0, <2>1, Tipos
  <2>3. TypeOK'
    BY <1>0, <2>1, <2>2 DEF TypeOK, reqVars, archVars
  <2> QED
    BY <1>1, <2>1, <2>3, SubirGenerico
<1>4. ASSUME NEW x \in Contenidos, Subir(d, x) PROVE DocumentosOK'
  <2> DEFINE nuevo == [dato |-> x, veces |-> 0]
  <2>1. /\ UNCHANGED <<reqVars, archVars>> /\ UNCHANGED <<tarea, quitado, foto>>
        /\ UNCHANGED <<estado, tamano, encolando, cola, abandonada, url, fallos>>
        /\ objeto' = [objeto EXCEPT ![d] = nuevo]
    BY <1>4 DEF Subir, taskVars, docVars
  <2>2. nuevo \in Objetos /\ nuevo # SinObjeto /\ nuevo.veces = 0
    BY ObjetoTipado
  <2> HIDE DEF nuevo
  <2>3. /\ objeto' \in [Documentos -> Objetos]
        /\ \A e \in Documentos : objeto'[e] = IF e = d THEN nuevo ELSE objeto[e]
    BY <1>0, <2>1, <2>2, Tipos
  <2>4. TypeOK'
    BY <1>0, <2>1, <2>3 DEF TypeOK, reqVars, archVars
  <2>5. \A e \in Documentos : /\ objeto'[e] # SinObjeto \/ objeto[e] = SinObjeto
                              /\ objeto'[e].veces <= objeto[e].veces
    BY <1>1, <2>2, <2>3
  <2> QED
    BY <1>1, <2>1, <2>4, <2>5, SubirGenerico
<1> QED
  BY <1>2, <1>3, <1>4

\* Completing an upload: it goes to the task, or out of the store.
LEMMA CompletarConserva ==
    ASSUME DocumentosOK, NEW d \in Documentos, AlCompletar(d)
    PROVE  DocumentosOK'
<1>0. TypeOK
  BY DEF DocumentosOK
<1>1. \A e \in Documentos : objeto[e].veces \in Nat /\ cola[e] \in Nat
  BY <1>0, Tipos, ObjetoTipado, Parametros
<1>2. CASE Completar(d)
  <2>1. /\ UNCHANGED <<reqVars, archVars>> /\ UNCHANGED <<tarea, quitado, foto>>
        /\ UNCHANGED <<cola, abandonada, objeto, url, fallos>>
        /\ estado[d] = "UPLOADING" /\ estado' = [estado EXCEPT ![d] = "PROCESSING"]
        /\ tamano' = [tamano EXCEPT ![d] = Tamano[objeto[d].dato]]
        /\ encolando' = [encolando EXCEPT ![d] = TRUE] /\ objeto[d].dato \in Validos
    BY <1>2 DEF Completar, PrepararProcesamiento
  <2>2. Tamano[objeto[d].dato] \in Nat
    BY <2>1, Parametros
  <2>3. /\ estado' \in [Documentos -> EstadosSubida] /\ encolando' \in [Documentos -> BOOLEAN]
        /\ tamano' \in [Documentos -> Nat]
    BY <1>0, <2>1, <2>2, Tipos DEF EstadosSubida
  <2>4. TypeOK'
    BY <1>0, <2>1, <2>3 DEF TypeOK, reqVars, archVars
  <2>5. \A e \in Documentos : estado[e] = "READY" <=> estado'[e] = "READY"
    BY <1>0, <2>1, Tipos
  <2> QED
    BY <1>1, <2>1, <2>4, <2>5, SubirGenerico
<1>3. CASE RechazarSubida(d) \/ RechazarYCaer(d)
  <2>1. /\ UNCHANGED <<reqVars, archVars>> /\ UNCHANGED <<tarea, quitado, foto>>
        /\ UNCHANGED <<tamano, encolando, cola, abandonada, url>>
        /\ estado[d] = "UPLOADING" /\ estado' \in {estado, [estado EXCEPT ![d] = "FAILED"]}
        /\ FilaLibre(d) /\ objeto' = [objeto EXCEPT ![d] = SinObjeto]
    BY <1>3 DEF RechazarSubida, RechazarYCaer, MarcarFallido, DocumentoDelRecurso, taskVars, docVars
  <2>2. fallos' \in 0 .. MaxFallos
    BY <1>0, <1>3, Tipos, Parametros DEF RechazarSubida, RechazarYCaer, Falla
  <2>3. estado' \in [Documentos -> EstadosSubida] /\ objeto' \in [Documentos -> Objetos]
    BY <1>0, <2>1, Tipos, ObjetoTipado DEF EstadosSubida
  <2>4. TypeOK'
    BY <1>0, <2>1, <2>2, <2>3 DEF TypeOK, reqVars, archVars
  <2>5. \A e \in Documentos : /\ estado[e] = "READY" <=> estado'[e] = "READY"
                              /\ objeto'[e] = IF e = d THEN SinObjeto ELSE objeto[e]
    BY <1>0, <2>1, Tipos
  <2>6. \A e \in Documentos : objeto'[e].veces <= objeto[e].veces
    BY <1>1, <2>5, ObjetoTipado
  <2> QED
    BY <1>1, <2>1, <2>4, <2>5, <2>6, SubirGenerico
<1> QED
  BY <1>2, <1>3 DEF AlCompletar

\* The call to the broker after the commit, and its failures.
LEMMA EncolarConserva ==
    ASSUME DocumentosOK, NEW d \in Documentos, Encolar(d) \/ NoEncolado(d) \/ CaerAlEncolar(d)
    PROVE  DocumentosOK'
<1>0. TypeOK
  BY DEF DocumentosOK
<1>1. /\ UNCHANGED <<reqVars, archVars>> /\ UNCHANGED <<tarea, quitado, foto>>
      /\ UNCHANGED <<tamano, objeto, url>>
      /\ encolando' = [encolando EXCEPT ![d] = FALSE]
      /\ abandonada' \in {abandonada, [abandonada EXCEPT ![d] = @ \/ cola[d] = 0]}
      /\ cola' = cola \/ (cola[d] < MaxEntregas /\ cola' = [cola EXCEPT ![d] = @ + 1])
         \/ cola' = [cola EXCEPT ![d] = IF @ < MaxEntregas THEN @ + 1 ELSE @]
      /\ \/ estado' = estado
         \/ estado' = [estado EXCEPT ![d] = IF @ = "PROCESSING" THEN "UPLOADING" ELSE @]
  BY DEF Encolar, NoEncolado, CaerAlEncolar, docVars
<1>2. fallos' \in 0 .. MaxFallos
  BY <1>0, Tipos, Parametros DEF Encolar, NoEncolado, CaerAlEncolar, Falla
<1>3. /\ cola' \in [Documentos -> 0 .. MaxEntregas]
      /\ \A e \in Documentos : cola[e] <= cola'[e]
  BY <1>0, <1>1, Tipos, Parametros
<1>4. /\ estado' \in [Documentos -> EstadosSubida]
      /\ \A e \in Documentos : estado[e] = "READY" <=> estado'[e] = "READY"
  BY <1>0, <1>1, Tipos DEF EstadosSubida
<1>5. encolando' \in [Documentos -> BOOLEAN] /\ abandonada' \in [Documentos -> BOOLEAN]
  BY <1>0, <1>1, Tipos
<1>6. TypeOK'
  BY <1>0, <1>1, <1>2, <1>3, <1>4, <1>5 DEF TypeOK, reqVars, archVars
<1>7. \A e \in Documentos : objeto'[e].veces <= objeto[e].veces
  BY <1>0, <1>1, Tipos, ObjetoTipado
<1> QED
  BY <1>1, <1>3, <1>4, <1>6, <1>7, SubirGenerico

-----------------------------------------------------------------------------
(* The task *)

\* A worker's step is right when what it leaves of itself is, and the others
\* keep their deliveries.
LEMMA TareaCambia ==
    ASSUME DocumentosOK, NEW w \in Trabajadores, NEW o \in FormaDeTarea,
           tarea' = [tarea EXCEPT ![w] = o], UNCHANGED <<quitado, foto, objeto>>,
           \A v \in Trabajadores \ {w} : tarea[v].fase # "LIBRE" =>
               cola'[tarea[v].doc] > 0 /\ (o.fase # "LIBRE" => o.doc # tarea[v].doc),
           o.fase # "LIBRE" =>
             /\ o.doc \in Documentos /\ Existe(o.doc) /\ ~quitado[o.doc]
             /\ foto[o.doc] = SinFoto /\ cola'[o.doc] > 0
             /\ o.marca # Ninguno => o.doc \in DeTipo(o.marca)
    PROVE  TareasFieles'
<1>1. \A v \in Trabajadores : tarea'[v] = IF v = w THEN o ELSE tarea[v]
  BY DEF DocumentosOK, TypeOK
<1> QED
  BY <1>1 DEF DocumentosOK, TareasFieles, Existe, DeTipo

\* Until its commit a task changes nothing but itself and its delivery.
LEMMA TareaGenerica ==
    ASSUME DocumentosOK, NEW w \in Trabajadores, NEW o \in FormaDeTarea,
           tarea' = [tarea EXCEPT ![w] = o], TareasFieles',
           UNCHANGED <<docVars, reqVars, archVars>>, UNCHANGED <<foto, objeto, url, encolando>>,
           cola' \in [Documentos -> 0 .. MaxEntregas], fallos' \in 0 .. MaxFallos,
           abandonada' \in [Documentos -> BOOLEAN]
    PROVE  DocumentosOK'
<1> USE DEF docVars, reqVars, archVars
<1>1. TypeOK'
  <2>1. tarea' \in [Trabajadores -> FormaDeTarea]
    BY Tipos DEF DocumentosOK
  <2> QED
    BY <2>1 DEF DocumentosOK, TypeOK, FormaDeTarea
<1>2. ListoConObjeto'
  BY DEF DocumentosOK, ListoConObjeto, Existe
<1>3. MiradasListas' /\ VerificadoPorListo' /\ FotosFieles' /\ SoloLaRevisionSeAdelanta'
  BY RequisitosQuietos
<1>4. LoteFiel'
  BY DEF DocumentosOK, LoteFiel
<1> QED
  BY <1>1, <1>2, <1>3, <1>4 DEF DocumentosOK

\* A delivery is taken only by one worker, when nobody has the document.
LEMMA EntregaPendiente ==
    ASSUME DocumentosOK, NEW w \in Trabajadores, NEW d \in Documentos, Tomable(w, d)
    PROVE  /\ cola[d] \in 1 .. MaxEntregas /\ cola[d] - 1 \in 0 .. MaxEntregas
           /\ foto[d] = SinFoto
           /\ \A v \in Trabajadores : tarea[v].doc # d
<1>1. foto[d] = SinFoto /\ \A v \in Trabajadores : tarea[v].doc # d
  BY DEF Tomable, FilaLibre
<1>2. EnCurso(d) = 0
  <2>1. {v \in Trabajadores : tarea[v].doc = d} = {}
    BY <1>1
  <2> QED
    BY <2>1, FS_EmptySet DEF EnCurso
<1>3. cola[d] \in 0 .. MaxEntregas /\ MaxEntregas \in Nat
  BY Tipos, Parametros DEF DocumentosOK
<1>4. 0 < cola[d]
  BY <1>2 DEF Tomable
<1> QED
  BY <1>1, <1>3, <1>4

\* A task that begins or is dropped.
LEMMA TomarConserva ==
    ASSUME DocumentosOK, NEW w \in Trabajadores, NEW d \in Documentos,
           EmpezarTarea(w, d) \/ DescartarTarea(w, d)
    PROVE  DocumentosOK'
<1>0. TypeOK /\ TareasFieles
  BY DEF DocumentosOK
<1>1. /\ cola[d] \in 1 .. MaxEntregas /\ cola[d] - 1 \in 0 .. MaxEntregas /\ foto[d] = SinFoto
      /\ \A v \in Trabajadores : tarea[v].doc # d
  BY EntregaPendiente DEF EmpezarTarea, DescartarTarea
<1>2. CASE EmpezarTarea(w, d)
  <2> DEFINE o == [Libre EXCEPT !.fase = "LEYENDO", !.doc = d, !.dicho = Tamano[objeto[d].dato]]
  <2>1. /\ tarea' = [tarea EXCEPT ![w] = o] /\ ~quitado[d] /\ Existe(d)
        /\ UNCHANGED <<docVars, reqVars, archVars>> /\ UNCHANGED <<foto, objeto, url, encolando>>
        /\ UNCHANGED <<cola, fallos, abandonada, quitado>>
    BY <1>2 DEF EmpezarTarea, docVars
  <2>2. Tamano[objeto[d].dato] \in Nat
    BY <1>0, <2>1, Tipos, ObjetoTipado, Parametros DEF Existe
  <2>3. o \in FormaDeTarea /\ o.fase = "LEYENDO" /\ o.doc = d /\ o.marca = Ninguno
    BY <2>2, LibreTipada DEF FormaDeTarea
  <2> HIDE DEF o
  <2>4. TareasFieles'
    <3>1. \A v \in Trabajadores : tarea[v].fase # "LIBRE" =>
            cola'[tarea[v].doc] > 0 /\ o.doc # tarea[v].doc
      BY <1>0, <1>1, <2>1, <2>3 DEF TareasFieles
    <3>2. /\ o.doc \in Documentos /\ Existe(o.doc) /\ ~quitado[o.doc]
          /\ foto[o.doc] = SinFoto /\ cola'[o.doc] > 0
      BY <1>1, <2>1, <2>3
    <3> QED
      BY <2>1, <2>3, <3>1, <3>2, TareaCambia
  <2>5. /\ cola' \in [Documentos -> 0 .. MaxEntregas] /\ fallos' \in 0 .. MaxFallos
        /\ abandonada' \in [Documentos -> BOOLEAN]
    BY <1>0, <2>1, Tipos
  <2> QED
    BY <2>1, <2>3, <2>4, <2>5, TareaGenerica
<1>3. CASE DescartarTarea(w, d)
  <2>1. /\ UNCHANGED <<docVars, reqVars, archVars>> /\ UNCHANGED <<foto, objeto, url, encolando>>
        /\ UNCHANGED <<fallos, tarea, quitado>> /\ cola' = [cola EXCEPT ![d] = @ - 1]
        /\ abandonada' = [abandonada EXCEPT ![d] =
             @ \/ (estado[d] = "PROCESSING" /\ UltimaEntrega(d))]
    BY <1>3 DEF DescartarTarea, docVars
  <2>2. tarea' = [tarea EXCEPT ![w] = tarea[w]] /\ tarea[w] \in FormaDeTarea
    BY <1>0, <2>1, Tipos
  <2>3. cola' \in [Documentos -> 0 .. MaxEntregas] /\ fallos' \in 0 .. MaxFallos
    BY <1>0, <1>1, <2>1, Tipos
  <2>4. abandonada' \in [Documentos -> BOOLEAN]
    BY <1>0, <2>1, Tipos
  <2>5. TareasFieles'
    <3>1. ASSUME NEW v \in Trabajadores, tarea[v].fase # "LIBRE"
          PROVE  cola'[tarea[v].doc] > 0 /\ objeto'[tarea[v].doc] # SinObjeto
                 /\ foto'[tarea[v].doc] = SinFoto
      BY <1>0, <1>1, <2>1, <3>1, Tipos DEF TareasFieles, Existe
    <3> QED
      BY <2>1, <3>1, TareasQuietas
  <2> QED
    BY <2>1, <2>2, <2>3, <2>4, <2>5, TareaGenerica
<1> QED
  BY <1>2, <1>3

\* A task that goes on to write what it read, or that ends without its commit.
LEMMA TareaSigueOTermina ==
    ASSUME DocumentosOK, NEW w \in Trabajadores,
           LeerObjeto(w) \/ TamanoDistinto(w) \/ RepetirTarea(w) \/ PerderTarea(w)
    PROVE  DocumentosOK'
<1>0. TypeOK /\ TareasFieles
  BY DEF DocumentosOK
<1>1. /\ UNCHANGED <<docVars, reqVars, archVars>> /\ UNCHANGED <<foto, objeto, url, encolando>>
      /\ UNCHANGED quitado
  BY DEF LeerObjeto, TamanoDistinto, RepetirTarea, PerderTarea, docVars
<1>2. CASE LeerObjeto(w)
  <2>0. PICK d \in Documentos : d = tarea[w].doc
    BY <1>0, <1>2 DEF LeerObjeto, TareasFieles
  <2>1. PICK r \in Requisitos \cup {Ninguno} :
          /\ r # Ninguno => d \in DeTipo(r)
          /\ tarea' = [tarea EXCEPT ![w].fase = "ESCRIBIENDO", ![w].marca = r,
                                    ![w].leido = objeto[d].dato]
    BY <1>2, <2>0 DEF LeerObjeto, Abiertos
  <2> DEFINE o == [tarea[w] EXCEPT !.fase = "ESCRIBIENDO", !.marca = r, !.leido = objeto[d].dato]
  <2>2. tarea' = [tarea EXCEPT ![w] = o]
    BY <1>0, <2>1, Tipos
  <2>3. objeto[d].dato \in Contenidos
    BY <1>0, <1>2, <2>0, Tipos, ObjetoTipado DEF LeerObjeto, Existe
  <2>4. o \in FormaDeTarea /\ o.fase = "ESCRIBIENDO" /\ o.doc = d /\ o.marca = r
    <3>1. tarea[w] \in FormaDeTarea
      BY <1>0, Tipos
    <3> QED
      BY <2>0, <2>3, <3>1 DEF FormaDeTarea
  <2> HIDE DEF o
  <2>5. UNCHANGED <<cola, fallos, abandonada>>
    BY <1>2 DEF LeerObjeto
  <2>6. TareasFieles'
    <3>1. /\ Existe(d) /\ ~quitado[d] /\ foto[d] = SinFoto /\ cola'[d] > 0
          /\ \A v \in Trabajadores \ {w} : tarea[v].fase # "LIBRE" =>
               cola'[tarea[v].doc] > 0 /\ d # tarea[v].doc
      BY <1>0, <1>2, <2>0, <2>5 DEF LeerObjeto, TareasFieles
    <3>2. o.marca # Ninguno => o.doc \in DeTipo(o.marca)
      BY <2>1, <2>4
    <3>3. /\ o.doc \in Documentos /\ Existe(o.doc) /\ ~quitado[o.doc]
          /\ foto[o.doc] = SinFoto /\ cola'[o.doc] > 0
      BY <2>4, <3>1
    <3>4. \A v \in Trabajadores \ {w} : tarea[v].fase # "LIBRE" =>
            cola'[tarea[v].doc] > 0 /\ o.doc # tarea[v].doc
      BY <2>4, <3>1
    <3> QED
      BY <1>1, <2>2, <2>4, <3>2, <3>3, <3>4, TareaCambia
  <2>7. /\ cola' \in [Documentos -> 0 .. MaxEntregas] /\ fallos' \in 0 .. MaxFallos
        /\ abandonada' \in [Documentos -> BOOLEAN]
    BY <1>0, <2>5, Tipos
  <2> QED
    BY <1>1, <2>2, <2>4, <2>6, <2>7, TareaGenerica
<1>3. CASE TamanoDistinto(w) \/ PerderTarea(w)
  <2>0. tarea[w].fase # "LIBRE"
    BY <1>0, <1>3, Tipos DEF TamanoDistinto, PerderTarea, TareasFieles
  <2>1. PICK d \in Documentos : d = tarea[w].doc
    BY <1>0, <2>0 DEF TareasFieles
  <2>2. /\ tarea' = [tarea EXCEPT ![w] = Libre] /\ cola' = [cola EXCEPT ![d] = @ - 1]
        /\ abandonada' = [abandonada EXCEPT ![d] = @ \/ UltimaEntrega(d)]
    BY <1>3, <2>1 DEF TamanoDistinto, PerderTarea
  <2>3. fallos' \in 0 .. MaxFallos
    BY <1>0, <1>3, Tipos, Parametros DEF TamanoDistinto, PerderTarea, Falla
  <2>4. /\ cola[d] > 0 /\ cola[d] \in 0 .. MaxEntregas
        /\ \A v \in Trabajadores \ {w} : tarea[v].fase # "LIBRE" =>
             cola[tarea[v].doc] > 0 /\ d # tarea[v].doc /\ tarea[v].doc \in Documentos
    BY <1>0, <2>0, <2>1, Tipos DEF TareasFieles
  <2>5. cola' \in [Documentos -> 0 .. MaxEntregas]
    BY <1>0, <2>2, <2>4, Tipos, Parametros
  <2>6. abandonada' \in [Documentos -> BOOLEAN]
    BY <1>0, <2>2, Tipos
  <2>7. TareasFieles'
    <3>1. \A v \in Trabajadores \ {w} : tarea[v].fase # "LIBRE" => cola'[tarea[v].doc] > 0
      BY <1>0, <2>2, <2>4, Tipos
    <3> QED
      BY <1>1, <2>2, <3>1, LibreTipada, TareaCambia
  <2> QED
    BY <1>1, <2>2, <2>3, <2>5, <2>6, <2>7, LibreTipada, TareaGenerica
<1>4. CASE RepetirTarea(w)
  <2>1. tarea' = [tarea EXCEPT ![w] = Libre] /\ UNCHANGED <<cola, abandonada>>
    BY <1>4 DEF RepetirTarea
  <2>2. /\ cola' \in [Documentos -> 0 .. MaxEntregas] /\ fallos' \in 0 .. MaxFallos
        /\ abandonada' \in [Documentos -> BOOLEAN]
    BY <1>0, <1>4, <2>1, Tipos, Parametros DEF RepetirTarea, Falla
  <2>3. TareasFieles'
    <3>1. \A v \in Trabajadores \ {w} : tarea[v].fase # "LIBRE" => cola'[tarea[v].doc] > 0
      BY <1>0, <2>1 DEF TareasFieles
    <3> QED
      BY <1>1, <2>1, <3>1, LibreTipada, TareaCambia
  <2> QED
    BY <1>1, <2>1, <2>2, <2>3, LibreTipada, TareaGenerica
<1> QED
  BY <1>2, <1>3, <1>4

\* The commit: a document nobody is removing satisfies the requirement.
LEMMA ConfirmarConserva ==
    ASSUME DocumentosOK, NEW w \in Trabajadores, ConfirmarTarea(w)
    PROVE  DocumentosOK'
<1>0. TypeOK /\ TareasFieles
  BY DEF DocumentosOK
<1>1. PICK d \in Documentos, r \in Requisitos \cup {Ninguno} :
        d = tarea[w].doc /\ r = tarea[w].marca
  BY <1>0, Tipos DEF ConfirmarTarea, TareasFieles, FormaDeTarea
<1>2. /\ Existe(d) /\ ~quitado[d] /\ foto[d] = SinFoto /\ cola[d] > 0
      /\ r # Ninguno => d \in DeTipo(r)
      /\ \A v \in Trabajadores \ {w} : tarea[v].fase # "LIBRE" =>
           cola[tarea[v].doc] > 0 /\ tarea[v].doc # d /\ tarea[v].doc \in Documentos
  BY <1>0, <1>1 DEF ConfirmarTarea, TareasFieles
<1>3. /\ estado' = [estado EXCEPT ![d] = "READY"] /\ MarcarRequisitoSubido(r, d)
      /\ tarea' = [tarea EXCEPT ![w] = Libre] /\ cola' = [cola EXCEPT ![d] = @ - 1]
      /\ UNCHANGED <<quitado, tamano, mirada, encolando, abandonada, objeto, url, foto, fallos>>
      /\ UNCHANGED archVars
  BY <1>1 DEF ConfirmarTarea
<1>4. /\ estado' \in [Documentos -> EstadosSubida]
      /\ \A e \in Documentos : estado'[e] = IF e = d THEN "READY" ELSE estado[e]
  BY <1>0, <1>3, Tipos DEF EstadosSubida
<1>5. /\ requisito' \in [Requisitos -> EstadosRequisito]
      /\ respaldo' \in [Requisitos -> Documentos \cup {Ninguno}]
      /\ revisado' \in [Requisitos -> Documentos \cup {Ninguno}]
      /\ \A x \in Requisitos :
           IF x = r THEN requisito'[x] = "VERIFIED" /\ respaldo'[x] = d
           ELSE requisito'[x] = requisito[x] /\ respaldo'[x] = respaldo[x]
  BY <1>0, <1>3, Tipos DEF MarcarRequisitoSubido, EstadosRequisito
<1>6. aMano' \in [Requisitos -> BOOLEAN] /\ \A x \in Requisitos : x # r => aMano'[x] = aMano[x]
  BY <1>0, <1>3, Tipos DEF MarcarRequisitoSubido
<1>7. cola' \in [Documentos -> 0 .. MaxEntregas] /\ tarea' \in [Trabajadores -> FormaDeTarea]
  BY <1>0, <1>2, <1>3, Tipos, LibreTipada, Parametros
<1>8. TypeOK'
  BY <1>0, <1>3, <1>4, <1>5, <1>6, <1>7 DEF TypeOK, FormaDeTarea, archVars
<1>9. TareasFieles'
  <2>1. \A v \in Trabajadores \ {w} : tarea[v].fase # "LIBRE" => cola'[tarea[v].doc] > 0
    BY <1>0, <1>2, <1>3, Tipos
  <2> QED
    BY <1>3, <2>1, LibreTipada, TareaCambia
<1>10. ListoConObjeto'
  BY <1>2, <1>3, <1>4 DEF DocumentosOK, ListoConObjeto, Existe
<1>11. MiradasListas' /\ VerificadoPorListo'
  <2>1. \A x \in Requisitos : DeTipo(x) \subseteq Documentos /\ DeTipo(x)' = DeTipo(x)
    BY DEF DeTipo
  <2> QED
    BY <1>2, <1>3, <1>4, <1>5, <2>1, Parametros
       DEF DocumentosOK, MiradasListas, VerificadoPorListo
<1>12. FotosFieles' /\ SoloLaRevisionSeAdelanta'
  BY <1>2, <1>3, <1>5, <1>6 DEF DocumentosOK, FotosFieles, SoloLaRevisionSeAdelanta
<1>13. LoteFiel'
  BY <1>3 DEF DocumentosOK, LoteFiel, archVars
<1> QED
  BY <1>8, <1>9, <1>10, <1>11, <1>12, <1>13 DEF DocumentosOK

-----------------------------------------------------------------------------
(* Removal and review *)

\* What is verified rests on a document of the requirement's type.
LEMMA VerificadoEsAfectado ==
    ASSUME DocumentosOK, NEW r \in Requisitos, requisito[r] = "VERIFIED"
    PROVE  respaldo[r] \in Documentos /\ Afectado(r, respaldo[r])
  BY DEF DocumentosOK, VerificadoPorListo, Afectado, DeTipo

\* The snapshot of a removal has every requirement verified with the document.
LEMMA QuitarConserva ==
    ASSUME DocumentosOK, NEW d \in Documentos, Quitar(d)
    PROVE  DocumentosOK'
<1>0. TypeOK
  BY DEF DocumentosOK
<1> DEFINE vivos == {e \in Documentos \ {d} : Vivo(e)}
           filas == {r \in Requisitos : Afectado(r, d)}
           nueva == [vivos |-> vivos, filas |-> filas]
<1>1. /\ FilaLibre(d) /\ foto' = [foto EXCEPT ![d] = nueva]
      /\ UNCHANGED <<docVars, reqVars, taskVars, archVars>> /\ UNCHANGED <<objeto, url, fallos>>
  BY DEF Quitar
<1>2. nueva \in Fotos /\ nueva # SinFoto /\ nueva.filas = filas
  BY FotoTipada
<1>3. \A r \in Requisitos : Afectado(r, d) => r \in filas
  OBVIOUS
<1> HIDE DEF nueva, filas, vivos
<1>4. /\ foto' \in [Documentos -> Fotos]
      /\ \A e \in Documentos : foto'[e] = IF e = d THEN nueva ELSE foto[e]
  BY <1>0, <1>1, <1>2, Tipos
<1> USE DEF docVars, reqVars, taskVars, archVars
<1>5. TypeOK'
  BY <1>0, <1>1, <1>4 DEF TypeOK
<1>6. TareasFieles'
  <2>1. ASSUME NEW w \in Trabajadores, tarea[w].fase # "LIBRE"
        PROVE  /\ objeto'[tarea[w].doc] # SinObjeto /\ cola'[tarea[w].doc] > 0
               /\ foto'[tarea[w].doc] = SinFoto
    BY <1>1, <1>4, <2>1 DEF DocumentosOK, TareasFieles, Existe, FilaLibre
  <2> QED
    BY <1>1, <2>1, TareasQuietas
<1>7. ListoConObjeto' /\ LoteFiel'
  BY <1>1 DEF DocumentosOK, ListoConObjeto, LoteFiel, Existe
<1>8. MiradasListas' /\ VerificadoPorListo' /\ SoloLaRevisionSeAdelanta'
  <2>1. \A r \in Requisitos : DeTipo(r)' = DeTipo(r)
    BY DEF DeTipo
  <2> QED
    BY <1>1, <2>1
       DEF DocumentosOK, MiradasListas, VerificadoPorListo, SoloLaRevisionSeAdelanta
<1>9. FotosFieles'
  <2>1. ASSUME NEW r \in Requisitos, requisito[r] = "VERIFIED", respaldo[r] = d
        PROVE  r \in nueva.filas
    BY <1>2, <1>3, <2>1, VerificadoEsAfectado
  <2> QED
    BY <1>1, <1>4, <2>1 DEF DocumentosOK, FotosFieles
<1> QED
  BY <1>5, <1>6, <1>7, <1>8, <1>9 DEF DocumentosOK

\* The removal takes the verification from those that rested on the document.
LEMMA ReabrirConserva ==
    ASSUME DocumentosOK, NEW d \in Documentos, Reabrir(d)
    PROVE  DocumentosOK'
<1>0. TypeOK
  BY DEF DocumentosOK
<1> DEFINE filas == {r \in foto[d].filas : Afectado(r, d)}
<1>1. /\ foto[d] # SinFoto
      /\ quitado' = [quitado EXCEPT ![d] = TRUE] /\ foto' = [foto EXCEPT ![d] = SinFoto]
      /\ requisito' = [r \in Requisitos |-> IF r \notin filas THEN requisito[r]
                         ELSE IF foto[d].vivos \cap DeTipo(r) # {} THEN "UPLOADED" ELSE "PENDING"]
      /\ respaldo' = [r \in Requisitos |-> IF r \in filas THEN Ninguno ELSE respaldo[r]]
      /\ revisado' = [r \in Requisitos |-> IF r \in filas THEN Ninguno ELSE revisado[r]]
      /\ aMano' = [r \in Requisitos |-> IF r \in filas THEN FALSE ELSE aMano[r]]
      /\ UNCHANGED <<estado, tamano, mirada, objeto, url, fallos>>
      /\ UNCHANGED <<taskVars, archVars>>
  BY DEF Reabrir
<1>2. \A r \in Requisitos : r \in filas <=> r \in foto[d].filas /\ Afectado(r, d)
  OBVIOUS
<1> HIDE DEF filas
<1>3. /\ quitado' \in [Documentos -> BOOLEAN] /\ foto' \in [Documentos -> Fotos]
      /\ \A e \in Documentos : /\ quitado'[e] = IF e = d THEN TRUE ELSE quitado[e]
                               /\ foto'[e] = IF e = d THEN SinFoto ELSE foto[e]
  BY <1>0, <1>1, Tipos, FotoTipada
<1>4. /\ requisito' \in [Requisitos -> EstadosRequisito]
      /\ respaldo' \in [Requisitos -> Documentos \cup {Ninguno}]
      /\ revisado' \in [Requisitos -> Documentos \cup {Ninguno}]
  BY <1>0, <1>1, Tipos DEF EstadosRequisito
<1>5. aMano' \in [Requisitos -> BOOLEAN]
  BY <1>0, <1>1, Tipos
<1>6. ASSUME NEW r \in Requisitos, requisito'[r] = "VERIFIED"
      PROVE  /\ r \notin filas /\ requisito[r] = "VERIFIED"
             /\ respaldo'[r] = respaldo[r] /\ aMano'[r] = aMano[r]
  BY <1>1, <1>6
<1> USE DEF taskVars, archVars
<1>7. TypeOK'
  BY <1>0, <1>1, <1>3, <1>4, <1>5 DEF TypeOK
<1>8. TareasFieles'
  BY <1>1, <1>3 DEF DocumentosOK, TareasFieles, Existe, DeTipo
<1>9. ListoConObjeto' /\ LoteFiel'
  BY <1>1 DEF DocumentosOK, ListoConObjeto, LoteFiel, Existe
<1>10. MiradasListas' /\ VerificadoPorListo'
  <2>1. \A r \in Requisitos : DeTipo(r)' = DeTipo(r)
    BY DEF DeTipo
  <2> QED
    BY <1>1, <1>6, <2>1 DEF DocumentosOK, MiradasListas, VerificadoPorListo
<1>11. FotosFieles'
  BY <1>1, <1>3, <1>6 DEF DocumentosOK, FotosFieles
<1>12. SoloLaRevisionSeAdelanta'
  <2>1. ASSUME NEW r \in Requisitos, requisito'[r] = "VERIFIED", quitado'[respaldo'[r]]
        PROVE  aMano'[r]
    <3>1. respaldo[r] \in Documentos /\ Afectado(r, respaldo[r])
      BY <1>6, <2>1, VerificadoEsAfectado
    <3>2. CASE respaldo[r] = d
      BY <1>1, <1>2, <1>6, <2>1, <3>1, <3>2 DEF DocumentosOK, FotosFieles
    <3>3. CASE respaldo[r] # d
      BY <1>3, <1>6, <2>1, <3>1, <3>3 DEF DocumentosOK, SoloLaRevisionSeAdelanta
    <3> QED
      BY <3>2, <3>3
  <2> QED
    BY <2>1 DEF SoloLaRevisionSeAdelanta
<1> QED
  BY <1>7, <1>8, <1>9, <1>10, <1>11, <1>12 DEF DocumentosOK

\* A step on one requirement keeps the invariant when it verifies it, if it
\* does, by hand and with what was seen.
LEMMA RevisionGenerica ==
    ASSUME DocumentosOK, NEW r \in Requisitos,
           UNCHANGED <<docVars, taskVars, archVars>>, UNCHANGED <<objeto, url, foto, fallos>>,
           requisito' \in [Requisitos -> EstadosRequisito],
           respaldo' \in [Requisitos -> Documentos \cup {Ninguno}],
           revisado' \in [Requisitos -> Documentos \cup {Ninguno}],
           mirada' \in [Requisitos -> Documentos \cup {Ninguno}],
           aMano' \in [Requisitos -> BOOLEAN],
           \A x \in Requisitos \ {r} :
               /\ requisito'[x] = requisito[x] /\ respaldo'[x] = respaldo[x]
               /\ aMano'[x] = aMano[x] /\ mirada'[x] = mirada[x],
           requisito'[r] = "VERIFIED" =>
               \/ respaldo'[r] \in {d \in DeTipo(r) : estado[d] = "READY"} /\ aMano'[r]
               \/ /\ requisito'[r] = requisito[r] /\ respaldo'[r] = respaldo[r]
                  /\ aMano'[r] = aMano[r],
           mirada'[r] # Ninguno => mirada'[r] \in {d \in DeTipo(r) : estado[d] = "READY"}
    PROVE  DocumentosOK'
<1> USE DEF docVars, taskVars, archVars
<1>1. TypeOK'
  BY DEF DocumentosOK, TypeOK
<1>2. TareasFieles'
  BY DEF DocumentosOK, TareasFieles, Existe, DeTipo
<1>3. ListoConObjeto' /\ LoteFiel'
  BY DEF DocumentosOK, ListoConObjeto, LoteFiel, Existe
<1>4. MiradasListas' /\ VerificadoPorListo'
  <2>1. \A x \in Requisitos : DeTipo(x)' = DeTipo(x)
    BY DEF DeTipo
  <2>2. UNCHANGED estado
    OBVIOUS
  <2> QED
    BY <2>1, <2>2 DEF DocumentosOK, MiradasListas, VerificadoPorListo
<1>5. FotosFieles' /\ SoloLaRevisionSeAdelanta'
  BY DEF DocumentosOK, FotosFieles, SoloLaRevisionSeAdelanta
<1> QED
  BY <1>1, <1>2, <1>3, <1>4, <1>5 DEF DocumentosOK

\* A review, and a change of a requirement by hand.
LEMMA RevisarConserva ==
    ASSUME DocumentosOK, NEW r \in Requisitos, DelRevisor(r)
    PROVE  DocumentosOK'
<1>0. /\ requisito \in [Requisitos -> EstadosRequisito] /\ aMano \in [Requisitos -> BOOLEAN]
      /\ respaldo \in [Requisitos -> Documentos \cup {Ninguno}]
      /\ revisado \in [Requisitos -> Documentos \cup {Ninguno}]
      /\ mirada \in [Requisitos -> Documentos \cup {Ninguno}]
      /\ mirada[r] # Ninguno => mirada[r] \in {d \in DeTipo(r) : estado[d] = "READY"}
  BY Tipos DEF DocumentosOK, MiradasListas
<1>1. ASSUME NEW d \in Documentos, VerDocumento(r, d) PROVE DocumentosOK'
  <2>1. /\ UNCHANGED <<docVars, taskVars, archVars>> /\ UNCHANGED <<objeto, url, foto, fallos>>
        /\ UNCHANGED <<requisito, respaldo, revisado, aMano>>
        /\ mirada' = [mirada EXCEPT ![r] = d] /\ d \in DeTipo(r) /\ estado[d] = "READY"
    BY <1>1 DEF VerDocumento, Vivo
  <2> QED
    BY <1>0, <2>1, RevisionGenerica
<1>2. CASE VerificarRequisito(r) \/ RechazarRequisito(r) \/ NoRevisable(r)
  <2>1. /\ UNCHANGED <<docVars, taskVars, archVars>> /\ UNCHANGED <<objeto, url, foto, fallos>>
        /\ mirada' = [mirada EXCEPT ![r] = Ninguno] /\ mirada[r] # Ninguno
    BY <1>2 DEF VerificarRequisito, RechazarRequisito, NoRevisable, FilaParaRevision
  <2>2. mirada' \in [Requisitos -> Documentos \cup {Ninguno}] /\ mirada'[r] = Ninguno
        /\ \A x \in Requisitos \ {r} : mirada'[x] = mirada[x]
    BY <1>0, <2>1
  <2>3. CASE VerificarRequisito(r)
    <3>1. /\ requisito' = [requisito EXCEPT ![r] = "VERIFIED"]
          /\ respaldo' = [respaldo EXCEPT ![r] = mirada[r]]
          /\ revisado' = [revisado EXCEPT ![r] = mirada[r]]
          /\ aMano' = [aMano EXCEPT ![r] = TRUE]
      BY <2>3 DEF VerificarRequisito, Verificar
    <3>2. /\ requisito' \in [Requisitos -> EstadosRequisito]
          /\ respaldo' \in [Requisitos -> Documentos \cup {Ninguno}]
          /\ revisado' \in [Requisitos -> Documentos \cup {Ninguno}]
      BY <1>0, <3>1 DEF EstadosRequisito
    <3>3. aMano' \in [Requisitos -> BOOLEAN] /\ aMano'[r]
      BY <1>0, <3>1
    <3>4. respaldo'[r] = mirada[r] /\ \A x \in Requisitos \ {r} :
            requisito'[x] = requisito[x] /\ respaldo'[x] = respaldo[x] /\ aMano'[x] = aMano[x]
      BY <1>0, <3>1
    <3> QED
      BY <1>0, <2>1, <2>2, <3>2, <3>3, <3>4, RevisionGenerica
  <2>4. CASE RechazarRequisito(r)
    <3>1. /\ requisito' = [requisito EXCEPT ![r] = "REJECTED"]
          /\ respaldo' = [respaldo EXCEPT ![r] = Ninguno]
          /\ revisado' = [revisado EXCEPT ![r] = mirada[r]] /\ aMano' = aMano
      BY <2>4 DEF RechazarRequisito, Rechazar
    <3>2. /\ requisito' \in [Requisitos -> EstadosRequisito]
          /\ respaldo' \in [Requisitos -> Documentos \cup {Ninguno}]
          /\ revisado' \in [Requisitos -> Documentos \cup {Ninguno}]
          /\ requisito'[r] = "REJECTED"
      BY <1>0, <3>1 DEF EstadosRequisito
    <3>3. \A x \in Requisitos \ {r} :
            requisito'[x] = requisito[x] /\ respaldo'[x] = respaldo[x] /\ aMano'[x] = aMano[x]
      BY <1>0, <3>1
    <3> QED
      BY <1>0, <2>1, <2>2, <3>1, <3>2, <3>3, RevisionGenerica
  <2>5. CASE NoRevisable(r)
    <3>1. UNCHANGED <<requisito, respaldo, revisado, aMano>>
      BY <2>5 DEF NoRevisable
    <3> QED
      BY <1>0, <2>1, <2>2, <3>1, RevisionGenerica
  <2> QED
    BY <1>2, <2>3, <2>4, <2>5
<1>3. ASSUME NEW nuevo \in EstadosRequisito, ResolverRequisito(r, nuevo) PROVE DocumentosOK'
  <2>1. /\ UNCHANGED <<docVars, taskVars, archVars>> /\ UNCHANGED <<objeto, url, foto, fallos>>
        /\ UNCHANGED <<respaldo, revisado, aMano, mirada>>
        /\ requisito' = [requisito EXCEPT ![r] = nuevo] /\ nuevo # "VERIFIED"
    BY <1>3 DEF ResolverRequisito
  <2> QED
    BY <1>0, <2>1, RevisionGenerica
<1> QED
  BY <1>1, <1>2, <1>3 DEF DelRevisor

-----------------------------------------------------------------------------
(* Archiving *)

\* A step of the archive keeps the invariant when it keeps its own part of it
\* and no object leaves the store.
LEMMA ArchivoGenerico ==
    ASSUME DocumentosOK, LoteFiel', UNCHANGED <<docVars, reqVars, taskVars>>,
           UNCHANGED <<url, foto>>, objeto' \in [Documentos -> Objetos],
           \A d \in Documentos : objeto[d] # SinObjeto => objeto'[d] # SinObjeto,
           archivada' \in BOOLEAN, comprimido' \in [Documentos -> BOOLEAN],
           lote' \in [corre : BOOLEAN, filas : SUBSET Documentos, hechos : SUBSET Documentos],
           lotesPerdidos' \in Nat, fallos' \in 0 .. MaxFallos
    PROVE  DocumentosOK'
<1> USE DEF docVars, reqVars, taskVars
<1>1. TypeOK'
  BY DEF DocumentosOK, TypeOK
<1>2. TareasFieles'
  BY DEF DocumentosOK, TareasFieles, Existe, DeTipo
<1>3. ListoConObjeto'
  BY DEF DocumentosOK, ListoConObjeto, Existe
<1>4. MiradasListas' /\ VerificadoPorListo' /\ FotosFieles' /\ SoloLaRevisionSeAdelanta'
  BY RequisitosQuietos
<1> QED
  BY <1>1, <1>2, <1>3, <1>4 DEF DocumentosOK

\* The batch counts what it replaced, and is counted when it is lost.
LEMMA ArchivoConserva ==
    ASSUME DocumentosOK, DelArchivo
    PROVE  DocumentosOK'
<1>0. /\ objeto \in [Documentos -> Objetos] /\ archivada \in BOOLEAN
      /\ comprimido \in [Documentos -> BOOLEAN] /\ lotesPerdidos \in Nat
      /\ lote \in [corre : BOOLEAN, filas : SUBSET Documentos, hechos : SUBSET Documentos]
      /\ fallos \in 0 .. MaxFallos
  BY Tipos DEF DocumentosOK
<1>1. /\ ~lote.corre => lote.filas = {} /\ lote.hechos = {}
      /\ lote.hechos \subseteq lote.filas /\ lote.filas \subseteq Documentos
      /\ \A d \in lote.filas : ~comprimido[d]
      /\ \A d \in Documentos : /\ objeto[d].veces \in Nat
                               /\ comprimido[d] \/ d \in lote.hechos \/ objeto[d].veces <= lotesPerdidos
                               /\ objeto[d].veces <= 1 + lotesPerdidos
  <2>1. \A d \in Documentos : objeto[d].veces \in Nat
    BY <1>0, ObjetoTipado
  <2>2. ASSUME NEW d \in Documentos
        PROVE  /\ comprimido[d] \/ d \in lote.hechos \/ objeto[d].veces <= lotesPerdidos
               /\ objeto[d].veces <= 1 + lotesPerdidos
    <3>1. objeto[d].veces <= IF comprimido[d] \/ d \in lote.hechos THEN 1 + lotesPerdidos
                             ELSE lotesPerdidos
      BY DEF DocumentosOK, LoteFiel
    <3>2. CASE comprimido[d] \/ d \in lote.hechos
      BY <3>1, <3>2
    <3>3. CASE ~(comprimido[d] \/ d \in lote.hechos)
      BY <1>0, <2>1, <3>1, <3>3
    <3> QED
      BY <3>2, <3>3
  <2>3. /\ ~lote.corre => lote.filas = {}
        /\ lote.hechos \subseteq lote.filas
        /\ \A d \in lote.filas : ~comprimido[d]
    BY DEF DocumentosOK, LoteFiel
  <2> QED
    BY <1>0, <2>1, <2>2, <2>3
<1>2. CASE Archivar
  <2>1. /\ UNCHANGED <<docVars, reqVars, taskVars>> /\ UNCHANGED <<url, foto, objeto, fallos>>
        /\ UNCHANGED <<comprimido, lote, lotesPerdidos>> /\ archivada' = TRUE
    BY <1>2 DEF Archivar
  <2>2. LoteFiel'
    BY <2>1 DEF DocumentosOK, LoteFiel
  <2>3. archivada' \in BOOLEAN
    BY <2>1, Zenon
  <2> QED
    BY <1>0, <2>1, <2>2, <2>3, ArchivoGenerico
<1>3. CASE DocumentosPendientes
  <2> DEFINE filas == {d \in Documentos \ DeDespacho : Vivo(d) /\ ~comprimido[d]}
  <2>1. /\ UNCHANGED <<docVars, reqVars, taskVars>> /\ UNCHANGED <<url, foto, objeto, fallos>>
        /\ UNCHANGED <<comprimido, archivada, lotesPerdidos>> /\ ~lote.corre
        /\ lote' = [corre |-> TRUE, filas |-> filas, hechos |-> {}]
    BY <1>3 DEF DocumentosPendientes
  <2>2. filas \subseteq Documentos /\ \A d \in filas : ~comprimido[d]
    OBVIOUS
  <2> HIDE DEF filas
  <2>3. /\ lote' \in [corre : BOOLEAN, filas : SUBSET Documentos, hechos : SUBSET Documentos]
        /\ lote'.corre /\ lote'.filas = filas /\ lote'.hechos = {}
    BY <2>1, <2>2
  <2>4. LoteFiel'
    BY <1>0, <1>1, <2>1, <2>2, <2>3 DEF LoteFiel
  <2> QED
    BY <1>0, <2>1, <2>3, <2>4, ArchivoGenerico
<1>4. CASE RecomprimirPendientes
  <2>1. /\ UNCHANGED <<docVars, reqVars, taskVars>> /\ UNCHANGED <<url, foto, objeto, fallos>>
        /\ UNCHANGED <<archivada, lotesPerdidos>>
        /\ comprimido' = [d \in Documentos |-> comprimido[d] \/ d \in lote.hechos]
        /\ lote' = SinLote
    BY <1>4 DEF RecomprimirPendientes
  <2>2. /\ lote' \in [corre : BOOLEAN, filas : SUBSET Documentos, hechos : SUBSET Documentos]
        /\ lote'.filas = {} /\ lote'.hechos = {}
    BY <2>1 DEF SinLote
  <2>3. /\ comprimido' \in [Documentos -> BOOLEAN]
        /\ \A d \in Documentos : comprimido'[d] <=> comprimido[d] \/ d \in lote.hechos
    BY <1>0, <2>1
  <2>4. LoteFiel'
    BY <1>0, <1>1, <2>1, <2>2, <2>3 DEF LoteFiel
  <2> QED
    BY <1>0, <2>1, <2>2, <2>3, <2>4, ArchivoGenerico
<1>5. CASE PerderLote
  <2>1. /\ UNCHANGED <<docVars, reqVars, taskVars>> /\ UNCHANGED <<url, foto, objeto>>
        /\ UNCHANGED <<archivada, comprimido>>
        /\ lotesPerdidos' = lotesPerdidos + 1 /\ lote' = SinLote
        /\ fallos < MaxFallos /\ fallos' = fallos + 1
    BY <1>5 DEF PerderLote, Falla
  <2>2. /\ lote' \in [corre : BOOLEAN, filas : SUBSET Documentos, hechos : SUBSET Documentos]
        /\ lote'.filas = {} /\ lote'.hechos = {}
    BY <2>1 DEF SinLote
  <2>3. lotesPerdidos' \in Nat /\ fallos' \in 0 .. MaxFallos
    BY <1>0, <2>1, Parametros
  <2>4. LoteFiel'
    BY <1>0, <1>1, <2>1, <2>2, <2>3 DEF LoteFiel
  <2> QED
    BY <1>0, <2>1, <2>2, <2>3, <2>4, ArchivoGenerico
<1>6. ASSUME NEW d \in Documentos, Recomprimir(d) PROVE DocumentosOK'
  <2> DEFINE nuevo == [objeto[d] EXCEPT !.veces = IF d \in SinMejora THEN @ ELSE @ + 1]
  <2>1. /\ UNCHANGED <<docVars, reqVars, taskVars>> /\ UNCHANGED <<url, foto, fallos>>
        /\ UNCHANGED <<archivada, comprimido, lotesPerdidos>>
        /\ d \in lote.filas \ lote.hechos /\ objeto[d] # SinObjeto
        /\ objeto' = [objeto EXCEPT ![d] = nuevo]
        /\ lote' = [lote EXCEPT !.hechos = @ \cup {d}]
    BY <1>0, <1>6 DEF Recomprimir
  <2>2. /\ nuevo \in Objetos /\ nuevo # SinObjeto
        /\ nuevo.veces \in {objeto[d].veces, objeto[d].veces + 1}
    <3>1. objeto[d] \in [dato : Contenidos, veces : Nat]
      BY <1>0, <2>1 DEF Objetos
    <3>2. nuevo \in [dato : Contenidos, veces : Nat] /\ nuevo.dato \in Contenidos
          /\ nuevo.veces \in {objeto[d].veces, objeto[d].veces + 1}
      BY <3>1
    <3> QED
      BY <3>2, ObjetoTipado, Parametros DEF Objetos
  <2> HIDE DEF nuevo
  <2>3. /\ objeto' \in [Documentos -> Objetos]
        /\ \A e \in Documentos : objeto'[e] = IF e = d THEN nuevo ELSE objeto[e]
    BY <1>0, <2>1, <2>2
  <2>4. /\ lote' \in [corre : BOOLEAN, filas : SUBSET Documentos, hechos : SUBSET Documentos]
        /\ lote'.corre = lote.corre /\ lote'.filas = lote.filas
        /\ lote'.hechos = lote.hechos \cup {d}
    BY <1>0, <2>1
  <2>5. LoteFiel'
    <3>1. \A e \in Documentos : objeto'[e].veces <= IF comprimido[e] \/ e \in lote'.hechos
                                                    THEN 1 + lotesPerdidos ELSE lotesPerdidos
      BY <1>0, <1>1, <2>1, <2>2, <2>3, <2>4
    <3> QED
      BY <1>1, <2>1, <2>4, <3>1 DEF LoteFiel
  <2>6. \A e \in Documentos : objeto[e] # SinObjeto => objeto'[e] # SinObjeto
    BY <2>2, <2>3
  <2> QED
    BY <1>0, <2>1, <2>3, <2>4, <2>5, <2>6, ArchivoGenerico
<1> QED
  BY <1>2, <1>3, <1>4, <1>5, <1>6 DEF DelArchivo

-----------------------------------------------------------------------------
\* Every step keeps the invariant.
LEMMA DocumentosPaso == DocumentosOK /\ [Next]_vars => DocumentosOK'
<1> SUFFICES ASSUME DocumentosOK, [Next]_vars PROVE DocumentosOK'
  OBVIOUS
<1>1. ASSUME NEW d \in Documentos, DelCliente(d) PROVE DocumentosOK'
  <2>1. CASE PrepararSubida(d) \/ PrepararSubidaDeDespacho(d) \/ VencerUrl(d)
             \/ \E x \in Contenidos : Subir(d, x)
    BY <2>1, ReservaConserva DEF PrepararSubida, PrepararSubidaDeDespacho
  <2>2. CASE CompletarSubida(d) \/ CompletarDocumentoDeDespacho(d)
    BY <2>2, CompletarConserva DEF CompletarSubida, CompletarDocumentoDeDespacho
  <2>3. CASE Encolar(d) \/ NoEncolado(d) \/ CaerAlEncolar(d)
    BY <2>3, EncolarConserva
  <2>4. CASE InvalidarDocumento(d)
    BY <2>4, QuitarConserva, ReabrirConserva DEF InvalidarDocumento
  <2> QED
    BY <1>1, <2>1, <2>2, <2>3, <2>4 DEF DelCliente
<1>2. ASSUME NEW w \in Trabajadores, Procesar(w) \/ RepetirTarea(w) \/ PerderTarea(w)
      PROVE  DocumentosOK'
  BY <1>2, TomarConserva, TareaSigueOTermina, ConfirmarConserva DEF Procesar
<1>3. ASSUME NEW r \in Requisitos, DelRevisor(r) PROVE DocumentosOK'
  BY <1>3, RevisarConserva
<1>4. CASE DelArchivo
  BY <1>4, ArchivoConserva
<1>5. CASE UNCHANGED vars
  <2>1. /\ UNCHANGED <<docVars, reqVars, taskVars>> /\ UNCHANGED <<url, foto>>
        /\ UNCHANGED <<archivada, comprimido, lote, lotesPerdidos, objeto, fallos>>
    BY <1>5 DEF vars, archVars
  <2>2. LoteFiel'
    BY <2>1 DEF DocumentosOK, LoteFiel
  <2>3. /\ objeto \in [Documentos -> Objetos] /\ archivada \in BOOLEAN
        /\ comprimido \in [Documentos -> BOOLEAN] /\ lotesPerdidos \in Nat
        /\ lote \in [corre : BOOLEAN, filas : SUBSET Documentos, hechos : SUBSET Documentos]
        /\ fallos \in 0 .. MaxFallos
    BY Tipos DEF DocumentosOK
  <2> QED
    BY <2>1, <2>2, <2>3, ArchivoGenerico
<1> QED
  BY <1>1, <1>2, <1>3, <1>4, <1>5 DEF Next

\* The invariant holds of every state.
LEMMA DocumentosSiempre == Spec => []DocumentosOK
  BY DocumentosInicial, DocumentosPaso, PTL DEF Spec

\* The state has the types of the columns and of the objects in the store.
THEOREM TipoCorrecto == Spec => []TypeOK
<1>1. DocumentosOK => TypeOK
  BY DEF DocumentosOK
<1> QED
  BY <1>1, DocumentosSiempre, PTL

\* A requirement counts as verified only on the strength of a document of its
\* type whose processing ended.
THEOREM VerificadoPorListoSiempre == Spec => []VerificadoPorListo
<1>1. DocumentosOK => VerificadoPorListo
  BY DEF DocumentosOK
<1> QED
  BY <1>1, DocumentosSiempre, PTL

\* Only a review can leave a requirement verified on a document that was
\* removed; the task and the removal never do between them.
THEOREM SoloLaRevisionSeAdelantaSiempre == Spec => []SoloLaRevisionSeAdelanta
<1>1. DocumentosOK => SoloLaRevisionSeAdelanta
  BY DEF DocumentosOK
<1> QED
  BY <1>1, DocumentosSiempre, PTL

\* A document that is ready has its object in the store.
THEOREM ListoConObjetoSiempre == Spec => []ListoConObjeto
<1>1. DocumentosOK => ListoConObjeto
  BY DEF DocumentosOK
<1> QED
  BY <1>1, DocumentosSiempre, PTL

\* An object is recompressed once, and once more for each batch that was lost.
THEOREM RecompresionPorPerdidaSiempre == Spec => []RecompresionPorPerdida
<1>1. DocumentosOK => RecompresionPorPerdida
  <2> SUFFICES ASSUME DocumentosOK, NEW d \in Documentos
               PROVE  objeto[d].veces <= 1 + lotesPerdidos
    BY DEF RecompresionPorPerdida
  <2>1. objeto[d].veces \in Nat /\ lotesPerdidos \in Nat
    BY Tipos, ObjetoTipado DEF DocumentosOK
  <2>2. objeto[d].veces <= IF comprimido[d] \/ d \in lote.hechos THEN 1 + lotesPerdidos
                           ELSE lotesPerdidos
    BY DEF DocumentosOK, LoteFiel
  <2>3. CASE comprimido[d] \/ d \in lote.hechos
    BY <2>2, <2>3
  <2>4. CASE ~(comprimido[d] \/ d \in lote.hechos)
    BY <2>1, <2>2, <2>4
  <2> QED
    BY <2>3, <2>4
<1> QED
  BY <1>1, DocumentosSiempre, PTL
===============================================================================
