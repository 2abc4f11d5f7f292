--------------------------- MODULE DespachosProofs ---------------------------
(***************************************************************************)
(* What holds of Despachos for any number of shipments, requests and       *)
(* companies, and for any bound on the moves made by hand.  The steps of   *)
(* Next are first sorted by what they do to the claims (lemma              *)
(* PasoDeReclamos); the invariants and the refinement then have three      *)
(* cases to look at instead of one per action.                             *)
(***************************************************************************)
EXTENDS Despachos, TLAPS

-----------------------------------------------------------------------------
\* The catalogue and the request's table only name states.
LEMMA TransicionesSonDeEstados == Transiciones \subseteq Estados \X Estados
  BY DEF Transiciones, Avances, Retrocesos, Cancelaciones, Reaperturas,
         Pares, Flujo, FlujoMaritimo, Estados

\* No row of the catalogue stays where it is.
LEMMA TransicionesDistintas == \A t \in Transiciones : t[1] # t[2]
  BY DEF Transiciones, Avances, Retrocesos, Cancelaciones, Reaperturas,
         Pares, Flujo, FlujoMaritimo

\* The rows a request's shipments walk back along.
LEMMA PasosDeVuelta ==
    {<<"PREPARING", "DISPATCH_REQUESTED">>, <<"DISPATCH_REQUESTED", "STORED">>} \subseteq Transiciones
<1>1. <<"STORED", "DISPATCH_REQUESTED">> = <<Flujo[4], Flujo[5]>>
      /\ <<"DISPATCH_REQUESTED", "PREPARING">> = <<Flujo[5], Flujo[6]>>
  BY DEF Flujo
<1>2. Len(Flujo) = 8
  BY DEF Flujo
<1>3. {<<"STORED", "DISPATCH_REQUESTED">>, <<"DISPATCH_REQUESTED", "PREPARING">>} \subseteq Avances
  BY <1>1, <1>2 DEF Avances, Pares
<1> QED
  BY <1>3 DEF Transiciones, Retrocesos

\* The rows a request's shipments follow on their way out.
LEMMA PasosDeIda ==
    {<<"DISPATCH_REQUESTED", "PREPARING">>, <<"PREPARING", "DISPATCHED">>} \subseteq Transiciones
<1>1. <<"DISPATCH_REQUESTED", "PREPARING">> = <<Flujo[5], Flujo[6]>>
      /\ <<"PREPARING", "DISPATCHED">> = <<Flujo[6], Flujo[7]>>
  BY DEF Flujo
<1>2. Len(Flujo) = 8
  BY DEF Flujo
<1>3. {<<"DISPATCH_REQUESTED", "PREPARING">>, <<"PREPARING", "DISPATCHED">>} \subseteq Avances
  BY <1>1, <1>2 DEF Avances, Pares
<1> QED
  BY <1>3 DEF Transiciones

\* A shipment is registered in a status of the catalogue.
LEMMA InicialesSonEstados == Iniciales \subseteq Estados
  BY Parametros DEF EstadosIniciales, SecuenciaInicial, SecuenciaMaritima, Estados

\* A row of the request's table leaves an active status, for a known one.
LEMMA DestinosDeDespacho ==
    ASSUME NEW s, NEW h, <<s, h>> \in TransicionesDespacho
    PROVE  s \in Activos /\ h \in EstadosDespacho
  BY DEF TransicionesDespacho, Activos, EstadosDespacho, EstadosFinales

-----------------------------------------------------------------------------
\* The types hold before anything happens.
LEMMA TipoInicial == Init => TypeOK
  BY InicialesSonEstados, Parametros
     DEF Init, TypeOK, ExigenRequisitos, EstadosDespacho

\* The effect of moving shipments, for the actions that do it.
LEMMA TipoDeMover ==
    ASSUME TypeOK, NEW S \in SUBSET Cargas, NEW hacia \in Estados, Mover(S, hacia)
    PROVE  /\ estado' \in [Cargas -> Estados]
           /\ pedidoDesde' \in [Cargas -> Estados \cup {"NINGUNO"}]
  BY DEF TypeOK, Mover

\* The effect of giving shipments back, for rejecting and cancelling.
LEMMA TipoDeDevolver ==
    ASSUME TypeOK, NEW S \in SUBSET Cargas, Devolver(S)
    PROVE  /\ estado' \in [Cargas -> Estados]
           /\ pedidoDesde' \in [Cargas -> Estados \cup {"NINGUNO"}]
  BY DEF TypeOK, Devolver, Disponible, Estados

\* The effect of applying a change of status to a request.
LEMMA TipoDeCambiarEstado ==
    ASSUME TypeOK, NEW d \in Solicitudes, NEW hacia \in EstadosDespacho,
           CambiarEstado(d, hacia)
    PROVE  /\ solicitud' \in [Solicitudes -> EstadosDespacho \cup {"SIN_CREAR"}]
           /\ verificada' \in [Solicitudes -> ExigenRequisitos \cup {"NINGUNO"}]
           /\ UNCHANGED <<clienteDe, archivada, requisito, empresa>>
  BY DEF TypeOK, CambiarEstado

\* Every step of a request, of a shipment or of a bulk move keeps the types.
LEMMA TipoDePaso == TypeOK /\ [Next]_vars => TypeOK'
<1> SUFFICES ASSUME TypeOK, [Next]_vars
             PROVE  TypeOK'
  OBVIOUS
<1> USE DEF cargaVars, solicitudVars
<1>1. ASSUME NEW d \in Solicitudes, AccionDeSolicitud(d)
      PROVE  TypeOK'
  <2>1. ASSUME NEW hacia \in ExigenRequisitos, Verificar(d, hacia)
        PROVE  TypeOK'
    BY <2>1 DEF Verificar, TypeOK
  <2>2. CASE Revertir(d)
    BY <2>2 DEF Revertir, TypeOK
  <2>3. CASE Aprobar(d)
    <3>1. CambiarEstado(d, "APPROVED") /\ UNCHANGED <<reclamos, estado, pedidoDesde>>
      BY <2>3 DEF Aprobar
    <3>2. "APPROVED" \in EstadosDespacho
      BY DEF EstadosDespacho
    <3> QED
      BY <3>1, <3>2, TipoDeCambiarEstado DEF TypeOK
  <2>4. CASE Completar(d)
    <3>1. /\ CambiarEstado(d, "COMPLETED")
          /\ LiberarCargas(d)
          /\ UNCHANGED <<estado, pedidoDesde>>
      BY <2>4 DEF Completar
    <3>2. "COMPLETED" \in EstadosDespacho
      BY DEF EstadosDespacho
    <3> QED
      BY <3>1, <3>2, TipoDeCambiarEstado DEF TypeOK, LiberarCargas
  <2>5. ASSUME NEW libre \in BOOLEAN, NEW hacia \in {"PREPARING", "DISPATCHED"},
               Avanzar(d, hacia, libre)
        PROVE  TypeOK'
    <3>1. /\ CambiarEstado(d, hacia)
          /\ Mover(CargasActivas(d), hacia)
          /\ UNCHANGED reclamos
      BY <2>5 DEF Avanzar
    <3>2. hacia \in EstadosDespacho /\ hacia \in Estados
      BY DEF EstadosDespacho, Estados
    <3>3. CargasActivas(d) \in SUBSET Cargas
      BY DEF CargasActivas
    <3> QED
      BY <3>1, <3>2, <3>3, TipoDeCambiarEstado, TipoDeMover DEF TypeOK
  <2>6. ASSUME NEW libre \in BOOLEAN, NEW hacia \in {"REJECTED", "CANCELLED"},
               Deshacer(d, hacia, libre)
        PROVE  TypeOK'
    <3>1. /\ CambiarEstado(d, hacia)
          /\ LiberarCargas(d)
          /\ Devolver(CargasActivas(d))
      BY <2>6 DEF Deshacer
    <3>2. hacia \in EstadosDespacho
      BY DEF EstadosDespacho
    <3>3. CargasActivas(d) \in SUBSET Cargas
      BY DEF CargasActivas
    <3> QED
      BY <3>1, <3>2, <3>3, TipoDeCambiarEstado, TipoDeDevolver DEF TypeOK, LiberarCargas
  <2>7. ASSUME NEW libre \in BOOLEAN, NEW S \in SUBSET Cargas, NEW e \in Empresas,
               Crear(d, S, e, libre)
        PROVE  TypeOK'
    <3>1. "PENDING" \in EstadosDespacho /\ "DISPATCH_REQUESTED" \in Estados
      BY DEF EstadosDespacho, Estados
    <3>2. Mover(S, "DISPATCH_REQUESTED")
      BY <2>7 DEF Crear
    <3>3. reclamos' \subseteq Solicitudes \X Cargas
      BY <2>7 DEF Crear, TypeOK
    <3> QED
      BY <2>7, <3>1, <3>2, <3>3, TipoDeMover DEF Crear, TypeOK
  <2> QED
    BY <1>1, <2>1, <2>2, <2>3, <2>4, <2>5, <2>6, <2>7
       DEF AccionDeSolicitud, CrearSolicitud, Preparar, Despachar, Rechazar, Cancelar
<1>2. ASSUME NEW S \in SUBSET Cargas, NEW hacia \in Estados, NEW libre \in BOOLEAN,
             TransicionarMasivamente(S, hacia, libre)
      PROVE  TypeOK'
  <2>1. /\ Mover(S, hacia)
        /\ UNCHANGED <<archivada, requisito, empresa, solicitudVars>>
    BY <1>2 DEF TransicionarMasivamente
  <2> QED
    BY <2>1, TipoDeMover DEF TypeOK
<1>3. ASSUME NEW c \in Cargas, AccionDeCarga(c)
      PROVE  TypeOK'
  <2>1. ASSUME NEW hacia \in Estados, NEW libre \in BOOLEAN, Transicionar(c, hacia, libre)
        PROVE  TypeOK'
    BY <2>1, <1>2 DEF Transicionar
  <2>2. ASSUME NEW e \in Empresas, CambiarEmpresa(c, e)
        PROVE  TypeOK'
    BY <2>2 DEF CambiarEmpresa, TypeOK
  <2>3. CASE Archivar(c)
    BY <2>3 DEF Archivar, TypeOK
  <2>4. CASE AbrirRequisito(c) \/ ResolverRequisito(c)
    BY <2>4 DEF AbrirRequisito, ResolverRequisito, TypeOK
  <2> QED
    BY <1>3, <2>1, <2>2, <2>3, <2>4 DEF AccionDeCarga
<1>4. CASE UNCHANGED vars
  BY <1>4 DEF vars, TypeOK
<1> QED
  BY <1>1, <1>2, <1>3, <1>4 DEF Next

\* Despachos keeps its types for every value of its constants.
THEOREM TipoCorrecto == Spec => []TypeOK
  BY TipoInicial, TipoDePaso, PTL DEF Spec

-----------------------------------------------------------------------------
\* The three things a step can do to the claims.
Reposo ==
    /\ UNCHANGED <<reclamos, clienteDe>>
    /\ \A d \in Solicitudes :
         \/ solicitud'[d] = solicitud[d]
         \/ solicitud[d] \in Activos /\ solicitud'[d] \in Activos
    /\ \A c \in Cargas : Reclamada(c) => empresa'[c] = empresa[c]

Apertura(d, S, e) ==
    /\ solicitud[d] = "SIN_CREAR"
    /\ S # {}
    /\ \A c \in S : empresa[c] = e /\ ~Reclamada(c)
    /\ solicitud' = [solicitud EXCEPT ![d] = "PENDING"]
    /\ clienteDe' = [clienteDe EXCEPT ![d] = e]
    /\ reclamos' = reclamos \cup ({d} \X S)
    /\ UNCHANGED empresa

Cierre(d, h) ==
    /\ solicitud[d] \in Activos
    /\ solicitud' = [solicitud EXCEPT ![d] = h]
    /\ reclamos' = {r \in reclamos : r[1] # d}
    /\ UNCHANGED <<clienteDe, empresa>>

\* Every step leaves the claims alone, opens a request over shipments nobody
\* claims, or closes an active one releasing all of its shipments.
LEMMA PasoDeReclamos ==
    ASSUME TypeOK, [Next]_vars
    PROVE  \/ Reposo
           \/ \E d \in Solicitudes, S \in SUBSET Cargas, e \in Empresas : Apertura(d, S, e)
           \/ \E d \in Solicitudes, h \in EstadosFinales : Cierre(d, h)
<1> DEFINE Meta == \/ Reposo
                   \/ \E d \in Solicitudes, S \in SUBSET Cargas, e \in Empresas :
                        Apertura(d, S, e)
                   \/ \E d \in Solicitudes, h \in EstadosFinales : Cierre(d, h)
<1> USE DEF cargaVars, solicitudVars
<1>1. ASSUME NEW d \in Solicitudes, AccionDeSolicitud(d)
      PROVE  Meta
  <2>1. ASSUME NEW hacia \in ExigenRequisitos, Verificar(d, hacia)
        PROVE  Reposo
    BY <2>1 DEF Verificar, Reposo
  <2>2. CASE Revertir(d)
    BY <2>2 DEF Revertir, Reposo
  <2>3. ASSUME NEW h \in {"APPROVED", "PREPARING", "DISPATCHED"},
               Autorizada(d, h), CambiarEstado(d, h), UNCHANGED reclamos
        PROVE  Reposo
    <3>1. solicitud[d] \in Activos /\ h \in Activos
      BY <2>3, DestinosDeDespacho DEF Autorizada, Activos, EstadosDespacho, EstadosFinales
    <3> QED
      BY <2>3, <3>1 DEF CambiarEstado, Reposo, TypeOK
  <2>4. ASSUME NEW h \in EstadosFinales,
               Autorizada(d, h), CambiarEstado(d, h), LiberarCargas(d)
        PROVE  Cierre(d, h)
    BY <2>4, DestinosDeDespacho DEF Autorizada, CambiarEstado, LiberarCargas, Cierre
  <2>5. CASE Aprobar(d)
    BY <2>5, <2>3 DEF Aprobar
  <2>6. CASE Completar(d)
    BY <2>6, <2>4 DEF Completar, EstadosFinales
  <2>7. ASSUME NEW libre \in BOOLEAN, Preparar(d, libre) \/ Despachar(d, libre)
        PROVE  Reposo
    BY <2>7, <2>3 DEF Preparar, Despachar, Avanzar
  <2>8. ASSUME NEW libre \in BOOLEAN, NEW h \in {"REJECTED", "CANCELLED"},
               Deshacer(d, h, libre)
        PROVE  Cierre(d, h)
    BY <2>8, <2>4 DEF Deshacer, EstadosFinales
  <2>9. ASSUME NEW libre \in BOOLEAN, NEW S \in SUBSET Cargas, NEW e \in Empresas,
               Crear(d, S, e, libre)
        PROVE  Apertura(d, S, e)
    BY <2>9 DEF Crear, Apertura, CargaElegible, IndiceDeReclamo
  <2> QED
    BY <1>1, <2>1, <2>2, <2>5, <2>6, <2>7, <2>8, <2>9
       DEF AccionDeSolicitud, CrearSolicitud, Rechazar, Cancelar, EstadosFinales
<1>2. ASSUME NEW S \in SUBSET Cargas, NEW hacia \in Estados, NEW libre \in BOOLEAN,
             TransicionarMasivamente(S, hacia, libre)
      PROVE  Reposo
  BY <1>2 DEF TransicionarMasivamente, Reposo
<1>3. ASSUME NEW c \in Cargas, AccionDeCarga(c)
      PROVE  Reposo
  <2>1. ASSUME NEW hacia \in Estados, NEW libre \in BOOLEAN, Transicionar(c, hacia, libre)
        PROVE  Reposo
    BY <2>1, <1>2 DEF Transicionar
  <2>2. ASSUME NEW e \in Empresas, CambiarEmpresa(c, e)
        PROVE  Reposo
    BY <2>2 DEF CambiarEmpresa, Reposo, TypeOK
  <2>3. CASE Archivar(c)
    BY <2>3 DEF Archivar, Reposo
  <2>4. CASE AbrirRequisito(c) \/ ResolverRequisito(c)
    BY <2>4 DEF AbrirRequisito, ResolverRequisito, Reposo
  <2> QED
    BY <1>3, <2>1, <2>2, <2>3, <2>4 DEF AccionDeCarga
<1>4. CASE UNCHANGED vars
  BY <1>4 DEF vars, Reposo
<1> QED
  BY <1>1, <1>2, <1>3, <1>4 DEF Next

-----------------------------------------------------------------------------
\* The claims' inductive invariant.  MismaEmpresa is not inductive alone: a
\* request nobody has created must be known to claim nothing, so that naming
\* its company disturbs no claim; ReclamoVigente says so.
ReclamosOK == TypeOK /\ ReclamoUnico /\ ReclamoVigente /\ MismaEmpresa

\* Nothing is claimed before the first request.
LEMMA ReclamosInicial == Init => ReclamosOK
<1> SUFFICES ASSUME Init PROVE ReclamosOK
  OBVIOUS
<1>1. reclamos = {}
  BY DEF Init
<1>2. \A d \in Solicitudes : solicitud[d] \notin Activos
  BY DEF Init, Activos, EstadosDespacho
<1> QED
  BY <1>1, <1>2, TipoInicial
     DEF ReclamosOK, ReclamoUnico, ReclamoVigente, MismaEmpresa, CargasActivas

\* The claims' invariant is inductive.
LEMMA ReclamosPaso == ReclamosOK /\ [Next]_vars => ReclamosOK'
<1> SUFFICES ASSUME ReclamosOK, [Next]_vars
             PROVE  ReclamoUnico' /\ ReclamoVigente' /\ MismaEmpresa'
  BY TipoDePaso DEF ReclamosOK
<1>0. TypeOK /\ ReclamoUnico /\ ReclamoVigente /\ MismaEmpresa
  BY DEF ReclamosOK
<1>1. CASE Reposo
  <2>1. \A d \in Solicitudes : CargasActivas(d)' = CargasActivas(d)
    BY <1>1 DEF Reposo, CargasActivas
  <2>2. ReclamoUnico'
    BY <1>0, <1>1 DEF Reposo, ReclamoUnico
  <2>3. ReclamoVigente'
    BY <1>0, <1>1, <2>1 DEF Reposo, ReclamoVigente
  <2>4. MismaEmpresa'
    BY <1>0, <1>1, <2>1 DEF Reposo, MismaEmpresa, CargasActivas, Reclamada
  <2> QED
    BY <2>2, <2>3, <2>4
<1>2. ASSUME NEW d \in Solicitudes, NEW S \in SUBSET Cargas, NEW e \in Empresas,
             Apertura(d, S, e)
      PROVE  ReclamoUnico' /\ ReclamoVigente' /\ MismaEmpresa'
  <2>1. CargasActivas(d) = {}
    BY <1>0, <1>2 DEF Apertura, ReclamoVigente, Activos, EstadosDespacho
  <2>2. CargasActivas(d)' = S
    BY <1>2, <2>1 DEF Apertura, CargasActivas
  <2>3. \A x \in Solicitudes \ {d} : CargasActivas(x)' = CargasActivas(x)
    BY <1>2 DEF Apertura, CargasActivas
  <2>4. ReclamoUnico'
    BY <1>0, <1>2, <2>1 DEF Apertura, ReclamoUnico, Reclamada, CargasActivas
  <2>5. ReclamoVigente'
    BY <1>0, <1>2, <2>2, <2>3
       DEF Apertura, ReclamoVigente, TypeOK, Activos, EstadosDespacho, EstadosFinales
  <2>6. MismaEmpresa'
    BY <1>0, <1>2, <2>2, <2>3 DEF Apertura, MismaEmpresa, TypeOK
  <2> QED
    BY <2>4, <2>5, <2>6
<1>3. ASSUME NEW d \in Solicitudes, NEW h \in EstadosFinales, Cierre(d, h)
      PROVE  ReclamoUnico' /\ ReclamoVigente' /\ MismaEmpresa'
  <2>1. CargasActivas(d)' = {}
    BY <1>3 DEF Cierre, CargasActivas
  <2>2. \A x \in Solicitudes \ {d} : CargasActivas(x)' = CargasActivas(x)
    BY <1>0, <1>3 DEF Cierre, CargasActivas, TypeOK
  <2>3. ReclamoUnico'
    BY <1>0, <1>3 DEF Cierre, ReclamoUnico
  <2>4. ReclamoVigente'
    BY <1>0, <1>3, <2>1, <2>2 DEF Cierre, ReclamoVigente, TypeOK, Activos
  <2>5. MismaEmpresa'
    BY <1>0, <1>3, <2>1, <2>2 DEF Cierre, MismaEmpresa
  <2> QED
    BY <2>3, <2>4, <2>5
<1> QED
  BY <1>0, <1>1, <1>2, <1>3, PasoDeReclamos

\* The claims' invariant holds of every behaviour.
LEMMA ReclamosSiempre == Spec => []ReclamosOK
  BY ReclamosInicial, ReclamosPaso, PTL DEF Spec

\* No shipment is claimed by two requests, for any number of either.
THEOREM ReclamoUnicoSiempre == Spec => []ReclamoUnico
  BY ReclamosSiempre, PTL DEF ReclamosOK

\* A request holds shipments exactly while it is active.
THEOREM ReclamoVigenteSiempre == Spec => []ReclamoVigente
  BY ReclamosSiempre, PTL DEF ReclamosOK

\* No company ever sees another's shipment inside its dispatch.
THEOREM MismaEmpresaSiempre == Spec => []MismaEmpresa
  BY ReclamosSiempre, PTL DEF ReclamosOK

-----------------------------------------------------------------------------
\* Refinement.  ReclamoUnico is what makes the holder of a shipment a function
\* of the claims, before and after the step.
LEMMA TitularDeReclamo ==
    ASSUME ReclamoUnico, NEW d \in Solicitudes, NEW c \in Cargas, <<d, c>> \in reclamos
    PROVE  Titular(c) = d
  BY DEF ReclamoUnico, Titular, Reclamada

\* The same of the state after the step.
LEMMA TitularDeReclamoDespues ==
    ASSUME ReclamoUnico', NEW d \in Solicitudes, NEW c \in Cargas, <<d, c>> \in reclamos'
    PROVE  Titular(c)' = d
  BY DEF ReclamoUnico, Titular, Reclamada

\* The initial states map to Apartado's.
LEMMA ApartadoInicial == Init => A!Init
<1> SUFFICES ASSUME Init PROVE A!Init
  OBVIOUS
<1>1. \A c \in Cargas : Titular(c) = Nadie
  BY DEF Init, Titular, Reclamada
<1>2. \A d \in Solicitudes : Fase(d) = "nueva"
  BY DEF Init, Fase
<1> QED
  BY <1>1, <1>2 DEF A!Init

\* Every step maps to taking a set, giving one back, or a stutter.
LEMMA ApartadoPaso == ReclamosOK /\ ReclamosOK' /\ [Next]_vars => [A!Next]_A!vars
<1> SUFFICES ASSUME ReclamosOK, ReclamosOK', [Next]_vars
             PROVE  [A!Next]_A!vars
  OBVIOUS
<1>0. TypeOK /\ ReclamoUnico /\ ReclamoUnico'
  BY DEF ReclamosOK
<1>1. CASE Reposo
  <2>1. \A c \in Cargas : Titular(c)' = Titular(c)
    BY <1>1 DEF Reposo, Titular, Reclamada
  <2>2. \A d \in Solicitudes : Fase(d)' = Fase(d)
    BY <1>1 DEF Reposo, Fase, Activos, EstadosDespacho, EstadosFinales
  <2> QED
    BY <2>1, <2>2 DEF A!vars
<1>2. ASSUME NEW d \in Solicitudes, NEW S \in SUBSET Cargas, NEW e \in Empresas,
             Apertura(d, S, e)
      PROVE  A!Tomar(d, S)
  <2>1. Fase(d) = "nueva" /\ \A c \in S : Titular(c) = Nadie
    BY <1>2 DEF Apertura, Fase, Titular
  <2>2. \A c \in S : Titular(c)' = d
    BY <1>0, <1>2, TitularDeReclamoDespues DEF Apertura
  <2>3. \A c \in Cargas \ S : Titular(c)' = Titular(c)
    <3>1. \A c \in Cargas \ S, x \in Solicitudes :
            <<x, c>> \in reclamos' <=> <<x, c>> \in reclamos
      BY <1>2 DEF Apertura
    <3> QED
      BY <3>1 DEF Titular, Reclamada
  <2>4. \A x \in Solicitudes : Fase(x)' = IF x = d THEN "activa" ELSE Fase(x)
    BY <1>0, <1>2 DEF Apertura, Fase, TypeOK, Activos, EstadosDespacho, EstadosFinales
  <2>5. S # {}
    BY <1>2 DEF Apertura
  <2> QED
    BY <2>1, <2>2, <2>3, <2>4, <2>5 DEF A!Tomar
<1>3. ASSUME NEW d \in Solicitudes, NEW h \in EstadosFinales, Cierre(d, h)
      PROVE  A!Soltar(d)
  <2>1. Fase(d) = "activa"
    BY <1>3 DEF Cierre, Fase, Activos, EstadosDespacho
  <2>2. ASSUME NEW c \in Cargas
        PROVE  Titular(c)' = IF Titular(c) = d THEN Nadie ELSE Titular(c)
    <3>1. CASE <<d, c>> \in reclamos
      <4>1. Titular(c) = d
        BY <1>0, <3>1, TitularDeReclamo
      <4>2. ~Reclamada(c)'
        BY <1>0, <1>3, <3>1 DEF Cierre, Reclamada, ReclamoUnico
      <4> QED
        BY <4>1, <4>2 DEF Titular
    <3>2. CASE <<d, c>> \notin reclamos
      <4>1. \A x \in Solicitudes : <<x, c>> \in reclamos' <=> <<x, c>> \in reclamos
        BY <1>3, <3>2 DEF Cierre
      <4>2. Titular(c)' = Titular(c)
        BY <4>1 DEF Titular, Reclamada
      <4>3. Titular(c) # d
        BY <3>2, Parametros DEF Titular, Reclamada
      <4> QED
        BY <4>2, <4>3
    <3> QED
      BY <3>1, <3>2
  <2>3. \A x \in Solicitudes : Fase(x)' = IF x = d THEN "cerrada" ELSE Fase(x)
    BY <1>0, <1>3 DEF Cierre, Fase, TypeOK, Activos, EstadosDespacho, EstadosFinales
  <2> QED
    BY <2>1, <2>2, <2>3 DEF A!Soltar
<1> QED
  BY <1>0, <1>1, <1>2, <1>3, PasoDeReclamos DEF A!Next

\* Despachos implements Apartado: claims are taken and given back whole.
THEOREM DespachosImplementaApartado == Spec => ImplementaApartado
<1>1. Spec => []ReclamosOK
  BY ReclamosSiempre
<1> QED
  BY <1>1, ApartadoInicial, ApartadoPaso, PTL DEF Spec, A!Spec, ImplementaApartado

-----------------------------------------------------------------------------
\* Archived shipments.
Congelada == \A c \in Cargas : archivada[c] => archivada'[c] /\ estado'[c] = estado[c]

\* Moving shipments that may all be moved moves no archived one.
LEMMA MoverNoArchivadas ==
    ASSUME NEW S \in SUBSET Cargas, NEW hacia, Mover(S, hacia), UNCHANGED archivada,
           \A c \in S : ~archivada[c]
    PROVE  Congelada
  BY DEF Mover, Congelada

\* Giving back shipments that can be given back moves no archived one: the walk
\* of an archived shipment is either empty or refused at its last step.
LEMMA DevolverNoArchivadas ==
    ASSUME NEW S \in SUBSET Cargas, NEW libre \in BOOLEAN, Devolver(S),
           UNCHANGED archivada, \A c \in S : SePuedeDevolver(c, libre)
    PROVE  Congelada
  BY DEF Devolver, SePuedeDevolver, PuedeTransicionar, Congelada

\* Every step leaves the archived shipments where they are.
LEMMA PasoDeArchivadas == TypeOK /\ [Next]_vars => Congelada
<1> SUFFICES ASSUME TypeOK, [Next]_vars
             PROVE  Congelada
  OBVIOUS
<1> USE DEF cargaVars, solicitudVars
<1>1. ASSUME UNCHANGED <<estado, archivada>>
      PROVE  Congelada
  BY <1>1 DEF Congelada
<1>2. ASSUME NEW S \in SUBSET Cargas, NEW hacia, Mover(S, hacia), UNCHANGED archivada,
             \A c \in S : ~archivada[c]
      PROVE  Congelada
  BY <1>2, MoverNoArchivadas
<1>3. ASSUME NEW d \in Solicitudes, AccionDeSolicitud(d)
      PROVE  Congelada
  <2>0. CargasActivas(d) \in SUBSET Cargas
    BY DEF CargasActivas
  <2>1. ASSUME NEW hacia \in ExigenRequisitos, Verificar(d, hacia)
        PROVE  Congelada
    BY <2>1, <1>1 DEF Verificar
  <2>2. CASE Revertir(d)
    BY <2>2, <1>1 DEF Revertir
  <2>3. CASE Aprobar(d) \/ Completar(d)
    BY <2>3, <1>1 DEF Aprobar, Completar, CambiarEstado
  <2>4. ASSUME NEW libre \in BOOLEAN, NEW hacia, Avanzar(d, hacia, libre)
        PROVE  Congelada
    BY <2>0, <2>4, <1>2 DEF Avanzar, CambiarEstado, PuedeTransicionar
  <2>5. ASSUME NEW libre \in BOOLEAN, NEW hacia, Deshacer(d, hacia, libre)
        PROVE  Congelada
    BY <2>0, <2>5, DevolverNoArchivadas DEF Deshacer, CambiarEstado
  <2>6. ASSUME NEW libre \in BOOLEAN, NEW S \in SUBSET Cargas, NEW e \in Empresas,
               Crear(d, S, e, libre)
        PROVE  Congelada
    BY <2>6, <1>2 DEF Crear, PuedeTransicionar
  <2> QED
    BY <1>3, <2>1, <2>2, <2>3, <2>4, <2>5, <2>6
       DEF AccionDeSolicitud, CrearSolicitud, Preparar, Despachar, Rechazar, Cancelar
<1>4. ASSUME NEW S \in SUBSET Cargas, NEW hacia \in Estados, NEW libre \in BOOLEAN,
             TransicionarMasivamente(S, hacia, libre)
      PROVE  Congelada
  BY <1>4, <1>2 DEF TransicionarMasivamente, PuedeTransicionar
<1>5. ASSUME NEW c \in Cargas, AccionDeCarga(c)
      PROVE  Congelada
  <2>1. ASSUME NEW hacia \in Estados, NEW libre \in BOOLEAN, Transicionar(c, hacia, libre)
        PROVE  Congelada
    BY <2>1, <1>4 DEF Transicionar
  <2>2. CASE Archivar(c)
    BY <2>2 DEF Archivar, Congelada, TypeOK
  <2>3. ASSUME NEW e \in Empresas, CambiarEmpresa(c, e)
        PROVE  Congelada
    BY <2>3, <1>1 DEF CambiarEmpresa
  <2>4. CASE AbrirRequisito(c) \/ ResolverRequisito(c)
    BY <2>4, <1>1 DEF AbrirRequisito, ResolverRequisito
  <2> QED
    BY <1>5, <2>1, <2>2, <2>3, <2>4 DEF AccionDeCarga
<1>6. CASE UNCHANGED vars
  BY <1>6, <1>1 DEF vars
<1> QED
  BY <1>3, <1>4, <1>5, <1>6 DEF Next

\* An archived shipment never changes status and never leaves the archive,
\* whichever request still claims it and whatever permission an actor has.
THEOREM ArchivadaCongeladaSiempre == Spec => ArchivadaCongelada
<1>1. TypeOK /\ [Next]_vars => [Congelada]_vars
  BY PasoDeArchivadas
<1>2. Spec => [][Congelada]_vars
  BY <1>1, TipoCorrecto, PTL DEF Spec
<1>3. [Congelada]_vars => [\A c \in Cargas : archivada[c] => archivada'[c] /\ estado'[c] = estado[c]]_vars
  BY DEF Congelada
<1> QED
  BY <1>2, <1>3, PTL DEF ArchivadaCongelada
-----------------------------------------------------------------------------
\* Rejecting and cancelling.
Devuelta ==
    \A d \in Solicitudes :
        solicitud[d] \in Activos /\ solicitud'[d] \in {"REJECTED", "CANCELLED"} =>
            \A c \in CargasActivas(d) :
                /\ estado'[c] \in {"STORED", "IN_TRANSIT"}
                /\ ~Reclamada(c)'

\* A request changes to a status other than the rejected and the cancelled one.
LEMMA OtroCambio ==
    ASSUME TypeOK, NEW d \in Solicitudes,
           NEW h \in {"PENDING", "APPROVED", "PREPARING", "DISPATCHED", "COMPLETED"},
           solicitud' = [solicitud EXCEPT ![d] = h]
    PROVE  Devuelta
  BY DEF Devuelta, TypeOK, Activos, EstadosFinales

\* Giving back reaches every shipment of the request, and ReclamoUnico says that
\* no other request holds one of them.
LEMMA DeshacerDevuelve ==
    ASSUME ReclamosOK, NEW d \in Solicitudes, NEW h, NEW libre, Deshacer(d, h, libre)
    PROVE  Devuelta
<1>0. TypeOK /\ ReclamoUnico
  BY DEF ReclamosOK
<1>1. \A c \in CargasActivas(d) : estado'[c] \in {"STORED", "IN_TRANSIT"}
  BY DEF Deshacer, Devolver, Disponible, CargasActivas
<1>2. \A c \in CargasActivas(d) : ~Reclamada(c)'
  BY <1>0 DEF Deshacer, LiberarCargas, Reclamada, ReclamoUnico, CargasActivas
<1>3. \A x \in Solicitudes \ {d} : solicitud'[x] = solicitud[x]
  BY <1>0 DEF Deshacer, CambiarEstado, TypeOK
<1> QED
  BY <1>0, <1>1, <1>2, <1>3
     DEF Devuelta, Activos, EstadosFinales, EstadosDespacho

\* No other step rejects or cancels a request.
LEMMA PasoDevuelve == ReclamosOK /\ [Next]_vars => Devuelta
<1> SUFFICES ASSUME ReclamosOK, [Next]_vars
             PROVE  Devuelta
  OBVIOUS
<1> USE DEF cargaVars, solicitudVars
<1>0. TypeOK
  BY DEF ReclamosOK
<1>1. ASSUME UNCHANGED solicitud
      PROVE  Devuelta
  BY <1>1 DEF Devuelta, Activos, EstadosFinales
<1>2. ASSUME NEW d \in Solicitudes, AccionDeSolicitud(d)
      PROVE  Devuelta
  <2>1. ASSUME NEW hacia \in ExigenRequisitos, Verificar(d, hacia)
        PROVE  Devuelta
    BY <2>1, <1>1 DEF Verificar
  <2>2. CASE Revertir(d)
    BY <2>2, <1>1 DEF Revertir
  <2>3. CASE Aprobar(d) \/ Completar(d)
    BY <1>0, <2>3, OtroCambio DEF Aprobar, Completar, CambiarEstado
  <2>4. ASSUME NEW libre \in BOOLEAN, Preparar(d, libre) \/ Despachar(d, libre)
        PROVE  Devuelta
    BY <1>0, <2>4, OtroCambio DEF Preparar, Despachar, Avanzar, CambiarEstado
  <2>5. ASSUME NEW libre \in BOOLEAN, NEW h, Deshacer(d, h, libre)
        PROVE  Devuelta
    BY <2>5, DeshacerDevuelve
  <2>6. ASSUME NEW libre \in BOOLEAN, NEW S \in SUBSET Cargas, NEW e \in Empresas,
               Crear(d, S, e, libre)
        PROVE  Devuelta
    BY <1>0, <2>6, OtroCambio DEF Crear
  <2> QED
    BY <1>2, <2>1, <2>2, <2>3, <2>4, <2>5, <2>6 DEF AccionDeSolicitud, CrearSolicitud, Rechazar, Cancelar
<1>3. ASSUME NEW S \in SUBSET Cargas, NEW hacia \in Estados, NEW libre \in BOOLEAN,
             TransicionarMasivamente(S, hacia, libre)
      PROVE  Devuelta
  BY <1>3, <1>1 DEF TransicionarMasivamente
<1>4. ASSUME NEW c \in Cargas, AccionDeCarga(c)
      PROVE  Devuelta
  BY <1>4, <1>1
     DEF AccionDeCarga, Transicionar, TransicionarMasivamente, Archivar, CambiarEmpresa,
         AbrirRequisito, ResolverRequisito
<1>5. CASE UNCHANGED vars
  BY <1>5, <1>1 DEF vars
<1> QED
  BY <1>2, <1>3, <1>4, <1>5 DEF Next

\* A rejected or cancelled request gives back every shipment it held, whatever
\* people did to the shipments in between.
THEOREM DevuelveTodoSiempre == Spec => DevuelveTodo
<1>1. ReclamosOK /\ [Next]_vars => [Devuelta]_vars
  BY PasoDevuelve
<1>2. Spec => [][Devuelta]_vars
  BY <1>1, ReclamosSiempre, PTL DEF Spec
<1>3. [Devuelta]_vars => [\A d \in Solicitudes :
         solicitud[d] \in Activos /\ solicitud'[d] \in {"REJECTED", "CANCELLED"} =>
            \A c \in CargasActivas(d) :
                /\ estado'[c] \in {"STORED", "IN_TRANSIT"}
                /\ ~Reclamada(c)']_vars
  BY DEF Devuelta
<1> QED
  BY <1>2, <1>3, PTL DEF DevuelveTodo

-----------------------------------------------------------------------------
\* Requests and the statuses of their shipments.
Sigue ==
    \A d \in Solicitudes :
        /\ (/\ solicitud'[d] # solicitud[d]
            /\ solicitud'[d] \in {"PENDING", "PREPARING", "DISPATCHED"})
           => Alineada(d)'
        /\ (solicitud' # solicitud /\ Alineada(d)) => Alineada(d)'

\* What one request does leaves the other ones aligned, since no shipment is
\* claimed by both.
LEMMA AlineadaAjena ==
    ASSUME NEW x \in Solicitudes, solicitud'[x] = solicitud[x],
           CargasActivas(x)' = CargasActivas(x),
           \A c \in CargasActivas(x) : estado'[c] = estado[c], Alineada(x)
    PROVE  Alineada(x)'
  BY DEF Alineada

\* Two requests hold no shipment in common.
LEMMA CargasAjenas ==
    ASSUME ReclamosOK, NEW d \in Solicitudes, NEW x \in Solicitudes, x # d
    PROVE  CargasActivas(x) \cap CargasActivas(d) = {}
  BY DEF ReclamosOK, ReclamoUnico, CargasActivas

\* A request advances with its shipments, or is approved and leaves them.
LEMMA AvanceSigue ==
    ASSUME ReclamosOK, NEW d \in Solicitudes, NEW h \in {"APPROVED", "PREPARING", "DISPATCHED"},
           Autorizada(d, h), CambiarEstado(d, h), UNCHANGED reclamos,
           IF h = "APPROVED" THEN UNCHANGED estado ELSE Mover(CargasActivas(d), h)
    PROVE  Sigue
<1>0. TypeOK
  BY DEF ReclamosOK
<1>1. solicitud' = [solicitud EXCEPT ![d] = h]
  BY DEF CambiarEstado
<1>2. \A x \in Solicitudes : CargasActivas(x)' = CargasActivas(x)
  BY DEF CargasActivas
<1>3. ASSUME NEW x \in Solicitudes, x # d
      PROVE  solicitud'[x] = solicitud[x] /\ (Alineada(x) => Alineada(x)')
  <2>1. solicitud'[x] = solicitud[x]
    BY <1>0, <1>1, <1>3 DEF TypeOK
  <2>2. \A c \in CargasActivas(x) : estado'[c] = estado[c]
    BY <1>3, CargasAjenas DEF Mover, CargasActivas
  <2> QED
    BY <1>2, <2>1, <2>2, AlineadaAjena
<1>4. CASE h = "APPROVED"
  <2>1. solicitud[d] = "PENDING" /\ solicitud'[d] = "APPROVED"
    BY <1>0, <1>1, <1>4 DEF Autorizada, TransicionesDespacho, TypeOK
  <2>2. Alineada(d) => Alineada(d)'
    BY <1>2, <1>4, <2>1 DEF Alineada, EstadoDeCarga, Activos, EstadosDespacho, EstadosFinales
  <2> QED
    BY <1>3, <2>1, <2>2 DEF Sigue
<1>5. CASE h # "APPROVED"
  <2>1. solicitud'[d] = h
    BY <1>0, <1>1 DEF TypeOK
  <2>2. \A c \in CargasActivas(d) : estado'[c] = h
    BY <1>5 DEF Mover, CargasActivas
  <2>3. Alineada(d)'
    BY <1>2, <1>5, <2>1, <2>2 DEF Alineada, EstadoDeCarga
  <2> QED
    BY <1>3, <2>3 DEF Sigue
<1> QED
  BY <1>4, <1>5

\* A request that closes is aligned from then on, and moves its own shipments.
LEMMA CierreSigue ==
    ASSUME ReclamosOK, NEW d \in Solicitudes, NEW h \in EstadosFinales,
           CambiarEstado(d, h), LiberarCargas(d),
           \A c \in Cargas \ CargasActivas(d) : estado'[c] = estado[c]
    PROVE  Sigue
<1>0. TypeOK
  BY DEF ReclamosOK
<1>1. solicitud'[d] = h /\ \A x \in Solicitudes \ {d} : solicitud'[x] = solicitud[x]
  BY <1>0 DEF CambiarEstado, TypeOK
<1>2. Alineada(d)'
  BY <1>1 DEF Alineada, Activos
<1>3. h \notin {"PENDING", "PREPARING", "DISPATCHED"}
  BY DEF EstadosFinales
<1>4. ASSUME NEW x \in Solicitudes, x # d
      PROVE  Alineada(x) => Alineada(x)'
  <2>1. CargasActivas(x)' = CargasActivas(x)
    BY <1>0, <1>4 DEF LiberarCargas, CargasActivas, TypeOK
  <2>2. \A c \in CargasActivas(x) : estado'[c] = estado[c]
    BY <1>4, CargasAjenas DEF CargasActivas
  <2> QED
    BY <1>1, <1>4, <2>1, <2>2, AlineadaAjena
<1> QED
  BY <1>1, <1>2, <1>3, <1>4 DEF Sigue

\* A new request finds its shipments unclaimed and leaves them requested.
LEMMA CrearSigue ==
    ASSUME ReclamosOK, NEW d \in Solicitudes, NEW S \in SUBSET Cargas, NEW e \in Empresas,
           NEW libre \in BOOLEAN, Crear(d, S, e, libre)
    PROVE  /\ Sigue
           /\ CargasActivas(d)' = S
           /\ Alineada(d)'
           /\ solicitud' = [solicitud EXCEPT ![d] = "PENDING"]
           /\ \A x \in Solicitudes \ {d} : CargasActivas(x)' = CargasActivas(x)
<1>0. TypeOK /\ ReclamoVigente
  BY DEF ReclamosOK
<1>1. solicitud'[d] = "PENDING" /\ \A x \in Solicitudes \ {d} : solicitud'[x] = solicitud[x]
  BY <1>0 DEF Crear, TypeOK
<1>2. CargasActivas(d) = {}
  BY <1>0 DEF Crear, ReclamoVigente, Activos, EstadosDespacho
<1>3. CargasActivas(d)' = S
  BY <1>2 DEF Crear, CargasActivas
<1>4. Alineada(d)'
  BY <1>1, <1>3 DEF Alineada, Crear, Mover, EstadoDeCarga
<1>5. \A x \in Solicitudes \ {d} : CargasActivas(x)' = CargasActivas(x)
  BY DEF Crear, CargasActivas
<1>6. ASSUME NEW x \in Solicitudes, x # d
      PROVE  Alineada(x) => Alineada(x)'
  <2>1. \A c \in CargasActivas(x) : estado'[c] = estado[c]
    BY DEF Crear, IndiceDeReclamo, Reclamada, Mover, CargasActivas
  <2> QED
    BY <1>1, <1>5, <1>6, <2>1, AlineadaAjena
<1> QED
  BY <1>1, <1>3, <1>4, <1>5, <1>6 DEF Sigue, Crear

\* Every action of a request keeps every request aligned.
LEMMA PasoSigue == ReclamosOK /\ [Next]_vars => Sigue
<1> SUFFICES ASSUME ReclamosOK, [Next]_vars
             PROVE  Sigue
  OBVIOUS
<1> USE DEF cargaVars, solicitudVars
<1>1. ASSUME UNCHANGED solicitud
      PROVE  Sigue
  BY <1>1 DEF Sigue
<1>2. ASSUME NEW d \in Solicitudes, AccionDeSolicitud(d)
      PROVE  Sigue
  <2>1. ASSUME NEW hacia \in ExigenRequisitos, Verificar(d, hacia)
        PROVE  Sigue
    BY <2>1, <1>1 DEF Verificar
  <2>2. CASE Revertir(d)
    BY <2>2, <1>1 DEF Revertir
  <2>3. CASE Aprobar(d)
    BY <2>3, AvanceSigue DEF Aprobar
  <2>4. CASE Completar(d)
    BY <2>4, CierreSigue DEF Completar, EstadosFinales
  <2>5. ASSUME NEW libre \in BOOLEAN, Preparar(d, libre) \/ Despachar(d, libre)
        PROVE  Sigue
    BY <2>5, AvanceSigue DEF Preparar, Despachar, Avanzar
  <2>6. ASSUME NEW libre \in BOOLEAN, NEW h \in {"REJECTED", "CANCELLED"}, Deshacer(d, h, libre)
        PROVE  Sigue
    <3>1. \A c \in Cargas \ CargasActivas(d) : estado'[c] = estado[c]
      BY <2>6 DEF Deshacer, Devolver
    <3> QED
      BY <2>6, <3>1, CierreSigue DEF Deshacer, EstadosFinales
  <2>7. ASSUME NEW libre \in BOOLEAN, NEW S \in SUBSET Cargas, NEW e \in Empresas,
               Crear(d, S, e, libre)
        PROVE  Sigue
    BY <2>7, CrearSigue
  <2> QED
    BY <1>2, <2>1, <2>2, <2>3, <2>4, <2>5, <2>6, <2>7
       DEF AccionDeSolicitud, CrearSolicitud, Rechazar, Cancelar
<1>3. ASSUME NEW S \in SUBSET Cargas, NEW hacia \in Estados, NEW libre \in BOOLEAN,
             TransicionarMasivamente(S, hacia, libre)
      PROVE  Sigue
  BY <1>3, <1>1 DEF TransicionarMasivamente
<1>4. ASSUME NEW c \in Cargas, AccionDeCarga(c)
      PROVE  Sigue
  BY <1>4, <1>1
     DEF AccionDeCarga, Transicionar, TransicionarMasivamente, Archivar, CambiarEmpresa,
         AbrirRequisito, ResolverRequisito
<1>5. CASE UNCHANGED vars
  BY <1>5, <1>1 DEF vars
<1> QED
  BY <1>2, <1>3, <1>4, <1>5 DEF Next

\* Whatever people moved by hand before, opening, preparing and sending out a
\* request align its shipments, and no step of a request misaligns an aligned one.
THEOREM SigueAlineadaSiempre == Spec => SigueAlineada
<1>1. ReclamosOK /\ [Next]_vars => [Sigue]_vars
  BY PasoSigue
<1>2. Spec => [][Sigue]_vars
  BY <1>1, ReclamosSiempre, PTL DEF Spec
<1>3. [Sigue]_vars => [\A d \in Solicitudes :
         /\ (/\ solicitud'[d] # solicitud[d]
             /\ solicitud'[d] \in {"PENDING", "PREPARING", "DISPATCHED"})
            => Alineada(d)'
         /\ (solicitud' # solicitud /\ Alineada(d)) => Alineada(d)']_vars
  BY DEF Sigue
<1> QED
  BY <1>2, <1>3, PTL DEF SigueAlineada

-----------------------------------------------------------------------------
\* Alignment.  It is a promise about shipments that nobody moves by hand while
\* a request holds them, nor into a status only a request puts them in.
Respeta ==
    UNCHANGED solicitud =>
        \A c \in Cargas : estado'[c] # estado[c] =>
            ~Reclamada(c) /\ estado'[c] \notin {"DISPATCH_REQUESTED", "PREPARING"}

\* Every step of a behaviour respects the dispatches.
DespachosRespetados == [][Respeta]_vars

\* The bound on the moves by hand leaves the statuses of a dispatch alone.
SoloDeBodega ==
    \A m \in Manuales :
        /\ m[1] \notin {"DISPATCH_REQUESTED", "PREPARING", "DISPATCHED"}
        /\ m[2] \notin {"DISPATCH_REQUESTED", "PREPARING"}

ArchivadaCerrada == \A c \in Cargas : archivada[c] => estado[c] \in Cerrados

EnDespachoReclamada ==
    \A c \in Cargas : estado[c] \in {"DISPATCH_REQUESTED", "PREPARING"} => Reclamada(c)

\* The walk back of a shipment whose request has not gone out ends in STORED.
OrigenAlmacenado ==
    \A c \in Cargas :
        estado[c] \in {"DISPATCH_REQUESTED", "PREPARING"} => pedidoDesde[c] = "STORED"

\* The invariant: alignment, and what a request needs to be undone.
AlineacionOK ==
    /\ ReclamosOK
    /\ \A d \in Solicitudes : Alineada(d)
    /\ EnDespachoReclamada
    /\ OrigenAlmacenado
    /\ ArchivadaCerrada

\* Shipments are registered outside the statuses of a dispatch.
LEMMA AlineacionInicial == Init => AlineacionOK
<1> SUFFICES ASSUME Init PROVE AlineacionOK
  OBVIOUS
<1>1. \A e \in Iniciales : e \notin {"DISPATCH_REQUESTED", "PREPARING"}
  BY Parametros DEF EstadosIniciales, SecuenciaInicial, SecuenciaMaritima
<1>2. EnDespachoReclamada /\ OrigenAlmacenado
  BY <1>1 DEF Init, EnDespachoReclamada, OrigenAlmacenado
<1>3. \A d \in Solicitudes : Alineada(d)
  BY DEF Init, Alineada, CargasActivas
<1>4. ArchivadaCerrada
  BY DEF Init, ArchivadaCerrada
<1> QED
  BY <1>2, <1>3, <1>4, ReclamosInicial DEF AlineacionOK

\* Only the sweep archives, and only closed shipments.
LEMMA PasoDeArchivo ==
    ASSUME TypeOK, [Next]_vars
    PROVE  \/ UNCHANGED archivada
           \/ \E c \in Cargas : estado[c] \in Cerrados /\ UNCHANGED estado
                                /\ archivada' = [archivada EXCEPT ![c] = TRUE]
<1> USE DEF cargaVars, solicitudVars
<1>1. ASSUME NEW d \in Solicitudes, AccionDeSolicitud(d)
      PROVE  UNCHANGED archivada
  BY <1>1
     DEF AccionDeSolicitud, Verificar, Revertir, Aprobar, Completar, Preparar, Despachar,
         Avanzar, Rechazar, Cancelar, Deshacer, CrearSolicitud, Crear, CambiarEstado
<1>2. ASSUME NEW c \in Cargas, AccionDeCarga(c), ~Archivar(c)
      PROVE  UNCHANGED archivada
  BY <1>2
     DEF AccionDeCarga, Transicionar, TransicionarMasivamente, CambiarEmpresa,
         AbrirRequisito, ResolverRequisito
<1>3. ASSUME NEW c \in Cargas, Archivar(c)
      PROVE  estado[c] \in Cerrados /\ UNCHANGED estado
             /\ archivada' = [archivada EXCEPT ![c] = TRUE]
  BY <1>3 DEF Archivar
<1>4. ASSUME NEW S \in SUBSET Cargas, NEW hacia \in Estados, NEW libre \in BOOLEAN,
             TransicionarMasivamente(S, hacia, libre)
      PROVE  UNCHANGED archivada
  BY <1>4 DEF TransicionarMasivamente
<1>5. CASE UNCHANGED vars
  BY <1>5 DEF vars
<1> QED
  BY <1>1, <1>2, <1>3, <1>4, <1>5 DEF Next

\* An archived shipment is closed: it was when the sweep took it, and it stays.
LEMMA ArchivadaCerradaPaso == TypeOK /\ ArchivadaCerrada /\ [Next]_vars => ArchivadaCerrada'
<1> SUFFICES ASSUME TypeOK, ArchivadaCerrada, [Next]_vars
             PROVE  ArchivadaCerrada'
  OBVIOUS
<1>1. Congelada
  BY PasoDeArchivadas
<1>2. CASE UNCHANGED archivada
  BY <1>1, <1>2 DEF Congelada, ArchivadaCerrada
<1>3. ASSUME NEW c \in Cargas, estado[c] \in Cerrados, UNCHANGED estado,
             archivada' = [archivada EXCEPT ![c] = TRUE]
      PROVE  ArchivadaCerrada'
  BY <1>3 DEF ArchivadaCerrada, TypeOK
<1> QED
  BY <1>2, <1>3, PasoDeArchivo

\* A step that no request takes leaves the claims and, of the shipments it does
\* not move, the origin.
LEMMA PasoSinSolicitud ==
    ASSUME TypeOK, [Next]_vars, UNCHANGED solicitud
    PROVE  /\ UNCHANGED reclamos
           /\ \A c \in Cargas : estado'[c] = estado[c] => pedidoDesde'[c] = pedidoDesde[c]
<1> DEFINE Meta == /\ UNCHANGED reclamos
                   /\ \A c \in Cargas : estado'[c] = estado[c] => pedidoDesde'[c] = pedidoDesde[c]
<1> USE DEF cargaVars, solicitudVars
<1>1. ASSUME UNCHANGED <<reclamos, pedidoDesde>>
      PROVE  Meta
  BY <1>1
<1>2. ASSUME NEW d \in Solicitudes, NEW h, Autorizada(d, h), CambiarEstado(d, h)
      PROVE  FALSE
  BY <1>2 DEF Autorizada, CambiarEstado, TypeOK, TransicionesDespacho
<1>3. ASSUME NEW d \in Solicitudes, AccionDeSolicitud(d)
      PROVE  Meta
  <2>1. ASSUME NEW hacia \in ExigenRequisitos, Verificar(d, hacia)
        PROVE  Meta
    BY <2>1, <1>1 DEF Verificar
  <2>2. CASE Revertir(d)
    BY <2>2, <1>1 DEF Revertir
  <2>3. CASE CrearSolicitud(d)
    BY <2>3 DEF CrearSolicitud, Crear, TypeOK
  <2> QED
    BY <1>2, <1>3, <2>1, <2>2, <2>3
       DEF AccionDeSolicitud, Aprobar, Completar, Preparar, Despachar, Avanzar,
           Rechazar, Cancelar, Deshacer
<1>4. ASSUME NEW S \in SUBSET Cargas, NEW hacia \in Estados, NEW libre \in BOOLEAN,
             TransicionarMasivamente(S, hacia, libre)
      PROVE  Meta
  <2>1. \A c \in S : estado[c] # hacia
    BY <1>4, TransicionesDistintas DEF TransicionarMasivamente, PuedeTransicionar
  <2> QED
    BY <1>4, <2>1 DEF TransicionarMasivamente, Mover
<1>5. ASSUME NEW c \in Cargas, AccionDeCarga(c)
      PROVE  Meta
  <2>1. ASSUME NEW hacia \in Estados, NEW libre \in BOOLEAN, Transicionar(c, hacia, libre)
        PROVE  Meta
    BY <2>1, <1>4 DEF Transicionar
  <2> QED
    BY <1>1, <1>5, <2>1
       DEF AccionDeCarga, Archivar, CambiarEmpresa, AbrirRequisito, ResolverRequisito
<1>6. CASE UNCHANGED vars
  BY <1>6, <1>1 DEF vars
<1> QED
  BY <1>3, <1>4, <1>5, <1>6 DEF Next

\* What a request does to its own shipments keeps the rest of the invariant.
Resto == EnDespachoReclamada /\ OrigenAlmacenado

\* Advancing: prepared shipments were requested, so they keep their origin.
LEMMA AvanzarResto ==
    ASSUME AlineacionOK, NEW d \in Solicitudes, NEW h \in {"PREPARING", "DISPATCHED"},
           NEW libre, Avanzar(d, h, libre)
    PROVE  Resto'
<1>1. Mover(CargasActivas(d), h) /\ UNCHANGED reclamos
  BY DEF Avanzar
<1>2. \A c \in CargasActivas(d) : Reclamada(c)
  BY DEF Reclamada, CargasActivas
<1>3. h = "PREPARING" => \A c \in CargasActivas(d) : estado[c] = "DISPATCH_REQUESTED"
  <2>1. h = "PREPARING" => solicitud[d] = "APPROVED"
    BY DEF Avanzar, Autorizada, TransicionesDespacho
  <2> QED
    BY <2>1 DEF AlineacionOK, Alineada, EstadoDeCarga, Activos, EstadosDespacho, EstadosFinales
<1>4. UNCHANGED pedidoDesde \/ \A c \in Cargas : pedidoDesde'[c] = pedidoDesde[c]
  BY <1>1 DEF Mover
<1>5. EnDespachoReclamada'
  BY <1>1, <1>2 DEF AlineacionOK, EnDespachoReclamada, Reclamada, Mover
<1>6. OrigenAlmacenado'
  BY <1>1, <1>3, <1>4 DEF AlineacionOK, OrigenAlmacenado, Mover, CargasActivas
<1> QED
  BY <1>5, <1>6 DEF Resto

\* Closing: the released shipments are out, or back where they came from.
LEMMA CerrarResto ==
    ASSUME AlineacionOK, NEW d \in Solicitudes, LiberarCargas(d),
           \A c \in CargasActivas(d) : estado'[c] \notin {"DISPATCH_REQUESTED", "PREPARING"},
           \A c \in Cargas \ CargasActivas(d) :
             estado'[c] = estado[c] /\ pedidoDesde'[c] = pedidoDesde[c]
    PROVE  Resto'
<1>1. \A c \in Cargas \ CargasActivas(d) : Reclamada(c) => Reclamada(c)'
  BY DEF LiberarCargas, Reclamada, CargasActivas
<1>2. EnDespachoReclamada'
  BY <1>1 DEF AlineacionOK, EnDespachoReclamada
<1>3. OrigenAlmacenado'
  BY DEF AlineacionOK, OrigenAlmacenado
<1> QED
  BY <1>2, <1>3 DEF Resto

\* Opening: the shipments were stored, and are claimed from now on.
LEMMA CrearResto ==
    ASSUME AlineacionOK, NEW d \in Solicitudes, NEW S \in SUBSET Cargas, NEW e \in Empresas,
           NEW libre \in BOOLEAN, Crear(d, S, e, libre)
    PROVE  Resto'
<1>1. /\ Mover(S, "DISPATCH_REQUESTED")
      /\ reclamos' = reclamos \cup ({d} \X S)
      /\ \A c \in S : estado[c] = "STORED"
  BY DEF Crear, CargaElegible
<1>2. EnDespachoReclamada'
  BY <1>1 DEF AlineacionOK, EnDespachoReclamada, Mover, Reclamada
<1>3. OrigenAlmacenado'
  BY <1>1 DEF AlineacionOK, OrigenAlmacenado, Mover
<1> QED
  BY <1>2, <1>3 DEF Resto

\* The rest of the invariant, over the steps of requests and the others.
LEMMA RestoPaso ==
    ASSUME AlineacionOK, [Next]_vars, Respeta
    PROVE  Resto'
<1>0. TypeOK
  BY DEF AlineacionOK, ReclamosOK
<1>1. ASSUME UNCHANGED solicitud
      PROVE  Resto'
  <2>1. UNCHANGED reclamos
        /\ \A c \in Cargas : estado'[c] = estado[c] => pedidoDesde'[c] = pedidoDesde[c]
    BY <1>0, <1>1, PasoSinSolicitud
  <2>2. \A c \in Cargas : estado'[c] \in {"DISPATCH_REQUESTED", "PREPARING"} =>
                            estado'[c] = estado[c]
    BY <1>1 DEF Respeta
  <2> QED
    BY <2>1, <2>2 DEF AlineacionOK, Resto, EnDespachoReclamada, OrigenAlmacenado, Reclamada
<1>2. ASSUME NEW d \in Solicitudes, AccionDeSolicitud(d)
      PROVE  Resto'
  <2>1. ASSUME NEW hacia \in ExigenRequisitos, Verificar(d, hacia)
        PROVE  Resto'
    BY <2>1, <1>1 DEF Verificar
  <2>2. CASE Revertir(d)
    BY <2>2, <1>1 DEF Revertir
  <2>3. CASE Aprobar(d)
    BY <2>3 DEF Aprobar, AlineacionOK, Resto, EnDespachoReclamada, OrigenAlmacenado, Reclamada
  <2>4. CASE Completar(d)
    <3>1. solicitud[d] = "DISPATCHED"
      BY <2>4 DEF Completar, Autorizada, TransicionesDespacho
    <3>2. \A c \in CargasActivas(d) : estado[c] = "DISPATCHED"
      BY <3>1 DEF AlineacionOK, Alineada, EstadoDeCarga, Activos, EstadosDespacho, EstadosFinales
    <3> QED
      BY <2>4, <3>2, CerrarResto DEF Completar
  <2>5. ASSUME NEW libre \in BOOLEAN, Preparar(d, libre) \/ Despachar(d, libre)
        PROVE  Resto'
    BY <2>5, AvanzarResto DEF Preparar, Despachar
  <2>6. ASSUME NEW libre \in BOOLEAN, NEW h, Deshacer(d, h, libre)
        PROVE  Resto'
    <3>1. LiberarCargas(d) /\ Devolver(CargasActivas(d))
      BY <2>6 DEF Deshacer
    <3>2. \A c \in CargasActivas(d) : estado'[c] \notin {"DISPATCH_REQUESTED", "PREPARING"}
      BY <3>1 DEF Devolver, Disponible, CargasActivas
    <3>3. \A c \in Cargas \ CargasActivas(d) :
            estado'[c] = estado[c] /\ pedidoDesde'[c] = pedidoDesde[c]
      BY <3>1 DEF Devolver
    <3> QED
      BY <3>1, <3>2, <3>3, CerrarResto
  <2>7. ASSUME NEW libre \in BOOLEAN, NEW S \in SUBSET Cargas, NEW e \in Empresas,
               Crear(d, S, e, libre)
        PROVE  Resto'
    BY <2>7, CrearResto
  <2> QED
    BY <1>2, <2>1, <2>2, <2>3, <2>4, <2>5, <2>6, <2>7
       DEF AccionDeSolicitud, CrearSolicitud, Rechazar, Cancelar
<1>3. ASSUME NEW S \in SUBSET Cargas, NEW hacia \in Estados, NEW libre \in BOOLEAN,
             TransicionarMasivamente(S, hacia, libre)
      PROVE  Resto'
  BY <1>3, <1>1 DEF TransicionarMasivamente, solicitudVars
<1>4. ASSUME NEW c \in Cargas, AccionDeCarga(c)
      PROVE  Resto'
  BY <1>4, <1>1
     DEF AccionDeCarga, Transicionar, TransicionarMasivamente, Archivar, CambiarEmpresa,
         AbrirRequisito, ResolverRequisito, solicitudVars
<1>5. CASE UNCHANGED vars
  BY <1>5, <1>1 DEF vars
<1> QED
  BY <1>2, <1>3, <1>4, <1>5 DEF Next

\* Alignment is inductive while dispatches are respected: the requests' own steps
\* keep it (Sigue), and the other ones move no claimed shipment.
LEMMA AlineacionPaso == AlineacionOK /\ [Next]_vars /\ [Respeta]_vars => AlineacionOK'
<1> SUFFICES ASSUME AlineacionOK, [Next]_vars, [Respeta]_vars
             PROVE  AlineacionOK'
  OBVIOUS
<1>0. TypeOK /\ ReclamosOK
  BY DEF AlineacionOK, ReclamosOK
<1>1. Respeta
  BY DEF Respeta, vars
<1>2. ASSUME NEW d \in Solicitudes
      PROVE  Alineada(d)'
  <2>1. CASE solicitud' # solicitud
    BY <1>0, <2>1, PasoSigue DEF Sigue, AlineacionOK
  <2>2. CASE UNCHANGED solicitud
    <3>1. CargasActivas(d)' = CargasActivas(d)
      BY <1>0, <2>2, PasoSinSolicitud DEF CargasActivas
    <3>2. \A c \in CargasActivas(d) : estado'[c] = estado[c]
      BY <1>1, <2>2 DEF Respeta, Reclamada, CargasActivas
    <3> QED
      BY <2>2, <3>1, <3>2, AlineadaAjena DEF AlineacionOK
  <2> QED
    BY <2>1, <2>2
<1>3. ReclamosOK'
  BY <1>0, ReclamosPaso
<1>4. ArchivadaCerrada'
  BY <1>0, ArchivadaCerradaPaso DEF AlineacionOK
<1>5. Resto'
  BY <1>1, RestoPaso
<1> QED
  BY <1>2, <1>3, <1>4, <1>5 DEF AlineacionOK, Resto

\* The two parts of the alignment a run checks.
LEMMA AlineacionDaAlineado == AlineacionOK => Alineado
  BY DEF AlineacionOK, Alineado, EnDespachoReclamada

\* The next step of an aligned request is open, requirements apart.
LEMMA AlineacionDaPaso ==
    ASSUME AlineacionOK, NEW d \in Solicitudes, solicitud[d] \in Activos,
           Siguiente[solicitud[d]] \in ExigenRequisitos => SinRequisitos(d)
    PROVE  PuedePasar(d, Siguiente[solicitud[d]])
<1>1. \A c \in CargasActivas(d) : estado[c] = EstadoDeCarga(solicitud[d])
  BY DEF AlineacionOK, Alineada
<1>2. CargasActivas(d) # {}
  BY DEF AlineacionOK, ReclamosOK, ReclamoVigente
<1>3. \A c \in CargasActivas(d) : estado[c] \notin Cerrados => ~archivada[c]
  BY DEF AlineacionOK, ArchivadaCerrada, CargasActivas
<1>4. solicitud[d] \in {"PENDING", "APPROVED", "PREPARING", "DISPATCHED"}
  BY DEF Activos, EstadosDespacho, EstadosFinales
<1>5. CASE solicitud[d] = "PENDING"
  <2>1. Siguiente[solicitud[d]] = "APPROVED"
    BY <1>5 DEF Siguiente
  <2> QED
    BY <1>5, <2>1 DEF PuedePasar, Comprobada, ExigenRequisitos, TransicionesDespacho
<1>6. CASE solicitud[d] = "APPROVED"
  <2>1. Siguiente[solicitud[d]] = "PREPARING"
    BY <1>6 DEF Siguiente
  <2>2. ASSUME NEW c \in CargasActivas(d)
        PROVE  PuedeTransicionar(c, estado[c], "PREPARING", FALSE)
    <3>1. estado[c] = "DISPATCH_REQUESTED" /\ ~archivada[c]
      BY <1>1, <1>3, <1>6 DEF EstadoDeCarga, Cerrados
    <3>2. Politicas(c, "DISPATCH_REQUESTED", "PREPARING")
      BY DEF Politicas
    <3> QED
      BY <3>1, <3>2, PasosDeIda DEF PuedeTransicionar
  <2> QED
    BY <1>6, <2>1, <2>2 DEF PuedePasar, ExigenRequisitos, TransicionesDespacho
<1>7. CASE solicitud[d] = "PREPARING"
  <2>1. Siguiente[solicitud[d]] = "DISPATCHED"
    BY <1>7 DEF Siguiente
  <2>2. SinRequisitos(d)
    BY <2>1 DEF ExigenRequisitos
  <2>3. ASSUME NEW c \in CargasActivas(d)
        PROVE  PuedeTransicionar(c, estado[c], "DISPATCHED", FALSE)
    <3>1. estado[c] = "PREPARING" /\ ~archivada[c]
      BY <1>1, <1>3, <1>7 DEF EstadoDeCarga, Cerrados
    <3>2. Politicas(c, "PREPARING", "DISPATCHED")
      BY <2>2 DEF Politicas, SinRequisitos
    <3> QED
      BY <3>1, <3>2, PasosDeIda DEF PuedeTransicionar
  <2> QED
    BY <1>7, <2>1, <2>2, <2>3 DEF PuedePasar, Comprobada, TransicionesDespacho
<1>8. CASE solicitud[d] = "DISPATCHED"
  <2>1. Siguiente[solicitud[d]] = "COMPLETED"
    BY <1>8 DEF Siguiente
  <2>2. SinRequisitos(d)
    BY <2>1 DEF ExigenRequisitos
  <2>3. CargasDespachadas(d)
    BY <1>1, <1>8 DEF CargasDespachadas, EstadoDeCarga
  <2> QED
    BY <1>2, <1>8, <2>1, <2>2, <2>3 DEF PuedePasar, Comprobada, TransicionesDespacho
<1> QED
  BY <1>4, <1>5, <1>6, <1>7, <1>8

\* The shipments of a request that has not gone out can all walk back, the one
\* without a WR by a free change.
LEMMA AlineacionDaVuelta ==
    ASSUME AlineacionOK, NEW d \in Solicitudes,
           solicitud[d] \in {"PENDING", "APPROVED", "PREPARING"},
           NEW c \in CargasActivas(d), NEW libre \in BOOLEAN, c \in SinWR => libre
    PROVE  SePuedeDevolver(c, libre)
<1>1. estado[c] = EstadoDeCarga(solicitud[d])
  BY DEF AlineacionOK, Alineada, Activos, EstadosDespacho, EstadosFinales
<1>2. c \in Cargas /\ estado[c] \in {"DISPATCH_REQUESTED", "PREPARING"}
  BY <1>1 DEF EstadoDeCarga, CargasActivas
<1>3. pedidoDesde[c] = "STORED" /\ ~archivada[c]
  BY <1>2 DEF AlineacionOK, OrigenAlmacenado, ArchivadaCerrada, Cerrados
<1>4. Disponible(c) = "STORED"
  BY <1>3 DEF Disponible
<1>5. PuedeTransicionar(c, "DISPATCH_REQUESTED", "STORED", libre)
  <2>1. libre \/ Politicas(c, "DISPATCH_REQUESTED", "STORED")
    BY DEF Politicas
  <2> QED
    BY <1>3, <2>1, PasosDeVuelta DEF PuedeTransicionar
<1>6. PuedeTransicionar(c, "PREPARING", "DISPATCH_REQUESTED", libre)
  <2>1. Politicas(c, "PREPARING", "DISPATCH_REQUESTED")
    BY DEF Politicas
  <2> QED
    BY <1>3, <2>1, PasosDeVuelta DEF PuedeTransicionar
<1> QED
  BY <1>2, <1>4, <1>5, <1>6 DEF SePuedeDevolver

LEMMA AlineacionDaSinTrabas == AlineacionOK => SinTrabas
<1> SUFFICES ASSUME AlineacionOK, NEW d \in Solicitudes, solicitud[d] \in Activos
             PROVE  LET hacia == Siguiente[solicitud[d]]
                        libre == CargasActivas(d) \cap SinWR # {}
                    IN  /\ (hacia \in ExigenRequisitos => SinRequisitos(d)) => PuedePasar(d, hacia)
                        /\ hacia # "COMPLETED" =>
                             /\ solicitud[d] \in Cancelable(TRUE)
                             /\ <<solicitud[d], "CANCELLED">> \in TransicionesDespacho
                             /\ \A c \in CargasActivas(d) : SePuedeDevolver(c, libre)
  BY DEF SinTrabas
<1> DEFINE hacia == Siguiente[solicitud[d]]
           libre == CargasActivas(d) \cap SinWR # {}
<1>1. (hacia \in ExigenRequisitos => SinRequisitos(d)) => PuedePasar(d, hacia)
  BY AlineacionDaPaso
<1>2. ASSUME hacia # "COMPLETED"
      PROVE  /\ solicitud[d] \in Cancelable(TRUE)
             /\ <<solicitud[d], "CANCELLED">> \in TransicionesDespacho
             /\ \A c \in CargasActivas(d) : SePuedeDevolver(c, libre)
  <2>1. solicitud[d] \in {"PENDING", "APPROVED", "PREPARING"}
    BY <1>2 DEF Siguiente, Activos, EstadosDespacho, EstadosFinales
  <2>2. ASSUME NEW c \in CargasActivas(d)
        PROVE  SePuedeDevolver(c, libre)
    <3>1. libre \in BOOLEAN /\ (c \in SinWR => libre)
      OBVIOUS
    <3> HIDE DEF libre
    <3> QED
      BY <2>1, <3>1, AlineacionDaVuelta
  <2> QED
    BY <2>1, <2>2 DEF Cancelable, TransicionesDespacho
<1> QED
  BY <1>1, <1>2

\* While nobody moves by hand the shipments of a dispatch, they are where their
\* request says, and no shipment is in a dispatch status without a request.
THEOREM AlineadoSiempre == Spec /\ DespachosRespetados => []Alineado
  BY AlineacionInicial, AlineacionPaso, AlineacionDaAlineado, PTL
     DEF Spec, DespachosRespetados

\* ... and no request is stuck: it can go on once no requirement blocks it, and
\* be cancelled until it goes out.
THEOREM SinTrabasSiempre == Spec /\ DespachosRespetados => []SinTrabas
  BY AlineacionInicial, AlineacionPaso, AlineacionDaSinTrabas, PTL
     DEF Spec, DespachosRespetados

\* Moves by hand that leave the statuses of a dispatch alone respect it: a
\* claimed shipment is in one of those statuses.
LEMMA DeBodegaRespeta ==
    ASSUME SoloDeBodega, AlineacionOK, [Next]_vars
    PROVE  Respeta
<1> USE DEF cargaVars, solicitudVars
<1>0. TypeOK /\ ReclamoVigente
  BY DEF AlineacionOK, ReclamosOK
<1>1. \A c \in Cargas : Reclamada(c) =>
        estado[c] \in {"DISPATCH_REQUESTED", "PREPARING", "DISPATCHED"}
  BY <1>0 DEF AlineacionOK, Alineada, ReclamoVigente, Reclamada, CargasActivas, EstadoDeCarga,
              Activos, EstadosDespacho, EstadosFinales
<1>2. ASSUME UNCHANGED estado
      PROVE  Respeta
  BY <1>2 DEF Respeta
<1>3. ASSUME NEW d \in Solicitudes, NEW h, Autorizada(d, h), CambiarEstado(d, h)
      PROVE  Respeta
  BY <1>0, <1>3 DEF Autorizada, CambiarEstado, TypeOK, TransicionesDespacho, Respeta
<1>4. ASSUME NEW d \in Solicitudes, AccionDeSolicitud(d)
      PROVE  Respeta
  <2>1. ASSUME NEW hacia \in ExigenRequisitos, Verificar(d, hacia)
        PROVE  Respeta
    BY <2>1, <1>2 DEF Verificar
  <2>2. CASE Revertir(d)
    BY <2>2, <1>2 DEF Revertir
  <2>3. CASE CrearSolicitud(d)
    BY <1>0, <2>3 DEF CrearSolicitud, Crear, TypeOK, Respeta
  <2> QED
    BY <1>3, <1>4, <2>1, <2>2, <2>3
       DEF AccionDeSolicitud, Aprobar, Completar, Preparar, Despachar, Avanzar,
           Rechazar, Cancelar, Deshacer
<1>5. ASSUME NEW S \in SUBSET Cargas, NEW hacia \in Estados, NEW libre \in BOOLEAN,
             TransicionarMasivamente(S, hacia, libre)
      PROVE  Respeta
  <2>1. \A c \in S : <<estado[c], hacia>> \in Manuales
    BY <1>5 DEF TransicionarMasivamente
  <2>2. \A c \in S : ~Reclamada(c) /\ hacia \notin {"DISPATCH_REQUESTED", "PREPARING"}
    BY <1>1, <2>1 DEF SoloDeBodega
  <2> QED
    BY <1>5, <2>2 DEF TransicionarMasivamente, Mover, Respeta
<1>6. ASSUME NEW c \in Cargas, AccionDeCarga(c)
      PROVE  Respeta
  <2>1. ASSUME NEW hacia \in Estados, NEW libre \in BOOLEAN, Transicionar(c, hacia, libre)
        PROVE  Respeta
    BY <2>1, <1>5 DEF Transicionar
  <2> QED
    BY <1>2, <1>6, <2>1
       DEF AccionDeCarga, Archivar, CambiarEmpresa, AbrirRequisito, ResolverRequisito
<1>7. CASE UNCHANGED vars
  BY <1>7, <1>2 DEF vars
<1> QED
  BY <1>4, <1>5, <1>6, <1>7 DEF Next

\* The same two theorems from the bound on the moves by hand alone.
THEOREM AlineadoSinMovimientos ==
    ASSUME SoloDeBodega
    PROVE  Spec => [](Alineado /\ SinTrabas)
<1>1. AlineacionOK /\ [Next]_vars => AlineacionOK'
  BY DeBodegaRespeta, AlineacionPaso
<1>2. Spec => []AlineacionOK
  BY <1>1, AlineacionInicial, PTL DEF Spec
<1>3. AlineacionOK => Alineado /\ SinTrabas
  BY AlineacionDaAlineado, AlineacionDaSinTrabas
<1> QED
  BY <1>2, <1>3, PTL
=============================================================================
