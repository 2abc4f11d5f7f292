----------------------------- MODULE AccesosProofs -----------------------------
(***************************************************************************)
(* What holds of Accesos for any number of requests, accounts and          *)
(* companies: a request obtains permissions its actor has been given since *)
(* it started, and one of an account deleted before obtains none.          *)
(***************************************************************************)
EXTENDS Accesos, TLAPS

\* The history ends with the assignments there are, the cache has nothing of a
\* later version, and of the present one what is assigned.
CacheAlDia ==
    \A u \in Usuarios :
        /\ Len(historia[u]) > 0 /\ historia[u][Len(historia[u])] = asignadas[u]
        /\ cache[u][version[u]] \in {Nada, asignadas[u]}
        /\ \A v \in 1 .. MaxVersion : cache[u][v] # Nada => v <= version[u]

\* An account that was not created has no session and nothing in the cache.
SinCrearVacia ==
    \A u \in Usuarios : cuenta[u] = "SIN_CREAR" =>
        ~sesion[u] /\ \A v \in 1 .. MaxVersion : cache[u][v] = Nada

Leyendo == {"ENTRA", "VERSION", "CONSULTA", "GUARDA", "PERMITIDA"}

\* The actor of a request, and the version it read, which the actor has had
\* since the request started.
ActorFiel(o) ==
    /\ o.fase \in Leyendo \cup {"LOGIN"} => o.actor \in Usuarios /\ cuenta[o.actor] # "SIN_CREAR"
    /\ o.fase \in Leyendo => o.desde \in 1 .. Len(historia[o.actor])
    /\ o.fase \in {"VERSION", "CONSULTA", "GUARDA"} => o.version \in 1 .. version[o.actor]

\* What a request read from the database is what is assigned, if the version is
\* still the same, and what it obtained was assigned since it started.
PermisosFieles(o) ==
    /\ o.fase = "ENTRA" => o.permisos = {}
    /\ o.fase = "GUARDA" =>
         /\ Tuvo(historia[o.actor], o.desde, o.permisos)
         /\ o.version = version[o.actor] => o.permisos = asignadas[o.actor]
    /\ o.fase = "PERMITIDA" =>
         \/ Tuvo(historia[o.actor], o.desde, o.permisos)
         \/ o.permisos = {} /\ ~Existe(o.actor)

Editando(o) == o.fase \in {"EDITA", "ROLES"}

\* An edition is of an account, which is not deleted while its status is being
\* changed; a registration has a role.
EdicionPosible(o) ==
    /\ o.fase = "CREA" => o.sobre \in Usuarios /\ o.rol \in Roles
    /\ Editando(o) => o.sobre \in Usuarios
    /\ o.fase = "ROLES" => o.rol # Nada
    /\ Editando(o) /\ o.estado # Nada => Existe(o.sobre)

\* The actor of a request that found the account deleted stays deleted.
BorradaNadaObtiene(o) ==
    o.al = "BORRADA" =>
        /\ o.fase \in {"ENTRA", "PERMITIDA"} /\ o.permisos = {}
        /\ o.actor \in Usuarios /\ cuenta[o.actor] = "BORRADA"

PeticionFiel(o) ==
    ActorFiel(o) /\ PermisosFieles(o) /\ EdicionPosible(o) /\ BorradaNadaObtiene(o)

\* What a request that has the version may find in the cache, now or when
\* another saves what it read, has been assigned since the request started.
HallazgosFieles ==
    \A p \in Peticiones : op[p].fase = "VERSION" =>
        /\ cache[op[p].actor][op[p].version] # Nada =>
             Tuvo(historia[op[p].actor], op[p].desde, cache[op[p].actor][op[p].version])
        /\ \A q \in Peticiones :
             op[q].fase = "GUARDA" /\ op[q].actor = op[p].actor /\ op[q].version = op[p].version
                 => Tuvo(historia[op[p].actor], op[p].desde, op[q].permisos)

\* Changes of the status of one account do not overlap.
EdicionesSolas ==
    \A p \in Peticiones : Editando(op[p]) /\ op[p].estado # Nada =>
        \A q \in Peticiones \ {p} :
            Editando(op[q]) /\ op[q].estado # Nada => op[q].sobre # op[p].sobre

AccesosOK ==
    /\ TypeOK /\ CacheAlDia /\ SinCrearVacia /\ HallazgosFieles /\ EdicionesSolas
    /\ \A p \in Peticiones : PeticionFiel(op[p])

-----------------------------------------------------------------------------
FormaDeOp ==
    [fase : {"LIBRE", "LOGIN", "ENTRA", "VERSION", "CONSULTA", "GUARDA", "PERMITIDA", "CREA",
             "EDITA", "ROLES"},
     actor : Usuarios \cup {Nada}, version : 0 .. MaxVersion, desde : Nat,
     al : EstadosDeCuenta, permisos : SUBSET Asignaciones, sobre : Usuarios \cup {Nada},
     rol : Roles \cup {Nada}, estado : {Nada, "ACTIVE", "SUSPENDED"},
     filas : SUBSET Asignaciones, destino : Empresas \cup {Nada}]

\* A request that is doing nothing, of which nothing has to be said.
LEMMA LibreTipada ==
    /\ Libre \in FormaDeOp /\ Libre.fase = "LIBRE" /\ Libre.al = "SIN_CREAR"
    /\ Libre.permisos = {} /\ Libre.desde = 0 /\ Libre.version = 0 /\ Libre.estado = Nada
<1>1. 0 \in 0 .. MaxVersion
  BY Parametros
<1> QED
  BY <1>1 DEF Libre, FormaDeOp, EstadosDeCuenta

\* What is known of an edition when it begins has the form of a request.
LEMMA EdicionTipada ==
    ASSUME NEW u \in Usuarios, NEW s \in {Nada, "ACTIVE", "SUSPENDED"},
           NEW r \in Roles \cup {Nada}, NEW e \in Empresas \cup {Nada}
    PROVE  [Libre EXCEPT !.fase = "EDITA", !.sobre = u, !.estado = s, !.rol = r,
                         !.destino = e] \in FormaDeOp
<1> DEFINE a == [Libre EXCEPT !.fase = "EDITA", !.sobre = u]
           b == [a EXCEPT !.estado = s]
           c == [b EXCEPT !.rol = r]
<1>1. a \in FormaDeOp
  BY LibreTipada DEF FormaDeOp
<1> HIDE DEF a
<1>2. b \in FormaDeOp
  BY <1>1 DEF FormaDeOp
<1> HIDE DEF b
<1>3. c \in FormaDeOp
  BY <1>2 DEF FormaDeOp
<1> HIDE DEF c
<1>4. [c EXCEPT !.destino = e] \in FormaDeOp
  BY <1>3 DEF FormaDeOp
<1> QED
  BY <1>4 DEF a, b, c

\* Nothing has to be said of a request that is doing nothing.
LEMMA LibreFiel == PeticionFiel(Libre) /\ PeticionFiel(Libre)'
  BY LibreTipada
     DEF PeticionFiel, ActorFiel, PermisosFieles, EdicionPosible, BorradaNadaObtiene, Leyendo,
         Editando

\* The history only grows, so what was assigned once stays so.
LEMMA TuvoSigue ==
    ASSUME NEW S, NEW h \in Seq(S), NEW x \in S, NEW d \in 1 .. Len(h), NEW filas,
           Tuvo(h, d, filas)
    PROVE  Tuvo(Append(h, x), d, filas)
<1>1. PICK i \in d .. Len(h) : filas = h[i]
  BY DEF Tuvo
<1>2. Len(h) \in Nat /\ Len(Append(h, x)) = Len(h) + 1
  OBVIOUS
<1>3. i \in 1 .. Len(h) /\ i \in d .. Len(Append(h, x))
  BY <1>2
<1>4. Append(h, x)[i] = h[i]
  BY <1>3
<1> QED
  BY <1>1, <1>3, <1>4 DEF Tuvo

\* The last of the history is assigned now.
LEMMA TuvoUltima ==
    ASSUME NEW S, NEW h \in Seq(S), NEW d \in 1 .. Len(h)
    PROVE  Tuvo(h, d, h[Len(h)])
<1>1. Len(h) \in Nat /\ Len(h) \in d .. Len(h)
  OBVIOUS
<1> QED
  BY <1>1 DEF Tuvo

\* At the start the administrator is logged in and nobody is asking.
LEMMA AccesosInicial == Init => AccesosOK
<1> SUFFICES ASSUME Init PROVE AccesosOK
  OBVIOUS
<1>1. PICK a \in Usuarios, filas \in [Usuarios -> {Nada} \cup Empresas] :
        /\ empresaDe = filas /\ filas[a] = Nada
        /\ cuenta = [u \in Usuarios |->
             IF u = a \/ filas[u] # Nada THEN "ACTIVE" ELSE "SIN_CREAR"]
        /\ asignadas = [u \in Usuarios |->
             IF u = a THEN {[rol |-> "ADMIN", alcance |-> Nada]}
             ELSE IF filas[u] # Nada THEN {[rol |-> "CLIENTE", alcance |-> filas[u]]} ELSE {}]
        /\ sesion = [u \in Usuarios |-> u = a]
  BY DEF Init
<1>2. /\ historia = [u \in Usuarios |-> <<asignadas[u]>>]
      /\ version = [u \in Usuarios |-> 1]
      /\ empresa = [e \in Empresas |-> "ACTIVE"]
      /\ cache = [u \in Usuarios |-> [v \in 1 .. MaxVersion |-> Nada]]
      /\ op = [p \in Peticiones |-> Libre]
  BY DEF Init
<1>3. asignadas \in [Usuarios -> SUBSET Asignaciones]
  <2>1. [rol |-> "ADMIN", alcance |-> Nada] \in Asignaciones
    BY DEF Asignaciones, Roles, Internos
  <2>2. \A u \in Usuarios : [rol |-> "CLIENTE", alcance |-> filas[u]] \in Asignaciones
    BY DEF Asignaciones, Roles
  <2> QED
    BY <1>1, <2>1, <2>2
<1>4. 1 \in 1 .. MaxVersion
  BY Parametros
<1>5. TypeOK
  <2>1. op \in [Peticiones -> FormaDeOp]
    BY <1>2, LibreTipada
  <2>2. historia \in [Usuarios -> Seq(SUBSET Asignaciones)]
    BY <1>2, <1>3
  <2>3. cuenta \in [Usuarios -> EstadosDeCuenta] /\ sesion \in [Usuarios -> BOOLEAN]
    BY <1>1 DEF EstadosDeCuenta
  <2>4. version \in [Usuarios -> 1 .. MaxVersion]
    BY <1>2, <1>4
  <2> QED
    BY <1>1, <1>2, <1>3, <2>1, <2>2, <2>3, <2>4 DEF TypeOK, FormaDeOp
<1>6. CacheAlDia
  BY <1>2, <1>3, <1>4 DEF CacheAlDia
<1>7. SinCrearVacia
  BY <1>1, <1>2 DEF SinCrearVacia
<1>8. HallazgosFieles /\ EdicionesSolas
  BY <1>2, LibreTipada DEF HallazgosFieles, EdicionesSolas, Editando
<1>9. \A p \in Peticiones : PeticionFiel(op[p])
  BY <1>2, LibreFiel
<1> QED
  BY <1>5, <1>6, <1>7, <1>8, <1>9 DEF AccesosOK

\* A step of one request that changes no account keeps the invariant when what
\* it leaves of itself is right, alone and against what the others found.
LEMMA CambiarPeticion ==
    ASSUME AccesosOK, NEW p \in Peticiones, NEW o \in FormaDeOp, op' = [op EXCEPT ![p] = o],
           UNCHANGED <<cuentaVars, cache>>,
           sesion' \in [Usuarios -> BOOLEAN],
           empresa' \in [Empresas -> {"ACTIVE", "SUSPENDED", "CLOSED"}],
           \A u \in Usuarios : sesion'[u] => sesion[u] \/ cuenta[u] # "SIN_CREAR",
           PeticionFiel(o),
           o.fase = "VERSION" =>
             /\ cache[o.actor][o.version] # Nada =>
                  Tuvo(historia[o.actor], o.desde, cache[o.actor][o.version])
             /\ \A q \in Peticiones :
                  op[q].fase = "GUARDA" /\ op[q].actor = o.actor /\ op[q].version = o.version
                      => Tuvo(historia[o.actor], o.desde, op[q].permisos),
           o.fase = "GUARDA" => \A q \in Peticiones :
                  op[q].fase = "VERSION" /\ op[q].actor = o.actor /\ op[q].version = o.version
                      => Tuvo(historia[o.actor], op[q].desde, o.permisos),
           Editando(o) /\ o.estado # Nada =>
             \/ FilaLibre(o.sobre)
             \/ Editando(op[p]) /\ op[p].estado = o.estado /\ op[p].sobre = o.sobre
    PROVE  AccesosOK'
<1> USE DEF cuentaVars
<1>1. \A q \in Peticiones : op'[q] = IF q = p THEN o ELSE op[q]
  BY DEF AccesosOK, TypeOK
<1>2. TypeOK'
  BY DEF AccesosOK, TypeOK, FormaDeOp
<1>3. CacheAlDia' /\ SinCrearVacia'
  <2>1. \A u \in Usuarios : cuenta[u] = "SIN_CREAR" => ~sesion'[u]
    BY DEF AccesosOK, SinCrearVacia
  <2> QED
    BY <2>1 DEF AccesosOK, CacheAlDia, SinCrearVacia
<1>4. HallazgosFieles'
  BY <1>1 DEF AccesosOK, HallazgosFieles
<1>5. EdicionesSolas'
  BY <1>1 DEF AccesosOK, EdicionesSolas, FilaLibre, Editando
<1>6. \A q \in Peticiones : PeticionFiel(op[q])'
  <2>1. \A q \in Peticiones : PeticionFiel(op'[q])
    BY <1>1 DEF AccesosOK
  <2> QED
    BY <2>1 DEF PeticionFiel, ActorFiel, PermisosFieles, EdicionPosible, BorradaNadaObtiene, Existe
<1> QED
  BY <1>2, <1>3, <1>4, <1>5, <1>6 DEF AccesosOK

\* A request that ends and changes no account keeps the invariant.
LEMMA FinConserva ==
    ASSUME AccesosOK, NEW p \in Peticiones, Fin(p), UNCHANGED <<cuentaVars, cache>>,
           sesion' \in [Usuarios -> BOOLEAN],
           empresa' \in [Empresas -> {"ACTIVE", "SUSPENDED", "CLOSED"}],
           \A u \in Usuarios : sesion'[u] => sesion[u] \/ cuenta[u] # "SIN_CREAR"
    PROVE  AccesosOK'
<1>1. op' = [op EXCEPT ![p] = Libre]
  BY DEF Fin
<1> QED
  BY <1>1, LibreTipada, LibreFiel, CambiarPeticion DEF Editando

\* What a step may use of the types.
LEMMA Tipos ==
    ASSUME AccesosOK
    PROVE  /\ op \in [Peticiones -> FormaDeOp] /\ MaxVersion \in Nat \ {0}
           /\ cuenta \in [Usuarios -> EstadosDeCuenta] /\ version \in [Usuarios -> 1 .. MaxVersion]
           /\ asignadas \in [Usuarios -> SUBSET Asignaciones]
           /\ sesion \in [Usuarios -> BOOLEAN] /\ empresaDe \in [Usuarios -> Empresas \cup {Nada}]
           /\ empresa \in [Empresas -> {"ACTIVE", "SUSPENDED", "CLOSED"}]
           /\ historia \in [Usuarios -> Seq(SUBSET Asignaciones)]
           /\ cache \in [Usuarios -> [1 .. MaxVersion -> {Nada} \cup SUBSET Asignaciones]]
           /\ \A p \in Peticiones : PeticionFiel(op[p])
  BY Parametros DEF AccesosOK, TypeOK, FormaDeOp

\* A login is of an account that exists, and a session too.
LEMMA EntradaConserva ==
    ASSUME AccesosOK, NEW p \in Peticiones, Entrada(p)
    PROVE  AccesosOK'
<1>1. CASE AbrirSesion(p)
  <2>1. /\ op[p].actor \in Usuarios /\ cuenta[op[p].actor] # "SIN_CREAR"
        /\ sesion' = [sesion EXCEPT ![op[p].actor] = TRUE]
    BY <1>1, Tipos DEF AbrirSesion, PeticionFiel, ActorFiel
  <2>2. /\ sesion' \in [Usuarios -> BOOLEAN]
        /\ \A u \in Usuarios : sesion'[u] => sesion[u] \/ cuenta[u] # "SIN_CREAR"
    BY <2>1, Tipos
  <2> QED
    BY <1>1, <2>2, Tipos, FinConserva DEF AbrirSesion
<1>2. ASSUME NEW u \in Usuarios, Login(p, u) PROVE AccesosOK'
  <2> DEFINE o == [Libre EXCEPT !.fase = "LOGIN", !.actor = u]
  <2>1. op' = [op EXCEPT ![p] = o] /\ cuenta[u] = "ACTIVE"
    BY <1>2 DEF Login
  <2>2. o \in FormaDeOp /\ o.fase = "LOGIN" /\ o.actor = u /\ o.al = "SIN_CREAR"
    <3>1. o.fase = "LOGIN" /\ o.actor = u /\ o.al = "SIN_CREAR"
      BY LibreTipada DEF FormaDeOp
    <3>2. o \in FormaDeOp
      BY LibreTipada DEF FormaDeOp
    <3> QED
      BY <3>1, <3>2
  <2> HIDE DEF o
  <2>3. PeticionFiel(o)
    BY <2>1, <2>2 DEF PeticionFiel, ActorFiel, PermisosFieles, EdicionPosible,
                      BorradaNadaObtiene, Leyendo, Editando
  <2> QED
    BY <1>2, <2>1, <2>2, <2>3, Tipos, CambiarPeticion DEF Login, Editando
<1>3. ASSUME NEW u \in Usuarios, Autenticar(p, u) PROVE AccesosOK'
  <2> DEFINE o == [Libre EXCEPT !.fase = "ENTRA", !.actor = u, !.al = cuenta[u],
                                !.desde = Len(historia[u])]
  <2>1. op' = [op EXCEPT ![p] = o] /\ sesion[u]
    BY <1>3 DEF Autenticar
  <2>2. cuenta[u] \in EstadosDeCuenta /\ Len(historia[u]) \in Nat
    BY Tipos
  <2>3. /\ o \in FormaDeOp /\ o.fase = "ENTRA" /\ o.actor = u /\ o.al = cuenta[u]
        /\ o.permisos = {} /\ o.desde = Len(historia[u])
    <3>1. /\ o.fase = "ENTRA" /\ o.actor = u /\ o.al = cuenta[u]
          /\ o.permisos = {} /\ o.desde = Len(historia[u])
      BY LibreTipada DEF FormaDeOp
    <3>2. o \in FormaDeOp
      BY <2>2, LibreTipada DEF FormaDeOp
    <3> QED
      BY <3>1, <3>2
  <2> HIDE DEF o
  <2>4. cuenta[u] # "SIN_CREAR" /\ Len(historia[u]) \in 1 .. Len(historia[u])
    BY <2>1, <2>2 DEF AccesosOK, SinCrearVacia, CacheAlDia
  <2>5. PeticionFiel(o)
    BY <2>3, <2>4 DEF PeticionFiel, ActorFiel, PermisosFieles, EdicionPosible,
                      BorradaNadaObtiene, Leyendo, Editando
  <2> QED
    BY <1>3, <2>1, <2>3, <2>5, Tipos, CambiarPeticion DEF Autenticar, Editando
<1> QED
  BY <1>1, <1>2, <1>3 DEF Entrada

\* The version, the cache and the database, in that order: what is found under
\* the version read has been assigned since the request started.
LEMMA LecturaConserva ==
    ASSUME AccesosOK, NEW p \in Peticiones, LeerVersion(p) \/ LeerCache(p) \/ Consultar(p)
    PROVE  AccesosOK'
<1>0. PICK u \in Usuarios : u = op[p].actor
  BY Tipos DEF LeerVersion, LeerCache, Consultar, PeticionFiel, ActorFiel, Leyendo
<1>1. /\ op[p] \in FormaDeOp /\ PeticionFiel(op[p]) /\ cuenta[u] # "SIN_CREAR"
      /\ op[p].desde \in 1 .. Len(historia[u]) /\ historia[u] \in Seq(SUBSET Asignaciones)
      /\ op[p].al = "BORRADA" => op[p].permisos = {} /\ cuenta[u] = "BORRADA"
                                 /\ op[p].fase \in {"ENTRA", "PERMITIDA"}
  BY <1>0, Tipos DEF LeerVersion, LeerCache, Consultar, PeticionFiel, ActorFiel, Leyendo,
                     BorradaNadaObtiene
<1>2. /\ version[u] \in 1 .. MaxVersion /\ version[u] \in 0 .. MaxVersion
      /\ asignadas[u] \in SUBSET Asignaciones /\ asignadas[u] = historia[u][Len(historia[u])]
      /\ cache[u][version[u]] \in {Nada, asignadas[u]}
  <2>1. version[u] \in 1 .. MaxVersion /\ MaxVersion \in Nat
    BY Tipos
  <2> QED
    BY <2>1, Tipos DEF AccesosOK, CacheAlDia
<1>3. UNCHANGED <<cuentaVars, sesion, empresa, cache>>
  BY DEF LeerVersion, LeerCache, Consultar
<1>4. \A q \in Peticiones : op[q].fase \in Leyendo /\ op[q].actor = u =>
        Tuvo(historia[u], op[q].desde, asignadas[u])
  BY <1>1, <1>2, Tipos, TuvoUltima DEF PeticionFiel, ActorFiel
<1>5. CASE LeerVersion(p)
  <2>1. CASE Existe(u)
    <3> DEFINE o == [op[p] EXCEPT !.version = version[u], !.fase = "VERSION"]
    <3>1. op' = [op EXCEPT ![p] = o] /\ op[p].fase = "ENTRA"
      BY <1>0, <1>5, <2>1, Tipos DEF LeerVersion
    <3>2. /\ o \in FormaDeOp /\ o.fase = "VERSION" /\ o.version = version[u] /\ o.actor = u
          /\ o.desde = op[p].desde /\ o.permisos = op[p].permisos /\ o.al = op[p].al
      BY <1>0, <1>1, <1>2 DEF FormaDeOp
    <3> HIDE DEF o
    <3>3. PeticionFiel(o)
      <4>1. cuenta[u] # "BORRADA" /\ version[u] \in 1 .. version[u]
        BY <1>2, <2>1 DEF Existe
      <4> QED
        BY <1>1, <3>1, <3>2, <4>1
           DEF PeticionFiel, ActorFiel, PermisosFieles, EdicionPosible, BorradaNadaObtiene,
               Leyendo, Editando
    <3>4. Tuvo(historia[u], o.desde, asignadas[u])
      BY <1>0, <1>4, <3>1, <3>2 DEF Leyendo
    <3>5. \A q \in Peticiones :
            op[q].fase = "GUARDA" /\ op[q].actor = u /\ op[q].version = version[u]
                => op[q].permisos = asignadas[u]
      BY Tipos DEF PeticionFiel, PermisosFieles
    <3> QED
      BY <1>2, <1>3, <3>1, <3>2, <3>3, <3>4, <3>5, Tipos, CambiarPeticion DEF Editando
  <2>2. CASE ~Existe(u)
    <3> DEFINE o == [op[p] EXCEPT !.version = version[u], !.fase = "PERMITIDA"]
    <3>1. op' = [op EXCEPT ![p] = o] /\ op[p].fase = "ENTRA"
      BY <1>0, <1>5, <2>2, Tipos DEF LeerVersion
    <3>2. /\ o \in FormaDeOp /\ o.fase = "PERMITIDA" /\ o.actor = u
          /\ o.desde = op[p].desde /\ o.permisos = op[p].permisos /\ o.al = op[p].al
      BY <1>0, <1>1, <1>2 DEF FormaDeOp
    <3> HIDE DEF o
    <3>3. PeticionFiel(o)
      BY <1>1, <2>2, <3>1, <3>2
         DEF PeticionFiel, ActorFiel, PermisosFieles, EdicionPosible, BorradaNadaObtiene,
             Leyendo, Editando
    <3> QED
      BY <1>3, <3>1, <3>2, <3>3, Tipos, CambiarPeticion DEF Editando
  <2> QED
    BY <2>1, <2>2
<1>6. CASE LeerCache(p)
  <2>0. PICK v \in 1 .. MaxVersion : v = op[p].version
    <3>1. op[p].version \in 1 .. version[u] /\ version[u] \in 1 .. MaxVersion
      BY <1>0, <1>1, <1>2, <1>6 DEF LeerCache, PeticionFiel, ActorFiel
    <3> QED
      BY <3>1, Tipos
  <2>1. CASE cache[u][v] = Nada
    <3> DEFINE o == [op[p] EXCEPT !.fase = "CONSULTA"]
    <3>1. op' = [op EXCEPT ![p] = o] /\ op[p].fase = "VERSION"
      BY <1>0, <1>6, <2>0, <2>1, Tipos DEF LeerCache
    <3>2. /\ o \in FormaDeOp /\ o.fase = "CONSULTA" /\ o.version = op[p].version /\ o.actor = u
          /\ o.desde = op[p].desde /\ o.al = op[p].al
      BY <1>0, <1>1 DEF FormaDeOp
    <3> HIDE DEF o
    <3>3. PeticionFiel(o)
      BY <1>0, <1>1, <3>1, <3>2
         DEF PeticionFiel, ActorFiel, PermisosFieles, EdicionPosible, BorradaNadaObtiene,
             Leyendo, Editando
    <3> QED
      BY <1>3, <3>1, <3>2, <3>3, Tipos, CambiarPeticion DEF Editando
  <2>2. CASE cache[u][v] # Nada
    <3> DEFINE o == [op[p] EXCEPT !.fase = "PERMITIDA", !.permisos = cache[u][v], !.version = 0]
    <3>1. op' = [op EXCEPT ![p] = o] /\ op[p].fase = "VERSION"
      BY <1>0, <1>6, <2>0, <2>2, Tipos DEF LeerCache
    <3>2. cache[u][v] \in SUBSET Asignaciones /\ 0 \in 0 .. MaxVersion
      BY <2>2, Tipos
    <3>3. /\ o \in FormaDeOp /\ o.fase = "PERMITIDA" /\ o.permisos = cache[u][v] /\ o.actor = u
          /\ o.desde = op[p].desde /\ o.al = op[p].al
      BY <1>0, <1>1, <3>2 DEF FormaDeOp
    <3> HIDE DEF o
    <3>4. Tuvo(historia[u], op[p].desde, cache[u][v])
      BY <1>0, <2>0, <2>2, <3>1 DEF AccesosOK, HallazgosFieles
    <3>5. PeticionFiel(o)
      BY <1>1, <3>1, <3>3, <3>4
         DEF PeticionFiel, ActorFiel, PermisosFieles, EdicionPosible, BorradaNadaObtiene,
             Leyendo, Editando
    <3> QED
      BY <1>3, <3>1, <3>3, <3>5, Tipos, CambiarPeticion DEF Editando
  <2> QED
    BY <2>1, <2>2
<1>7. CASE Consultar(p)
  <2> DEFINE o == [op[p] EXCEPT !.fase = "GUARDA", !.permisos = asignadas[u]]
  <2>1. op' = [op EXCEPT ![p] = o] /\ op[p].fase = "CONSULTA"
    BY <1>0, <1>7, Tipos DEF Consultar
  <2>2. /\ o \in FormaDeOp /\ o.fase = "GUARDA" /\ o.permisos = asignadas[u] /\ o.actor = u
        /\ o.desde = op[p].desde /\ o.al = op[p].al /\ o.version = op[p].version
    BY <1>0, <1>1, <1>2 DEF FormaDeOp
  <2> HIDE DEF o
  <2>3. PeticionFiel(o)
    BY <1>0, <1>1, <1>4, <2>1, <2>2
       DEF PeticionFiel, ActorFiel, PermisosFieles, EdicionPosible, BorradaNadaObtiene,
           Leyendo, Editando
  <2> QED
    BY <1>3, <1>4, <2>1, <2>2, <2>3, Tipos, CambiarPeticion DEF Editando, Leyendo
<1> QED
  BY <1>5, <1>6, <1>7

\* What a request saves in the cache was read under the version it is saved
\* for, so those that find it there may use it.
LEMMA GuardarEnCacheConserva ==
    ASSUME AccesosOK, NEW p \in Peticiones, GuardarEnCache(p)
    PROVE  AccesosOK'
<1>0. PICK u \in Usuarios, v \in 1 .. MaxVersion, filas \in SUBSET Asignaciones :
        u = op[p].actor /\ v = op[p].version /\ filas = op[p].permisos
  <2>1. op[p].actor \in Usuarios /\ op[p].permisos \in SUBSET Asignaciones
    BY Tipos DEF GuardarEnCache, PeticionFiel, ActorFiel, FormaDeOp, Leyendo
  <2>2. op[p].version \in 1 .. version[op[p].actor] /\ version[op[p].actor] \in 1 .. MaxVersion
    BY <2>1, Tipos DEF GuardarEnCache, PeticionFiel, ActorFiel
  <2>3. op[p].version \in 1 .. MaxVersion
    BY <2>2, Tipos
  <2> QED
    BY <2>1, <2>3
<1>1. /\ cuenta[u] # "SIN_CREAR" /\ v \in 1 .. version[u]
      /\ v = version[u] => filas = asignadas[u]
      /\ op[p].desde \in 1 .. Len(historia[u])
      /\ Tuvo(historia[u], op[p].desde, filas) /\ op[p].al # "BORRADA"
      /\ op[p].fase = "GUARDA" /\ op[p] \in FormaDeOp
  BY <1>0, Tipos DEF GuardarEnCache, PeticionFiel, ActorFiel, PermisosFieles,
                     BorradaNadaObtiene, Leyendo
<1>2. /\ cache' = [cache EXCEPT ![u][v] = filas]
      /\ UNCHANGED <<cuenta, empresaDe, asignadas, version, historia, sesion, empresa>>
  BY <1>0 DEF GuardarEnCache, cuentaVars
<1>3. /\ cache' \in [Usuarios -> [1 .. MaxVersion -> {Nada} \cup SUBSET Asignaciones]]
      /\ \A w \in Usuarios, x \in 1 .. MaxVersion :
           cache'[w][x] = IF w = u /\ x = v THEN filas ELSE cache[w][x]
  BY <1>2, Tipos
<1> DEFINE o == [op[p] EXCEPT !.fase = "PERMITIDA", !.version = 0]
<1>4. op' = [op EXCEPT ![p] = o]
  BY Tipos DEF GuardarEnCache
<1>5. /\ o \in FormaDeOp /\ o.fase = "PERMITIDA" /\ o.permisos = filas /\ o.actor = u
      /\ o.desde = op[p].desde /\ o.al = op[p].al
  <2>1. 0 \in 0 .. MaxVersion
    BY Tipos
  <2> QED
    BY <1>0, <1>1, <2>1 DEF FormaDeOp
<1> HIDE DEF o
<1>6. op' \in [Peticiones -> FormaDeOp] /\ \A q \in Peticiones : op'[q] = IF q = p THEN o ELSE op[q]
  BY <1>4, <1>5, Tipos
<1>7. TypeOK'
  BY <1>2, <1>3, <1>6 DEF AccesosOK, TypeOK, FormaDeOp
<1>8. CacheAlDia' /\ SinCrearVacia'
  <2>1. \A w \in Usuarios : version[w] \in 1 .. MaxVersion
    BY Tipos
  <2>2. CacheAlDia'
    BY <1>1, <1>2, <1>3, <2>1 DEF AccesosOK, CacheAlDia
  <2>3. SinCrearVacia'
    BY <1>1, <1>2, <1>3 DEF AccesosOK, SinCrearVacia
  <2> QED
    BY <2>2, <2>3
<1>9. HallazgosFieles'
  <2>1. ASSUME NEW q \in Peticiones, op'[q].fase = "VERSION"
        PROVE  /\ op'[q] = op[q] /\ op[q].actor \in Usuarios
               /\ op[q].version \in 1 .. MaxVersion
    <3>1. op'[q] = op[q]
      BY <1>5, <1>6, <2>1
    <3>2. /\ op[q].actor \in Usuarios /\ op[q].version \in 1 .. version[op[q].actor]
          /\ version[op[q].actor] \in 1 .. MaxVersion
      BY <2>1, <3>1, Tipos DEF PeticionFiel, ActorFiel, Leyendo
    <3> QED
      BY <3>1, <3>2, Tipos
  <2>2. ASSUME NEW q \in Peticiones, op'[q].fase = "VERSION",
               cache'[op[q].actor][op[q].version] # Nada
        PROVE  Tuvo(historia[op[q].actor], op[q].desde, cache'[op[q].actor][op[q].version])
    BY <1>0, <1>1, <1>3, <2>1, <2>2 DEF AccesosOK, HallazgosFieles
  <2>3. ASSUME NEW q \in Peticiones, NEW r \in Peticiones, op'[q].fase = "VERSION",
               op'[r].fase = "GUARDA", op'[r].actor = op[q].actor, op'[r].version = op[q].version
        PROVE  Tuvo(historia[op[q].actor], op[q].desde, op'[r].permisos)
    BY <1>5, <1>6, <2>1, <2>3 DEF AccesosOK, HallazgosFieles
  <2> QED
    BY <1>2, <2>1, <2>2, <2>3 DEF HallazgosFieles
<1>10. EdicionesSolas'
  BY <1>5, <1>6 DEF AccesosOK, EdicionesSolas, Editando
<1>11. \A q \in Peticiones : PeticionFiel(op[q])'
  <2>1. PeticionFiel(o)
    BY <1>1, <1>5 DEF PeticionFiel, ActorFiel, PermisosFieles, EdicionPosible,
                             BorradaNadaObtiene, Leyendo, Editando
  <2>2. \A q \in Peticiones : PeticionFiel(op'[q])
    BY <1>6, <2>1, Tipos
  <2> QED
    BY <1>2, <2>2
       DEF PeticionFiel, ActorFiel, PermisosFieles, EdicionPosible, BorradaNadaObtiene, Existe
<1> QED
  BY <1>7, <1>8, <1>9, <1>10, <1>11 DEF AccesosOK

\* An entry that is gone from the cache is not found.
LEMMA CaducarConserva ==
    ASSUME AccesosOK, NEW u \in Usuarios, NEW v \in 1 .. MaxVersion, Caducar(u, v)
    PROVE  AccesosOK'
<1>1. UNCHANGED <<cuenta, empresaDe, asignadas, version, historia, sesion, empresa, op>>
  BY DEF Caducar, cuentaVars
<1>2. /\ cache' \in [Usuarios -> [1 .. MaxVersion -> {Nada} \cup SUBSET Asignaciones]]
      /\ \A w \in Usuarios, x \in 1 .. MaxVersion : cache'[w][x] \in {Nada, cache[w][x]}
  BY Tipos DEF Caducar
<1>3. TypeOK'
  BY <1>1, <1>2 DEF AccesosOK, TypeOK
<1>4. CacheAlDia' /\ SinCrearVacia'
  <2>1. \A w \in Usuarios : version[w] \in 1 .. MaxVersion
    BY Tipos
  <2>2. CacheAlDia'
    BY <1>1, <1>2, <2>1 DEF AccesosOK, CacheAlDia
  <2>3. SinCrearVacia'
    BY <1>1, <1>2 DEF AccesosOK, SinCrearVacia
  <2> QED
    BY <2>2, <2>3
<1>5. HallazgosFieles'
  <2>1. ASSUME NEW q \in Peticiones, op[q].fase = "VERSION"
        PROVE  op[q].actor \in Usuarios /\ op[q].version \in 1 .. MaxVersion
    <3>1. /\ op[q].actor \in Usuarios /\ op[q].version \in 1 .. version[op[q].actor]
          /\ version[op[q].actor] \in 1 .. MaxVersion
      BY <2>1, Tipos DEF PeticionFiel, ActorFiel, Leyendo
    <3> QED
      BY <3>1, Tipos
  <2> QED
    BY <1>1, <1>2, <2>1 DEF AccesosOK, HallazgosFieles
<1>6. EdicionesSolas' /\ \A q \in Peticiones : PeticionFiel(op[q])'
  BY <1>1, Tipos DEF AccesosOK, EdicionesSolas, FilaLibre, PeticionFiel, ActorFiel,
     PermisosFieles, EdicionPosible, BorradaNadaObtiene, Existe
<1> QED
  BY <1>3, <1>4, <1>5, <1>6 DEF AccesosOK

\* What an administrator's request reads before it writes.
LEMMA AdministrarConserva ==
    ASSUME AccesosOK, NEW p \in Peticiones,
           \/ Responder(p) \/ TomarRoles(p) \/ AbandonarEdicion(p)
           \/ \E e \in Empresas, s \in {"ACTIVE", "SUSPENDED"} : ActualizarEmpresa(p, e, s)
           \/ \E u \in Usuarios, r \in Roles, e \in Empresas \cup {Nada} : ComprobarAlta(p, u, r, e)
           \/ \E u \in Usuarios, s \in {Nada, "ACTIVE", "SUSPENDED"}, r \in Roles \cup {Nada} :
                 EditarUsuario(p, u, s, r)
    PROVE  AccesosOK'
<1>0. UNCHANGED <<cuentaVars, cache>> /\ UNCHANGED sesion
  BY DEF Responder, TomarRoles, AbandonarEdicion, ActualizarEmpresa, ComprobarAlta, EditarUsuario
<1>1. CASE Responder(p) \/ AbandonarEdicion(p)
  BY <1>0, <1>1, Tipos, FinConserva DEF Responder, AbandonarEdicion
<1>2. ASSUME NEW e \in Empresas, NEW s \in {"ACTIVE", "SUSPENDED"}, ActualizarEmpresa(p, e, s)
      PROVE  AccesosOK'
  BY <1>0, <1>2, Tipos, FinConserva DEF ActualizarEmpresa
<1>3. ASSUME NEW u \in Usuarios, NEW r \in Roles, NEW e \in Empresas \cup {Nada},
             ComprobarAlta(p, u, r, e)
      PROVE  AccesosOK'
  <2> DEFINE o == [Libre EXCEPT !.fase = "CREA", !.sobre = u, !.rol = r, !.destino = e]
  <2>1. op' = [op EXCEPT ![p] = o] /\ UNCHANGED empresa
    BY <1>3 DEF ComprobarAlta
  <2>2. o \in FormaDeOp /\ o.fase = "CREA" /\ o.al = "SIN_CREAR" /\ o.sobre = u /\ o.rol = r
    <3>1. o.fase = "CREA" /\ o.al = "SIN_CREAR" /\ o.sobre = u /\ o.rol = r
      BY LibreTipada DEF FormaDeOp
    <3>2. o \in FormaDeOp
      BY LibreTipada DEF FormaDeOp
    <3> QED
      BY <3>1, <3>2
  <2> HIDE DEF o
  <2>3. PeticionFiel(o)
    BY <2>2 DEF PeticionFiel, ActorFiel, PermisosFieles, EdicionPosible, BorradaNadaObtiene,
                Leyendo, Editando
  <2> QED
    BY <1>0, <2>1, <2>2, <2>3, Tipos, CambiarPeticion DEF Editando
<1>4. ASSUME NEW u \in Usuarios, NEW s \in {Nada, "ACTIVE", "SUSPENDED"},
             NEW r \in Roles \cup {Nada}, EditarUsuario(p, u, s, r)
      PROVE  AccesosOK'
  <2> DEFINE o == [Libre EXCEPT !.fase = "EDITA", !.sobre = u, !.estado = s, !.rol = r,
                                !.destino = empresaDe[u]]
  <2>1. /\ op' = [op EXCEPT ![p] = o] /\ UNCHANGED empresa
        /\ Existe(u) /\ (s # Nada => FilaLibre(u))
    BY <1>4 DEF EditarUsuario
  <2>2. empresaDe[u] \in Empresas \cup {Nada}
    BY Tipos
  <2>3. o \in FormaDeOp /\ o.fase = "EDITA" /\ o.al = "SIN_CREAR" /\ o.sobre = u /\ o.estado = s
    <3>1. o.fase = "EDITA" /\ o.al = "SIN_CREAR" /\ o.sobre = u /\ o.estado = s
      BY LibreTipada DEF FormaDeOp
    <3>2. o \in FormaDeOp
      BY <2>2, EdicionTipada
    <3> QED
      BY <3>1, <3>2
  <2> HIDE DEF o
  <2>4. PeticionFiel(o)
    BY <2>1, <2>3 DEF PeticionFiel, ActorFiel, PermisosFieles, EdicionPosible,
                      BorradaNadaObtiene, Leyendo, Editando
  <2> QED
    BY <1>0, <2>1, <2>3, <2>4, Tipos, CambiarPeticion DEF Editando
<1>5. CASE TomarRoles(p)
  <2>1. PICK filas \in SUBSET Asignaciones : filas = asignadas[op[p].sobre]
    BY <1>5, Tipos DEF TomarRoles, PeticionFiel, EdicionPosible, Editando
  <2> DEFINE o == [op[p] EXCEPT !.fase = "ROLES", !.filas = filas]
  <2>2. op' = [op EXCEPT ![p] = o] /\ op[p].fase = "EDITA" /\ op[p].rol # Nada /\ UNCHANGED empresa
    BY <1>5, <2>1, Tipos DEF TomarRoles
  <2>3. /\ o \in FormaDeOp /\ o.fase = "ROLES" /\ o.sobre = op[p].sobre
        /\ o.estado = op[p].estado /\ o.rol = op[p].rol /\ o.al = op[p].al
    <3>1. op[p] \in FormaDeOp
      BY Tipos
    <3>2. o \in FormaDeOp
      BY <3>1 DEF FormaDeOp
    <3>3. o.fase = "ROLES" /\ o.sobre = op[p].sobre
      BY <3>1 DEF FormaDeOp
    <3>4. o.estado = op[p].estado /\ o.rol = op[p].rol /\ o.al = op[p].al
      BY <3>1 DEF FormaDeOp
    <3> QED
      BY <3>2, <3>3, <3>4
  <2> HIDE DEF o
  <2>4. PeticionFiel(o)
    BY <2>2, <2>3, Tipos DEF PeticionFiel, ActorFiel, PermisosFieles, EdicionPosible,
                             BorradaNadaObtiene, Leyendo, Editando
  <2> QED
    BY <1>0, <2>2, <2>3, <2>4, Tipos, CambiarPeticion DEF Editando
<1> QED
  BY <1>1, <1>2, <1>3, <1>4, <1>5

\* A version that goes up is a new one.
LEMMA SubeVersion ==
    ASSUME AccesosOK, NEW us \in SUBSET Usuarios, SubirVersion(us)
    PROVE  /\ version' \in [Usuarios -> 1 .. MaxVersion]
           /\ \A u \in Usuarios : version[u] <= version'[u] /\ (u \in us => version[u] < version'[u])
<1>1. \A u \in Usuarios : version[u] \in 1 .. MaxVersion /\ (u \in us => version[u] < MaxVersion)
  BY Tipos DEF SubirVersion
<1>2. \A u \in Usuarios : version'[u] = IF u \in us THEN version[u] + 1 ELSE version[u]
  BY DEF SubirVersion
<1>3. version' = [u \in Usuarios |-> version'[u]]
  BY DEF SubirVersion
<1>4. \A u \in Usuarios : version'[u] \in 1 .. MaxVersion
  BY <1>1, <1>2, Parametros
<1> QED
  BY <1>1, <1>2, <1>3, <1>4

\* An administrative change keeps the invariant: the assignments of an account
\* that exists change with its version, nobody deletes an account whose status
\* is being changed, and a deleted account stays deleted.
LEMMA CambiarCuentas ==
    ASSUME AccesosOK, NEW p \in Peticiones, Fin(p), cache' = cache,
           cuenta' \in [Usuarios -> EstadosDeCuenta],
           empresaDe' \in [Usuarios -> Empresas \cup {Nada}],
           asignadas' \in [Usuarios -> SUBSET Asignaciones],
           version' \in [Usuarios -> 1 .. MaxVersion],
           sesion' \in [Usuarios -> BOOLEAN],
           empresa' \in [Empresas -> {"ACTIVE", "SUSPENDED", "CLOSED"}],
           Anotar,
           \A u \in Usuarios : version[u] <= version'[u],
           \A u \in Usuarios : asignadas'[u] # asignadas[u] =>
               version[u] < version'[u] \/ cuenta[u] = "SIN_CREAR",
           \A u \in Usuarios : sesion'[u] => sesion[u],
           \A u \in Usuarios : cuenta'[u] = "SIN_CREAR" => cuenta[u] = "SIN_CREAR",
           \A u \in Usuarios : cuenta[u] = "BORRADA" => cuenta'[u] = "BORRADA",
           \A u \in Usuarios : Existe(u) => Existe(u)' \/ FilaLibre(u)
    PROVE  AccesosOK'
<1>1. \A q \in Peticiones : op'[q] = IF q = p THEN Libre ELSE op[q]
  BY Tipos DEF Fin
<1>2. \A u \in Usuarios : historia'[u] = IF asignadas'[u] = asignadas[u] THEN historia[u]
                                          ELSE Append(historia[u], asignadas'[u])
  BY DEF Anotar
<1>3. ASSUME NEW u \in Usuarios
      PROVE  /\ historia'[u] \in Seq(SUBSET Asignaciones)
             /\ Len(historia[u]) \in Nat /\ Len(historia'[u]) \in Nat
             /\ 0 < Len(historia[u]) /\ Len(historia[u]) <= Len(historia'[u])
             /\ historia'[u][Len(historia'[u])] = asignadas'[u]
  <2>1. /\ historia[u] \in Seq(SUBSET Asignaciones) /\ asignadas'[u] \in SUBSET Asignaciones
        /\ Len(historia[u]) > 0 /\ historia[u][Len(historia[u])] = asignadas[u]
    BY Tipos DEF AccesosOK, CacheAlDia
  <2>2. CASE asignadas'[u] = asignadas[u]
    BY <1>2, <2>1, <2>2
  <2>3. CASE asignadas'[u] # asignadas[u]
    <3> DEFINE h == Append(historia[u], asignadas'[u])
    <3>1. /\ h \in Seq(SUBSET Asignaciones) /\ Len(h) = Len(historia[u]) + 1
          /\ h[Len(historia[u]) + 1] = asignadas'[u] /\ Len(historia[u]) \in Nat
      BY <2>1
    <3>2. historia'[u] = h
      BY <1>2, <2>3
    <3> HIDE DEF h
    <3> QED
      BY <2>1, <3>1, <3>2
  <2> QED
    BY <2>2, <2>3
<1>4. ASSUME NEW u \in Usuarios, NEW d \in 1 .. Len(historia[u]), NEW filas,
             Tuvo(historia[u], d, filas)
      PROVE  Tuvo(historia'[u], d, filas)
  <2>1. historia[u] \in Seq(SUBSET Asignaciones) /\ asignadas'[u] \in SUBSET Asignaciones
    BY Tipos
  <2>2. CASE asignadas'[u] = asignadas[u]
    BY <1>2, <1>4, <2>2
  <2>3. CASE asignadas'[u] # asignadas[u]
    <3>1. Tuvo(Append(historia[u], asignadas'[u]), d, filas)
      BY <1>4, <2>1, TuvoSigue
    <3> QED
      BY <1>2, <2>3, <3>1
  <2> QED
    BY <2>2, <2>3
<1>5. TypeOK'
  <2>1. historia' \in [Usuarios -> Seq(SUBSET Asignaciones)]
    <3>1. historia' = [u \in Usuarios |-> historia'[u]]
      BY DEF Anotar
    <3> QED
      BY <1>3, <3>1
  <2>2. op' \in [Peticiones -> FormaDeOp]
    BY Tipos, LibreTipada DEF Fin
  <2> QED
    BY <2>1, <2>2, Tipos DEF TypeOK, FormaDeOp
<1>6. \A u \in Usuarios : version[u] \in 1 .. MaxVersion /\ version'[u] \in 1 .. MaxVersion
  BY Tipos
<1>7. CacheAlDia'
  <2>1. ASSUME NEW u \in Usuarios
        PROVE  /\ cache[u][version'[u]] \in {Nada, asignadas'[u]}
               /\ \A v \in 1 .. MaxVersion : cache[u][v] # Nada => v <= version'[u]
    <3>1. /\ cache[u][version[u]] \in {Nada, asignadas[u]}
          /\ \A v \in 1 .. MaxVersion : cache[u][v] # Nada => v <= version[u]
      BY DEF AccesosOK, CacheAlDia
    <3>2. CASE version'[u] = version[u] /\ asignadas'[u] = asignadas[u]
      BY <3>1, <3>2
    <3>3. CASE version[u] < version'[u]
      BY <1>6, <3>1, <3>3
    <3>4. CASE cuenta[u] = "SIN_CREAR"
      BY <1>6, <3>4 DEF AccesosOK, SinCrearVacia
    <3> QED
      BY <1>6, <3>2, <3>3, <3>4
  <2> QED
    BY <1>3, <2>1 DEF CacheAlDia
<1>8. SinCrearVacia'
  BY DEF AccesosOK, SinCrearVacia
<1>9. HallazgosFieles'
  <2>1. ASSUME NEW q \in Peticiones, op'[q].fase = "VERSION"
        PROVE  /\ op'[q] = op[q] /\ op[q].actor \in Usuarios
               /\ op[q].desde \in 1 .. Len(historia[op[q].actor])
    BY <1>1, <2>1, LibreTipada, Tipos DEF PeticionFiel, ActorFiel, Leyendo
  <2>2. ASSUME NEW q \in Peticiones, NEW r \in Peticiones, op'[q].fase = "VERSION",
               op'[r].fase = "GUARDA", op'[r].actor = op[q].actor, op'[r].version = op[q].version
        PROVE  Tuvo(historia'[op[q].actor], op[q].desde, op'[r].permisos)
    <3>1. op'[r] = op[r]
      BY <1>1, <2>2, LibreTipada
    <3>2. Tuvo(historia[op[q].actor], op[q].desde, op[r].permisos)
      BY <2>1, <2>2, <3>1 DEF AccesosOK, HallazgosFieles
    <3> QED
      BY <1>4, <2>1, <2>2, <3>1, <3>2
  <2>3. ASSUME NEW q \in Peticiones, op'[q].fase = "VERSION",
               cache[op[q].actor][op[q].version] # Nada
        PROVE  Tuvo(historia'[op[q].actor], op[q].desde, cache[op[q].actor][op[q].version])
    <3>1. Tuvo(historia[op[q].actor], op[q].desde, cache[op[q].actor][op[q].version])
      BY <2>1, <2>3 DEF AccesosOK, HallazgosFieles
    <3> QED
      BY <1>4, <2>1, <2>3, <3>1
  <2> QED
    BY <2>1, <2>2, <2>3 DEF HallazgosFieles
<1>10. EdicionesSolas'
  BY <1>1, LibreTipada DEF AccesosOK, EdicionesSolas, Editando
<1>11. ASSUME NEW q \in Peticiones
       PROVE  PeticionFiel(op[q])'
  <2>1. CASE q = p
    <3>1. op'[q] = Libre
      BY <1>1, <2>1
    <3> QED
      BY <3>1, LibreFiel
         DEF PeticionFiel, ActorFiel, PermisosFieles, EdicionPosible, BorradaNadaObtiene
  <2>2. CASE q # p
    <3>0. op'[q] = op[q] /\ PeticionFiel(op[q]) /\ op[q] \in FormaDeOp
      BY <1>1, <2>2, Tipos
    <3>1. ActorFiel(op[q])'
      <4>1. op[q].fase \in {"VERSION", "CONSULTA", "GUARDA"} =>
              op[q].version \in 1 .. version'[op[q].actor]
        BY <1>6, <3>0 DEF PeticionFiel, ActorFiel, Leyendo, FormaDeOp
      <4>2. op[q].fase \in Leyendo => op[q].desde \in 1 .. Len(historia'[op[q].actor])
        BY <1>3, <3>0 DEF PeticionFiel, ActorFiel, Leyendo, FormaDeOp
      <4> QED
        BY <3>0, <4>1, <4>2 DEF PeticionFiel, ActorFiel
    <3>2. PermisosFieles(op[q])'
      <4>1. CASE op[q].fase = "GUARDA"
        <5>1. /\ op[q].actor \in Usuarios /\ cuenta[op[q].actor] # "SIN_CREAR"
              /\ op[q].desde \in 1 .. Len(historia[op[q].actor])
              /\ op[q].version \in 1 .. version[op[q].actor]
              /\ Tuvo(historia[op[q].actor], op[q].desde, op[q].permisos)
              /\ op[q].version = version[op[q].actor] => op[q].permisos = asignadas[op[q].actor]
          BY <3>0, <4>1 DEF PeticionFiel, ActorFiel, PermisosFieles, Leyendo
        <5>2. Tuvo(historia'[op[q].actor], op[q].desde, op[q].permisos)
          BY <1>4, <5>1
        <5>3. op[q].version = version'[op[q].actor] => op[q].permisos = asignadas'[op[q].actor]
          BY <1>6, <5>1
        <5> QED
          BY <3>0, <4>1, <5>2, <5>3 DEF PermisosFieles
      <4>2. CASE op[q].fase = "PERMITIDA"
        <5>1. /\ op[q].actor \in Usuarios /\ cuenta[op[q].actor] # "SIN_CREAR"
              /\ op[q].desde \in 1 .. Len(historia[op[q].actor])
              /\ \/ Tuvo(historia[op[q].actor], op[q].desde, op[q].permisos)
                 \/ op[q].permisos = {} /\ ~Existe(op[q].actor)
          BY <3>0, <4>2 DEF PeticionFiel, ActorFiel, PermisosFieles, Leyendo
        <5>2. CASE Tuvo(historia[op[q].actor], op[q].desde, op[q].permisos)
          <6>1. Tuvo(historia'[op[q].actor], op[q].desde, op[q].permisos)
            BY <1>4, <5>1, <5>2
          <6> QED
            BY <3>0, <4>2, <6>1 DEF PermisosFieles
        <5>3. CASE op[q].permisos = {} /\ ~Existe(op[q].actor)
          <6>1. cuenta[op[q].actor] = "BORRADA"
            BY <5>1, <5>3, Tipos DEF Existe, EstadosDeCuenta
          <6>2. cuenta'[op[q].actor] = "BORRADA"
            BY <5>1, <6>1
          <6> QED
            BY <3>0, <4>2, <5>3, <6>2 DEF PermisosFieles, Existe
        <5> QED
          BY <5>1, <5>2, <5>3
      <4>3. CASE op[q].fase \notin {"GUARDA", "PERMITIDA"}
        BY <3>0, <4>3 DEF PeticionFiel, PermisosFieles
      <4> QED
        BY <4>1, <4>2, <4>3
    <3>3. EdicionPosible(op[q])'
      <4>1. ASSUME Editando(op[q]), op[q].estado # Nada
            PROVE  cuenta'[op[q].sobre] \in {"ACTIVE", "SUSPENDED"}
        <5>1. op[q].sobre \in Usuarios /\ Existe(op[q].sobre) /\ ~FilaLibre(op[q].sobre)
          BY <3>0, <4>1 DEF PeticionFiel, EdicionPosible, FilaLibre, Editando
        <5> QED
          BY <5>1 DEF Existe
      <4> QED
        BY <3>0, <4>1 DEF PeticionFiel, EdicionPosible, Editando, Existe
    <3>4. BorradaNadaObtiene(op[q])'
      BY <3>0 DEF PeticionFiel, BorradaNadaObtiene
    <3> QED
      BY <3>1, <3>2, <3>3, <3>4 DEF PeticionFiel
  <2> QED
    BY <2>1, <2>2
<1> QED
  BY <1>5, <1>7, <1>8, <1>9, <1>10, <1>11 DEF AccesosOK

\* A change that leaves the assignments as they are leaves the history too.
LEMMA NadaQueAnotar ==
    ASSUME AccesosOK, UNCHANGED <<asignadas, historia>>
    PROVE  Anotar
  BY Tipos DEF Anotar

\* A new account: nobody had read anything of it.
LEMMA CrearUsuarioConserva ==
    ASSUME AccesosOK, NEW p \in Peticiones, CrearUsuario(p)
    PROVE  AccesosOK'
<1>0. PICK u \in Usuarios, r \in Roles, e \in Empresas \cup {Nada} :
        u = op[p].sobre /\ r = op[p].rol /\ e = op[p].destino
  BY Tipos DEF CrearUsuario, PeticionFiel, EdicionPosible, FormaDeOp
<1>1. CASE cuenta[u] = "SIN_CREAR"
  <2>1. /\ cuenta' = [cuenta EXCEPT ![u] = "ACTIVE"] /\ empresaDe' = [empresaDe EXCEPT ![u] = e]
        /\ asignadas' = [asignadas EXCEPT ![u] = {[rol |-> r, alcance |-> e]}]
        /\ Anotar /\ Fin(p) /\ UNCHANGED <<version, sesion, empresa, cache>>
    BY <1>0, <1>1 DEF CrearUsuario
  <2>2. {[rol |-> r, alcance |-> e]} \in SUBSET Asignaciones
    BY DEF Asignaciones
  <2>3. /\ cuenta' \in [Usuarios -> EstadosDeCuenta]
        /\ empresaDe' \in [Usuarios -> Empresas \cup {Nada}]
        /\ asignadas' \in [Usuarios -> SUBSET Asignaciones]
        /\ \A w \in Usuarios : /\ cuenta'[w] = IF w = u THEN "ACTIVE" ELSE cuenta[w]
                               /\ w # u => asignadas'[w] = asignadas[w]
    BY <2>1, <2>2, Tipos DEF EstadosDeCuenta
  <2>4. /\ version' \in [Usuarios -> 1 .. MaxVersion]
        /\ \A w \in Usuarios : version[w] <= version'[w]
    BY <2>1, Tipos
  <2> QED
    BY <1>1, <2>1, <2>3, <2>4, Tipos, CambiarCuentas DEF Existe
<1>2. CASE cuenta[u] # "SIN_CREAR"
  <2>1. Fin(p) /\ UNCHANGED <<cuentaVars, cache>> /\ UNCHANGED <<sesion, empresa>>
    BY <1>0, <1>2 DEF CrearUsuario, cuentaVars
  <2> QED
    BY <2>1, Tipos, FinConserva
<1> QED
  BY <1>1, <1>2

\* The commit of an edition: a change of role has its version.
LEMMA GuardarUsuarioConserva ==
    ASSUME AccesosOK, NEW p \in Peticiones, GuardarUsuario(p)
    PROVE  AccesosOK'
<1>0. PICK u \in Usuarios, s \in {Nada, "ACTIVE", "SUSPENDED"}, r \in Roles \cup {Nada},
           e \in Empresas \cup {Nada}, filas \in SUBSET Asignaciones :
        u = op[p].sobre /\ s = op[p].estado /\ r = op[p].rol /\ e = op[p].destino
        /\ filas = op[p].filas
  BY Tipos DEF GuardarUsuario, PeticionFiel, EdicionPosible, FormaDeOp, Editando
<1>1. s # Nada => Existe(u)
  BY <1>0, Tipos DEF GuardarUsuario, PeticionFiel, EdicionPosible, Editando
<1> DEFINE nuevas == (asignadas[u] \ filas) \cup {[rol |-> r, alcance |-> e]}
<1>2. /\ cuenta' = [cuenta EXCEPT ![u] = IF s = Nada THEN @ ELSE s]
      /\ asignadas' = [asignadas EXCEPT ![u] = IF r = Nada THEN @ ELSE nuevas]
      /\ IF r # Nada \/ s = "SUSPENDED" THEN SubirVersion({u}) ELSE UNCHANGED version
      /\ Anotar /\ Fin(p) /\ UNCHANGED <<empresaDe, sesion, empresa, cache>>
  BY <1>0 DEF GuardarUsuario
<1>3. r # Nada => nuevas \in SUBSET Asignaciones
  BY Tipos DEF Asignaciones
<1> HIDE DEF nuevas
<1>4. /\ cuenta' \in [Usuarios -> EstadosDeCuenta]
      /\ \A w \in Usuarios : cuenta'[w] = IF w = u /\ s # Nada THEN s ELSE cuenta[w]
  BY <1>2, Tipos DEF EstadosDeCuenta
<1>5. /\ asignadas' \in [Usuarios -> SUBSET Asignaciones]
      /\ \A w \in Usuarios : asignadas'[w] = IF w = u /\ r # Nada THEN nuevas ELSE asignadas[w]
  BY <1>2, <1>3, Tipos
<1>6. /\ version' \in [Usuarios -> 1 .. MaxVersion]
      /\ \A w \in Usuarios : version[w] <= version'[w]
      /\ r # Nada => version[u] < version'[u]
  <2>1. CASE r # Nada \/ s = "SUSPENDED"
    BY <1>2, <2>1, {u} \in SUBSET Usuarios, SubeVersion
  <2>2. CASE ~(r # Nada \/ s = "SUSPENDED")
    BY <1>2, <2>2, Tipos
  <2> QED
    BY <2>1, <2>2
<1>7. /\ \A w \in Usuarios : cuenta'[w] = "SIN_CREAR" => cuenta[w] = "SIN_CREAR"
      /\ \A w \in Usuarios : cuenta[w] = "BORRADA" => cuenta'[w] = "BORRADA"
      /\ \A w \in Usuarios : Existe(w) => cuenta'[w] \in {"ACTIVE", "SUSPENDED"}
  BY <1>1, <1>4 DEF Existe
<1> QED
  BY <1>2, <1>4, <1>5, <1>6, <1>7, Tipos, CambiarCuentas DEF Existe

\* A new password or a deactivation of one account, whose row is free.
LEMMA CerrarCuentaConserva ==
    ASSUME AccesosOK, NEW p \in Peticiones, NEW u \in Usuarios,
           RestablecerContrasena(p, u) \/ DesactivarUsuario(p, u)
    PROVE  AccesosOK'
<1>1. /\ Existe(u) /\ FilaLibre(u) /\ SubirVersion({u}) /\ Fin(p)
      /\ sesion' = [sesion EXCEPT ![u] = FALSE]
      /\ cuenta' \in {cuenta, [cuenta EXCEPT ![u] = "BORRADA"]}
      /\ UNCHANGED <<empresaDe, empresa, cache>> /\ UNCHANGED <<asignadas, historia>>
  BY DEF RestablecerContrasena, DesactivarUsuario
<1>2. /\ version' \in [Usuarios -> 1 .. MaxVersion]
      /\ \A w \in Usuarios : version[w] <= version'[w]
  BY <1>1, {u} \in SUBSET Usuarios, SubeVersion
<1>3. sesion' \in [Usuarios -> BOOLEAN] /\ \A w \in Usuarios : sesion'[w] => sesion[w]
  BY <1>1, Tipos
<1>4. /\ cuenta' \in [Usuarios -> EstadosDeCuenta]
      /\ \A w \in Usuarios : cuenta'[w] = cuenta[w] \/ (w = u /\ cuenta'[w] = "BORRADA")
  BY <1>1, Tipos DEF EstadosDeCuenta
<1>5. /\ \A w \in Usuarios : cuenta'[w] = "SIN_CREAR" => cuenta[w] = "SIN_CREAR"
      /\ \A w \in Usuarios : cuenta[w] = "BORRADA" => cuenta'[w] = "BORRADA"
      /\ \A w \in Usuarios : Existe(w) => cuenta'[w] \in {"ACTIVE", "SUSPENDED"} \/ FilaLibre(w)
  BY <1>1, <1>4 DEF Existe
<1> QED
  BY <1>1, <1>2, <1>3, <1>4, <1>5, Tipos, NadaQueAnotar, CambiarCuentas DEF Existe

\* A company that is closed suspends its members.
LEMMA DesactivarEmpresaConserva ==
    ASSUME AccesosOK, NEW p \in Peticiones, NEW e \in Empresas, DesactivarEmpresa(p, e)
    PROVE  AccesosOK'
<1>1. /\ empresa' = [empresa EXCEPT ![e] = "CLOSED"]
      /\ cuenta' = [u \in Usuarios |-> IF u \in Miembros(e) THEN "SUSPENDED" ELSE cuenta[u]]
      /\ SubirVersion(Miembros(e)) /\ Fin(p)
      /\ UNCHANGED <<empresaDe, sesion, cache>> /\ UNCHANGED <<asignadas, historia>>
  BY DEF DesactivarEmpresa
<1>2. Miembros(e) \in SUBSET Usuarios /\ \A u \in Miembros(e) : Existe(u)
  BY DEF Miembros
<1>3. /\ version' \in [Usuarios -> 1 .. MaxVersion]
      /\ \A w \in Usuarios : version[w] <= version'[w]
  BY <1>1, <1>2, SubeVersion
<1>4. /\ cuenta' \in [Usuarios -> EstadosDeCuenta]
      /\ empresa' \in [Empresas -> {"ACTIVE", "SUSPENDED", "CLOSED"}]
  BY <1>1, Tipos DEF EstadosDeCuenta
<1>5. /\ \A w \in Usuarios : cuenta'[w] = "SIN_CREAR" => cuenta[w] = "SIN_CREAR"
      /\ \A w \in Usuarios : cuenta[w] = "BORRADA" => cuenta'[w] = "BORRADA"
      /\ \A w \in Usuarios : Existe(w) => cuenta'[w] \in {"ACTIVE", "SUSPENDED"}
  BY <1>1, <1>2 DEF Existe
<1> QED
  BY <1>1, <1>3, <1>4, <1>5, Tipos, NadaQueAnotar, CambiarCuentas DEF Existe

\* Every step keeps the invariant.
LEMMA AccesosPaso == AccesosOK /\ [Next]_vars => AccesosOK'
<1> SUFFICES ASSUME AccesosOK, [Next]_vars PROVE AccesosOK'
  OBVIOUS
<1>1. ASSUME NEW p \in Peticiones, Entrada(p) PROVE AccesosOK'
  BY <1>1, EntradaConserva
<1>2. ASSUME NEW p \in Peticiones, Consulta(p) PROVE AccesosOK'
  BY <1>2, LecturaConserva, GuardarEnCacheConserva, AdministrarConserva DEF Consulta
<1>3. ASSUME NEW p \in Peticiones, Administracion(p) PROVE AccesosOK'
  <2>1. CASE AltaDeUsuario(p)
    BY <2>1, AdministrarConserva, CrearUsuarioConserva DEF AltaDeUsuario
  <2>2. CASE EdicionDeUsuario(p)
    BY <2>2, AdministrarConserva, GuardarUsuarioConserva DEF EdicionDeUsuario
  <2>3. CASE \E u \in Usuarios : RestablecerContrasena(p, u) \/ DesactivarUsuario(p, u)
    BY <2>3, CerrarCuentaConserva
  <2>4. CASE \E e \in Empresas : DesactivarEmpresa(p, e)
    BY <2>4, DesactivarEmpresaConserva
  <2>5. CASE \E e \in Empresas, s \in {"ACTIVE", "SUSPENDED"} : ActualizarEmpresa(p, e, s)
    BY <2>5, AdministrarConserva
  <2> QED
    BY <1>3, <2>1, <2>2, <2>3, <2>4, <2>5 DEF Administracion
<1>4. ASSUME NEW u \in Usuarios, NEW v \in 1 .. MaxVersion, Caducar(u, v) PROVE AccesosOK'
  BY <1>4, CaducarConserva
<1>5. CASE UNCHANGED vars
  BY <1>5 DEF vars, cuentaVars, AccesosOK, TypeOK, CacheAlDia, SinCrearVacia, HallazgosFieles,
              EdicionesSolas, PeticionFiel, ActorFiel, PermisosFieles, EdicionPosible,
              BorradaNadaObtiene, Existe
<1> QED
  BY <1>1, <1>2, <1>3, <1>4, <1>5 DEF Next

\* The invariant holds of every state.
LEMMA AccesosSiempre == Spec => []AccesosOK
  BY AccesosInicial, AccesosPaso, PTL DEF Spec

\* The state has the types of the columns and of the entries in Redis.
THEOREM TipoCorrecto == Spec => []TypeOK
<1>1. AccesosOK => TypeOK
  BY DEF AccesosOK
<1> QED
  BY <1>1, AccesosSiempre, PTL

\* The permissions a request obtains are some its actor has been given since it
\* started, or none of an account that was deleted: the cache never answers
\* with what was taken away before.
THEOREM RespuestaVigenteSiempre == Spec => []RespuestaVigente
<1>1. AccesosOK => RespuestaVigente
  BY DEF AccesosOK, RespuestaVigente, PeticionFiel, PermisosFieles
<1> QED
  BY <1>1, AccesosSiempre, PTL

\* A request of an account that was deactivated before obtains nothing.
THEOREM DesactivarSurteEfectoSiempre == Spec => []DesactivarSurteEfecto
<1>1. AccesosOK => DesactivarSurteEfecto
  BY DEF AccesosOK, DesactivarSurteEfecto, PeticionFiel, BorradaNadaObtiene
<1> QED
  BY <1>1, AccesosSiempre, PTL
===============================================================================
