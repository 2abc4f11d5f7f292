------------------------------ MODULE Accesos ------------------------------
(***************************************************************************)
(* Who may do what: accounts, their company and roles, the permissions a   *)
(* request obtains through the cache in Redis, and the administration that *)
(* changes all of it meanwhile.                                            *)
(* Sources: app/modules/rbac/service.py, app/modules/admin/service.py and  *)
(* router.py, app/modules/auth/dependencies.py and service.py (login).     *)
(*                                                                         *)
(* A request reads the account's authz_version, asks Redis for the         *)
(* permissions under that version and, if they are not there, reads them   *)
(* from the database and leaves them in Redis: four steps that any other   *)
(* request may interleave with.  What it obtained it uses until it ends.   *)
(* An administrative change is one transaction; what it read without a     *)
(* lock is kept in op[p].  Temporary passwords are in module Sesiones.     *)
(***************************************************************************)
EXTENDS Naturals, Sequences, FiniteSets

CONSTANTS
    Peticiones, Usuarios, Empresas,
    Nada,           \* no company, no role, no change
    MaxVersion      \* bound: changes of one account

ASSUME Parametros ==
    /\ Nada \notin Peticiones \cup Usuarios \cup Empresas
    /\ MaxVersion \in Nat \ {0}

\* rbac/models.py: an assignment carries the company, or none when it is global.
Internos == {"ADMIN"}           \* SUPER_ADMIN has the same permissions
Roles == Internos \cup {"CLIENTE"}
Asignaciones == [rol : Roles, alcance : Empresas \cup {Nada}]

VARIABLES
    cuenta,         \* users.status, or none yet, or deleted_at set
    empresaDe,      \* company_memberships: one company, or none for staff
    asignadas,      \* user_role_assignments
    version,        \* users.authz_version
    sesion,         \* a session of the account is alive
    empresa,        \* companies.status, CLOSED with deleted_at
    cache,          \* Redis: authz:{user}:v{version}
    historia,       \* history: the assignments each account has had, in order
    op              \* what each request is doing
cuentaVars == <<cuenta, empresaDe, asignadas, version, historia>>
vars == <<cuentaVars, sesion, empresa, cache, op>>

Libre == [fase |-> "LIBRE", actor |-> Nada, version |-> 0, desde |-> 0, al |-> "SIN_CREAR",
          permisos |-> {}, sobre |-> Nada, rol |-> Nada, estado |-> Nada, filas |-> {},
          destino |-> Nada]

EstadosDeCuenta == {"SIN_CREAR", "ACTIVE", "SUSPENDED", "BORRADA"}

TypeOK ==
    /\ cuenta \in [Usuarios -> EstadosDeCuenta]
    /\ empresaDe \in [Usuarios -> Empresas \cup {Nada}]
    /\ asignadas \in [Usuarios -> SUBSET Asignaciones]
    /\ version \in [Usuarios -> 1 .. MaxVersion]
    /\ sesion \in [Usuarios -> BOOLEAN]
    /\ empresa \in [Empresas -> {"ACTIVE", "SUSPENDED", "CLOSED"}]
    /\ cache \in [Usuarios -> [1 .. MaxVersion -> {Nada} \cup SUBSET Asignaciones]]
    /\ historia \in [Usuarios -> Seq(SUBSET Asignaciones)]
    /\ op \in [Peticiones ->
         [fase : {"LIBRE", "LOGIN", "ENTRA", "VERSION", "CONSULTA", "GUARDA", "PERMITIDA", "CREA",
                  "EDITA", "ROLES"},
          actor : Usuarios \cup {Nada}, version : 0 .. MaxVersion, desde : Nat,
          al : EstadosDeCuenta, permisos : SUBSET Asignaciones, sobre : Usuarios \cup {Nada},
          rol : Roles \cup {Nada}, estado : {Nada, "ACTIVE", "SUSPENDED"},
          filas : SUBSET Asignaciones, destino : Empresas \cup {Nada}]]

\* The database has an administrator, logged in, and the accounts to create;
\* the client of a company may be there already.
Init ==
    \E a \in Usuarios, filas \in [Usuarios -> {Nada} \cup Empresas] :
        /\ empresaDe = filas /\ filas[a] = Nada
        /\ cuenta = [u \in Usuarios |->
             IF u = a \/ filas[u] # Nada THEN "ACTIVE" ELSE "SIN_CREAR"]
        /\ asignadas = [u \in Usuarios |->
             IF u = a THEN {[rol |-> "ADMIN", alcance |-> Nada]}
             ELSE IF filas[u] # Nada THEN {[rol |-> "CLIENTE", alcance |-> filas[u]]} ELSE {}]
        /\ sesion = [u \in Usuarios |-> u = a]
        /\ historia = [u \in Usuarios |-> <<asignadas[u]>>]
        /\ version = [u \in Usuarios |-> 1]
        /\ empresa = [e \in Empresas |-> "ACTIVE"]
        /\ cache = [u \in Usuarios |-> [v \in 1 .. MaxVersion |-> Nada]]
        /\ op = [p \in Peticiones |-> Libre]

Existe(u) == cuenta[u] \in {"ACTIVE", "SUSPENDED"}

\* The account's row is locked from the moment an edition writes it.
FilaLibre(u) ==
    \A p \in Peticiones : ~(op[p].fase \in {"EDITA", "ROLES"} /\ op[p].sobre = u /\ op[p].estado # Nada)

Fin(p) == op' = [op EXCEPT ![p] = Libre]

-----------------------------------------------------------------------------
(* Sessions *)

\* The password is right and the account is active.
Login(p, u) ==
    /\ op[p] = Libre
    /\ cuenta[u] = "ACTIVE"
    /\ op' = [op EXCEPT ![p] = [Libre EXCEPT !.fase = "LOGIN", !.actor = u]]
    /\ UNCHANGED <<cuentaVars, sesion, empresa, cache>>

AbrirSesion(p) ==
    /\ op[p].fase = "LOGIN"
    /\ FilaLibre(op[p].actor)
    /\ sesion' = [sesion EXCEPT ![op[p].actor] = TRUE]
    /\ Fin(p)
    /\ UNCHANGED <<cuentaVars, empresa, cache>>

-----------------------------------------------------------------------------
(* The permissions of a request *)

\* actor_actual: the session is alive; nothing is asked of the account.
Autenticar(p, u) ==
    /\ op[p] = Libre
    /\ sesion[u]
    /\ op' = [op EXCEPT ![p] = [Libre EXCEPT !.fase = "ENTRA", !.actor = u,
                                !.al = cuenta[u], !.desde = Len(historia[u])]]
    /\ UNCHANGED <<cuentaVars, sesion, empresa, cache>>

\* Mutant: the version of a deleted account is read like any other.
LeerVersionDeCualquiera(p) ==
    /\ op[p].fase = "ENTRA"
    /\ op' = [op EXCEPT ![p].version = version[op[p].actor], ![p].fase = "VERSION"]
    /\ UNCHANGED <<cuentaVars, sesion, empresa, cache>>

\* An account that was deleted has no permissions.
LeerVersion(p) ==
    LET u == op[p].actor IN
    /\ op[p].fase = "ENTRA"
    /\ op' = [op EXCEPT ![p].version = version[u],
                        ![p].fase = IF Existe(u) THEN "VERSION" ELSE "PERMITIDA"]
    /\ UNCHANGED <<cuentaVars, sesion, empresa, cache>>

LeerCache(p) ==
    LET filas == cache[op[p].actor][op[p].version] IN
    /\ op[p].fase = "VERSION"
    /\ op' = IF filas = Nada THEN [op EXCEPT ![p].fase = "CONSULTA"]
             ELSE [op EXCEPT ![p].fase = "PERMITIDA", ![p].permisos = filas, ![p].version = 0]
    /\ UNCHANGED <<cuentaVars, sesion, empresa, cache>>

Consultar(p) ==
    /\ op[p].fase = "CONSULTA"
    /\ op' = [op EXCEPT ![p].fase = "GUARDA", ![p].permisos = asignadas[op[p].actor]]
    /\ UNCHANGED <<cuentaVars, sesion, empresa, cache>>

GuardarEnCache(p) ==
    /\ op[p].fase = "GUARDA"
    /\ cache' = [cache EXCEPT ![op[p].actor][op[p].version] = op[p].permisos]
    /\ op' = [op EXCEPT ![p].fase = "PERMITIDA", ![p].version = 0]
    /\ UNCHANGED <<cuentaVars, sesion, empresa>>

\* The entry's five minutes go by.
Caducar(u, v) ==
    /\ cache[u][v] # Nada
    /\ cache' = [cache EXCEPT ![u][v] = Nada]
    /\ UNCHANGED <<cuentaVars, sesion, empresa, op>>

\* PermisosEfectivos.permite, for a permission of the staff.
Permite(filas, e) ==
    \E f \in filas : f.rol \in Internos /\ (f.alcance = Nada \/ (e # Nada /\ f.alcance = e))

Puede(p, e) == op[p].fase = "PERMITIDA" /\ Permite(op[p].permisos, e)

-----------------------------------------------------------------------------
(* Administration *)

\* A request that asked for its permissions and changes nothing of this, or
\* whose change is refused.
Responder(p) ==
    /\ op[p].fase = "PERMITIDA"
    /\ Fin(p)
    /\ UNCHANGED <<cuentaVars, sesion, empresa, cache>>

\* Mutant: the permissions change and the version does not.
SinSubirVersion(us) == UNCHANGED version

\* authz_version goes up for these accounts; the transactions that raise it
\* twice show one change when they commit.
SubirVersion(us) ==
    /\ \A u \in us : version[u] < MaxVersion
    /\ version' = [u \in Usuarios |-> IF u \in us THEN version[u] + 1 ELSE version[u]]

\* The assignments after the step go to the history.
Anotar ==
    historia' = [u \in Usuarios |-> IF asignadas'[u] = asignadas[u] THEN historia[u]
                                    ELSE Append(historia[u], asignadas'[u])]

\* The role decides whether a company is needed or forbidden; that the company
\* is active is asked without a lock.
ComprobarAlta(p, u, r, e) ==
    /\ cuenta[u] = "SIN_CREAR"
    /\ (r \in Internos) <=> (e = Nada)
    /\ Puede(p, e)
    /\ e # Nada => empresa[e] = "ACTIVE"
    /\ op' = [op EXCEPT ![p] = [Libre EXCEPT !.fase = "CREA", !.sobre = u, !.rol = r,
                                             !.destino = e]]
    /\ UNCHANGED <<cuentaVars, sesion, empresa, cache>>

\* Account, role and membership; the e-mail address may have been taken.
CrearUsuario(p) ==
    LET u == op[p].sobre IN
    /\ op[p].fase = "CREA"
    /\ IF cuenta[u] = "SIN_CREAR"
       THEN /\ cuenta' = [cuenta EXCEPT ![u] = "ACTIVE"]
            /\ empresaDe' = [empresaDe EXCEPT ![u] = op[p].destino]
            /\ asignadas' = [asignadas EXCEPT ![u] =
                 {[rol |-> op[p].rol, alcance |-> op[p].destino]}]
            /\ Anotar
       ELSE UNCHANGED <<cuenta, empresaDe, asignadas, historia>>
    /\ Fin(p)
    /\ UNCHANGED <<version, sesion, empresa, cache>>

\* A member of a company may only have a client's role.
RolDeCliente(p, r) == op[p].destino # Nada => r \notin Internos

\* actualizar_usuario: the company is read without a lock; a new status is
\* written first and locks the account.
EditarUsuario(p, u, s, r) ==
    /\ s # Nada \/ r # Nada
    /\ Existe(u) /\ Puede(p, empresaDe[u])
    /\ s # Nada => FilaLibre(u)
    /\ op' = [op EXCEPT ![p] = [Libre EXCEPT !.fase = "EDITA", !.sobre = u, !.estado = s,
                                             !.rol = r, !.destino = empresaDe[u]]]
    /\ UNCHANGED <<cuentaVars, sesion, empresa, cache>>

\* _cambiar_rol: the assignments there are now will be deleted.
TomarRoles(p) ==
    /\ op[p].fase = "EDITA" /\ op[p].rol # Nada
    /\ RolDeCliente(p, op[p].rol)
    /\ op' = [op EXCEPT ![p].fase = "ROLES", ![p].filas = asignadas[op[p].sobre]]
    /\ UNCHANGED <<cuentaVars, sesion, empresa, cache>>

OtraBorraLosRoles(p) ==
    \E q \in Peticiones \ {p} :
        op[q].fase = "ROLES" /\ op[q].sobre = op[p].sobre /\ op[q].filas \cap op[p].filas # {}

\* The commit: status, role and version.  The new assignment is refused if
\* another request inserted the same one.
GuardarUsuario(p) ==
    LET u == op[p].sobre
        quedan == asignadas[u] \ op[p].filas
        nueva == [rol |-> op[p].rol, alcance |-> op[p].destino]
    IN
    /\ op[p].fase = (IF op[p].rol = Nada THEN "EDITA" ELSE "ROLES")
    /\ op[p].estado = Nada => FilaLibre(u)
    /\ op[p].rol # Nada => nueva \notin quedan
    /\ cuenta' = [cuenta EXCEPT ![u] = IF op[p].estado = Nada THEN @ ELSE op[p].estado]
    /\ asignadas' = [asignadas EXCEPT ![u] = IF op[p].rol = Nada THEN @ ELSE quedan \cup {nueva}]
    /\ IF op[p].rol # Nada \/ op[p].estado = "SUSPENDED" THEN SubirVersion({u})
       ELSE UNCHANGED version
    /\ Anotar
    /\ Fin(p)
    /\ UNCHANGED <<empresaDe, sesion, empresa, cache>>

\* Refused for the role, for a conflict, for a deadlock, or the process dies.
AbandonarEdicion(p) ==
    /\ op[p].fase \in {"EDITA", "ROLES", "CREA"}
    /\ \/ ~RolDeCliente(p, op[p].rol) \/ OtraBorraLosRoles(p)
       \/ op[p].fase = "ROLES" /\ [rol |-> op[p].rol, alcance |-> op[p].destino]
                                    \in asignadas[op[p].sobre] \ op[p].filas
    /\ Fin(p)
    /\ UNCHANGED <<cuentaVars, sesion, empresa, cache>>

\* Every session of the account is revoked.
RestablecerContrasena(p, u) ==
    /\ Existe(u) /\ Puede(p, empresaDe[u]) /\ FilaLibre(u)
    /\ SubirVersion({u})
    /\ sesion' = [sesion EXCEPT ![u] = FALSE]
    /\ Fin(p)
    /\ UNCHANGED <<cuenta, empresaDe, asignadas, historia, empresa, cache>>

DesactivarUsuario(p, u) ==
    /\ Existe(u) /\ Puede(p, empresaDe[u]) /\ FilaLibre(u)
    /\ cuenta' = [cuenta EXCEPT ![u] = "BORRADA"]
    /\ SubirVersion({u})
    /\ sesion' = [sesion EXCEPT ![u] = FALSE]
    /\ Fin(p)
    /\ UNCHANGED <<empresaDe, asignadas, historia, empresa, cache>>

ActualizarEmpresa(p, e, s) ==
    /\ Puede(p, Nada) /\ empresa[e] # "CLOSED"
    /\ empresa' = [empresa EXCEPT ![e] = s]
    /\ Fin(p)
    /\ UNCHANGED <<cuentaVars, sesion, cache>>

Miembros(e) == {u \in Usuarios : empresaDe[u] = e /\ Existe(u)}

\* The company is closed and its members suspended; their sessions stay open.
DesactivarEmpresa(p, e) ==
    /\ Puede(p, Nada) /\ empresa[e] # "CLOSED"
    /\ \A u \in Miembros(e) : FilaLibre(u)
    /\ empresa' = [empresa EXCEPT ![e] = "CLOSED"]
    /\ cuenta' = [u \in Usuarios |-> IF u \in Miembros(e) THEN "SUSPENDED" ELSE cuenta[u]]
    /\ SubirVersion(Miembros(e))
    /\ Fin(p)
    /\ UNCHANGED <<empresaDe, asignadas, historia, sesion, cache>>

-----------------------------------------------------------------------------

Entrada(p) == AbrirSesion(p) \/ \E u \in Usuarios : Login(p, u) \/ Autenticar(p, u)

\* obtener_permisos_efectivos, and the answer of a request that only reads.
Consulta(p) ==
    LeerVersion(p) \/ LeerCache(p) \/ Consultar(p) \/ GuardarEnCache(p) \/ Responder(p)

AltaDeUsuario(p) ==
    \/ \E u \in Usuarios, r \in Roles, e \in Empresas \cup {Nada} : ComprobarAlta(p, u, r, e)
    \/ CrearUsuario(p)

EdicionDeUsuario(p) ==
    \/ \E u \in Usuarios, s \in {Nada, "ACTIVE", "SUSPENDED"}, r \in Roles \cup {Nada} :
          EditarUsuario(p, u, s, r)
    \/ TomarRoles(p) \/ GuardarUsuario(p) \/ AbandonarEdicion(p)

Administracion(p) ==
    \/ AltaDeUsuario(p) \/ EdicionDeUsuario(p)
    \/ \E u \in Usuarios : RestablecerContrasena(p, u) \/ DesactivarUsuario(p, u)
    \/ \E e \in Empresas : DesactivarEmpresa(p, e)
    \/ \E e \in Empresas, s \in {"ACTIVE", "SUSPENDED"} : ActualizarEmpresa(p, e, s)

Next ==
    \/ \E p \in Peticiones : Entrada(p) \/ Consulta(p) \/ Administracion(p)
    \/ \E u \in Usuarios, v \in 1 .. MaxVersion : Caducar(u, v)

Spec == Init /\ [][Next]_vars

-----------------------------------------------------------------------------
(* Properties *)

\* Those were the assignments at some moment of the history since the d-th.
Tuvo(h, d, filas) == \E i \in d .. Len(h) : filas = h[i]

\* The permissions a request obtains are some its actor has been given since it
\* started, or none of an account that was deleted: the cache never answers
\* with what was taken away before.
RespuestaVigente ==
    \A p \in Peticiones : op[p].fase = "PERMITIDA" =>
        \/ Tuvo(historia[op[p].actor], op[p].desde, op[p].permisos)
        \/ op[p].permisos = {} /\ ~Existe(op[p].actor)

\* A request of an account that was deactivated before obtains nothing, even
\* when a login that ran at the same time left it a session.
DesactivarSurteEfecto ==
    \A p \in Peticiones : op[p].al = "BORRADA" => op[p].permisos = {}

\* admin/service.py: "Cambiar rol o suspender tiene que surtir efecto ya, no
\* cuando expire la caché de permisos".
SuspenderSurteEfecto ==
    \A p \in Peticiones : op[p].al = "SUSPENDED" => op[p].permisos = {}

=============================================================================
