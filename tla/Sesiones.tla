------------------------------ MODULE Sesiones ------------------------------
(***************************************************************************)
(* The sessions of one account: login, rotation of the refresh token with  *)
(* detection of reuse, the ways to revoke, the links sent by e-mail and    *)
(* the changes of password.                                                *)
(* Sources: app/modules/auth/service.py, router.py, dependencies.py and    *)
(* the account operations of app/modules/admin/service.py.                 *)
(*                                                                         *)
(* Requests run at the same time, each in a transaction.  What a request   *)
(* read without a lock is kept in op[p] until it writes; a row it wrote    *)
(* stays locked, and unseen, until it commits.  Rotating writes the token  *)
(* and then the session, revoking the session and then its tokens: they    *)
(* may block each other, and the database aborts one of the two.           *)
(***************************************************************************)
EXTENDS Naturals, FiniteSets

CONSTANTS
    Peticiones, Sesiones, Enlaces,
    Nada,
    MaxTokens,      \* bound: refresh tokens of one session
    MaxCambios      \* bound: changes of password

ASSUME Parametros ==
    /\ Nada \notin Peticiones \cup Sesiones \cup Enlaces
    /\ MaxTokens \in Nat \ {0} /\ MaxCambios \in Nat

VARIABLES
    activa,         \* users.status = 'ACTIVE' AND deleted_at IS NULL
    clave,          \* users.password_hash: which of the passwords it has had
    cambios,        \* changes of password so far
    hashViejo,      \* the hash was made with parameters no longer in use
    temporal,       \* users.must_change_password
    sesion,         \* auth_sessions: absent, alive or revoked
    vencida,        \* idle_expires_at or absolute_expires_at went by
    emitidos,       \* refresh tokens of the session: 1 .. emitidos[s]
    usados,         \* those with used_at
    revocados,      \* those with revoked_at
    enlace,         \* one_time_tokens that lead to a new password
    op,             \* what each request is doing
    vista,          \* history: the changes there were when the password was verified
    exenta          \* history: the session changed the password itself, or its
                    \* login verified it before the change
cuentaVars == <<activa, clave, cambios, hashViejo, temporal>>
sesionVars == <<sesion, vencida, emitidos, usados, revocados, vista, exenta>>
vars == <<cuentaVars, sesionVars, enlace, op>>

Libre == [tipo |-> "LIBRE", s |-> Nada, k |-> 0, tomadas |-> {}, conTokens |-> {},
          clave |-> 0, vista |-> 0, viejo |-> FALSE, nueva |-> FALSE, e |-> Nada, previos |-> {}]

TypeOK ==
    /\ activa \in BOOLEAN /\ hashViejo \in BOOLEAN /\ temporal \in BOOLEAN
    /\ clave \in 0 .. MaxCambios /\ cambios \in 0 .. MaxCambios
    /\ sesion \in [Sesiones -> {"SIN_CREAR", "VIVA", "REVOCADA"}]
    /\ vencida \in [Sesiones -> BOOLEAN]
    /\ emitidos \in [Sesiones -> 0 .. MaxTokens]
    /\ usados \in [Sesiones -> SUBSET (1 .. MaxTokens)]
    /\ revocados \in [Sesiones -> SUBSET (1 .. MaxTokens)]
    /\ enlace \in [Enlaces -> {"SIN_CREAR", "VIVO", "CONSUMIDO"}]
    /\ op \in [Peticiones ->
         [tipo : {"LIBRE", "LOGIN", "ROTA", "EMITE", "REVOCA", "ENLACE", "CAMBIA"},
          s : Sesiones \cup {Nada}, k : 0 .. MaxTokens, tomadas : SUBSET Sesiones,
          conTokens : SUBSET Sesiones, clave : 0 .. MaxCambios, vista : 0 .. MaxCambios,
          viejo : BOOLEAN, nueva : BOOLEAN, e : Enlaces \cup {Nada}, previos : SUBSET (Sesiones \cup Enlaces)]]
    /\ vista \in [Sesiones -> 0 .. MaxCambios]
    /\ exenta \in [Sesiones -> BOOLEAN]

Init ==
    /\ activa = TRUE /\ clave = 0 /\ cambios = 0
    /\ hashViejo \in BOOLEAN
    /\ temporal \in BOOLEAN
    /\ sesion = [s \in Sesiones |-> "SIN_CREAR"]
    /\ vencida = [s \in Sesiones |-> FALSE]
    /\ emitidos = [s \in Sesiones |-> 0]
    /\ usados = [s \in Sesiones |-> {}]
    /\ revocados = [s \in Sesiones |-> {}]
    /\ enlace = [e \in Enlaces |-> "SIN_CREAR"]
    /\ op = [p \in Peticiones |-> Libre]
    /\ vista = [s \in Sesiones |-> 0]
    /\ exenta = [s \in Sesiones |-> FALSE]

-----------------------------------------------------------------------------
(* Locks and reads *)

\* sesion_activa: what every authenticated request asks first.
SesionActiva(s) == sesion[s] = "VIVA" /\ ~vencida[s]

\* An endpoint other than /me, /me/password, /logout and /refresh.
Autenticada(s) == SesionActiva(s) /\ ~temporal

\* Nobody holds the account's row: a change of password does, to its commit.
FilaDeCuentaLibre == \A p \in Peticiones : ~op[p].nueva

FilaDeSesionLibre(s) == \A p \in Peticiones : s \notin op[p].tomadas

TokenLibre(s, k) ==
    \A p \in Peticiones : ~(op[p].tipo = "EMITE" /\ op[p].s = s /\ op[p].k = k)

Termina(p) == op' = [op EXCEPT ![p] = Libre]

\* A session runs out: idle or absolute.
Vencer(s) ==
    /\ SesionActiva(s)
    /\ vencida' = [vencida EXCEPT ![s] = TRUE]
    /\ UNCHANGED <<cuentaVars, sesion, emitidos, usados, revocados, vista, exenta, enlace, op>>

-----------------------------------------------------------------------------
(* Login *)

\* The account is read and the password verified against what was read.
Verificar(p) ==
    /\ op[p] = Libre
    /\ activa
    /\ op' = [op EXCEPT ![p] = [Libre EXCEPT !.tipo = "LOGIN", !.clave = clave,
                                            !.vista = cambios, !.viejo = hashViejo]]
    /\ UNCHANGED <<cuentaVars, sesionVars, enlace>>

CrearSesion(s, c) ==
    /\ sesion[s] = "SIN_CREAR"
    /\ sesion' = [sesion EXCEPT ![s] = "VIVA"]
    /\ emitidos' = [emitidos EXCEPT ![s] = 1]
    /\ vista' = [vista EXCEPT ![s] = c]
    /\ exenta' = [exenta EXCEPT ![s] = c # cambios]
    /\ UNCHANGED <<vencida, usados, revocados>>

\* The hash is renewed from the password that was verified, the attempts go
\* back to zero and the session is opened.
Entrar(p, s) ==
    /\ op[p].tipo = "LOGIN"
    /\ FilaDeCuentaLibre
    /\ CrearSesion(s, op[p].vista)
    /\ clave' = IF op[p].viejo THEN op[p].clave ELSE clave
    /\ hashViejo' = (hashViejo /\ ~op[p].viejo)
    /\ Termina(p)
    /\ UNCHANGED <<activa, cambios, temporal, enlace>>

-----------------------------------------------------------------------------
(* Rotation *)

Revoca(p, filas) ==
    op' = [op EXCEPT ![p] = [Libre EXCEPT !.tipo = "REVOCA", !.previos = filas]]

\* A client presents a token it was given, perhaps not for the first time; the
\* row and its session are read without a lock.
LeerToken(p, s, k) ==
    /\ op[p] = Libre
    /\ k \in 1 .. emitidos[s]
    /\ IF k \in usados[s] THEN Revoca(p, {s})
       ELSE /\ k \notin revocados[s] /\ SesionActiva(s)
            /\ op' = [op EXCEPT ![p] = [Libre EXCEPT !.tipo = "ROTA", !.s = s, !.k = k]]
    /\ UNCHANGED <<cuentaVars, sesionVars, enlace>>

\* Mutant: the update of used_at does not ask that it be null.
MarcarSinPreguntar(p) ==
    /\ op[p].tipo = "ROTA"
    /\ TokenLibre(op[p].s, op[p].k)
    /\ op' = [op EXCEPT ![p].tipo = "EMITE"]
    /\ UNCHANGED <<cuentaVars, sesionVars, enlace>>

\* The token is marked as used if nobody did first; whoever comes second is
\* taken for a reuse.
MarcarUsado(p) ==
    LET s == op[p].s  k == op[p].k IN
    /\ op[p].tipo = "ROTA"
    /\ TokenLibre(s, k)
    /\ \A q \in Peticiones : s \notin op[q].conTokens
    /\ IF k \in usados[s] THEN Revoca(p, {s}) ELSE op' = [op EXCEPT ![p].tipo = "EMITE"]
    /\ UNCHANGED <<cuentaVars, sesionVars, enlace>>

\* The session's idle time starts again and the next pair of tokens is issued.
Emitir(p) ==
    LET s == op[p].s IN
    /\ op[p].tipo = "EMITE"
    /\ FilaDeSesionLibre(s)
    /\ emitidos[s] < MaxTokens
    /\ usados' = [usados EXCEPT ![s] = @ \cup {op[p].k}]
    /\ emitidos' = [emitidos EXCEPT ![s] = @ + 1]
    /\ vencida' \in {vencida, [vencida EXCEPT ![s] = FALSE]}
    /\ Termina(p)
    /\ UNCHANGED <<cuentaVars, sesion, revocados, vista, exenta, enlace>>

-----------------------------------------------------------------------------
(* Revocation *)

\* The session the request comes from.
Logout(p, s) ==
    /\ op[p] = Libre
    /\ SesionActiva(s)
    /\ Revoca(p, {s})
    /\ UNCHANGED <<cuentaVars, sesionVars, enlace>>

\* Another session of the same account.
RevocarSesionDe(p, s, otra) ==
    /\ op[p] = Libre
    /\ Autenticada(s) /\ sesion[otra] # "SIN_CREAR"
    /\ Revoca(p, {otra})
    /\ UNCHANGED <<cuentaVars, sesionVars, enlace>>

NoRevocadas == {s \in Sesiones : sesion[s] = "VIVA"}

LogoutTodas(p, s) ==
    /\ op[p] = Libre
    /\ Autenticada(s)
    /\ Revoca(p, NoRevocadas)
    /\ UNCHANGED <<cuentaVars, sesionVars, enlace>>

\* The sessions are updated one by one, each followed by its tokens.
TomarSesion(p, s) ==
    /\ op[p].tipo = "REVOCA"
    /\ s \in op[p].previos \ op[p].tomadas
    /\ op[p].tomadas = op[p].conTokens
    /\ FilaDeSesionLibre(s)
    /\ op' = [op EXCEPT ![p].tomadas = @ \cup {s}]
    /\ UNCHANGED <<cuentaVars, sesionVars, enlace>>

TomarTokens(p, s) ==
    /\ s \in op[p].tomadas \ op[p].conTokens
    /\ \A k \in 1 .. emitidos[s] : TokenLibre(s, k)
    /\ op' = [op EXCEPT ![p].conTokens = @ \cup {s}]
    /\ UNCHANGED <<cuentaVars, sesionVars, enlace>>

\* Mutant: the account's sessions outlive the new password.
SinRevocar(filas) == UNCHANGED <<sesion, revocados>>

RevocarSesiones(filas) ==
    /\ sesion' = [s \in Sesiones |-> IF s \in filas THEN "REVOCADA" ELSE sesion[s]]
    /\ revocados' = [s \in Sesiones |->
         IF s \in filas THEN 1 .. emitidos[s] ELSE revocados[s]]

\* The commit, of the new password too when a link brought it.
ConfirmarRevocacion(p) ==
    /\ op[p].tipo = "REVOCA"
    /\ op[p].conTokens = op[p].previos
    /\ RevocarSesiones(op[p].previos)
    /\ IF op[p].nueva
       THEN /\ clave' = cambios + 1 /\ cambios' = cambios + 1
            /\ hashViejo' = FALSE /\ temporal' = FALSE
            /\ enlace' = [enlace EXCEPT ![op[p].e] = "CONSUMIDO"]
       ELSE UNCHANGED <<clave, cambios, hashViejo, temporal, enlace>>
    /\ Termina(p)
    /\ UNCHANGED <<activa, vencida, emitidos, usados, vista, exenta>>

\* The database finds two requests waiting for each other and aborts one.
Pide(p, q) == (op[p].previos \cap op[q].tomadas) \ op[p].tomadas # {}

Interbloqueadas(p, q) ==
    op[p].tipo = "EMITE" /\ op[p].s \in op[q].tomadas \ op[q].conTokens

Abortar(p) ==
    /\ \E q \in Peticiones : \/ Interbloqueadas(p, q)
                             \/ Interbloqueadas(q, p)
                             \/ Pide(p, q) /\ Pide(q, p)
    /\ Termina(p)
    /\ UNCHANGED <<cuentaVars, sesionVars, enlace>>

-----------------------------------------------------------------------------
(* Links and passwords *)

\* A link is asked for: the ones alive are consumed and a new one is inserted.
PedirEnlace(p, e) ==
    /\ op[p] = Libre
    /\ activa
    /\ enlace[e] = "SIN_CREAR" /\ \A q \in Peticiones : op[q].e # e
    /\ op' = [op EXCEPT ![p] = [Libre EXCEPT !.tipo = "ENLACE", !.e = e,
                                !.previos = {x \in Enlaces : enlace[x] = "VIVO"}]]
    /\ UNCHANGED <<cuentaVars, sesionVars, enlace>>

EnlaceLibre(x) == \A q \in Peticiones : op[q].e # x

EmitirEnlace(p) ==
    /\ op[p].tipo = "ENLACE"
    /\ \A x \in op[p].previos : EnlaceLibre(x)
    /\ enlace' = [x \in Enlaces |-> IF x \in op[p].previos THEN "CONSUMIDO"
                                    ELSE IF x = op[p].e THEN "VIVO" ELSE enlace[x]]
    /\ Termina(p)
    /\ UNCHANGED <<cuentaVars, sesionVars>>

\* The link is consumed, the account's row written and its sessions listed.
CanjearEnlace(p, e) ==
    /\ op[p] = Libre
    /\ enlace[e] = "VIVO" /\ EnlaceLibre(e)
    /\ FilaDeCuentaLibre
    /\ cambios < MaxCambios
    /\ op' = [op EXCEPT ![p] = [Libre EXCEPT !.tipo = "REVOCA", !.previos = NoRevocadas,
                                            !.nueva = TRUE, !.e = e]]
    /\ UNCHANGED <<cuentaVars, sesionVars, enlace>>

NuevaClave(temp) ==
    /\ FilaDeCuentaLibre
    /\ cambios < MaxCambios
    /\ clave' = cambios + 1 /\ cambios' = cambios + 1
    /\ hashViejo' = FALSE /\ temporal' = temp

\* One statement revokes the sessions and leaves their tokens alone.
RevocarFilas(filas) ==
    /\ \A s \in filas : FilaDeSesionLibre(s)
    /\ sesion' = [s \in Sesiones |-> IF s \in filas THEN "REVOCADA" ELSE sesion[s]]
    /\ UNCHANGED <<vencida, emitidos, usados, revocados, vista>>

\* One's own password: the present one is verified against what was read.
CambiarContrasena(p, s) ==
    /\ op[p] = Libre
    /\ SesionActiva(s)
    /\ op' = [op EXCEPT ![p] = [Libre EXCEPT !.tipo = "CAMBIA", !.s = s]]
    /\ UNCHANGED <<cuentaVars, sesionVars, enlace>>

\* Every other session is revoked.
GuardarContrasena(p) ==
    LET s == op[p].s IN
    /\ op[p].tipo = "CAMBIA"
    /\ NuevaClave(FALSE)
    /\ RevocarFilas(NoRevocadas \ {s})
    /\ exenta' = [exenta EXCEPT ![s] = TRUE]
    /\ Termina(p)
    /\ UNCHANGED <<activa, enlace>>

\* An administrator sets a temporary password.
RestablecerContrasena ==
    /\ NuevaClave(TRUE)
    /\ RevocarFilas(NoRevocadas)
    /\ UNCHANGED <<activa, exenta, enlace, op>>

DesactivarUsuario ==
    /\ activa /\ FilaDeCuentaLibre
    /\ activa' = FALSE
    /\ RevocarFilas(NoRevocadas)
    /\ UNCHANGED <<clave, cambios, hashViejo, temporal, exenta, enlace, op>>

-----------------------------------------------------------------------------

\* One handler per line: what begins and what follows.
Login(p) == Verificar(p) \/ \E s \in Sesiones : Entrar(p, s)

Refresh(p) ==
    \/ \E s \in Sesiones, k \in 1 .. MaxTokens : LeerToken(p, s, k)
    \/ MarcarUsado(p) \/ Emitir(p)

PasswordForgot(p) == EmitirEnlace(p) \/ \E e \in Enlaces : PedirEnlace(p, e)
PasswordReset(p) == \E e \in Enlaces : CanjearEnlace(p, e)
CambiarMiContrasena(p) == GuardarContrasena(p) \/ \E s \in Sesiones : CambiarContrasena(p, s)

CerrarSesiones(p) ==
    \/ \E s \in Sesiones : Logout(p, s) \/ LogoutTodas(p, s)
    \/ \E s, otra \in Sesiones : RevocarSesionDe(p, s, otra)

RevocarTodas(p) ==
    \/ \E s \in Sesiones : TomarSesion(p, s) \/ TomarTokens(p, s)
    \/ ConfirmarRevocacion(p)

Next ==
    \/ \E p \in Peticiones :
         \/ Login(p) \/ Refresh(p) \/ CerrarSesiones(p) \/ RevocarTodas(p)
         \/ PasswordForgot(p) \/ PasswordReset(p) \/ CambiarMiContrasena(p)
         \/ Abortar(p)
    \/ \E s \in Sesiones : Vencer(s)
    \/ RestablecerContrasena \/ DesactivarUsuario

Spec == Init /\ [][Next]_vars

-----------------------------------------------------------------------------
(* Properties *)

Usable(s, k) == k \notin usados[s] \cup revocados[s] /\ SesionActiva(s)

\* A session has at most one token that can be rotated: two requests that race
\* with the same token never leave two pairs in force.
UnSoloTokenUsable ==
    \A s \in Sesiones : Cardinality({k \in 1 .. emitidos[s] : Usable(s, k)}) <= 1

\* A new password closes the sessions opened with an older one, but for the
\* session that set it and for a login that had verified the older one already.
ClaveNuevaCierraLasDemas ==
    \A s \in Sesiones : SesionActiva(s) /\ vista[s] < cambios => exenta[s]

\* auth/service.py: a link consumed "cambia la contraseña" for good; what the
\* account accepts never goes back to an earlier password.
ClaveNoRetrocede == [][clave' >= clave]_vars

=============================================================================
