---------------------------- MODULE SesionesProofs ----------------------------
(***************************************************************************)
(* What holds of Sesiones for any number of requests, sessions and links:  *)
(* a session has at most one token that can be rotated, and a new password *)
(* closes the sessions opened with an older one.                           *)
(***************************************************************************)
EXTENDS Sesiones, FiniteSetTheorems, TLAPS

\* All the tokens of a session but the last were used, and only they.
TokensUsados ==
    \A s \in Sesiones :
        /\ \A k \in 1 .. MaxTokens : k \in usados[s] <=> k < emitidos[s]
        /\ sesion[s] = "SIN_CREAR" => emitidos[s] = 0

\* A rotation is of a token that was given out; the one that marked it has the
\* last one, and it is the only one of its session.
Rotaciones ==
    \A p \in Peticiones : op[p].tipo \in {"ROTA", "EMITE"} =>
        /\ op[p].s \in Sesiones /\ op[p].k \in 1 .. emitidos[op[p].s]
        /\ op[p].tipo = "EMITE" =>
             /\ op[p].k = emitidos[op[p].s]
             /\ \A q \in Peticiones \ {p} : op[q].tipo = "EMITE" => op[q].s # op[p].s

\* A link that is being redeemed holds the account's row, so no session has
\* been opened since it listed those there were.
ClavePorGuardar ==
    \A p \in Peticiones : op[p].nueva =>
        /\ cambios < MaxCambios
        /\ NoRevocadas \subseteq op[p].previos
        /\ \A q \in Peticiones \ {p} : ~op[q].nueva

\* A session that ran out may come back, so this is said of those too.
SesionesExentas ==
    \A s \in NoRevocadas : vista[s] < cambios => exenta[s]

SesionesOK == TypeOK /\ TokensUsados /\ Rotaciones /\ ClavePorGuardar /\ SesionesExentas

-----------------------------------------------------------------------------
FormaDeOp == [tipo : {"LIBRE", "LOGIN", "ROTA", "EMITE", "REVOCA", "ENLACE", "CAMBIA"},
              s : Sesiones \cup {Nada}, k : 0 .. MaxTokens, tomadas : SUBSET Sesiones,
              conTokens : SUBSET Sesiones, clave : 0 .. MaxCambios, vista : 0 .. MaxCambios,
              viejo : BOOLEAN, nueva : BOOLEAN, e : Enlaces \cup {Nada},
              previos : SUBSET (Sesiones \cup Enlaces)]

\* A request that is doing nothing.
LEMMA LibreTipada == Libre \in FormaDeOp /\ Libre.tipo = "LIBRE" /\ ~Libre.nueva
<1>1. 0 \in 0 .. MaxTokens /\ 0 \in 0 .. MaxCambios
  BY Parametros
<1> QED
  BY <1>1 DEF Libre, FormaDeOp

\* At the start nobody has a session.
LEMMA SesionesInicial == Init => SesionesOK
<1> SUFFICES ASSUME Init PROVE SesionesOK
  OBVIOUS
<1>1. TypeOK
  <2>1. 0 \in 0 .. MaxTokens /\ 0 \in 0 .. MaxCambios
    BY Parametros
  <2>2. op \in [Peticiones -> FormaDeOp]
    BY LibreTipada DEF Init
  <2>3. activa \in BOOLEAN /\ hashViejo \in BOOLEAN /\ temporal \in BOOLEAN
    BY Zenon DEF Init
  <2>4. vencida \in [Sesiones -> BOOLEAN] /\ exenta \in [Sesiones -> BOOLEAN]
    BY DEF Init
  <2> QED
    BY <2>1, <2>2, <2>3, <2>4 DEF Init, TypeOK, FormaDeOp
<1>2. TokensUsados /\ SesionesExentas
  BY Parametros DEF Init, TokensUsados, SesionesExentas, NoRevocadas
<1>3. Rotaciones /\ ClavePorGuardar
  BY LibreTipada DEF Init, Rotaciones, ClavePorGuardar
<1> QED
  BY <1>1, <1>2, <1>3 DEF SesionesOK

\* A step that only changes what one request is doing keeps the invariant, when
\* a rotation it begins is of a token given out, the one it marks is the last
\* and nobody else's, and a redemption begins with the account's row free.
LEMMA CambiarPeticion ==
    ASSUME SesionesOK, NEW p \in Peticiones, NEW o \in FormaDeOp, op' = [op EXCEPT ![p] = o],
           UNCHANGED <<cuentaVars, sesionVars>>,
           enlace' \in [Enlaces -> {"SIN_CREAR", "VIVO", "CONSUMIDO"}],
           o.tipo \in {"ROTA", "EMITE"} => o.s \in Sesiones /\ o.k \in 1 .. emitidos[o.s],
           o.tipo = "EMITE" => /\ o.k = emitidos[o.s]
                               /\ TokenLibre(o.s, o.k) \/ (op[p].tipo = "EMITE" /\ o.s = op[p].s),
           o.nueva => \/ op[p].nueva /\ o.previos = op[p].previos
                      \/ FilaDeCuentaLibre /\ cambios < MaxCambios /\ NoRevocadas \subseteq o.previos
    PROVE  SesionesOK'
<1> USE DEF cuentaVars, sesionVars
<1>1. \A q \in Peticiones : op'[q] = IF q = p THEN o ELSE op[q]
  BY DEF SesionesOK, TypeOK
<1>2. TypeOK'
  BY DEF SesionesOK, TypeOK, FormaDeOp
<1>3. TokensUsados' /\ SesionesExentas'
  BY DEF SesionesOK, TokensUsados, SesionesExentas, NoRevocadas
<1>4. Rotaciones'
  <2>1. ASSUME NEW q \in Peticiones, op'[q].tipo \in {"ROTA", "EMITE"}
        PROVE  op'[q].s \in Sesiones /\ op'[q].k \in 1 .. emitidos[op'[q].s]
               /\ (op'[q].tipo = "EMITE" => op'[q].k = emitidos[op'[q].s])
    BY <1>1, <2>1 DEF SesionesOK, Rotaciones
  <2>2. ASSUME NEW q \in Peticiones \ {p}, op[q].tipo = "EMITE", o.tipo = "EMITE"
        PROVE  op[q].s # o.s
    BY <2>2 DEF TokenLibre, SesionesOK, Rotaciones
  <2>3. ASSUME NEW q \in Peticiones, NEW r \in Peticiones \ {q},
               op'[q].tipo = "EMITE", op'[r].tipo = "EMITE"
        PROVE  op'[r].s # op'[q].s
    BY <1>1, <2>2, <2>3 DEF SesionesOK, Rotaciones
  <2> QED
    BY <2>1, <2>3 DEF Rotaciones
<1>5. ClavePorGuardar'
  <2>1. NoRevocadas' = NoRevocadas
    BY DEF NoRevocadas
  <2>2. ASSUME NEW q \in Peticiones, op'[q].nueva
        PROVE  cambios < MaxCambios /\ NoRevocadas \subseteq op'[q].previos
    BY <1>1, <2>2 DEF SesionesOK, ClavePorGuardar
  <2>3. ASSUME NEW q \in Peticiones, NEW r \in Peticiones \ {q}, op'[q].nueva
        PROVE  ~op'[r].nueva
    BY <1>1, <2>3 DEF SesionesOK, ClavePorGuardar, FilaDeCuentaLibre
  <2> QED
    BY <2>1, <2>2, <2>3 DEF ClavePorGuardar
<1> QED
  BY <1>2, <1>3, <1>4, <1>5 DEF SesionesOK

\* To revoke, a request lists sessions; it touches nothing yet.
LEMMA RevocaConserva ==
    ASSUME SesionesOK, NEW p \in Peticiones, NEW filas \in SUBSET Sesiones, Revoca(p, filas),
           UNCHANGED <<cuentaVars, sesionVars, enlace>>
    PROVE  SesionesOK'
<1> DEFINE o == [Libre EXCEPT !.tipo = "REVOCA", !.previos = filas]
<1>1. o \in FormaDeOp /\ o.tipo = "REVOCA" /\ ~o.nueva
  BY LibreTipada DEF FormaDeOp
<1>2. op' = [op EXCEPT ![p] = o]
  BY DEF Revoca
<1> HIDE DEF o
<1>3. enlace' \in [Enlaces -> {"SIN_CREAR", "VIVO", "CONSUMIDO"}]
  BY DEF SesionesOK, TypeOK
<1> QED
  BY <1>1, <1>2, <1>3, CambiarPeticion

\* A request that ends without having written the account or a session.
LEMMA TerminaConserva ==
    ASSUME SesionesOK, NEW p \in Peticiones, Termina(p), UNCHANGED <<cuentaVars, sesionVars>>,
           enlace' \in [Enlaces -> {"SIN_CREAR", "VIVO", "CONSUMIDO"}]
    PROVE  SesionesOK'
<1>1. op' = [op EXCEPT ![p] = Libre]
  BY DEF Termina
<1> QED
  BY <1>1, LibreTipada, CambiarPeticion

\* The reads, and the marks of a request that has not committed.
LEMMA PeticionConserva ==
    ASSUME SesionesOK, NEW p \in Peticiones,
           \/ Verificar(p) \/ MarcarUsado(p) \/ Abortar(p) \/ EmitirEnlace(p) \/ CerrarSesiones(p)
           \/ \E s \in Sesiones, k \in 1 .. MaxTokens : LeerToken(p, s, k)
           \/ \E s \in Sesiones : TomarSesion(p, s) \/ TomarTokens(p, s) \/ CambiarContrasena(p, s)
           \/ \E e \in Enlaces : PedirEnlace(p, e) \/ CanjearEnlace(p, e)
    PROVE  SesionesOK'
<1>0. /\ op \in [Peticiones -> FormaDeOp] /\ op[p] \in FormaDeOp
      /\ enlace \in [Enlaces -> {"SIN_CREAR", "VIVO", "CONSUMIDO"}]
      /\ clave \in 0 .. MaxCambios /\ cambios \in 0 .. MaxCambios
      /\ emitidos \in [Sesiones -> 0 .. MaxTokens] /\ hashViejo \in BOOLEAN
      /\ MaxTokens \in Nat \ {0} /\ MaxCambios \in Nat
  BY Parametros DEF SesionesOK, TypeOK, FormaDeOp
<1>1. UNCHANGED <<cuentaVars, sesionVars>>
  BY DEF Verificar, MarcarUsado, Abortar, EmitirEnlace, CerrarSesiones, Logout, LogoutTodas,
         RevocarSesionDe, LeerToken, TomarSesion, TomarTokens, CambiarContrasena, PedirEnlace,
         CanjearEnlace
<1>2. CASE Verificar(p)
  <2> DEFINE o == [Libre EXCEPT !.tipo = "LOGIN", !.clave = clave, !.vista = cambios,
                                !.viejo = hashViejo]
  <2>1. op' = [op EXCEPT ![p] = o] /\ enlace' = enlace
    BY <1>2 DEF Verificar
  <2>2. o \in FormaDeOp /\ o.tipo = "LOGIN" /\ ~o.nueva
    BY <1>0, LibreTipada DEF FormaDeOp
  <2> HIDE DEF o
  <2> QED
    BY <1>0, <1>1, <2>1, <2>2, CambiarPeticion
<1>3. ASSUME NEW s \in Sesiones, NEW k \in 1 .. MaxTokens, LeerToken(p, s, k)
      PROVE  SesionesOK'
  <2>1. CASE k \in usados[s]
    BY <1>1, <1>3, <2>1, {s} \in SUBSET Sesiones, RevocaConserva DEF LeerToken
  <2>2. CASE k \notin usados[s]
    <3> DEFINE o == [Libre EXCEPT !.tipo = "ROTA", !.s = s, !.k = k]
    <3>1. op' = [op EXCEPT ![p] = o] /\ enlace' = enlace /\ k \in 1 .. emitidos[s]
      BY <1>3, <2>2 DEF LeerToken
    <3>2. o \in FormaDeOp /\ o.tipo = "ROTA" /\ o.s = s /\ o.k = k /\ ~o.nueva
      <4>1. k \in 0 .. MaxTokens
        BY <1>0
      <4> QED
        BY <4>1, LibreTipada DEF FormaDeOp
    <3> HIDE DEF o
    <3> QED
      BY <1>0, <1>1, <3>1, <3>2, CambiarPeticion
  <2> QED
    BY <2>1, <2>2
<1>4. CASE MarcarUsado(p)
  <2>0. PICK s \in Sesiones, k \in 1 .. MaxTokens : s = op[p].s /\ k = op[p].k /\ k \in 1 .. emitidos[s]
    <3>1. op[p].s \in Sesiones /\ op[p].k \in 1 .. emitidos[op[p].s]
      BY <1>4 DEF MarcarUsado, SesionesOK, Rotaciones
    <3> QED
      BY <1>0, <3>1
  <2>1. CASE k \in usados[s]
    BY <1>1, <1>4, <2>0, <2>1, {s} \in SUBSET Sesiones, RevocaConserva DEF MarcarUsado
  <2>2. CASE k \notin usados[s]
    <3> DEFINE o == [op[p] EXCEPT !.tipo = "EMITE"]
    <3>1. op' = [op EXCEPT ![p] = o] /\ enlace' = enlace /\ TokenLibre(s, k)
      BY <1>0, <1>4, <2>0, <2>2 DEF MarcarUsado
    <3>2. k = emitidos[s]
      BY <1>0, <2>0, <2>2 DEF SesionesOK, TokensUsados
    <3>3. /\ o \in FormaDeOp /\ o.tipo = "EMITE" /\ o.s = s /\ o.k = k
          /\ o.nueva = op[p].nueva /\ o.previos = op[p].previos
      BY <1>0, <2>0 DEF FormaDeOp
    <3> HIDE DEF o
    <3> QED
      BY <1>0, <1>1, <2>0, <3>1, <3>2, <3>3, CambiarPeticion
  <2> QED
    BY <2>1, <2>2
<1>5. CASE CerrarSesiones(p)
  <2>1. PICK filas \in SUBSET Sesiones : Revoca(p, filas)
    <3>1. NoRevocadas \in SUBSET Sesiones /\ \A s \in Sesiones : {s} \in SUBSET Sesiones
      BY DEF NoRevocadas
    <3> QED
      BY <1>5, <3>1 DEF CerrarSesiones, Logout, LogoutTodas, RevocarSesionDe
  <2>2. enlace' = enlace
    BY <1>5 DEF CerrarSesiones, Logout, LogoutTodas, RevocarSesionDe
  <2> QED
    BY <1>1, <2>1, <2>2, RevocaConserva
<1>6. ASSUME NEW s \in Sesiones, TomarSesion(p, s)
      PROVE  SesionesOK'
  <2> DEFINE o == [op[p] EXCEPT !.tomadas = @ \cup {s}]
  <2>1. op' = [op EXCEPT ![p] = o] /\ enlace' = enlace /\ op[p].tipo = "REVOCA"
    BY <1>0, <1>6 DEF TomarSesion
  <2>2. /\ o \in FormaDeOp /\ o.tipo = op[p].tipo /\ o.nueva = op[p].nueva
        /\ o.previos = op[p].previos
    BY <1>0 DEF FormaDeOp
  <2> HIDE DEF o
  <2> QED
    BY <1>0, <1>1, <2>1, <2>2, CambiarPeticion
<1>7. ASSUME NEW s \in Sesiones, TomarTokens(p, s)
      PROVE  SesionesOK'
  <2> DEFINE o == [op[p] EXCEPT !.conTokens = @ \cup {s}]
  <2>1. op' = [op EXCEPT ![p] = o] /\ enlace' = enlace /\ s \in op[p].tomadas
    BY <1>0, <1>7 DEF TomarTokens
  <2>3. op[p].tipo \in {"ROTA", "EMITE"} =>
          /\ op[p].s \in Sesiones /\ op[p].k \in 1 .. emitidos[op[p].s]
          /\ op[p].tipo = "EMITE" => op[p].k = emitidos[op[p].s]
    BY DEF SesionesOK, Rotaciones
  <2>2. /\ o \in FormaDeOp /\ o.tipo = op[p].tipo /\ o.nueva = op[p].nueva
        /\ o.previos = op[p].previos /\ o.s = op[p].s /\ o.k = op[p].k
    BY <1>0 DEF FormaDeOp
  <2> HIDE DEF o
  <2> QED
    BY <1>0, <1>1, <2>1, <2>2, <2>3, CambiarPeticion
<1>8. ASSUME NEW s \in Sesiones, CambiarContrasena(p, s)
      PROVE  SesionesOK'
  <2> DEFINE o == [Libre EXCEPT !.tipo = "CAMBIA", !.s = s]
  <2>1. op' = [op EXCEPT ![p] = o] /\ enlace' = enlace
    BY <1>8 DEF CambiarContrasena
  <2>2. o \in FormaDeOp /\ o.tipo = "CAMBIA" /\ ~o.nueva
    BY LibreTipada DEF FormaDeOp
  <2> HIDE DEF o
  <2> QED
    BY <1>0, <1>1, <2>1, <2>2, CambiarPeticion
<1>9. ASSUME NEW e \in Enlaces, PedirEnlace(p, e)
      PROVE  SesionesOK'
  <2> DEFINE filas == {x \in Enlaces : enlace[x] = "VIVO"}
             o == [Libre EXCEPT !.tipo = "ENLACE", !.e = e, !.previos = filas]
  <2>1. op' = [op EXCEPT ![p] = o] /\ enlace' = enlace
    BY <1>9 DEF PedirEnlace
  <2>2. filas \in SUBSET (Sesiones \cup Enlaces)
    OBVIOUS
  <2> HIDE DEF filas
  <2>3. o \in FormaDeOp /\ o.tipo = "ENLACE" /\ ~o.nueva
    BY <2>2, LibreTipada DEF FormaDeOp
  <2> HIDE DEF o
  <2> QED
    BY <1>0, <1>1, <2>1, <2>3, CambiarPeticion
<1>10. ASSUME NEW e \in Enlaces, CanjearEnlace(p, e)
      PROVE  SesionesOK'
  <2> DEFINE o == [Libre EXCEPT !.tipo = "REVOCA", !.previos = NoRevocadas, !.nueva = TRUE, !.e = e]
  <2>1. op' = [op EXCEPT ![p] = o] /\ enlace' = enlace /\ FilaDeCuentaLibre /\ cambios < MaxCambios
    BY <1>10 DEF CanjearEnlace
  <2>2. NoRevocadas \in SUBSET (Sesiones \cup Enlaces)
    BY DEF NoRevocadas
  <2>3. o \in FormaDeOp /\ o.tipo = "REVOCA" /\ o.previos = NoRevocadas
    BY <2>2, LibreTipada DEF FormaDeOp
  <2> HIDE DEF o
  <2> QED
    BY <1>0, <1>1, <2>1, <2>3, CambiarPeticion
<1>11. CASE EmitirEnlace(p)
  <2>1. enlace' \in [Enlaces -> {"SIN_CREAR", "VIVO", "CONSUMIDO"}]
    BY <1>0, <1>11 DEF EmitirEnlace
  <2> QED
    BY <1>1, <1>11, <2>1, TerminaConserva DEF EmitirEnlace
<1>12. CASE Abortar(p)
  BY <1>0, <1>1, <1>12, TerminaConserva DEF Abortar
<1> QED
  BY <1>2, <1>3, <1>4, <1>5, <1>6, <1>7, <1>8, <1>9, <1>10, <1>11, <1>12

\* Opening a session: its first token is the last one, and it is of the present
\* password unless the login had verified another.
LEMMA EntrarConserva ==
    ASSUME SesionesOK, NEW p \in Peticiones, NEW s \in Sesiones, Entrar(p, s)
    PROVE  SesionesOK'
<1>0. TypeOK /\ MaxTokens \in Nat \ {0} /\ MaxCambios \in Nat
  BY Parametros DEF SesionesOK
<1>1. /\ sesion[s] = "SIN_CREAR" /\ sesion' = [sesion EXCEPT ![s] = "VIVA"]
      /\ emitidos' = [emitidos EXCEPT ![s] = 1] /\ vista' = [vista EXCEPT ![s] = op[p].vista]
      /\ exenta' = [exenta EXCEPT ![s] = op[p].vista # cambios]
      /\ op' = [op EXCEPT ![p] = Libre] /\ FilaDeCuentaLibre
      /\ UNCHANGED <<vencida, usados, revocados, activa, cambios, temporal, enlace>>
  BY DEF Entrar, CrearSesion, Termina
<1>2. \A q \in Peticiones : op'[q] = IF q = p THEN Libre ELSE op[q]
  BY <1>0, <1>1 DEF TypeOK
<1>3. emitidos[s] = 0
  BY <1>1 DEF SesionesOK, TokensUsados
<1>4. \A t \in Sesiones : /\ sesion'[t] = IF t = s THEN "VIVA" ELSE sesion[t]
                          /\ emitidos'[t] = IF t = s THEN 1 ELSE emitidos[t]
                          /\ t # s => vista'[t] = vista[t] /\ exenta'[t] = exenta[t]
  BY <1>0, <1>1 DEF TypeOK
<1>5. vista'[s] = op[p].vista /\ (exenta'[s] <=> op[p].vista # cambios)
  BY <1>0, <1>1 DEF TypeOK
<1>6. TypeOK'
  <2>1. op' \in [Peticiones -> FormaDeOp] /\ op[p] \in FormaDeOp
    BY <1>0, <1>1, LibreTipada DEF TypeOK, FormaDeOp
  <2>2. clave' \in 0 .. MaxCambios /\ op[p].vista \in 0 .. MaxCambios
    BY <1>0, <2>1 DEF Entrar, TypeOK, FormaDeOp
  <2>3. hashViejo' \in BOOLEAN
    BY <1>0 DEF Entrar, TypeOK
  <2>4. exenta' \in [Sesiones -> BOOLEAN]
    BY <1>0, <1>1 DEF TypeOK
  <2>5. 1 \in 0 .. MaxTokens
    BY <1>0
  <2>6. /\ sesion' \in [Sesiones -> {"SIN_CREAR", "VIVA", "REVOCADA"}]
        /\ emitidos' \in [Sesiones -> 0 .. MaxTokens]
        /\ vista' \in [Sesiones -> 0 .. MaxCambios]
    BY <1>0, <1>1, <2>2, <2>5 DEF TypeOK
  <2> QED
    BY <1>0, <1>1, <2>1, <2>2, <2>3, <2>4, <2>6 DEF TypeOK, FormaDeOp
<1>7. TokensUsados'
  <2>1. \A k \in 1 .. MaxTokens : k \in usados[s] <=> k < 1
    BY <1>0, <1>3 DEF SesionesOK, TokensUsados
  <2> QED
    BY <1>1, <1>4, <2>1 DEF SesionesOK, TokensUsados
<1>8. Rotaciones'
  <2>1. \A q \in Peticiones : op[q].tipo \in {"ROTA", "EMITE"} => op[q].s # s
    BY <1>3 DEF SesionesOK, Rotaciones
  <2> QED
    BY <1>2, <1>4, <2>1, LibreTipada DEF SesionesOK, Rotaciones
<1>9. ClavePorGuardar'
  BY <1>1, <1>2, LibreTipada DEF ClavePorGuardar, FilaDeCuentaLibre
<1>10. SesionesExentas'
  <2>1. op[p].vista < cambios => op[p].vista # cambios
    BY <1>0 DEF TypeOK
  <2> QED
    BY <1>1, <1>4, <1>5, <2>1 DEF SesionesOK, SesionesExentas, NoRevocadas
<1> QED
  BY <1>6, <1>7, <1>8, <1>9, <1>10 DEF SesionesOK

\* The next pair of tokens: the last one is used and another becomes the last.
LEMMA EmitirConserva ==
    ASSUME SesionesOK, NEW p \in Peticiones, Emitir(p)
    PROVE  SesionesOK'
<1>0. TypeOK /\ MaxTokens \in Nat \ {0} /\ op[p].tipo = "EMITE"
  BY Parametros DEF SesionesOK, Emitir
<1>1. PICK s \in Sesiones, k \in 1 .. MaxTokens :
        s = op[p].s /\ k = op[p].k /\ k = emitidos[s] /\ emitidos[s] < MaxTokens
  <2>1. op[p].s \in Sesiones /\ op[p].k \in 1 .. emitidos[op[p].s] /\ op[p].k = emitidos[op[p].s]
    BY <1>0 DEF SesionesOK, Rotaciones
  <2>2. emitidos[op[p].s] \in 0 .. MaxTokens
    BY <1>0, <2>1 DEF TypeOK
  <2> QED
    BY <1>0, <2>1, <2>2 DEF Emitir
<1>2. /\ usados' = [usados EXCEPT ![s] = @ \cup {k}] /\ emitidos' = [emitidos EXCEPT ![s] = @ + 1]
      /\ vencida' \in {vencida, [vencida EXCEPT ![s] = FALSE]}
      /\ op' = [op EXCEPT ![p] = Libre]
      /\ UNCHANGED <<cuentaVars, sesion, revocados, vista, exenta, enlace>>
  BY <1>1 DEF Emitir, Termina
<1>3. \A q \in Peticiones : op'[q] = IF q = p THEN Libre ELSE op[q]
  BY <1>0, <1>2 DEF TypeOK
<1>4. \A t \in Sesiones : /\ emitidos'[t] = IF t = s THEN k + 1 ELSE emitidos[t]
                          /\ usados'[t] = IF t = s THEN usados[s] \cup {k} ELSE usados[t]
  BY <1>0, <1>1, <1>2 DEF TypeOK
<1>5. TypeOK'
  <2>1. op' \in [Peticiones -> FormaDeOp]
    BY <1>0, <1>2, LibreTipada DEF TypeOK, FormaDeOp
  <2>2. k + 1 \in 0 .. MaxTokens /\ emitidos[s] + 1 = k + 1
    BY <1>0, <1>1
  <2>3. emitidos' \in [Sesiones -> 0 .. MaxTokens]
    BY <1>0, <1>2, <2>2 DEF TypeOK
  <2>4. usados' \in [Sesiones -> SUBSET (1 .. MaxTokens)]
    BY <1>0, <1>2 DEF TypeOK
  <2>5. vencida' \in [Sesiones -> BOOLEAN]
    BY <1>0, <1>2 DEF TypeOK
  <2> QED
    BY <1>0, <1>2, <2>1, <2>3, <2>4, <2>5 DEF TypeOK, FormaDeOp, cuentaVars
<1>6. TokensUsados'
  <2>1. \A j \in 1 .. MaxTokens : j \in usados[s] \cup {k} <=> j < k + 1
    BY <1>0, <1>1 DEF SesionesOK, TokensUsados
  <2>2. sesion[s] # "SIN_CREAR"
    BY <1>1 DEF SesionesOK, TokensUsados
  <2> QED
    BY <1>2, <1>4, <2>1, <2>2 DEF SesionesOK, TokensUsados
<1>7. Rotaciones'
  <2>1. \A q \in Peticiones \ {p} : op[q].tipo = "EMITE" => op[q].s # s
    BY <1>0, <1>1 DEF SesionesOK, Rotaciones
  <2>2. ASSUME NEW q \in Peticiones \ {p}, op[q].tipo \in {"ROTA", "EMITE"}
        PROVE  op[q].s \in Sesiones /\ op[q].k \in 1 .. emitidos'[op[q].s]
    <3>1. op[q].s \in Sesiones /\ op[q].k \in 1 .. emitidos[op[q].s]
      BY <2>2 DEF SesionesOK, Rotaciones
    <3> QED
      BY <1>1, <1>4, <3>1
  <2> QED
    BY <1>3, <1>4, <2>1, <2>2, LibreTipada DEF SesionesOK, Rotaciones
<1>8. ClavePorGuardar'
  BY <1>2, <1>3, LibreTipada DEF SesionesOK, ClavePorGuardar, NoRevocadas, cuentaVars
<1>9. SesionesExentas'
  BY <1>2 DEF SesionesOK, SesionesExentas, NoRevocadas, cuentaVars
<1> QED
  BY <1>5, <1>6, <1>7, <1>8, <1>9 DEF SesionesOK

\* What revoking does: sessions are only taken away, and every one that is left
\* when the password changes is exempt.
LEMMA QuitarSesiones ==
    ASSUME SesionesOK, TypeOK', NEW filas,
           sesion' = [s \in Sesiones |-> IF s \in filas THEN "REVOCADA" ELSE sesion[s]],
           UNCHANGED <<emitidos, usados, vista>>,
           \A s \in Sesiones : exenta[s] => exenta'[s],
           \A p \in Peticiones : op'[p] = op[p] \/ op'[p] = Libre,
           \/ cambios' = cambios
           \/ /\ \A s \in NoRevocadas \ filas : exenta'[s]
              /\ \A p \in Peticiones : ~op'[p].nueva
    PROVE  SesionesOK'
<1>1. NoRevocadas' = NoRevocadas \ filas
  BY DEF NoRevocadas
<1>2. TokensUsados'
  BY DEF SesionesOK, TokensUsados
<1>3. Rotaciones'
  BY LibreTipada DEF SesionesOK, Rotaciones
<1>4. ClavePorGuardar'
  BY <1>1, LibreTipada DEF SesionesOK, ClavePorGuardar
<1>5. SesionesExentas'
  <2> SUFFICES ASSUME NEW s \in NoRevocadas \ filas, vista'[s] < cambios'
               PROVE  exenta'[s]
    BY <1>1 DEF SesionesExentas
  <2>1. CASE cambios' = cambios
    BY <2>1 DEF SesionesOK, SesionesExentas, NoRevocadas
  <2>2. CASE cambios' # cambios
    BY <2>2
  <2> QED
    BY <2>1, <2>2
<1> QED
  BY <1>2, <1>3, <1>4, <1>5 DEF SesionesOK

\* The commit of a revocation, with the new password when a link brought it:
\* the sessions it listed are all there are.
LEMMA ConfirmarConserva ==
    ASSUME SesionesOK, NEW p \in Peticiones, ConfirmarRevocacion(p)
    PROVE  SesionesOK'
<1>0. TypeOK /\ MaxCambios \in Nat /\ MaxTokens \in Nat
  BY Parametros DEF SesionesOK
<1> DEFINE filas == op[p].previos
<1>1. /\ sesion' = [s \in Sesiones |-> IF s \in filas THEN "REVOCADA" ELSE sesion[s]]
      /\ revocados' = [s \in Sesiones |-> IF s \in filas THEN 1 .. emitidos[s] ELSE revocados[s]]
      /\ op' = [op EXCEPT ![p] = Libre]
      /\ UNCHANGED <<activa, vencida, emitidos, usados, vista, exenta>>
  BY DEF ConfirmarRevocacion, RevocarSesiones, Termina
<1>2. \A q \in Peticiones : op'[q] = IF q = p THEN Libre ELSE op[q]
  BY <1>0, <1>1 DEF TypeOK
<1>3. op[p].nueva => cambios < MaxCambios /\ NoRevocadas \subseteq filas
                     /\ \A q \in Peticiones \ {p} : ~op[q].nueva
  BY DEF SesionesOK, ClavePorGuardar
<1>4. TypeOK'
  <2>1. op' \in [Peticiones -> FormaDeOp]
    BY <1>0, <1>1, LibreTipada DEF TypeOK, FormaDeOp
  <2>2. \A s \in Sesiones : 1 .. emitidos[s] \in SUBSET (1 .. MaxTokens)
    BY <1>0 DEF TypeOK
  <2>3. revocados' \in [Sesiones -> SUBSET (1 .. MaxTokens)]
    BY <1>0, <1>1, <2>2 DEF TypeOK
  <2>4. sesion' \in [Sesiones -> {"SIN_CREAR", "VIVA", "REVOCADA"}]
    BY <1>0, <1>1 DEF TypeOK
  <2>5. clave' \in 0 .. MaxCambios /\ cambios' \in 0 .. MaxCambios
    BY <1>0, <1>3 DEF ConfirmarRevocacion, TypeOK
  <2>6. hashViejo' \in BOOLEAN /\ temporal' \in BOOLEAN
    BY <1>0 DEF ConfirmarRevocacion, TypeOK
  <2>7. enlace' \in [Enlaces -> {"SIN_CREAR", "VIVO", "CONSUMIDO"}]
    BY <1>0 DEF ConfirmarRevocacion, TypeOK
  <2> QED
    BY <1>0, <1>1, <2>1, <2>3, <2>4, <2>5, <2>6, <2>7 DEF TypeOK, FormaDeOp
<1>5. CASE op[p].nueva
  <2>1. \A q \in Peticiones : ~op'[q].nueva
    BY <1>2, <1>3, <1>5, LibreTipada
  <2> HIDE DEF filas
  <2> QED
    BY <1>1, <1>2, <1>3, <1>4, <1>5, <2>1, QuitarSesiones
<1>6. CASE ~op[p].nueva
  <2>1. cambios' = cambios
    BY <1>6 DEF ConfirmarRevocacion
  <2> HIDE DEF filas
  <2> QED
    BY <1>1, <1>2, <1>4, <2>1, QuitarSesiones
<1> QED
  BY <1>5, <1>6

\* A change of password of one's own or by an administrator, and the end of an
\* account, revoke the sessions in the same statement.
LEMMA CuentaConserva ==
    ASSUME SesionesOK,
           \/ \E p \in Peticiones : GuardarContrasena(p)
           \/ RestablecerContrasena \/ DesactivarUsuario
    PROVE  SesionesOK'
<1>0. TypeOK /\ MaxCambios \in Nat
  BY Parametros DEF SesionesOK
<1>1. ASSUME NEW filas \in SUBSET Sesiones, RevocarFilas(filas),
             activa' \in BOOLEAN, hashViejo' \in BOOLEAN, temporal' \in BOOLEAN,
             clave' \in 0 .. MaxCambios, cambios' \in 0 .. MaxCambios,
             exenta' \in [Sesiones -> BOOLEAN], enlace' = enlace,
             op' = op \/ \E p \in Peticiones : op' = [op EXCEPT ![p] = Libre]
      PROVE  TypeOK'
  <2>1. op' \in [Peticiones -> FormaDeOp]
    BY <1>0, <1>1, LibreTipada DEF TypeOK, FormaDeOp
  <2>2. sesion' \in [Sesiones -> {"SIN_CREAR", "VIVA", "REVOCADA"}]
        /\ UNCHANGED <<vencida, emitidos, usados, revocados, vista>>
    BY <1>0, <1>1 DEF TypeOK, RevocarFilas
  <2> QED
    BY <1>0, <1>1, <2>1, <2>2 DEF TypeOK, FormaDeOp
<1>2. ASSUME NEW temp \in BOOLEAN, NuevaClave(temp)
      PROVE  /\ hashViejo' \in BOOLEAN /\ temporal' \in BOOLEAN
             /\ clave' \in 0 .. MaxCambios /\ cambios' \in 0 .. MaxCambios
             /\ \A p \in Peticiones : ~op[p].nueva
  <2>1. hashViejo' \in BOOLEAN /\ temporal' \in BOOLEAN
    BY <1>2, Zenon DEF NuevaClave
  <2>2. clave' \in 0 .. MaxCambios /\ cambios' \in 0 .. MaxCambios
    BY <1>0, <1>2 DEF NuevaClave, TypeOK
  <2>3. \A p \in Peticiones : ~op[p].nueva
    BY <1>2 DEF NuevaClave, FilaDeCuentaLibre
  <2> QED
    BY <2>1, <2>2, <2>3
<1>3. NoRevocadas \in SUBSET Sesiones /\ \A s : NoRevocadas \ {s} \in SUBSET Sesiones
  BY DEF NoRevocadas
<1>4. ASSUME NEW p \in Peticiones, GuardarContrasena(p)
      PROVE  SesionesOK'
  <2> DEFINE s == op[p].s
             filas == NoRevocadas \ {s}
  <2>1. /\ NuevaClave(FALSE) /\ RevocarFilas(filas) /\ exenta' = [exenta EXCEPT ![s] = TRUE]
        /\ op' = [op EXCEPT ![p] = Libre] /\ UNCHANGED <<activa, enlace>>
    BY <1>4 DEF GuardarContrasena, Termina
  <2>2. \A q \in Peticiones : op'[q] = IF q = p THEN Libre ELSE op[q]
    BY <1>0, <2>1 DEF TypeOK
  <2>3. exenta' \in [Sesiones -> BOOLEAN] /\ activa' \in BOOLEAN
    BY <1>0, <2>1 DEF TypeOK
  <2>4. \A t \in Sesiones : (exenta[t] \/ t = s) => exenta'[t]
    BY <1>0, <2>1 DEF TypeOK
  <2>5. FALSE \in BOOLEAN
    OBVIOUS
  <2>6. TypeOK'
    BY <1>1, <1>2, <1>3, <2>1, <2>3, <2>5
  <2>7. \A q \in Peticiones : ~op'[q].nueva
    BY <1>2, <2>1, <2>2, <2>5, LibreTipada
  <2>8. /\ sesion' = [t \in Sesiones |-> IF t \in filas THEN "REVOCADA" ELSE sesion[t]]
        /\ UNCHANGED <<emitidos, usados, vista>>
    BY <2>1 DEF RevocarFilas
  <2>9. \A t \in NoRevocadas \ filas : exenta'[t]
    BY <2>4 DEF NoRevocadas
  <2> HIDE DEF s, filas
  <2> QED
    BY <2>2, <2>4, <2>6, <2>7, <2>8, <2>9, QuitarSesiones
<1>5. CASE RestablecerContrasena
  <2>1. NuevaClave(TRUE) /\ RevocarFilas(NoRevocadas) /\ UNCHANGED <<activa, exenta, enlace, op>>
    BY <1>5 DEF RestablecerContrasena
  <2>2. exenta' \in [Sesiones -> BOOLEAN] /\ activa' \in BOOLEAN
    BY <1>0, <2>1 DEF TypeOK
  <2>3. TRUE \in BOOLEAN
    OBVIOUS
  <2>4. TypeOK'
    BY <1>1, <1>2, <1>3, <2>1, <2>2, <2>3
  <2>5. \A q \in Peticiones : ~op'[q].nueva
    BY <1>2, <2>1, <2>3
  <2>6. /\ sesion' = [t \in Sesiones |-> IF t \in NoRevocadas THEN "REVOCADA" ELSE sesion[t]]
        /\ UNCHANGED <<emitidos, usados, vista>>
    BY <2>1 DEF RevocarFilas
  <2> QED
    BY <2>1, <2>4, <2>5, <2>6, QuitarSesiones
<1>6. CASE DesactivarUsuario
  <2>1. /\ activa' = FALSE /\ RevocarFilas(NoRevocadas)
        /\ UNCHANGED <<clave, cambios, hashViejo, temporal, exenta, enlace, op>>
    BY <1>6 DEF DesactivarUsuario
  <2>2. activa' \in BOOLEAN
    BY <2>1
  <2>3. TypeOK'
    BY <1>0, <1>1, <1>3, <2>1, <2>2 DEF TypeOK
  <2>4. /\ sesion' = [t \in Sesiones |-> IF t \in NoRevocadas THEN "REVOCADA" ELSE sesion[t]]
        /\ UNCHANGED <<emitidos, usados, vista>>
    BY <2>1 DEF RevocarFilas
  <2> QED
    BY <2>1, <2>3, <2>4, QuitarSesiones
<1> QED
  BY <1>4, <1>5, <1>6

\* A session runs out.
LEMMA VencerConserva ==
    ASSUME SesionesOK, NEW s \in Sesiones, Vencer(s)
    PROVE  SesionesOK'
<1>1. UNCHANGED <<cuentaVars, sesion, emitidos, usados, revocados, vista, exenta, enlace, op>>
  BY DEF Vencer
<1>2. TypeOK'
  BY <1>1 DEF Vencer, SesionesOK, TypeOK, cuentaVars
<1> QED
  BY <1>1, <1>2 DEF SesionesOK, TokensUsados, Rotaciones, ClavePorGuardar, SesionesExentas,
                    NoRevocadas, cuentaVars

\* Every step keeps the invariant.
LEMMA SesionesPaso == SesionesOK /\ [Next]_vars => SesionesOK'
<1> SUFFICES ASSUME SesionesOK, [Next]_vars PROVE SesionesOK'
  OBVIOUS
<1>1. ASSUME NEW p \in Peticiones,
             \/ Login(p) \/ Refresh(p) \/ CerrarSesiones(p) \/ RevocarTodas(p)
             \/ PasswordForgot(p) \/ PasswordReset(p) \/ CambiarMiContrasena(p) \/ Abortar(p)
      PROVE  SesionesOK'
  BY <1>1, PeticionConserva, EntrarConserva, EmitirConserva, ConfirmarConserva, CuentaConserva
     DEF Login, Refresh, RevocarTodas, PasswordForgot, PasswordReset, CambiarMiContrasena
<1>2. ASSUME NEW s \in Sesiones, Vencer(s)
      PROVE  SesionesOK'
  BY <1>2, VencerConserva
<1>3. CASE RestablecerContrasena \/ DesactivarUsuario
  BY <1>3, CuentaConserva
<1>4. CASE UNCHANGED vars
  BY <1>4 DEF vars, cuentaVars, sesionVars, SesionesOK, TypeOK, TokensUsados, Rotaciones,
              ClavePorGuardar, SesionesExentas, NoRevocadas
<1> QED
  BY <1>1, <1>2, <1>3, <1>4 DEF Next

\* The invariant holds throughout.
LEMMA SesionesSiempre == Spec => []SesionesOK
<1> QED
  BY SesionesInicial, SesionesPaso, PTL DEF Spec

-----------------------------------------------------------------------------
\* The account, its sessions, tokens and links keep their form.
THEOREM TipoCorrecto == Spec => []TypeOK
<1>1. SesionesOK => TypeOK
  BY DEF SesionesOK
<1> QED
  BY <1>1, SesionesSiempre, PTL

\* Only the last token of a session can be rotated, so two requests that race
\* with one token never leave two pairs in force.
THEOREM UnSoloTokenUsableSiempre == Spec => []UnSoloTokenUsable
<1>1. SesionesOK => UnSoloTokenUsable
  <2> SUFFICES ASSUME SesionesOK, NEW s \in Sesiones
               PROVE  Cardinality({k \in 1 .. emitidos[s] : Usable(s, k)}) <= 1
    BY DEF UnSoloTokenUsable
  <2> DEFINE U == {k \in 1 .. emitidos[s] : Usable(s, k)}
  <2>1. emitidos[s] \in 0 .. MaxTokens /\ MaxTokens \in Nat
    BY Parametros DEF SesionesOK, TypeOK
  <2>2. U \subseteq {emitidos[s]}
    BY <2>1 DEF SesionesOK, TokensUsados, Usable
  <2>3. IsFiniteSet({emitidos[s]}) /\ Cardinality({emitidos[s]}) = 1
    BY FS_Singleton
  <2>4. Cardinality(U) <= Cardinality({emitidos[s]})
    BY <2>2, <2>3, FS_Subset
  <2> QED
    BY <2>3, <2>4
<1> QED
  BY <1>1, SesionesSiempre, PTL

\* After a change of password no session of an older one is alive, but for the
\* one that changed it and for a login that had verified the older one already.
THEOREM ClaveNuevaCierraLasDemasSiempre == Spec => []ClaveNuevaCierraLasDemas
<1>1. SesionesOK => ClaveNuevaCierraLasDemas
  BY DEF SesionesOK, SesionesExentas, ClaveNuevaCierraLasDemas, SesionActiva, NoRevocadas
<1> QED
  BY <1>1, SesionesSiempre, PTL
===============================================================================
