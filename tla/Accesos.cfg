SPECIFICATION Spec
CONSTANTS
    Nada = Nada
    Peticiones = {p1, p2}
    Usuarios = {u1, u2}
    Empresas = {e1}
    MaxVersion = 2
SYMMETRY Simetria
INVARIANTS RespuestaVigente DesactivarSurteEfecto
CHECK_DEADLOCK FALSE
