SPECIFICATION Spec
CONSTANTS
    Nada = Nada
    Peticiones = {p1, p2}
    Sesiones = {s1, s2}
    Enlaces = {e1, e2}
    MaxTokens = 3
    MaxCambios = 1
SYMMETRY Simetria
INVARIANTS UnSoloTokenUsable ClaveNuevaCierraLasDemas
CHECK_DEADLOCK FALSE
