SPECIFICATION FairSpec
CONSTANTS
    Nada = Nada
    Peticiones = {p1, p2}
    Propuestas = {a1}
    Llaves = {k1}
    Tope = 1
    Lote = 1
    Limite = 1
    MaxVueltas = 2
    MaxVersion = 3
INVARIANTS UnSoloUso LlaveConRespuesta
PROPERTIES SeResuelveSola
CHECK_DEADLOCK FALSE
