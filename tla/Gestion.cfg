SPECIFICATION Spec
CONSTANTS
    Nada = Nada
    Peticiones = {p1, p2}
    Cargas = {c1, c2}
    Bodegas = {m1, m2}
    EmiteWR = {m1, m2}
    Valores = {w1}
    MaxVersion = 3
INVARIANTS UnWRPorBodega
PROPERTIES NadaSePisa
CHECK_DEADLOCK FALSE
