SPECIFICATION SpecJusta
CONSTANTS
    e1 = e1  e2 = e2  k1 = k1  k2 = k2  r1 = r1  r2 = r2  r3 = r3  w1 = w1  w2 = w2
    Eventos = {e1, e2}
    Claves = {k1, k2}
    clave <- ClavesPropias
    Destinos = {r1, r2, r3}
    DestinosDe <- Repartidos
    Verificados = {r1, r2}
    Trabajadores = {w1, w2}
    Ninguno = Ninguno
    MaxIntentos = 2
    Limite = 2
    Presupuesto = 2
    MaxCopias = 2
    MaxCaidas = 1
INVARIANTS EntregaCompleta CopiasPorPerdida
PROPERTIES ResueltoEsFinal SeResuelveSiCabe
CHECK_DEADLOCK FALSE
