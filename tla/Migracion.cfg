SPECIFICATION MiFairSpec
CONSTANTS
    e = e
    u = u
    w1 = w1
    b1 = b1
    d = d
    i = i
    f1 = f1
    f2 = f2
    Nada = Nada
    Filas <- MCFilas
    Tabla <- MCTabla
    Padres <- MCPadres
    MaxCaidas = 1
INVARIANTS
    SinDuplicados
    RequisitoConArchivo
PROPERTIES
    ImplementaTraslado
    TodoLlega
CHECK_DEADLOCK FALSE
