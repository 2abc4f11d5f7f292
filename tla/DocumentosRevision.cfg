SPECIFICATION Spec
CONSTANTS
    d3 = d3
    bueno = bueno
    Ninguno = Ninguno
    Documentos = {d1, d2}
    Requisitos = {r1}
    Trabajadores = {w1}
    Contenidos = {bueno}
    Validos = {bueno}
    Tamano <- Tamanos
    TipoDe <- Tipos
    DeDespacho = {}
    SinMejora = {}
    ProvistoPor <- Proveedores
    MaxEntregas = 1
    MaxFallos = 1
SYMMETRY Simetria
INVARIANTS VerificadoPorListo SoloLaRevisionSeAdelanta
CHECK_DEADLOCK FALSE
