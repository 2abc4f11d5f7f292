SPECIFICATION FairSpec
CONSTANTS
    d3 = d3
    bueno = bueno
    Ninguno = Ninguno
    Documentos = {d1, d3}
    Requisitos = {}
    Trabajadores = {w1}
    Contenidos = {bueno, malo}
    Validos = {bueno}
    Tamano <- Tamanos
    TipoDe <- Tipos
    DeDespacho = {d3}
    SinMejora = {}
    ProvistoPor <- Proveedores
    MaxEntregas = 1
    MaxFallos = 2
INVARIANTS ListoConObjeto RecompresionPorPerdida
PROPERTIES SeProcesa
CHECK_DEADLOCK FALSE
