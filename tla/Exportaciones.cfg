SPECIFICATION ExFairSpec
CONSTANTS
    Ninguno = Ninguno
    Fuentes = {f1, f2}
    Obreros = {w1, w2}
    MaxReintentos = 1
    MaxMensajes = 1
    MaxCambios = 1
    MaxVidas = 2
    MaxFallos = 1
INVARIANTS DescargaFiel
PROPERTIES ListaHastaVencer Termina
CHECK_DEADLOCK FALSE
