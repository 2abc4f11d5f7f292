\* Two shipments, two disputes each, and a fair sweep.
SPECIFICATION SpecJusta
CONSTANTS
    c1 = c1  c2 = c2  w1 = w1
    Cargas = {c1, c2}
    Trabajadores = {w1}
    Disputas = {1, 2}
    Alcanzables <- Cierre
INVARIANTS PlazoDeCerradas ArchivadaCumplida
PROPERTIES ReversionCoherente NadaQuedaSinArchivar
