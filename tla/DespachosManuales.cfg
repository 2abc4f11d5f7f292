\* Two shipments, two requests, and people moving shipments by hand.
SPECIFICATION Spec
CONSTANTS
    c1 = c1  c2 = c2  c3 = c3
    d1 = d1  d2 = d2
    e1 = e1  e2 = e2
    Cargas = {c1, c2}
    Solicitudes = {d1, d2}
    Empresas = {e1}
    SinEmpresa = SinEmpresa
    Nadie = Nadie
    Transito <- Ninguno
    SinWR <- SoloC2
    Iniciales <- AlmacenadaOEnTransito
    Manuales <- ManualesDeDespacho
    ConRequisitos <- SoloC1
SYMMETRY Simetria
INVARIANTS ReclamoUnico ReclamoVigente
PROPERTIES SigueAlineada DevuelveTodo ArchivadaCongelada
