\* Nobody moves a shipment between dispatch states by hand; c2 lacks its WR, c3 is in transit.
SPECIFICATION Spec
CONSTANTS
    c1 = c1  c2 = c2  c3 = c3
    d1 = d1  d2 = d2
    e1 = e1  e2 = e2
    Cargas = {c1, c2, c3}
    Solicitudes = {d1, d2}
    Empresas = {e1, e2}
    SinEmpresa = SinEmpresa
    Nadie = Nadie
    Transito <- SoloC3
    SinWR <- SoloC2
    Iniciales <- Almacenada
    Manuales <- ManualesDeBodega
    ConRequisitos <- SoloC1
SYMMETRY Simetria
INVARIANTS MismaEmpresa Alineado SinTrabas
PROPERTIES ImplementaApartado
