----------------------------- MODULE MCDespachos -----------------------------
(***************************************************************************)
(* Small instances of Despachos.  The cfg files pick the bounds below:     *)
(* which states a shipment is registered in and which moves people make by *)
(* hand, the two things that decide how far shipments drift from their     *)
(* requests.                                                               *)
(***************************************************************************)
EXTENDS Despachos, TLC

CONSTANTS c1, c2, c3, d1, d2, e1, e2

\* Shipments c1 and c2 are interchangeable when every bound treats them alike.
Simetria == Permutations({d1, d2})

Ninguno == {}
SoloC1 == {c1}
SoloC2 == {c2}
SoloC3 == {c3}
Almacenada == {"STORED"}
AlmacenadaOEnTransito == {"STORED", "IN_TRANSIT"}
Recibida == {"RECEIVED"}

\* Moves that touch no dispatch state.
ManualesDeBodega == {<<"RECEIVED", "STORED">>, <<"STORED", "RECEIVED">>}

\* Moves that take a claimed shipment away under its request, in and out of
\* every status a request works with, to delivery and to cancellation.
ManualesDeDespacho == {<<"STORED", "DISPATCH_REQUESTED">>,
                       <<"IN_TRANSIT", "DISPATCH_REQUESTED">>,
                       <<"DISPATCH_REQUESTED", "STORED">>,
                       <<"DISPATCH_REQUESTED", "PREPARING">>,
                       <<"DISPATCHED", "PREPARING">>,
                       <<"DISPATCHED", "DELIVERED">>,
                       <<"PREPARING", "CANCELLED">>,
                       <<"CANCELLED", "IN_TRANSIT">>}

AlmacenarSinWR == {<<"RECEIVED", "STORED">>}
Regreso == {<<"DISPATCHED", "PREPARING">>, <<"DISPATCHED", "DELIVERED">>}
=============================================================================
