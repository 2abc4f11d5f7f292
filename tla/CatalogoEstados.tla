--------------------------- MODULE CatalogoEstados ---------------------------
(***************************************************************************)
(* The status catalogue of a shipment ("carga"): the states, the two       *)
(* flows, and the transition rows that scripts/seed_shipment_statuses.py   *)
(* writes into shipment_status_transitions.  Source:                       *)
(* app/modules/shipments/catalog.py.  A constant module: it has no state.  *)
(***************************************************************************)
EXTENDS Integers, Sequences

Estados == {"PRE_ALERT", "BOOKING_ASSIGNED", "IN_TRANSIT", "TRANSSHIPMENT",
            "RECEIVED", "STORED", "DISPATCH_REQUESTED", "PREPARING",
            "DISPATCHED", "AT_DESTINATION", "DELIVERED", "CANCELLED"}

\* The states that start the retention clock and that the sweep may archive.
Cerrados == {"DELIVERED", "CANCELLED"}

Flujo == <<"PRE_ALERT", "IN_TRANSIT", "RECEIVED", "STORED",
           "DISPATCH_REQUESTED", "PREPARING", "DISPATCHED", "DELIVERED">>

FlujoMaritimo == <<"PRE_ALERT", "BOOKING_ASSIGNED", "IN_TRANSIT",
                   "TRANSSHIPMENT", "AT_DESTINATION", "DELIVERED">>

Pares(f) == {<<f[i], f[i + 1]>> : i \in 1 .. Len(f) - 1}

Avances == Pares(Flujo) \cup Pares(FlujoMaritimo)

\* Every forward row has its one-step way back; leaving DELIVERED backwards
\* asks for a permission of its own, but it is a row all the same.
Retrocesos == {<<p[2], p[1]>> : p \in Avances}

Cancelaciones == {<<"PRE_ALERT", "CANCELLED">>, <<"IN_TRANSIT", "CANCELLED">>}

Reaperturas == {<<"CANCELLED", "PRE_ALERT">>, <<"CANCELLED", "IN_TRANSIT">>}

Transiciones == Avances \cup Retrocesos \cup Cancelaciones \cup Reaperturas

\* The states gestion.crear lets a shipment be registered in: it is born in
\* PRE_ALERT and walks the sequence inside the same transaction.
SecuenciaInicial == <<"PRE_ALERT", "IN_TRANSIT", "RECEIVED", "STORED">>
SecuenciaMaritima == <<"PRE_ALERT", "BOOKING_ASSIGNED", "IN_TRANSIT",
                       "TRANSSHIPMENT", "AT_DESTINATION">>

EstadosIniciales == {SecuenciaInicial[i] : i \in 1 .. Len(SecuenciaInicial)}
                    \cup {SecuenciaMaritima[i] : i \in 1 .. Len(SecuenciaMaritima)}
=============================================================================
