---------------------------- MODULE MCMigracion ----------------------------
(***************************************************************************)
(* A company, one of its accounts, a shipment with its pieces, a dispatch  *)
(* of it that the account asked for, an invoice and a bill of lading.      *)
(***************************************************************************)
EXTENDS Migracion

CONSTANTS e, u, w1, b1, d, i, f1, f2

MCFilas == {e, u, w1, b1, d, i, f1, f2}

MCTabla ==
    [r \in MCFilas |->
        CASE r = e -> "companies"
          [] r = u -> "users"
          [] r = w1 -> "shipments"
          [] r = b1 -> "packages"
          [] r = d -> "dispatches"
          [] r = i -> "items"
          [] r \in {f1, f2} -> "invoices"]

MCPadres ==
    [r \in MCFilas |->
        CASE r = e -> {}
          [] r \in {u, w1} -> {e}
          [] r \in {b1, f1} -> {w1}
          [] r = d -> {e, u}
          [] r = f2 -> {d}
          [] r = i -> {d, w1}]
=============================================================================
