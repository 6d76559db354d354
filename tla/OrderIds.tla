------------------------------ MODULE OrderIds ------------------------------
(***************************************************************************)
(* The client order ids by which the event log, the venue and the service  *)
(* name an order (coinext-model/src/identifiers.rs, ClientOrderId).        *)
(***************************************************************************)
CONSTANT Orders
=============================================================================
