--------------------------- MODULE MCRelayTraffic ---------------------------
(* Two workers, a connection to an asset host, two asset relays to be had, two batches. *)
EXTENDS RelayTraffic
=============================================================================
