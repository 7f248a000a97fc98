----------------------------- MODULE MCUdpRelay -----------------------------
(* Three relays and time for three switches, so that a relay is left, and left
   behind by a second switch, while the receiver is between two of its loads. *)
EXTENDS UdpRelay

CONSTANTS a, b, c
=============================================================================
