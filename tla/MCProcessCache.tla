--------------------------- MODULE MCProcessCache ---------------------------
(* A process that may end and come back as another, a UDP port it may hold on two
   addresses, and packets that take each phase of the classification. *)
EXTENDS ProcessCache

MCKeys == {[addr |-> "any", port |-> 1, proto |-> "udp"],
           [addr |-> "other", port |-> 1, proto |-> "udp"]}
MCUdp == [port |-> 1, proto |-> "udp"]
MCTcp == [port |-> 1, proto |-> "tcp"]
MCPackets ==
  {[src |-> MCUdp, dst |-> "game", dport |-> "game", syn |-> FALSE],
   [src |-> MCUdp, dst |-> "boot", dport |-> "web", syn |-> FALSE],
   [src |-> MCUdp, dst |-> "game", dport |-> "dns", syn |-> FALSE],
   [src |-> MCTcp, dst |-> "boot", dport |-> "web", syn |-> TRUE],
   [src |-> MCTcp, dst |-> "game", dport |-> "web", syn |-> FALSE]}
MCDsts == {"game", "boot"}
MCInRange == {"game"}
MCExcluded == {}
MCActive == {"boot"}
=============================================================================
