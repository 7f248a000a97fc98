----------------------------- MODULE LossyTunnel -----------------------------
(***************************************************************************)
(* What the tunnel promises a connection about its packets: each one goes  *)
(* into the tunnel or around it, once; those in the tunnel come out at one *)
(* end in the order they went in, but some of them leave it for the way    *)
(* around, and some are lost. When the tunnel is closed, the last ones may *)
(* come out at its own end, Home, instead of the connection's.             *)
(***************************************************************************)
EXTENDS Naturals, Sequences

CONSTANTS Ports, Servers, MaxPackets, Home

VARIABLES
  sent,       \* how many packets a connection has sent
  inside,     \* the numbers of those in the tunnel
  out,        \* where those that came out did, and their numbers
  around,     \* the packets that did not go in, or not through
  closing     \* the tunnel is being closed

vars == <<sent, inside, out, around, closing>>

Init ==
  /\ sent = [p \in Ports |-> 0] /\ inside = [p \in Ports |-> {}]
  /\ out = [p \in Ports |-> <<>>] /\ around = {}
  /\ closing = FALSE

Send(p) == sent' = [sent EXCEPT ![p] = @ + 1]

Enter(p) ==
  /\ Send(p)
  /\ inside' = [inside EXCEPT ![p] = @ \cup {sent[p] + 1}]
  /\ UNCHANGED <<out, around, closing>>

GoAround(p) ==
  /\ Send(p)
  /\ around' = around \cup {<<p, sent[p] + 1>>}
  /\ UNCHANGED <<inside, out, closing>>

\* The first of those inside goes on.
Takes(p, n) ==
  /\ n \in inside[p] /\ \A m \in inside[p] : n <= m
  /\ inside' = [inside EXCEPT ![p] = @ \ {n}]

\* It comes out where the ones before it did; at Home also if the tunnel is closing, and
\* then so do those after it.
Leave(p, n, end) ==
  /\ Takes(p, n)
  /\ \A i \in DOMAIN out[p] :
       /\ out[p][i][2] < n
       /\ out[p][i][1] = end \/ (closing /\ end = Home)
  /\ out' = [out EXCEPT ![p] = Append(@, <<end, n>>)]
  /\ UNCHANGED <<sent, around, closing>>

Divert(p, n) ==
  /\ Takes(p, n)
  /\ around' = around \cup {<<p, n>>}
  /\ UNCHANGED <<sent, out, closing>>

Lose ==
  /\ inside' \in [Ports -> SUBSET (1 .. MaxPackets)]
  /\ \A p \in Ports : inside'[p] \subseteq inside[p]
  /\ UNCHANGED <<sent, out, around, closing>>

Close ==
  /\ ~closing /\ closing' = TRUE
  /\ UNCHANGED <<sent, inside, out, around>>

Next ==
  \/ \E p \in Ports : Enter(p) \/ GoAround(p)
  \/ \E p \in Ports, n \in 1 .. MaxPackets : Divert(p, n)
  \/ \E p \in Ports, n \in 1 .. MaxPackets, end \in Servers : Leave(p, n, end)
  \/ Lose
  \/ Close

Spec == Init /\ [][Next]_vars
=============================================================================
