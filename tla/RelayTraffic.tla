---------------------------- MODULE RelayTraffic ----------------------------
(***************************************************************************)
(* What passes between a session and its relays: the handshake before the  *)
(* session begins, the pool of asset relays, the packets from the reader   *)
(* over the workers' queues to a relay or past it, what the receiver hands *)
(* to the system, and the lookup of Roblox's names through the relay.      *)
(*                                                                         *)
(* The network may lose, delay, repeat and reorder: what the relay has     *)
(* sent may arrive at any later time, any number of times, or never. The   *)
(* packets are those of connections that are to be relayed, which is       *)
(* ProcessCache's affair; and the relay is not switched (UdpRelay).        *)
(***************************************************************************)
EXTENDS Integers, Sequences, FiniteSets, Functions

CONSTANTS
  Servers,        \* relays there are, one for each IP address
  Primary,        \* the gameplay relay
  Listed,         \* those of the server list
  Far,            \* of these, those of another region
  PoolSize,       \* asset relays wanted (the host's 0 means 3)
  Budget, Delay,  \* AUTH_HANDSHAKE_TOTAL_TIMEOUT and _RETRY_DELAY, in ticks
  Attempts,       \* AUTH_HANDSHAKE_ATTEMPTS
  NumWorkers, QueueSize,
  Ports,          \* source ports of the connections to be relayed
  Assets,         \* those to an address of an asset host
  MaxPackets,     \* bound: packets of a connection
  Batches,        \* batches of names to look up
  None

ASSUME TrafficAssumption ==
  /\ IsFiniteSet(Servers) /\ Primary \in Servers
  /\ Far \subseteq Listed /\ Listed \subseteq Servers
  /\ PoolSize \in Nat \ {0} /\ Budget \in Nat /\ Delay \in Nat /\ Attempts \in Nat
  /\ NumWorkers \in Nat \ {0} /\ QueueSize \in Nat
  /\ Ports \subseteq Nat /\ Assets \subseteq Ports
  /\ MaxPackets \in Nat /\ Batches \in Nat \ {0}
  /\ None \notin Servers \cup Nat \cup {"authenticated", "legacy_fallback"}

VARIABLES
  clock, until, hellos,    \* of the handshake: time, the end of the wait, hellos sent
  cpc, mode,               \* the connecting thread; relay_auth_mode
  accepted,                \* external: the relay has accepted the session
  net,                     \* what the relay has sent
  asset_ips,               \* asset_route: ASSET_IPS holds the asset hosts' addresses
  pool,                    \* the asset relays
  named,                   \* history: the host named the one itself (asset_relay_server)
  stop_flag, reader, worker,
  queue,                   \* each worker's: packets, a source port and a number
  next,                    \* each connection's packets so far
  batch, expired, slot,    \* the lookup: its batch, its deadline, last_resolve_response
  resolved,                \* batches whose answers it has collected
  relayed,                 \* each connection's packets at the relays, in order
  outside,                 \* packets that left the adapter as they were
  injected,                \* kinds of datagrams handed to the system
  arrived, overwritten     \* history: the batch's reply came in time; another one came
                           \* after it

authVars    == <<clock, until, hellos, mode>>
relaySide   == <<accepted, net>>
threadVars  == <<stop_flag, reader, worker>>
assetVars   == <<asset_ips, pool, named>>
packetVars  == <<queue, next, relayed, outside>>
resolveVars == <<batch, expired, slot, resolved, arrived, overwritten>>
vars == <<authVars, cpc, relaySide, assetVars, threadVars, packetVars, resolveVars, injected>>

Workers == 0 .. NumWorkers - 1
BatchNo == 1 .. Batches

Statuses == {"ok", "replay", "unknown"}
Acks     == [kind : {"ack"}, status : Statuses]
Replies  == [kind : {"reply"}, batch : BatchNo]
Data     == [kind |-> "data"]

Init ==
  /\ clock = 0 /\ until = 0 /\ hellos = 0
  /\ cpc = "ticket" /\ mode = None
  /\ accepted = FALSE /\ net = {}
  /\ asset_ips = FALSE /\ pool = <<>> /\ named = FALSE
  /\ stop_flag = FALSE /\ reader = "off" /\ worker = [w \in Workers |-> "off"]
  /\ queue = [w \in Workers |-> <<>>] /\ next = [p \in Ports |-> 0]
  /\ batch = 0 /\ expired = FALSE /\ slot = None /\ resolved = {}
  /\ relayed = [p \in Ports |-> <<>>] /\ outside = {} /\ injected = {}
  /\ arrived = FALSE /\ overwritten = FALSE

-----------------------------------------------------------------------------
(* The handshake: authenticate_relay_handshake, authenticate_with_ticket *)

Settle(m) ==
  /\ mode' = m
  /\ cpc' = "pool"
  /\ clock' = 0 /\ until' = 0 /\ hellos' = 0

\* A ticket is had from the API, or the relay is used without.
GetTicket ==
  /\ cpc = "ticket"
  /\ \/ cpc' = "hello" /\ UNCHANGED authVars
     \/ Settle("legacy_fallback")
  /\ UNCHANGED <<relaySide, assetVars, threadVars, packetVars, resolveVars,
                 injected>>

Remaining == Budget - clock

\* How long the k-th attempt waits: the last one for all that remains.
Window(k) == IF k = Attempts \/ Remaining < Delay THEN Remaining ELSE Delay

TimeForHello == hellos < Attempts /\ Remaining > 0

SendHello ==
  /\ cpc = "hello"
  /\ TimeForHello
  /\ hellos' = hellos + 1
  /\ until' = clock + Window(hellos + 1)
  /\ cpc' = "wait"
  /\ UNCHANGED <<clock, mode, relaySide, assetVars, threadVars, packetVars, resolveVars, injected>>

\* No attempt or no time is left, or a hello could not be sent.
GiveUp ==
  /\ cpc = "hello"
  /\ Settle("legacy_fallback")
  /\ UNCHANGED <<relaySide, assetVars, threadVars, packetVars, resolveVars, injected>>

\* Mutant: a status of a newer relay is taken for success.
AuthenticatedUnlessRejected(status) == status # "replay"

\* from_u8, is_authenticated: a status that is not known is BadFormat.
Authenticated(status) == status = "ok"

\* wait_for_auth_ack drops what is no answer.
ReceiveAck(m) ==
  /\ cpc = "wait" /\ clock < until
  /\ m.kind = "ack"
  /\ Settle(IF Authenticated(m.status) THEN "authenticated" ELSE "legacy_fallback")
  /\ UNCHANGED <<relaySide, assetVars, threadVars, packetVars, resolveVars, injected>>

\* Time passes while it waits; it looks at the clock every ten milliseconds.
Tick ==
  /\ cpc = "wait" /\ clock < until
  /\ clock' = clock + 1
  /\ UNCHANGED <<until, hellos, mode, cpc, relaySide, assetVars, threadVars, packetVars,
                 resolveVars, injected>>

WaitEnds ==
  /\ cpc = "wait" /\ clock >= until
  /\ cpc' = "hello"
  /\ UNCHANGED <<authVars, relaySide, assetVars, threadVars, packetVars, resolveVars, injected>>

\* The relay, external: a hello may be accepted, and be taken for a replay later; a relay
\* of another version has statuses of its own.
AnswerHello(status) ==
  /\ cpc \in {"wait", "hello"} /\ hellos > 0
  /\ status = "replay" => accepted
  /\ accepted' = (accepted \/ status = "ok")
  /\ net' = net \cup {[kind |-> "ack", status |-> status]}
  /\ UNCHANGED <<authVars, cpc, assetVars, threadVars, packetVars, resolveVars, injected>>

-----------------------------------------------------------------------------
(* setup_asset_relays, ParallelInterceptor.start *)

\* Mutant: the gameplay relay is a server like the others.
CandidatesAll == Listed

Candidates == Listed \ {Primary}

\* pick_asset_relays: distinct, from other regions as far as there are.
AssetRelays ==
  LET far == Far \cap Candidates IN
  {s \in SUBSET Candidates :
     /\ Cardinality(s) <= PoolSize
     /\ IF Cardinality(far) >= PoolSize THEN s \subseteq far ELSE far \subseteq s
     /\ Cardinality(s) = PoolSize \/ s = far \/ s = Candidates}

\* A relay whose socket cannot be had is left out; they come in the order in which their
\* handshakes end, whatever these found.
PoolPicked ==
  /\ \E picked \in AssetRelays : \E up \in SUBSET picked :
       pool' \in Bijection(1 .. Cardinality(up), up)
  /\ UNCHANGED named

\* asset_relay_server: one relay, anywhere, which nothing compares with the gameplay relay;
\* or none, if its name does not resolve.
PoolNamed ==
  /\ \/ pool' = <<>>
     \/ \E server \in Servers : pool' = <<server>>
  /\ named' = TRUE

\* Without asset hosts, or when none of them resolves, there are no asset relays.
SetupPool ==
  /\ cpc = "pool" /\ cpc' = "start"
  /\ \/ pool' = <<>> /\ UNCHANGED <<asset_ips, named>>
     \/ asset_ips' = TRUE /\ (PoolPicked \/ PoolNamed)
  /\ UNCHANGED <<authVars, relaySide, threadVars, packetVars, resolveVars, injected>>

\* A worker that cannot open the driver is gone, and its end of the queue with it.
Start ==
  /\ cpc = "start"
  /\ reader' = "on"
  /\ worker' \in [Workers -> {"on", "gone"}]
  /\ \/ cpc' = "resolve" /\ batch' = 1
     \/ cpc' = "connected" /\ UNCHANGED batch
  /\ UNCHANGED <<authVars, relaySide, assetVars, stop_flag, packetVars, expired, slot, resolved,
                 arrived, overwritten, injected>>

\* cleanup: the asset hosts are forgotten first, while the threads still run ...
ClearAssetRoutes ==
  /\ cpc = "connected" /\ cpc' = "closing"
  /\ asset_ips' = FALSE
  /\ UNCHANGED <<authVars, relaySide, pool, named, threadVars, packetVars, resolveVars,
                 injected>>

\* ... and the interceptor is stopped when the driver's lock is had.
Stop ==
  /\ cpc = "closing"
  /\ ~stop_flag /\ stop_flag' = TRUE
  /\ UNCHANGED <<authVars, cpc, relaySide, assetVars, reader, worker, packetVars,
                 resolveVars, injected>>

-----------------------------------------------------------------------------
(* Outbound: run_packet_reader, run_packet_worker *)

WorkerOf(packet) == packet[1] % NumWorkers

\* An outbound packet with ports goes to a worker's queue; one without, and one the queue
\* does not take, goes on as it was.
ReadPacket(p) ==
  LET packet == <<p, next[p] + 1>>
      w == WorkerOf(packet) IN
  /\ reader = "on"
  /\ next[p] < MaxPackets
  /\ next' = [next EXCEPT ![p] = @ + 1]
  /\ IF worker[w] = "on" /\ Len(queue[w]) < QueueSize
     THEN /\ queue' = [queue EXCEPT ![w] = Append(@, packet)]
          /\ UNCHANGED outside
     ELSE /\ outside' = outside \cup {packet}
          /\ UNCHANGED queue
  /\ UNCHANGED <<authVars, cpc, relaySide, assetVars, threadVars, relayed, resolveVars, injected>>

\* RelayForwardContext.forward: a connection to an asset host has a relay of the pool of
\* its own, for as long as the asset hosts are known; every packet asks (is_asset_ip).
ExitOf(p) ==
  IF asset_ips /\ p \in Assets /\ pool # <<>> THEN pool[1 + (p % Len(pool))] ELSE Primary

\* Mutant: what was sent is sent again.
WorkerHandlesAgain(w, bypassed) ==
  LET packet == Head(queue[w])
      frame  == <<ExitOf(packet[1]), packet[2]>> IN
  /\ worker[w] = "on" /\ queue[w] # <<>>
  /\ queue' = [queue EXCEPT ![w] = Tail(@)]
  /\ \/ bypassed /\ outside' = outside \cup {packet} /\ UNCHANGED relayed
     \/ /\ ~bypassed /\ UNCHANGED outside
        /\ \E frames \in {<<frame>>, <<frame, frame>>} :
             relayed' = [relayed EXCEPT ![packet[1]] = @ \o frames]
     \/ UNCHANGED <<relayed, outside>>
  /\ UNCHANGED <<authVars, cpc, relaySide, assetVars, threadVars, next, resolveVars, injected>>

\* The packet goes outside after all, if the auto-router bypasses the tunnel (its flag may
\* change between any two packets), or is relayed; or it is lost: it is too long, the socket
\* or the adapter refuses it, or the region of its game server is being looked up. (A worker
\* always has a relay context: setup_split_tunnel sets it before the threads start.)
WorkerHandles(w, bypassed) ==
  LET packet == Head(queue[w]) IN
  /\ worker[w] = "on" /\ queue[w] # <<>>
  /\ queue' = [queue EXCEPT ![w] = Tail(@)]
  /\ \/ bypassed /\ outside' = outside \cup {packet} /\ UNCHANGED relayed
     \/ /\ ~bypassed /\ UNCHANGED outside
        /\ relayed' = [relayed EXCEPT ![packet[1]] =
                         Append(@, <<ExitOf(packet[1]), packet[2]>>)]
     \/ UNCHANGED <<relayed, outside>>
  /\ UNCHANGED <<authVars, cpc, relaySide, assetVars, threadVars, next, resolveVars, injected>>

\* What is queued when a worker stops is lost.
WorkerStops(w) ==
  /\ worker[w] = "on" /\ stop_flag
  /\ worker' = [worker EXCEPT ![w] = "gone"]
  /\ queue' = [queue EXCEPT ![w] = <<>>]
  /\ UNCHANGED <<authVars, cpc, relaySide, assetVars, stop_flag, reader, next, relayed, outside,
                 resolveVars, injected>>

ReaderStops ==
  /\ reader = "on" /\ stop_flag
  /\ reader' = "off"
  /\ UNCHANGED <<authVars, cpc, relaySide, assetVars, stop_flag, worker, packetVars, resolveVars,
                 injected>>

-----------------------------------------------------------------------------
(* Inbound: run_v3_inbound_receiver, UdpRelay.receive_inbound *)

ReceiverRuns == cpc \in {"resolve", "poll", "connected", "closing"} /\ ~stop_flag

\* A reply to a lookup goes to the slot, whatever is there. (Once connected, nobody looks.)
ReceiveReply(m) ==
  /\ cpc \in {"resolve", "poll"}
  /\ m.kind = "reply"
  /\ slot' = m.batch
  /\ arrived' = (arrived \/ (cpc = "poll" /\ m.batch = batch /\ ~expired))
  /\ overwritten' = (overwritten \/ (arrived /\ m.batch # batch))
  /\ UNCHANGED <<authVars, cpc, relaySide, assetVars, threadVars, packetVars, batch, expired,
                 resolved, injected>>

\* Mutant: whatever carries the session's number is handed on.
IsPacketAny(m) == TRUE

\* At least an IP header: the payload of an answer to a hello is two bytes.
IsPacket(m) == m.kind # "ack"

\* Anything else with the session's number is taken for a packet.
ReceivePacket(m) ==
  /\ ReceiverRuns
  /\ m.kind # "reply"
  /\ injected' = IF IsPacket(m) THEN injected \cup {m.kind} ELSE injected
  /\ UNCHANGED <<authVars, cpc, relaySide, assetVars, threadVars, packetVars, resolveVars>>

-----------------------------------------------------------------------------
(* resolve_roblox_hosts *)

NextBatch ==
  /\ expired' = FALSE
  /\ IF batch < Batches THEN batch' = batch + 1 /\ cpc' = "resolve"
                        ELSE cpc' = "connected" /\ UNCHANGED batch

\* The slot is emptied, then the request sent; a batch that cannot be sent is passed over.
RequestBatch ==
  /\ cpc = "resolve"
  /\ slot' = None
  /\ arrived' = FALSE /\ overwritten' = FALSE
  /\ \/ cpc' = "poll" /\ UNCHANGED <<batch, expired>>
     \/ NextBatch
  /\ UNCHANGED <<authVars, relaySide, assetVars, threadVars, packetVars, resolved, injected>>

BatchExpires ==
  /\ cpc = "poll"
  /\ ~expired /\ expired' = TRUE
  /\ UNCHANGED <<authVars, cpc, relaySide, assetVars, threadVars, packetVars, batch, slot,
                 resolved, arrived, overwritten, injected>>

\* Mutant: the deadline is looked at before the slot.
PollDeadlineFirst ==
  /\ cpc = "poll"
  /\ expired \/ slot = batch
  /\ resolved' = IF expired THEN resolved ELSE resolved \cup {batch}
  /\ NextBatch
  /\ UNCHANGED <<authVars, relaySide, assetVars, threadVars, packetVars, slot, arrived,
                 overwritten, injected>>

\* Every 50 ms: the slot is looked at, then the deadline.
Poll ==
  /\ cpc = "poll"
  /\ expired \/ slot = batch
  /\ resolved' = IF slot = batch THEN resolved \cup {batch} ELSE resolved
  /\ NextBatch
  /\ UNCHANGED <<authVars, relaySide, assetVars, threadVars, packetVars, slot, arrived,
                 overwritten, injected>>

\* External: a relay that knows the request answers it. Older ones do not.
AnswerLookup ==
  /\ cpc = "poll"
  /\ net' = net \cup {[kind |-> "reply", batch |-> batch]}
  /\ UNCHANGED <<authVars, cpc, accepted, assetVars, threadVars, packetVars, resolveVars, injected>>

Connecting ==
  \/ GetTicket \/ SendHello \/ GiveUp \/ Tick \/ WaitEnds
  \/ (\E m \in net : ReceiveAck(m))
  \/ SetupPool \/ Start \/ ClearAssetRoutes \/ Stop
  \/ RequestBatch \/ BatchExpires \/ Poll

PacketStep ==
  \/ (\E p \in Ports : ReadPacket(p)) \/ ReaderStops
  \/ (\E w \in Workers, bypassed \in BOOLEAN : WorkerHandles(w, bypassed))
  \/ (\E w \in Workers : WorkerStops(w))
  \/ (\E m \in net : ReceiveReply(m))
  \/ (\E m \in net \cup {Data} : ReceivePacket(m))

RelayStep == (\E status \in Statuses : AnswerHello(status)) \/ AnswerLookup

Next == Connecting \/ PacketStep \/ RelayStep

Spec == Init /\ [][Next]_vars

-----------------------------------------------------------------------------
(* Properties *)

HandshakeTypes ==
  /\ clock \in Nat /\ until \in Nat /\ hellos \in 0 .. Attempts
  /\ cpc \in {"ticket", "hello", "wait", "pool", "start", "resolve", "poll", "connected",
             "closing"}
  /\ mode \in {None, "authenticated", "legacy_fallback"}
  /\ net \subseteq Acks \cup Replies

PoolOK ==
  /\ pool \in Seq(Servers) /\ Len(pool) <= PoolSize
  /\ IsInjective(pool)
  /\ ~named =>
       /\ Primary \notin Range(pool)
       /\ (Cardinality(Far \ {Primary}) >= PoolSize => Range(pool) \subseteq Far)

PacketTypes ==
  /\ reader \in {"off", "on"}
  /\ worker \in [Workers -> {"off", "on", "gone"}]
  /\ next \in [Ports -> 0 .. MaxPackets]
  /\ queue \in [Workers -> Seq(Ports \X (1 .. MaxPackets))]
  /\ \A w \in Workers : Len(queue[w]) <= QueueSize
  /\ relayed \in [Ports -> Seq(Servers \X (1 .. MaxPackets))]
  /\ outside \subseteq Ports \X (1 .. MaxPackets)

LookupTypes ==
  /\ batch \in 0 .. Batches
  /\ (cpc \in {"resolve", "poll"} => batch \in BatchNo)
  /\ slot \in BatchNo \cup {None} /\ resolved \subseteq BatchNo

FlagTypes ==
  {accepted, stop_flag, expired, arrived, overwritten, asset_ips, named} \subseteq BOOLEAN

\* The threads, the queues and the lookup are in their ranges; the queues keep to their
\* size. The asset relays are distinct, as many as wanted at most; those picked from the
\* list are none the gameplay relay, and none of its region while there are enough of others.
\* One the host names itself may be either: connection.rs:697-713 compares it with nothing.
TypeOK == HandshakeTypes /\ PoolOK /\ PacketTypes /\ LookupTypes /\ FlagTypes

\* The handshake keeps to its budget however often it is tried again, and the session is
\* called authenticated only if the relay has accepted it: not on the answer that its
\* ticket was used already, nor on one nobody knows. (relay.rs:44: "never coerced".)
HandshakeSound ==
  /\ clock <= Budget
  /\ mode = "authenticated" => accepted

\* A connection's relayed packets reach their relay in the order they were read, although
\* several workers send. While the session is up it is one relay, whose choice is by port
\* (interceptor.rs:165-167); a gameplay connection never has another one. Only at the
\* teardown, which forgets the asset hosts before it stops the workers, do the last packets
\* of an asset connection go to the gameplay relay.
FlowInOrder ==
  \A p \in Ports :
    /\ \A i \in DOMAIN relayed[p] : p \notin Assets => relayed[p][i][1] = Primary
    /\ \A i, j \in DOMAIN relayed[p] :
         i < j => /\ relayed[p][i][2] < relayed[p][j][2]
                  /\ \/ relayed[p][i][1] = relayed[p][j][1]
                     \/ cpc = "closing" /\ relayed[p][j][1] = Primary

\* A packet takes one way: whether it left outside the tunnel because its worker's queue was
\* full (interceptor.rs:1205), or later because the auto-router bypasses the tunnel (1421),
\* it is not relayed as well, and nothing sends it a second time.
OneWayOut ==
  \A p \in Ports : \A i \in DOMAIN relayed[p] : <<p, relayed[p][i][2]>> \notin outside

\* The way out is a LossyTunnel: reader, queues and workers together are one channel for
\* each connection, although packets of several connections share a queue, several workers
\* send at once, and some packets leave it for the bypass; a full queue is a packet that
\* never goes in. The tunnel is closing once the asset hosts are forgotten.
Inside ==
  [p \in Ports |-> {n \in 1 .. MaxPackets : \E w \in Workers : <<p, n>> \in Range(queue[w])}]

Tunnel == INSTANCE LossyTunnel
  WITH sent <- next, inside <- Inside, out <- relayed, around <- outside,
       closing <- cpc = "closing", Home <- Primary

ImplementsTunnel == Tunnel!Spec

\* Whatever the relay sends late, nothing but packets is handed to the system: answers to
\* the handshake, which its socket may still hold, and to lookups are not.
OnlyPacketsInjected == injected \subseteq {"data"}

\* What a batch's lookup found in time is collected, unless a late answer to another
\* batch has taken its place before the next poll (relay.rs:250): a batch that was
\* answered is never given up at its deadline.
BatchesCollected ==
  [][cpc = "poll" /\ cpc' # "poll" /\ arrived => batch \in resolved' \/ overwritten]_vars
=============================================================================
