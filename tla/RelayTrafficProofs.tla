-------------------------- MODULE RelayTrafficProofs --------------------------
(***************************************************************************)
(* What RelayTraffic promises, for every number of servers, workers,       *)
(* connections, packets and batches, every size of the pool and of the     *)
(* queues, and every budget of the handshake.                              *)
(***************************************************************************)
EXTENDS RelayTraffic, TLAPS, FiniteSetTheorems

PacketNo == 1 .. MaxPackets

\* A remainder is below its divisor.
LEMMA ModRange ==
  ASSUME NEW a \in Nat, NEW n \in Nat \ {0}
  PROVE  a % n \in 0 .. n - 1
  OBVIOUS

\* A window ends within the budget.
LEMMA WindowWithin ==
  ASSUME clock \in Nat, TimeForHello, NEW k \in Nat
  PROVE  Window(k) \in Nat /\ clock + Window(k) <= Budget
  BY TrafficAssumption DEF TimeForHello, Window, Remaining

\* A packet leaves by one of the servers.
LEMMA ExitIsServer ==
  ASSUME pool \in Seq(Servers), NEW p \in Ports
  PROVE  ExitOf(p) \in Servers
<1>1. CASE asset_ips /\ p \in Assets /\ pool # <<>>
  <2>1. Len(pool) \in Nat \ {0} /\ p \in Nat
    BY <1>1, TrafficAssumption
  <2>2. p % Len(pool) \in 0 .. Len(pool) - 1
    BY <2>1, ModRange
  <2>3. 1 + (p % Len(pool)) \in 1 .. Len(pool)
    BY <2>1, <2>2
  <2> QED BY <1>1, <2>1, <2>3 DEF ExitOf
<1>2. CASE ~(asset_ips /\ p \in Assets /\ pool # <<>>)
  BY <1>2, TrafficAssumption DEF ExitOf
<1> QED BY <1>1, <1>2

\* The worker of a packet is one of the workers.
LEMMA WorkerOfType ==
  ASSUME NEW packet \in Ports \X Nat
  PROVE  WorkerOf(packet) \in Workers
<1>1. packet[1] \in Nat /\ NumWorkers \in Nat \ {0}
  BY TrafficAssumption
<1>2. packet[1] % NumWorkers \in 0 .. NumWorkers - 1
  BY <1>1, ModRange
<1> QED BY <1>2 DEF WorkerOf, Workers

\* The asset relays that are picked.
LEMMA PoolFromPick ==
  ASSUME NEW picked \in AssetRelays, NEW up \in SUBSET picked,
         pool' \in Bijection(1 .. Cardinality(up), up)
  PROVE  PoolOK'
<1>1. picked \subseteq Servers \ {Primary} /\ IsFiniteSet(picked)
  BY TrafficAssumption, FS_Subset DEF AssetRelays, Candidates
<1>2. IsFiniteSet(up) /\ Cardinality(up) <= Cardinality(picked)
  BY <1>1, FS_Subset
<1>3. Cardinality(up) \in Nat /\ Cardinality(picked) \in Nat
  BY <1>1, <1>2, FS_CardinalityType
<1>4. Cardinality(up) <= PoolSize
  BY <1>2, <1>3, TrafficAssumption DEF AssetRelays
<1>5. pool' \in [1 .. Cardinality(up) -> up]
  BY DEF Bijection, Injection, Surjection
<1>6. pool' \in Seq(Servers) /\ Len(pool') = Cardinality(up)
  BY <1>1, <1>3, <1>5
<1>7. \A x \in Range(pool') : x \in up
  BY <1>5 DEF Range
<1>8. IsInjective(pool')
  BY <1>5 DEF Bijection, Injection, IsInjective
<1>9. Far \cap Candidates = Far \ {Primary}
  BY TrafficAssumption DEF Candidates
<1>10. ASSUME Cardinality(Far \ {Primary}) >= PoolSize PROVE picked \subseteq Far
  BY <1>9, <1>10 DEF AssetRelays
<1> QED BY <1>1, <1>4, <1>6, <1>7, <1>8, <1>10 DEF PoolOK

\* The pool that is set up, from the list or by name.
LEMMA PoolIsSetUp == SetupPool => PoolOK'
<1> SUFFICES ASSUME SetupPool PROVE PoolOK'
  OBVIOUS
<1>1. CASE pool' = <<>>
  BY <1>1, TrafficAssumption DEF PoolOK, Range, IsInjective
<1>2. CASE PoolPicked
  <2>1. PICK picked \in AssetRelays :
          \E up \in SUBSET picked : pool' \in Bijection(1 .. Cardinality(up), up)
    BY <1>2 DEF PoolPicked
  <2>2. PICK up \in SUBSET picked : pool' \in Bijection(1 .. Cardinality(up), up)
    BY <2>1
  <2> QED BY <2>2, PoolFromPick
<1>3. ASSUME NEW server \in Servers, pool' = <<server>>, named' = TRUE PROVE PoolOK'
  BY <1>3, TrafficAssumption DEF PoolOK, IsInjective
<1> QED BY <1>1, <1>2, <1>3 DEF SetupPool, PoolNamed

\* Every variable has its type in the initial states.
LEMMA TypeInit == Init => TypeOK
<1> SUFFICES ASSUME Init PROVE TypeOK
  OBVIOUS
<1> USE TrafficAssumption
<1>1. HandshakeTypes
  BY DEF Init, HandshakeTypes
<1>2. PoolOK
  BY DEF Init, PoolOK, Range, IsInjective
<1>3. PacketTypes
  BY DEF Init, PacketTypes
<1>4. LookupTypes
  BY DEF Init, LookupTypes
<1>5. FlagTypes
  BY Zenon DEF Init, FlagTypes
<1> QED BY <1>1, <1>2, <1>3, <1>4, <1>5 DEF TypeOK

\* All but the flags.
DataTypes == HandshakeTypes /\ PoolOK /\ PacketTypes /\ LookupTypes

\* A step keeps everything but the flags typed.
LEMMA DataStep == DataTypes /\ [Next]_vars => DataTypes'
<1> SUFFICES ASSUME DataTypes, [Next]_vars PROVE DataTypes'
  OBVIOUS
<1> USE TrafficAssumption DEF DataTypes, HandshakeTypes, PoolOK, PacketTypes, LookupTypes,
    authVars, relaySide, assetVars, threadVars, packetVars, resolveVars
<1>1. CASE GetTicket
  <2>1. CASE cpc' = "hello" /\ UNCHANGED authVars
    BY <1>1, <2>1 DEF GetTicket
  <2>2. CASE Settle("legacy_fallback")
    BY <1>1, <2>2 DEF GetTicket, Settle
  <2> QED BY <1>1, <2>1, <2>2 DEF GetTicket
<1>2. CASE SendHello
  <2>1. hellos + 1 \in 0 .. Attempts /\ hellos + 1 \in Nat /\ clock \in Nat
    BY <1>2 DEF SendHello, TimeForHello
  <2>2. TimeForHello
    BY <1>2 DEF SendHello
  <2>3. Window(hellos + 1) \in Nat
    BY ONLY <2>1, <2>2, WindowWithin
  <2>4. until' \in Nat
    <3>1. until' = clock + Window(hellos + 1)
      BY <1>2 DEF SendHello
    <3> QED BY ONLY <2>1, <2>3, <3>1
  <2>5. /\ hellos' \in 0 .. Attempts /\ clock' \in Nat /\ cpc' = "wait"
        /\ UNCHANGED <<mode, net, assetVars, threadVars, packetVars, resolveVars>>
    BY <1>2, <2>1 DEF SendHello
  <2> QED BY <2>4, <2>5
<1>3. CASE GiveUp
  BY <1>3 DEF GiveUp, Settle
<1>4. CASE Tick
  BY <1>4 DEF Tick
<1>5. CASE WaitEnds
  BY <1>5 DEF WaitEnds
<1>6. ASSUME NEW m \in net, ReceiveAck(m) PROVE DataTypes'
  BY <1>6 DEF ReceiveAck, Settle
<1>7. CASE SetupPool
  <2>1. PoolOK'
    BY <1>7, PoolIsSetUp
  <2>2. cpc' = "start" /\ UNCHANGED <<authVars, relaySide, threadVars, packetVars, resolveVars>>
    BY <1>7 DEF SetupPool
  <2> QED BY <2>1, <2>2
<1>8. CASE Start
  BY <1>8 DEF Start, BatchNo
<1>9. CASE ClearAssetRoutes \/ Stop
  BY <1>9 DEF ClearAssetRoutes, Stop
<1>10. CASE RequestBatch
  BY <1>10 DEF RequestBatch, NextBatch, BatchNo
<1>11. CASE BatchExpires
  BY <1>11 DEF BatchExpires
<1>12. CASE Poll
  BY <1>12 DEF Poll, NextBatch, BatchNo
<1>13. ASSUME NEW p \in Ports, ReadPacket(p) PROVE DataTypes'
  <2> DEFINE packet == <<p, next[p] + 1>>
  <2>1. packet \in Ports \X PacketNo /\ packet \in Ports \X Nat
    BY <1>13 DEF ReadPacket, PacketNo
  <2>2. WorkerOf(packet) \in Workers
    BY <2>1, WorkerOfType
  <2> DEFINE w == WorkerOf(packet)
  <2>3. next' \in [Ports -> 0 .. MaxPackets]
    BY <1>13 DEF ReadPacket
  <2>4. CASE worker[w] = "on" /\ Len(queue[w]) < QueueSize
    <3>1. queue' = [queue EXCEPT ![w] = Append(@, packet)] /\ UNCHANGED outside
      BY <1>13, <2>4 DEF ReadPacket
    <3>2. Append(queue[w], packet) \in Seq(Ports \X PacketNo)
          /\ Len(Append(queue[w], packet)) <= QueueSize
      BY <2>1, <2>2, <2>4 DEF PacketNo
    <3>3. queue' \in [Workers -> Seq(Ports \X PacketNo)]
          /\ \A v \in Workers : Len(queue'[v]) <= QueueSize
      BY <2>2, <3>1, <3>2 DEF PacketNo
    <3> QED BY <1>13, <2>3, <3>1, <3>3 DEF ReadPacket, PacketNo
  <2>5. CASE ~(worker[w] = "on" /\ Len(queue[w]) < QueueSize)
    <3>1. outside' = outside \cup {packet} /\ queue' = queue
      BY <1>13, <2>5 DEF ReadPacket
    <3> QED BY <1>13, <2>1, <2>3, <3>1 DEF ReadPacket, PacketNo
  <2> QED BY <2>4, <2>5
<1>14. CASE ReaderStops
  BY <1>14 DEF ReaderStops
<1>15. ASSUME NEW w \in Workers, NEW bypassed \in BOOLEAN, WorkerHandles(w, bypassed)
      PROVE  DataTypes'
  <2> DEFINE packet == Head(queue[w])
  <2>1. queue[w] \in Seq(Ports \X PacketNo) /\ queue[w] # <<>>
    BY <1>15 DEF WorkerHandles, PacketNo
  <2>2. packet \in Ports \X PacketNo /\ Tail(queue[w]) \in Seq(Ports \X PacketNo)
        /\ Len(Tail(queue[w])) <= QueueSize
    BY <2>1
  <2>3. <<ExitOf(packet[1]), packet[2]>> \in Servers \X PacketNo
    BY <2>2, ExitIsServer
  <2>4. \/ relayed' = relayed
        \/ relayed' = [relayed EXCEPT ![packet[1]] =
                         Append(@, <<ExitOf(packet[1]), packet[2]>>)]
    BY <1>15 DEF WorkerHandles
  <2> DEFINE frame == <<ExitOf(packet[1]), packet[2]>>
  <2>8. packet[1] \in Ports /\ frame \in Servers \X PacketNo
    BY <2>2, <2>3
  <2> HIDE DEF packet, frame
  <2>5. relayed' \in [Ports -> Seq(Servers \X PacketNo)]
    <3>1. relayed[packet[1]] \in Seq(Servers \X PacketNo)
      BY <2>8 DEF PacketNo
    <3>3. Append(relayed[packet[1]], frame) \in Seq(Servers \X PacketNo)
      BY ONLY <2>8, <3>1
    <3>2. \/ relayed' = relayed
          \/ relayed' = [relayed EXCEPT ![packet[1]] = Append(relayed[packet[1]], frame)]
      BY <2>4 DEF frame
    <3> QED BY <2>8, <3>2, <3>3 DEF PacketNo
  <2>6. queue' = [queue EXCEPT ![w] = Tail(@)]
    BY <1>15 DEF WorkerHandles
  <2>7. queue' \in [Workers -> Seq(Ports \X PacketNo)]
        /\ \A v \in Workers : Len(queue'[v]) <= QueueSize
    BY <2>2, <2>6 DEF PacketNo
  <2>9. outside' \subseteq Ports \X PacketNo
    <3>1. outside' = outside \/ outside' = outside \cup {packet}
      BY <1>15 DEF WorkerHandles, packet
    <3>2. packet \in Ports \X PacketNo
      BY <2>2 DEF packet
    <3> QED BY <3>1, <3>2 DEF PacketNo
  <2> QED BY <1>15, <2>5, <2>7, <2>9 DEF WorkerHandles, PacketNo
<1>16. ASSUME NEW w \in Workers, WorkerStops(w) PROVE DataTypes'
  BY <1>16 DEF WorkerStops
<1>17. ASSUME NEW m \in net, ReceiveReply(m) PROVE DataTypes'
  BY <1>17 DEF ReceiveReply, Acks, Replies
<1>18. ASSUME NEW m \in net \cup {Data}, ReceivePacket(m) PROVE DataTypes'
  BY <1>18 DEF ReceivePacket
<1>19. ASSUME NEW status \in Statuses, AnswerHello(status) PROVE DataTypes'
  BY <1>19 DEF AnswerHello, Acks
<1>20. CASE AnswerLookup
  BY <1>20 DEF AnswerLookup, Replies
<1>21. CASE UNCHANGED vars
  BY <1>21 DEF vars
<1> QED BY <1>1, <1>2, <1>3, <1>4, <1>5, <1>6, <1>7, <1>8, <1>9, <1>10, <1>11, <1>12,
           <1>13, <1>14, <1>15, <1>16, <1>17, <1>18, <1>19, <1>20, <1>21
        DEF Next, Connecting, PacketStep, RelayStep

\* A step keeps the flags Boolean.
LEMMA FlagStep == FlagTypes /\ [Next]_vars => FlagTypes'
<1> SUFFICES ASSUME FlagTypes, [Next]_vars PROVE FlagTypes'
  OBVIOUS
<1> USE Zenon DEF FlagTypes, authVars, relaySide, assetVars, threadVars, packetVars,
              resolveVars
<1>1. CASE GetTicket \/ SendHello \/ GiveUp \/ Tick \/ WaitEnds
  BY <1>1 DEF GetTicket, SendHello, GiveUp, Tick, WaitEnds
<1>13. CASE SetupPool \/ ClearAssetRoutes
  BY <1>13 DEF SetupPool, PoolPicked, PoolNamed, ClearAssetRoutes
<1>2. ASSUME NEW m \in net, ReceiveAck(m) PROVE FlagTypes'
  BY <1>2 DEF ReceiveAck
<1>3. CASE Start \/ Stop \/ RequestBatch
  BY <1>3 DEF Start, Stop, RequestBatch, NextBatch
<1>4. CASE BatchExpires \/ Poll
  BY <1>4 DEF BatchExpires, Poll, NextBatch
<1>5. ASSUME NEW p \in Ports, ReadPacket(p) PROVE FlagTypes'
  BY <1>5 DEF ReadPacket
<1>6. ASSUME NEW w \in Workers, WorkerStops(w) PROVE FlagTypes'
  BY <1>6 DEF WorkerStops
<1>14. ASSUME NEW w \in Workers, NEW bypassed \in BOOLEAN, WorkerHandles(w, bypassed)
       PROVE  FlagTypes'
  BY <1>14 DEF WorkerHandles
<1>7. CASE ReaderStops
  BY <1>7 DEF ReaderStops
<1>8. ASSUME NEW m \in net, ReceiveReply(m) PROVE FlagTypes'
  BY <1>8 DEF ReceiveReply
<1>9. ASSUME NEW m \in net \cup {Data}, ReceivePacket(m) PROVE FlagTypes'
  BY <1>9 DEF ReceivePacket
<1>10. ASSUME NEW status \in Statuses, AnswerHello(status) PROVE FlagTypes'
  BY <1>10 DEF AnswerHello
<1>11. CASE AnswerLookup
  BY <1>11 DEF AnswerLookup
<1>12. CASE UNCHANGED vars
  BY <1>12 DEF vars
<1> QED BY <1>1, <1>2, <1>3, <1>4, <1>5, <1>6, <1>7, <1>8, <1>9, <1>10, <1>11, <1>12,
           <1>13, <1>14
        DEF Next, Connecting, PacketStep, RelayStep

\* The handshake, the pool, the queues, the packets and the lookup keep to their types, and
\* the queues to their size. The asset relays are distinct; those picked from the list are
\* never the gameplay relay, and of other regions while there are enough. Of a relay the
\* host names itself neither is said.
THEOREM TypeCorrect == Spec => []TypeOK
<1>1. TypeOK <=> DataTypes /\ FlagTypes
  BY DEF TypeOK, DataTypes
<1>2. TypeOK /\ [Next]_vars => TypeOK'
  BY <1>1, DataStep, FlagStep DEF TypeOK, DataTypes
<1> QED BY <1>2, TypeInit, PTL DEF Spec

-----------------------------------------------------------------------------
(* The handshake *)

\* A wait ends within the budget, and an ack that says yes comes from a relay that has
\* accepted.
HandshakeInv ==
  /\ clock <= Budget /\ until <= Budget
  /\ \A m \in net : m.kind = "ack" /\ m.status = "ok" => accepted
  /\ mode = "authenticated" => accepted

\* No time has passed, and nothing is accepted, at first.
LEMMA HandshakeInit == Init => HandshakeInv
<1> SUFFICES ASSUME Init PROVE HandshakeInv
  OBVIOUS
<1>1. clock = 0 /\ until = 0 /\ net = {} /\ mode # "authenticated"
  BY TrafficAssumption DEF Init
<1> QED BY <1>1, TrafficAssumption DEF HandshakeInv

\* A step keeps to the budget, and no acceptance comes from nowhere.
LEMMA HandshakeStep == TypeOK /\ HandshakeInv /\ [Next]_vars => HandshakeInv'
<1> SUFFICES ASSUME TypeOK, HandshakeInv, [Next]_vars PROVE HandshakeInv'
  OBVIOUS
<1> USE TrafficAssumption DEF HandshakeInv, authVars, relaySide
<1>0. clock \in Nat /\ until \in Nat /\ hellos \in Nat /\ net \subseteq Acks \cup Replies
  BY DEF TypeOK, HandshakeTypes
<1>1. CASE GetTicket
  BY <1>1 DEF GetTicket, Settle
<1>2. CASE SendHello
  <2>1. clock + Window(hellos + 1) <= Budget
    <3>1. TimeForHello /\ hellos + 1 \in Nat
      BY <1>0, <1>2 DEF SendHello
    <3> QED BY ONLY <1>0, <3>1, WindowWithin
  <2> QED BY <1>2, <2>1 DEF SendHello
<1>3. CASE GiveUp
  BY <1>3 DEF GiveUp, Settle
<1>4. CASE Tick
  BY <1>0, <1>4 DEF Tick
<1>5. ASSUME NEW m \in net, ReceiveAck(m) PROVE HandshakeInv'
  BY <1>5 DEF ReceiveAck, Settle, Authenticated
<1>6. ASSUME NEW status \in Statuses, AnswerHello(status) PROVE HandshakeInv'
  <2> DEFINE ack == [kind |-> "ack", status |-> status]
  <2>2. (accepted => accepted') /\ (status = "ok" => accepted')
    BY <1>6, Zenon DEF AnswerHello
  <2>3. net' = net \cup {ack} /\ ack.status = status
    BY <1>6 DEF AnswerHello
  <2>1. \A m \in net' : m.kind = "ack" /\ m.status = "ok" => accepted'
    BY <2>2, <2>3, Zenon
  <2> QED BY <1>6, <2>1, <2>2 DEF AnswerHello
<1>7. CASE AnswerLookup
  BY <1>7 DEF AnswerLookup
<1>8. CASE UNCHANGED <<authVars, relaySide>>
  BY <1>8
<1>9. ASSUME \/ WaitEnds \/ SetupPool \/ Start \/ ClearAssetRoutes \/ Stop
             \/ RequestBatch \/ BatchExpires \/ Poll
      PROVE  UNCHANGED <<authVars, relaySide>>
  BY <1>9 DEF WaitEnds, SetupPool, Start, ClearAssetRoutes, Stop, RequestBatch, BatchExpires, Poll
<1>10. ASSUME PacketStep PROVE UNCHANGED <<authVars, relaySide>>
  BY <1>10 DEF PacketStep, ReadPacket, ReaderStops, WorkerHandles, WorkerStops,
     ReceiveReply, ReceivePacket
<1>11. CASE UNCHANGED vars
  BY <1>11 DEF vars
<1> QED BY <1>1, <1>2, <1>3, <1>4, <1>5, <1>6, <1>7, <1>8, <1>9, <1>10, <1>11
        DEF Next, Connecting, RelayStep

\* However many hellos are sent and however late they are answered, the handshake keeps
\* to its budget, and the session is called authenticated only if the relay accepted it.
THEOREM HandshakeIsSound == Spec => []HandshakeSound
<1>1. HandshakeInv => HandshakeSound
  BY DEF HandshakeInv, HandshakeSound
<1> QED BY <1>1, TypeCorrect, HandshakeInit, HandshakeStep, PTL DEF Spec

-----------------------------------------------------------------------------
(* What leaves and what enters *)

\* A step injects only packets.
LEMMA InjectedStep ==
  TypeOK /\ OnlyPacketsInjected /\ [Next]_vars => OnlyPacketsInjected'
<1> SUFFICES ASSUME TypeOK, OnlyPacketsInjected, [Next]_vars PROVE OnlyPacketsInjected'
  OBVIOUS
<1> USE DEF OnlyPacketsInjected
<1>0. \A m \in net \cup {Data} : m.kind \in {"ack", "reply", "data"}
  BY DEF TypeOK, HandshakeTypes, Acks, Replies, Data
<1>1. ASSUME NEW m \in net \cup {Data}, ReceivePacket(m) PROVE OnlyPacketsInjected'
  BY <1>0, <1>1 DEF ReceivePacket, IsPacket
<1>2. ASSUME Connecting \/ RelayStep PROVE UNCHANGED injected
  BY <1>2 DEF Connecting, RelayStep, GetTicket, SendHello, GiveUp, Tick, WaitEnds,
     ReceiveAck, SetupPool, Start, ClearAssetRoutes, Stop, RequestBatch, BatchExpires, Poll,
     AnswerHello, AnswerLookup
<1>3. ASSUME NEW m \in net, ReceiveReply(m) PROVE UNCHANGED injected
  BY <1>3 DEF ReceiveReply
<1>4. ASSUME NEW p \in Ports, ReadPacket(p) PROVE UNCHANGED injected
  BY <1>4 DEF ReadPacket
<1>5. ASSUME NEW w \in Workers, NEW bypassed \in BOOLEAN,
             WorkerHandles(w, bypassed) \/ WorkerStops(w)
      PROVE  UNCHANGED injected
  BY <1>5 DEF WorkerHandles, WorkerStops
<1>6. ASSUME ReaderStops \/ UNCHANGED vars PROVE UNCHANGED injected
  BY <1>6 DEF ReaderStops, vars
<1> QED BY <1>1, <1>2, <1>3, <1>4, <1>5, <1>6 DEF Next, PacketStep

\* Whatever the relay sends, and whenever it arrives, only packets are injected.
THEOREM InjectedArePackets == Spec => []OnlyPacketsInjected
<1>1. Init => OnlyPacketsInjected
  BY DEF Init, OnlyPacketsInjected
<1> QED BY <1>1, TypeCorrect, InjectedStep, PTL DEF Spec

-----------------------------------------------------------------------------
(* The lookup *)

\* A reply in time stays in the slot until another batch's follows it.
SlotInv == cpc = "poll" /\ arrived => slot = batch \/ overwritten

\* A step keeps an answer in time in its slot, or covers it.
LEMMA SlotStep == SlotInv /\ [Next]_vars => SlotInv'
<1> SUFFICES ASSUME SlotInv, [Next]_vars PROVE SlotInv'
  OBVIOUS
<1> USE DEF SlotInv, resolveVars
<1>1. CASE RequestBatch
  BY <1>1, Zenon DEF RequestBatch
<1>2. CASE BatchExpires
  BY <1>2, Zenon DEF BatchExpires
<1>3. CASE Poll
  BY <1>3 DEF Poll, NextBatch
<1>4. ASSUME NEW m \in net, ReceiveReply(m) PROVE SlotInv'
  BY <1>4, Zenon DEF ReceiveReply
<1>5. CASE Start
  BY <1>5, Zenon DEF Start
<1>6. ASSUME \/ GetTicket \/ SendHello \/ GiveUp \/ Tick \/ WaitEnds \/ SetupPool
             \/ ClearAssetRoutes \/ Stop \/ \E m \in net : ReceiveAck(m)
      PROVE  cpc' # "poll" \/ UNCHANGED <<cpc, resolveVars>>
  BY <1>6 DEF GetTicket, SendHello, GiveUp, Tick, WaitEnds, SetupPool, ClearAssetRoutes,
     Stop, ReceiveAck, Settle
<1>7. ASSUME NEW p \in Ports, ReadPacket(p) PROVE UNCHANGED <<cpc, resolveVars>>
  BY <1>7 DEF ReadPacket
<1>8. ASSUME NEW w \in Workers, NEW bypassed \in BOOLEAN,
             WorkerHandles(w, bypassed) \/ WorkerStops(w)
      PROVE  UNCHANGED <<cpc, resolveVars>>
  BY <1>8 DEF WorkerHandles, WorkerStops
<1>9. ASSUME NEW m \in net \cup {Data}, ReceivePacket(m)
      PROVE  UNCHANGED <<cpc, resolveVars>>
  BY <1>9 DEF ReceivePacket
<1>10. ASSUME RelayStep \/ ReaderStops \/ UNCHANGED vars
       PROVE  UNCHANGED <<cpc, resolveVars>>
  BY <1>10 DEF RelayStep, AnswerHello, AnswerLookup, ReaderStops, vars
<1>11. ASSUME UNCHANGED <<cpc, resolveVars>> PROVE SlotInv'
  BY <1>11, Zenon
<1>12. ASSUME cpc' # "poll" PROVE SlotInv'
  BY <1>12
<1> QED BY <1>1, <1>2, <1>3, <1>4, <1>5, <1>6, <1>7, <1>8, <1>9, <1>10, <1>11, <1>12
        DEF Next, Connecting, PacketStep

\* A batch that was answered in time is collected, unless a late answer covered its own.
THEOREM AnswersCollected == Spec => BatchesCollected
<1>1. Init => SlotInv
  BY DEF Init, SlotInv
<1>2. ASSUME SlotInv, [Next]_vars, cpc = "poll", cpc' # "poll"
      PROVE  Poll
  BY <1>2 DEF Next, Connecting, PacketStep, RelayStep, GetTicket, SendHello, GiveUp, Tick,
     WaitEnds, ReceiveAck, SetupPool, Start, ClearAssetRoutes, Stop, RequestBatch, BatchExpires, ReadPacket,
     ReaderStops, WorkerHandles, WorkerStops, ReceiveReply, ReceivePacket, AnswerHello,
     AnswerLookup, vars
<1>3. ASSUME SlotInv, Poll, cpc = "poll", arrived PROVE batch \in resolved' \/ overwritten
  BY <1>3, Zenon DEF SlotInv, Poll
<1>4. SlotInv /\ [Next]_vars => 
        [cpc = "poll" /\ cpc' # "poll" /\ arrived => batch \in resolved' \/ overwritten]_vars
  BY <1>2, <1>3
<1> QED BY <1>1, <1>4, SlotStep, PTL DEF Spec, BatchesCollected

-----------------------------------------------------------------------------
(* The order of a connection's packets *)

NotBegun == cpc \in {"ticket", "hello", "wait", "pool", "start"}

\* Nothing flows before the pool is set up, which never changes after.
NothingYet ==
  NotBegun => /\ reader = "off" /\ worker = [w \in Workers |-> "off"]
              /\ queue = [w \in Workers |-> <<>>]
              /\ relayed = [p \in Ports |-> <<>>]

\* A packet waits in the queue of its connection's worker, behind those before it.
QueuesInOrder ==
  \A w \in Workers : \A i \in DOMAIN queue[w] :
    /\ WorkerOf(queue[w][i]) = w
    /\ queue[w][i][2] <= next[queue[w][i][1]]
    /\ \A j \in DOMAIN queue[w] :
         i < j /\ queue[w][i][1] = queue[w][j][1] => queue[w][i][2] < queue[w][j][2]

\* What was relayed went to the connection's relay; once the asset hosts are forgotten that
\* is the gameplay relay, which a gameplay connection's always was.
RelayedAtExit ==
  \A p \in Ports : \A k \in DOMAIN relayed[p] :
    /\ relayed[p][k][1] = ExitOf(p) \/ (cpc = "closing" /\ ExitOf(p) = Primary)
    /\ p \notin Assets => relayed[p][k][1] = Primary

\* It went before all that is queued.
RelayedBefore ==
  \A p \in Ports : \A k \in DOMAIN relayed[p] :
    /\ relayed[p][k][2] <= next[p]
    /\ \A w \in Workers : \A i \in DOMAIN queue[w] :
         queue[w][i][1] = p => relayed[p][k][2] < queue[w][i][2]

RelayedInOrder ==
  \A p \in Ports : \A i, j \in DOMAIN relayed[p] :
    i < j => /\ relayed[p][i][2] < relayed[p][j][2]
             /\ \/ relayed[p][i][1] = relayed[p][j][1]
                \/ cpc = "closing" /\ relayed[p][j][1] = Primary

Ordered == QueuesInOrder /\ RelayedAtExit /\ RelayedBefore /\ RelayedInOrder

FlowInv == NothingYet /\ Ordered

\* The first of a queue, and what is left of it.
LEMMA TailIs ==
  ASSUME NEW S, NEW q \in Seq(S), q # <<>>
  PROVE  /\ Head(q) = q[1] /\ 1 \in DOMAIN q /\ Head(q) \in S
         /\ Tail(q) \in Seq(S) /\ DOMAIN Tail(q) = 1 .. Len(q) - 1 /\ DOMAIN q = 1 .. Len(q)
         /\ \A i \in DOMAIN Tail(q) : i + 1 \in DOMAIN q /\ Tail(q)[i] = q[i + 1]
  OBVIOUS

\* What a queue is with one more at its end.
LEMMA AppendIs ==
  ASSUME NEW S, NEW q \in Seq(S), NEW e \in S
  PROVE  /\ DOMAIN q = 1 .. Len(q) /\ DOMAIN Append(q, e) = 1 .. Len(q) + 1
         /\ Len(q) \in Nat
         /\ \A i \in DOMAIN q : Append(q, e)[i] = q[i]
         /\ Append(q, e)[Len(q) + 1] = e
  OBVIOUS

\* Nothing is queued or relayed at first.
LEMMA FlowInit == Init => FlowInv
  BY DEF Init, FlowInv, Ordered, NothingYet, QueuesInOrder, RelayedAtExit, RelayedBefore,
     RelayedInOrder

flowVars == <<asset_ips, pool, queue, next, relayed>>

\* A packet that is read comes behind all of its connection.
LEMMA ReadKeepsOrder ==
  ASSUME TypeOK, FlowInv, NEW p \in Ports, ReadPacket(p)
  PROVE  Ordered'
<1> DEFINE packet == <<p, next[p] + 1>>
           w == WorkerOf(packet)
<1> USE DEF FlowInv, Ordered, QueuesInOrder, RelayedBefore
<1>1. /\ next \in [Ports -> 0 .. MaxPackets]
      /\ queue \in [Workers -> Seq(Ports \X PacketNo)]
      /\ relayed \in [Ports -> Seq(Servers \X PacketNo)]
  BY DEF TypeOK, PacketTypes, PacketNo
<1>2. packet \in Ports \X PacketNo /\ packet \in Ports \X Nat
  BY <1>1, TrafficAssumption DEF ReadPacket, PacketNo
<1>3. w \in Workers
  BY <1>2, WorkerOfType
<1>4. /\ next' = [next EXCEPT ![p] = @ + 1]
      /\ relayed' = relayed /\ UNCHANGED <<asset_ips, pool, cpc>>
      /\ queue' = queue \/ queue' = [queue EXCEPT ![w] = Append(@, packet)]
  BY DEF ReadPacket, assetVars
<1>5. \A q \in Ports : next[q] <= next'[q] /\ next[q] \in Nat /\ next'[q] \in Nat
  BY <1>1, <1>4
<1>6. RelayedAtExit' /\ RelayedInOrder'
  BY <1>4 DEF RelayedAtExit, RelayedInOrder, ExitOf
<1>7. CASE queue' = queue
  <2>1. \A v \in Workers : \A i \in DOMAIN queue[v] :
          queue[v][i][1] \in Ports /\ queue[v][i][2] \in Nat
    BY <1>1, TrafficAssumption DEF PacketNo
  <2>2. QueuesInOrder'
    BY <1>5, <1>7, <2>1 DEF WorkerOf
  <2>3. \A q \in Ports : \A k \in DOMAIN relayed[q] : relayed[q][k][2] \in Nat
    BY <1>1 DEF PacketNo
  <2> QED BY <1>4, <1>5, <1>6, <1>7, <2>2, <2>3
<1>8. CASE queue' = [queue EXCEPT ![w] = Append(@, packet)]
  <2> DEFINE q == queue[w]
             n == Len(q) + 1
  <2>1. q \in Seq(Ports \X PacketNo)
    BY <1>1, <1>3
  <2>2. /\ DOMAIN q = 1 .. Len(q) /\ DOMAIN Append(q, packet) = 1 .. n
        /\ Len(q) \in Nat
        /\ \A i \in DOMAIN q : Append(q, packet)[i] = q[i]
        /\ Append(q, packet)[n] = packet
    <3> HIDE DEF packet, q
    <3> QED BY <1>2, <2>1, AppendIs
  <2>3. queue'[w] = Append(q, packet) /\ \A v \in Workers \ {w} : queue'[v] = queue[v]
    BY <1>1, <1>3, <1>8
  <2>4. \A v \in Workers : \A i \in DOMAIN queue'[v] :
          \/ i \in DOMAIN queue[v] /\ queue'[v][i] = queue[v][i]
          \/ v = w /\ i = n /\ queue'[v][i] = packet /\ DOMAIN queue[v] = 1 .. n - 1
    <3> SUFFICES ASSUME NEW v \in Workers, NEW i \in DOMAIN queue'[v]
                 PROVE  \/ i \in DOMAIN queue[v] /\ queue'[v][i] = queue[v][i]
                        \/ /\ v = w /\ i = n /\ queue'[v][i] = packet
                           /\ DOMAIN queue[v] = 1 .. n - 1
      OBVIOUS
    <3>1. CASE v # w
      BY <2>3, <3>1
    <3>2. CASE v = w
      <4>1. queue'[v] = Append(q, packet) /\ queue[v] = q
        BY <2>3, <3>2
      <4> HIDE DEF packet, q
      <4>2. n \in Nat /\ Len(q) = n - 1
        BY <2>2
      <4> HIDE DEF n, w
      <4> QED BY <2>2, <3>2, <4>1, <4>2
    <3> QED BY <3>1, <3>2
  <2>5. \A v \in Workers : \A i \in DOMAIN queue[v] :
          /\ queue[v][i][1] \in Ports /\ queue[v][i][2] \in Nat /\ i \in Nat
    BY <1>1 DEF PacketNo
  <2>6. packet[1] = p /\ packet[2] = next[p] + 1 /\ next'[p] = next[p] + 1
    BY <1>1, <1>4
  <2>7. n \in Nat
    BY <2>2
  <2> HIDE DEF packet, w, n, q
  <2>8. QueuesInOrder'
    <3> SUFFICES ASSUME NEW v \in Workers, NEW i \in DOMAIN queue'[v]
                 PROVE  /\ WorkerOf(queue'[v][i]) = v
                        /\ queue'[v][i][2] <= next'[queue'[v][i][1]]
                        /\ \A j \in DOMAIN queue'[v] :
                             i < j /\ queue'[v][i][1] = queue'[v][j][1]
                               => queue'[v][i][2] < queue'[v][j][2]
      BY DEF WorkerOf
    <3>1. WorkerOf(queue'[v][i]) = v
      BY <2>4 DEF w
    <3>2. queue'[v][i][2] <= next'[queue'[v][i][1]]
      BY <1>5, <2>4, <2>5, <2>6
    <3>3. ASSUME NEW j \in DOMAIN queue'[v], i < j, queue'[v][i][1] = queue'[v][j][1]
          PROVE  queue'[v][i][2] < queue'[v][j][2]
      <4>1. CASE j \in DOMAIN queue[v] /\ queue'[v][j] = queue[v][j]
        BY <2>4, <2>5, <2>7, <3>3, <4>1
      <4>2. CASE v = w /\ j = n /\ queue'[v][j] = packet /\ DOMAIN queue[v] = 1 .. n - 1
        <5>1. i \in DOMAIN queue[v] /\ queue'[v][i] = queue[v][i]
          BY <2>4, <2>7, <3>3, <4>2
        <5>3. queue[v][i][1] = p
          BY <2>6, <3>3, <4>2, <5>1
        <5>2. queue[v][i][2] <= next[p] /\ queue[v][i][2] \in Nat
          BY <2>5, <5>1, <5>3
        <5> QED BY <1>5, <2>6, <4>2, <5>1, <5>2
      <4> QED BY <2>4, <4>1, <4>2
    <3> QED BY <3>1, <3>2, <3>3
  <2>9. RelayedBefore'
    <3> SUFFICES ASSUME NEW r \in Ports, NEW k \in DOMAIN relayed[r]
                 PROVE  /\ relayed[r][k][2] <= next'[r]
                        /\ \A v \in Workers : \A i \in DOMAIN queue'[v] :
                             queue'[v][i][1] = r => relayed[r][k][2] < queue'[v][i][2]
      BY <1>4
    <3>1. relayed[r][k][2] \in Nat /\ relayed[r][k][2] <= next[r]
      BY <1>1 DEF PacketNo
    <3>2. relayed[r][k][2] <= next'[r]
      BY <1>5, <3>1
    <3>3. ASSUME NEW v \in Workers, NEW i \in DOMAIN queue'[v], queue'[v][i][1] = r
          PROVE  relayed[r][k][2] < queue'[v][i][2]
      BY <1>5, <2>4, <2>6, <3>1, <3>3
    <3> QED BY <3>2, <3>3
  <2> QED BY <1>6, <2>8, <2>9
<1> QED BY <1>4, <1>7, <1>8

\* A packet that is handled was ahead of all of its connection that is queued.
LEMMA HandleKeepsOrder ==
  ASSUME TypeOK, FlowInv, NEW w \in Workers, NEW bypassed \in BOOLEAN,
         WorkerHandles(w, bypassed)
  PROVE  Ordered'
<1> DEFINE packet == Head(queue[w])
           p == packet[1]
           frame == <<ExitOf(p), packet[2]>>
<1> USE DEF FlowInv, Ordered, QueuesInOrder, RelayedAtExit, RelayedBefore, RelayedInOrder
<1>1. /\ next \in [Ports -> 0 .. MaxPackets]
      /\ queue \in [Workers -> Seq(Ports \X PacketNo)]
      /\ relayed \in [Ports -> Seq(Servers \X PacketNo)]
  BY DEF TypeOK, PacketTypes, PacketNo
<1>2. queue[w] \in Seq(Ports \X PacketNo) /\ queue[w] # <<>>
  BY <1>1 DEF WorkerHandles
<1>3. /\ packet = queue[w][1] /\ 1 \in DOMAIN queue[w] /\ packet \in Ports \X PacketNo
      /\ DOMAIN queue[w] = 1 .. Len(queue[w])
      /\ DOMAIN Tail(queue[w]) = 1 .. Len(queue[w]) - 1
      /\ \A i \in DOMAIN Tail(queue[w]) :
           i + 1 \in DOMAIN queue[w] /\ Tail(queue[w])[i] = queue[w][i + 1]
  BY <1>2, TailIs
<1>4. /\ queue' = [queue EXCEPT ![w] = Tail(@)] /\ next' = next
      /\ UNCHANGED <<asset_ips, pool, cpc>>
      /\ relayed' = relayed \/ relayed' = [relayed EXCEPT ![p] = Append(relayed[p], frame)]
  BY DEF WorkerHandles, assetVars
<1>5. queue'[w] = Tail(queue[w]) /\ \A v \in Workers \ {w} : queue'[v] = queue[v]
  BY <1>1, <1>4
<1>6. p \in Ports /\ packet[2] \in Nat /\ WorkerOf(packet) = w /\ packet[2] <= next[p]
  BY <1>3 DEF PacketNo
<1>7. \A q \in Ports : ExitOf(q)' = ExitOf(q)
  BY <1>4 DEF ExitOf
<1>8. \A v \in Workers : \A i \in DOMAIN queue[v] :
        queue[v][i][1] \in Ports /\ queue[v][i][2] \in Nat /\ i \in Nat
  BY <1>1 DEF PacketNo
<1>9. \A v \in Workers : \A i \in DOMAIN queue'[v] : \E j \in DOMAIN queue[v] :
        queue'[v][i] = queue[v][j] /\ j = IF v = w THEN i + 1 ELSE i
  BY <1>3, <1>5
<1>10. \A v \in Workers : \A i \in DOMAIN queue'[v] : i \in Nat
  <2> SUFFICES ASSUME NEW v \in Workers, NEW i \in DOMAIN queue'[v] PROVE i \in Nat
    OBVIOUS
  <2>1. CASE v # w
    BY <1>5, <1>8, <2>1
  <2>2. CASE v = w
    <3>1. i \in 1 .. Len(queue[w]) - 1
      BY <1>3, <1>5, <2>2
    <3> QED BY <3>1
  <2> QED BY <2>1, <2>2
\* What stays in the queues of the packet's connection comes after it.
<1>11. ASSUME NEW v \in Workers, NEW i \in DOMAIN queue'[v], queue'[v][i][1] = p
       PROVE  packet[2] < queue'[v][i][2]
  <2>1. PICK j \in DOMAIN queue[v] :
          queue'[v][i] = queue[v][j] /\ j = IF v = w THEN i + 1 ELSE i
    BY <1>9
  <2>2. v = w
    BY <1>6, <1>11, <2>1 DEF WorkerOf
  <2>3. 1 < j
    <3>1. i \in 1 .. Len(queue[w]) - 1
      BY <1>3, <1>5, <2>2
    <3> QED BY <2>1, <2>2, <3>1
  <2> QED BY <1>3, <1>11, <2>1, <2>2, <2>3
<1> HIDE DEF packet, p, frame
<1>12. QueuesInOrder'
  <2> SUFFICES ASSUME NEW v \in Workers, NEW i \in DOMAIN queue'[v]
               PROVE  /\ WorkerOf(queue'[v][i]) = v
                      /\ queue'[v][i][2] <= next[queue'[v][i][1]]
                      /\ \A j \in DOMAIN queue'[v] :
                           i < j /\ queue'[v][i][1] = queue'[v][j][1]
                             => queue'[v][i][2] < queue'[v][j][2]
    BY <1>4 DEF WorkerOf
  <2>1. PICK k \in DOMAIN queue[v] :
          queue'[v][i] = queue[v][k] /\ k = IF v = w THEN i + 1 ELSE i
    BY <1>9
  <2>2. ASSUME NEW j \in DOMAIN queue'[v], i < j, queue'[v][i][1] = queue'[v][j][1]
        PROVE  queue'[v][i][2] < queue'[v][j][2]
    <3>1. PICK l \in DOMAIN queue[v] :
            queue'[v][j] = queue[v][l] /\ l = IF v = w THEN j + 1 ELSE j
      BY <1>9
    <3>2. k < l
      BY <1>10, <2>1, <2>2, <3>1
    <3> QED BY <2>1, <2>2, <3>1, <3>2
  <2> QED BY <2>1, <2>2
\* What was relayed, and perhaps the packet after it.
<1>13. \A q \in Ports : \A k \in DOMAIN relayed'[q] :
         \/ k \in DOMAIN relayed[q] /\ relayed'[q][k] = relayed[q][k]
         \/ q = p /\ relayed'[q][k] = frame /\ DOMAIN relayed[q] = 1 .. k - 1 /\ k \in Nat \ {0}
  <2>1. CASE relayed' = relayed
    BY <2>1
  <2>2. CASE relayed' = [relayed EXCEPT ![p] = Append(relayed[p], frame)]
    <3>1. pool \in Seq(Servers)
      BY DEF TypeOK, PoolOK
    <3>2. frame \in Servers \X PacketNo
      BY <1>3, <1>6, <3>1, ExitIsServer DEF frame, p
    <3>3. relayed[p] \in Seq(Servers \X PacketNo)
      BY <1>1, <1>6
    <3> DEFINE n == Len(relayed[p])
    <3>4. /\ DOMAIN relayed[p] = 1 .. n /\ DOMAIN Append(relayed[p], frame) = 1 .. n + 1
          /\ n \in Nat
          /\ \A i \in DOMAIN relayed[p] : Append(relayed[p], frame)[i] = relayed[p][i]
          /\ Append(relayed[p], frame)[n + 1] = frame
      BY <3>2, <3>3, AppendIs
    <3>5. /\ relayed'[p] = Append(relayed[p], frame)
          /\ \A q \in Ports \ {p} : relayed'[q] = relayed[q]
      BY <1>1, <1>6, <2>2
    <3> HIDE DEF n
    <3> QED BY <3>4, <3>5
  <2> QED BY <1>4, <2>1, <2>2
<1>14. frame[1] = ExitOf(p) /\ frame[2] = packet[2]
  BY DEF frame
<1>15. \A q \in Ports : \A k \in DOMAIN relayed[q] : relayed[q][k][2] \in Nat /\ k \in Nat \ {0}
  BY <1>1 DEF PacketNo
<1>16. RelayedBefore'
  <2> SUFFICES ASSUME NEW q \in Ports, NEW k \in DOMAIN relayed'[q]
               PROVE  /\ relayed'[q][k][2] <= next[q]
                      /\ \A v \in Workers : \A i \in DOMAIN queue'[v] :
                           queue'[v][i][1] = q => relayed'[q][k][2] < queue'[v][i][2]
    BY <1>4
  <2>1. CASE k \in DOMAIN relayed[q] /\ relayed'[q][k] = relayed[q][k]
    BY <1>9, <2>1
  <2>2. CASE q = p /\ relayed'[q][k] = frame
    BY <1>6, <1>11, <1>14, <2>2
  <2> QED BY <1>13, <2>1, <2>2
<1>18. RelayedAtExit'
  <2> SUFFICES ASSUME NEW q \in Ports, NEW k \in DOMAIN relayed'[q]
               PROVE  /\ \/ relayed'[q][k][1] = ExitOf(q)
                         \/ cpc = "closing" /\ ExitOf(q) = Primary
                      /\ q \notin Assets => relayed'[q][k][1] = Primary
    BY <1>4, <1>7
  <2>1. CASE k \in DOMAIN relayed[q] /\ relayed'[q][k] = relayed[q][k]
    BY <2>1
  <2>2. CASE q = p /\ relayed'[q][k] = frame
    BY <1>14, <2>2 DEF ExitOf
  <2> QED BY <1>13, <2>1, <2>2
<1>17. RelayedInOrder'
  <2> SUFFICES ASSUME NEW q \in Ports, NEW i \in DOMAIN relayed'[q],
                      NEW j \in DOMAIN relayed'[q], i < j
               PROVE  /\ relayed'[q][i][2] < relayed'[q][j][2]
                      /\ \/ relayed'[q][i][1] = relayed'[q][j][1]
                         \/ cpc = "closing" /\ relayed'[q][j][1] = Primary
    BY <1>4
  <2>1. CASE j \in DOMAIN relayed[q] /\ relayed'[q][j] = relayed[q][j]
    <3>1. i \in DOMAIN relayed[q] /\ relayed'[q][i] = relayed[q][i]
      BY <1>1, <1>13, <1>15, <2>1
    <3> QED BY <2>1, <3>1
  <2>2. CASE /\ q = p /\ relayed'[q][j] = frame
             /\ DOMAIN relayed[q] = 1 .. j - 1 /\ j \in Nat \ {0}
    <3>0. i \in Nat \ {0}
      BY <1>13, <1>15
    <3>3. i \in DOMAIN relayed[q]
      BY <2>2, <3>0
    <3>1. i \in DOMAIN relayed[q] /\ relayed'[q][i] = relayed[q][i]
      BY <1>13, <3>0, <3>3
    <3>2. \E l \in DOMAIN queue[w] : queue[w][l] = packet
      BY <1>3
    <3> QED BY <1>3, <1>14, <2>2, <3>1, <3>2 DEF p
  <2> QED BY <1>13, <2>1, <2>2
<1> QED BY <1>12, <1>16, <1>17, <1>18

\* A step keeps the packets of a connection in order.
LEMMA FlowStep == TypeOK /\ FlowInv /\ [Next]_vars => FlowInv'
<1> SUFFICES ASSUME TypeOK, FlowInv, [Next]_vars PROVE FlowInv'
  OBVIOUS
<1> USE DEF authVars, relaySide, assetVars, threadVars, packetVars, resolveVars
\* Nothing of the packets is touched, or nothing has begun.
<1>1. ASSUME UNCHANGED flowVars, cpc = "closing" => cpc' = "closing"
      PROVE  Ordered'
  <2>1. \A p \in Ports : ExitOf(p)' = ExitOf(p)
    BY <1>1 DEF flowVars, ExitOf
  <2>2. UNCHANGED <<queue, next, relayed>>
    BY <1>1 DEF flowVars
  <2>3. QueuesInOrder' /\ RelayedBefore'
    BY <2>2 DEF FlowInv, Ordered, QueuesInOrder, RelayedBefore, WorkerOf
  <2>4. RelayedAtExit' /\ RelayedInOrder'
    BY <1>1, <2>1, <2>2 DEF FlowInv, Ordered, RelayedAtExit, RelayedInOrder
  <2> QED BY <2>3, <2>4 DEF Ordered
<1>2. ASSUME \/ GetTicket \/ SendHello \/ GiveUp \/ Tick \/ WaitEnds
             \/ \E m \in net : ReceiveAck(m)
      PROVE  NotBegun /\ UNCHANGED flowVars /\ UNCHANGED <<reader, worker>>
  BY <1>2 DEF NotBegun, flowVars, GetTicket, SendHello, GiveUp, Tick, WaitEnds, ReceiveAck
<1>3. ASSUME Stop \/ RequestBatch \/ BatchExpires \/ Poll
      PROVE  ~NotBegun' /\ UNCHANGED flowVars /\ (cpc = "closing" => cpc' = "closing")
  BY <1>3 DEF NotBegun, flowVars, Stop, RequestBatch, BatchExpires, Poll, NextBatch
<1>4. CASE Start
  <2>1. ~NotBegun' /\ UNCHANGED flowVars /\ cpc # "closing"
    BY <1>4 DEF NotBegun, flowVars, Start
  <2> QED BY <1>1, <2>1 DEF FlowInv, NothingYet
<1>5. CASE SetupPool
  <2>1. NotBegun /\ UNCHANGED <<queue, next, relayed, reader, worker>>
    BY <1>5 DEF NotBegun, SetupPool
  <2>2. queue = [w \in Workers |-> <<>>] /\ relayed = [p \in Ports |-> <<>>]
    BY <2>1 DEF FlowInv, NothingYet
  <2>3. Ordered'
    BY <2>1, <2>2 DEF Ordered, QueuesInOrder, RelayedAtExit, RelayedBefore, RelayedInOrder
  <2> QED BY <2>1, <2>3 DEF FlowInv, NothingYet
<1>18. CASE ClearAssetRoutes
  <2>1. /\ UNCHANGED <<queue, next, relayed>> /\ ~asset_ips' /\ ~NotBegun'
        /\ cpc = "connected" /\ cpc' = "closing"
    BY <1>18 DEF NotBegun, ClearAssetRoutes
  <2>2. \A p \in Ports : ExitOf(p)' = Primary
    BY <2>1 DEF ExitOf
  <2>3. QueuesInOrder' /\ RelayedBefore'
    BY <2>1 DEF FlowInv, Ordered, QueuesInOrder, RelayedBefore, WorkerOf
  <2>4. RelayedAtExit' /\ RelayedInOrder'
    BY <2>1, <2>2 DEF FlowInv, Ordered, RelayedAtExit, RelayedInOrder
  <2> QED BY <2>1, <2>3, <2>4 DEF FlowInv, Ordered, NothingYet
<1>6. ASSUME RelayStep \/ UNCHANGED vars
      PROVE  UNCHANGED flowVars /\ UNCHANGED <<cpc, reader, worker>>
  BY <1>6 DEF RelayStep, AnswerHello, AnswerLookup, vars, flowVars
<1>17. ASSUME NEW m \in net \cup {Data}, ReceiveReply(m) \/ ReceivePacket(m)
       PROVE  UNCHANGED flowVars /\ UNCHANGED <<cpc, reader, worker>>
  BY <1>17 DEF ReceiveReply, ReceivePacket, flowVars
<1>7. ASSUME NEW p \in Ports, ReadPacket(p) PROVE FlowInv'
  <2>1. ~NotBegun /\ UNCHANGED cpc
    BY <1>7 DEF FlowInv, NothingYet, ReadPacket
  <2> QED BY <1>7, <2>1, ReadKeepsOrder DEF FlowInv, NothingYet, NotBegun
<1>8. ASSUME NEW w \in Workers, NEW bypassed \in BOOLEAN, WorkerHandles(w, bypassed)
      PROVE  FlowInv'
  <2>1. ~NotBegun /\ UNCHANGED cpc
    BY <1>8 DEF FlowInv, NothingYet, WorkerHandles
  <2> QED BY <1>8, <2>1, HandleKeepsOrder DEF FlowInv, NothingYet, NotBegun
<1>9. ASSUME NEW w \in Workers, WorkerStops(w) PROVE FlowInv'
  <2>1. ~NotBegun /\ UNCHANGED cpc
    BY <1>9 DEF FlowInv, NothingYet, WorkerStops
  <2>2. queue' = [queue EXCEPT ![w] = <<>>] /\ UNCHANGED <<asset_ips, pool, next, relayed>>
    BY <1>9 DEF WorkerStops
  <2>3. \A v \in Workers : \A i \in DOMAIN queue'[v] :
          queue'[v] = queue[v]
    BY <2>2 DEF TypeOK, PacketTypes
  <2>4. \A p \in Ports : ExitOf(p)' = ExitOf(p)
    BY <2>2 DEF ExitOf
  <2>5. QueuesInOrder'
    BY <2>2, <2>3 DEF FlowInv, Ordered, QueuesInOrder, WorkerOf
  <2>6. RelayedBefore'
    BY <2>2, <2>3 DEF FlowInv, Ordered, RelayedBefore
  <2>7. RelayedAtExit' /\ RelayedInOrder'
    BY <2>1, <2>2, <2>4 DEF FlowInv, Ordered, RelayedAtExit, RelayedInOrder
  <2> QED BY <2>1, <2>5, <2>6, <2>7 DEF FlowInv, Ordered, NothingYet, NotBegun
<1>10. CASE ReaderStops
  <2>1. UNCHANGED flowVars /\ UNCHANGED <<cpc, worker>> /\ reader' = "off"
    BY <1>10 DEF ReaderStops, flowVars
  <2> QED BY <1>1, <2>1 DEF FlowInv, NothingYet, NotBegun, flowVars
<1>11. ASSUME NotBegun, UNCHANGED flowVars, UNCHANGED <<reader, worker>> PROVE FlowInv'
  <2>1. cpc # "closing"
    BY <1>11 DEF NotBegun
  <2> QED BY <1>1, <1>11, <2>1 DEF FlowInv, NothingYet, flowVars
<1>12. ASSUME ~NotBegun', UNCHANGED flowVars, cpc = "closing" => cpc' = "closing"
       PROVE  FlowInv'
  BY <1>1, <1>12 DEF FlowInv, NothingYet
<1>13. ASSUME UNCHANGED flowVars, UNCHANGED <<cpc, reader, worker>> PROVE FlowInv'
  BY <1>1, <1>13 DEF FlowInv, NothingYet, NotBegun, flowVars
<1>14. CASE Connecting
  <2>1. ASSUME \/ GetTicket \/ SendHello \/ GiveUp \/ Tick \/ WaitEnds
               \/ \E m \in net : ReceiveAck(m)
        PROVE  FlowInv'
    BY ONLY <1>2, <1>11, <2>1
  <2>2. ASSUME Stop \/ RequestBatch \/ BatchExpires \/ Poll PROVE FlowInv'
    BY ONLY <1>3, <1>12, <2>2
  <2> QED BY ONLY <1>4, <1>5, <1>14, <1>18, <2>1, <2>2 DEF Connecting
<1>15. CASE PacketStep
  <2>1. ASSUME NEW m \in net \cup {Data}, ReceiveReply(m) \/ ReceivePacket(m)
        PROVE  FlowInv'
    BY <1>13, <1>17, <2>1
  <2> QED BY ONLY <1>7, <1>8, <1>9, <1>10, <1>15, <2>1 DEF PacketStep
<1>16. CASE RelayStep \/ UNCHANGED vars
  BY ONLY <1>6, <1>13, <1>16
<1> QED BY <1>14, <1>15, <1>16 DEF Next

\* With any number of workers and connections, and whatever is lost or bypassed, the packets
\* of a connection reach their relay in the order they were read: a gameplay connection's
\* the gameplay relay always, an asset connection's one relay until the teardown has
\* forgotten the asset hosts, and that one and then the gameplay relay after.
THEOREM FlowsInOrder == Spec => []FlowInOrder
<1>1. FlowInv => FlowInOrder
  BY DEF FlowInv, Ordered, RelayedAtExit, RelayedInOrder, FlowInOrder
<1> QED BY <1>1, TypeCorrect, FlowInit, FlowStep, PTL DEF Spec

-----------------------------------------------------------------------------
(* A packet takes one way *)

\* What has left outside was read, and is neither queued nor relayed.
OutsideApart ==
  /\ outside \subseteq Ports \X PacketNo
  /\ \A e \in outside : e[2] <= next[e[1]]
  /\ \A w \in Workers : \A i \in DOMAIN queue[w] : queue[w][i] \notin outside
  /\ \A p \in Ports : \A k \in DOMAIN relayed[p] : <<p, relayed[p][k][2]>> \notin outside

\* A packet that is read goes to a queue or outside, and had gone nowhere.
LEMMA ReadKeepsApart ==
  ASSUME TypeOK, FlowInv, OutsideApart, NEW p \in Ports, ReadPacket(p)
  PROVE  OutsideApart'
<1> DEFINE packet == <<p, next[p] + 1>>
           w == WorkerOf(packet)
<1>1. /\ next \in [Ports -> 0 .. MaxPackets]
      /\ queue \in [Workers -> Seq(Ports \X PacketNo)]
      /\ relayed \in [Ports -> Seq(Servers \X PacketNo)]
  BY DEF TypeOK, PacketTypes, PacketNo
<1>2. packet \in Ports \X PacketNo /\ packet \in Ports \X Nat
  BY <1>1, TrafficAssumption DEF ReadPacket, PacketNo
<1>3. w \in Workers
  BY <1>2, WorkerOfType
<1>4. /\ next' = [next EXCEPT ![p] = @ + 1] /\ relayed' = relayed
      /\ \/ queue' = queue /\ outside' = outside \cup {packet}
         \/ queue' = [queue EXCEPT ![w] = Append(@, packet)] /\ outside' = outside
  BY DEF ReadPacket
<1>5. packet[1] = p /\ packet[2] = next[p] + 1 /\ next'[p] = next[p] + 1 /\ next[p] \in Nat
  BY <1>1, <1>4
<1>6. \A e \in outside : e[1] \in Ports /\ e[2] \in Nat /\ next[e[1]] \in Nat
                        /\ next[e[1]] <= next'[e[1]]
  BY <1>1, <1>4 DEF OutsideApart, PacketNo
<1>7. packet \notin outside
  <2>1. ~(next[p] + 1 <= next[p])
    BY ONLY <1>5
  <2> HIDE DEF packet
  <2> QED BY <1>5, <2>1 DEF OutsideApart
<1>8. \A v \in Workers : \A i \in DOMAIN queue[v] :
        queue[v][i][1] \in Ports /\ queue[v][i][2] \in Nat
  BY <1>1 DEF PacketNo
<1>9. \A r \in Ports : \A k \in DOMAIN relayed[r] : relayed[r][k][2] \in Nat
  BY <1>1 DEF PacketNo
<1> HIDE DEF packet, w
<1>10. \A v \in Workers : \A i \in DOMAIN queue[v] : queue[v][i] # packet
  BY <1>5, <1>8 DEF FlowInv, Ordered, QueuesInOrder
<1>11. \A r \in Ports : \A k \in DOMAIN relayed[r] : <<r, relayed[r][k][2]>> # packet
  BY <1>5, <1>9 DEF FlowInv, Ordered, RelayedBefore
<1>12. /\ outside' \subseteq Ports \X PacketNo
       /\ \A e \in outside' : e[2] <= next'[e[1]]
       /\ \A r \in Ports : \A k \in DOMAIN relayed'[r] : <<r, relayed'[r][k][2]>> \notin outside'
  BY <1>2, <1>4, <1>5, <1>6, <1>11 DEF OutsideApart
<1>13. CASE queue' = queue /\ outside' = outside \cup {packet}
  BY <1>10, <1>12, <1>13 DEF OutsideApart
<1>14. CASE queue' = [queue EXCEPT ![w] = Append(@, packet)] /\ outside' = outside
  <2>1. queue[w] \in Seq(Ports \X PacketNo)
    BY <1>1, <1>3
  <2>2. /\ DOMAIN queue[w] = 1 .. Len(queue[w]) /\ Len(queue[w]) \in Nat
        /\ DOMAIN Append(queue[w], packet) = 1 .. Len(queue[w]) + 1
        /\ \A i \in DOMAIN queue[w] : Append(queue[w], packet)[i] = queue[w][i]
        /\ Append(queue[w], packet)[Len(queue[w]) + 1] = packet
    BY <1>2, <2>1, AppendIs
  <2>3. \A i \in DOMAIN Append(queue[w], packet) :
          \/ i \in DOMAIN queue[w] /\ Append(queue[w], packet)[i] = queue[w][i]
          \/ Append(queue[w], packet)[i] = packet
    BY <2>2
  <2>4. /\ queue'[w] = Append(queue[w], packet)
        /\ \A v \in Workers \ {w} : queue'[v] = queue[v]
    BY <1>1, <1>3, <1>14
  <2> QED BY <1>7, <1>12, <1>14, <2>3, <2>4 DEF OutsideApart
<1> QED BY <1>4, <1>13, <1>14

\* A packet that is handled was queued, and so is not outside; one that is bypassed is queued
\* nowhere else, and was not relayed.
LEMMA HandleKeepsApart ==
  ASSUME TypeOK, FlowInv, OutsideApart, NEW w \in Workers, NEW bypassed \in BOOLEAN,
         WorkerHandles(w, bypassed)
  PROVE  OutsideApart'
<1> DEFINE packet == Head(queue[w])
           p == packet[1]
           frame == <<ExitOf(p), packet[2]>>
<1>1. /\ queue \in [Workers -> Seq(Ports \X PacketNo)]
      /\ relayed \in [Ports -> Seq(Servers \X PacketNo)]
  BY DEF TypeOK, PacketTypes, PacketNo
<1>2. queue[w] \in Seq(Ports \X PacketNo) /\ queue[w] # <<>>
  BY <1>1 DEF WorkerHandles
<1>3. /\ packet = queue[w][1] /\ 1 \in DOMAIN queue[w] /\ packet \in Ports \X PacketNo
      /\ \A i \in DOMAIN Tail(queue[w]) :
           i + 1 \in DOMAIN queue[w] /\ Tail(queue[w])[i] = queue[w][i + 1]
  BY <1>2, TailIs
<1>4. /\ queue' = [queue EXCEPT ![w] = Tail(@)] /\ next' = next
      /\ \/ UNCHANGED <<relayed, outside>>
         \/ outside' = outside \cup {packet} /\ relayed' = relayed
         \/ /\ outside' = outside
            /\ relayed' = [relayed EXCEPT ![p] = Append(relayed[p], frame)]
  BY DEF WorkerHandles
<1>5. queue'[w] = Tail(queue[w]) /\ \A v \in Workers \ {w} : queue'[v] = queue[v]
  BY <1>1, <1>4
<1>6. p \in Ports /\ packet = <<p, packet[2]>> /\ packet \notin outside
  BY <1>3 DEF OutsideApart
<1>7. \A v \in Workers : \A i \in DOMAIN queue'[v] : queue'[v][i] \notin outside
  <2> HIDE DEF packet, p, frame
  <2> SUFFICES ASSUME NEW v \in Workers, NEW i \in DOMAIN queue'[v]
               PROVE  queue'[v][i] \notin outside
    OBVIOUS
  <2>1. CASE v # w
    BY <1>5, <2>1 DEF OutsideApart
  <2>2. CASE v = w
    BY <1>3, <1>5, <2>2 DEF OutsideApart
  <2> QED BY <2>1, <2>2
<1>8. CASE UNCHANGED <<relayed, outside>>
  BY <1>4, <1>7, <1>8 DEF OutsideApart
<1>10. CASE outside' = outside \cup {packet} /\ relayed' = relayed
  <2> HIDE DEF packet, p, frame
  <2>1. packet[2] <= next[p] /\ packet[1] = p /\ packet[2] \in Nat /\ WorkerOf(packet) = w
    BY <1>3 DEF FlowInv, Ordered, QueuesInOrder, PacketNo, p
  <2>2. \A v \in Workers : \A i \in DOMAIN queue'[v] : queue'[v][i] # packet
    <3> SUFFICES ASSUME NEW v \in Workers, NEW i \in DOMAIN queue'[v], queue'[v][i] = packet
                 PROVE  FALSE
      OBVIOUS
    <3>1. CASE v # w
      BY <1>5, <2>1, <3>1 DEF FlowInv, Ordered, QueuesInOrder
    <3>2. CASE v = w
      <4>1. i \in DOMAIN Tail(queue[w]) /\ Tail(queue[w])[i] = packet
        BY <1>5, <3>2
      <4>2. i + 1 \in DOMAIN queue[w] /\ queue[w][i + 1] = packet /\ 1 < i + 1
        <5>1. i \in 1 .. Len(queue[w]) - 1
          BY <1>2, <4>1, TailIs
        <5> QED BY <1>3, <4>1, <5>1
      <4>3. queue[w][1][2] < queue[w][i + 1][2]
        BY <1>3, <4>2 DEF FlowInv, Ordered, QueuesInOrder
      <4> QED BY <1>3, <2>1, <4>2, <4>3
    <3> QED BY <3>1, <3>2
  <2>3. \A q \in Ports : \A k \in DOMAIN relayed[q] : <<q, relayed[q][k][2]>> # packet
    <3> SUFFICES ASSUME NEW q \in Ports, NEW k \in DOMAIN relayed[q],
                        <<q, relayed[q][k][2]>> = packet
                 PROVE  FALSE
      OBVIOUS
    <3>1. q = p /\ relayed[q][k][2] = packet[2]
      BY <1>6
    <3>2. queue[w][1] = packet /\ queue[w][1][1] = q
      BY <1>3, <2>1, <3>1
    <3>3. relayed[q][k][2] < packet[2]
      BY <1>3, <3>2 DEF FlowInv, Ordered, RelayedBefore
    <3> QED BY <2>1, <3>1, <3>3
  <2>4. outside' \subseteq Ports \X PacketNo /\ \A e \in outside' : e[2] <= next'[e[1]]
    BY <1>3, <1>4, <1>10, <2>1 DEF OutsideApart
  <2> QED BY <1>7, <1>10, <2>2, <2>3, <2>4 DEF OutsideApart
<1>9. CASE outside' = outside /\ relayed' = [relayed EXCEPT ![p] = Append(relayed[p], frame)]
  <2>1. frame \in Servers \X PacketNo /\ relayed[p] \in Seq(Servers \X PacketNo)
    <3>1. pool \in Seq(Servers)
      BY DEF TypeOK, PoolOK
    <3> QED BY <1>1, <1>3, <1>6, <3>1, ExitIsServer
  <2>2. frame[2] = packet[2]
    OBVIOUS
  <2> HIDE DEF packet, p, frame
  <2>3. \A k \in DOMAIN Append(relayed[p], frame) :
          \/ k \in DOMAIN relayed[p] /\ Append(relayed[p], frame)[k] = relayed[p][k]
          \/ Append(relayed[p], frame)[k] = frame
    <3>1. /\ DOMAIN relayed[p] = 1 .. Len(relayed[p]) /\ Len(relayed[p]) \in Nat
          /\ DOMAIN Append(relayed[p], frame) = 1 .. Len(relayed[p]) + 1
          /\ \A i \in DOMAIN relayed[p] : Append(relayed[p], frame)[i] = relayed[p][i]
          /\ Append(relayed[p], frame)[Len(relayed[p]) + 1] = frame
      BY <2>1, AppendIs
    <3> QED BY <3>1
  <2>4. /\ relayed'[p] = Append(relayed[p], frame)
        /\ \A q \in Ports \ {p} : relayed'[q] = relayed[q]
    BY <1>1, <1>6, <1>9
  <2>5. \A q \in Ports : \A k \in DOMAIN relayed'[q] : <<q, relayed'[q][k][2]>> \notin outside
    <3> SUFFICES ASSUME NEW q \in Ports, NEW k \in DOMAIN relayed'[q]
                 PROVE  <<q, relayed'[q][k][2]>> \notin outside
      OBVIOUS
    <3>1. CASE q # p
      BY <2>4, <3>1 DEF OutsideApart
    <3>2. CASE q = p
      <4>1. k \in DOMAIN Append(relayed[p], frame) /\ relayed'[q][k] = Append(relayed[p], frame)[k]
        BY <2>4, <3>2
      <4>2. CASE k \in DOMAIN relayed[p] /\ Append(relayed[p], frame)[k] = relayed[p][k]
        BY <1>6, <3>2, <4>1, <4>2 DEF OutsideApart
      <4>3. CASE Append(relayed[p], frame)[k] = frame
        <5>1. relayed'[q][k][2] = packet[2]
          BY <2>2, <4>1, <4>3
        <5>2. <<q, relayed'[q][k][2]>> = packet
          BY <1>6, <3>2, <5>1
        <5> QED BY <1>6, <5>2
      <4> QED BY <2>3, <4>1, <4>2, <4>3
    <3> QED BY <3>1, <3>2
  <2> QED BY <1>4, <1>7, <1>9, <2>5 DEF OutsideApart
<1> QED BY <1>4, <1>8, <1>9, <1>10

\* A step keeps apart what has left outside and what goes to the relay.
LEMMA ApartStep == TypeOK /\ FlowInv /\ OutsideApart /\ [Next]_vars => OutsideApart'
<1> SUFFICES ASSUME TypeOK, FlowInv, OutsideApart, [Next]_vars PROVE OutsideApart'
  OBVIOUS
<1>1. CASE UNCHANGED <<queue, next, relayed, outside>>
  BY <1>1 DEF OutsideApart
<1>2. ASSUME Connecting \/ RelayStep \/ ReaderStops \/ UNCHANGED vars
      PROVE  UNCHANGED <<queue, next, relayed, outside>>
  BY <1>2 DEF Connecting, RelayStep, GetTicket, SendHello, GiveUp, Tick, WaitEnds,
     ReceiveAck, SetupPool, Start, ClearAssetRoutes, Stop, RequestBatch, BatchExpires, Poll,
     AnswerHello, AnswerLookup, ReaderStops, vars, packetVars
<1>3. ASSUME NEW m \in net \cup {Data}, ReceiveReply(m) \/ ReceivePacket(m)
      PROVE  UNCHANGED <<queue, next, relayed, outside>>
  BY <1>3 DEF ReceiveReply, ReceivePacket, packetVars
<1>4. ASSUME NEW w \in Workers, WorkerStops(w) PROVE OutsideApart'
  <2>1. queue' = [queue EXCEPT ![w] = <<>>] /\ UNCHANGED <<next, relayed, outside>>
    BY <1>4 DEF WorkerStops
  <2>2. \A v \in Workers : \A i \in DOMAIN queue'[v] : queue'[v] = queue[v]
    BY <2>1 DEF TypeOK, PacketTypes
  <2> QED BY <2>1, <2>2 DEF OutsideApart
<1> QED
  BY <1>1, <1>2, <1>3, <1>4, ReadKeepsApart, HandleKeepsApart DEF Next, PacketStep

\* No packet goes both ways, whatever is refused by a queue or sent outside by a worker
\* for the bypass, and whenever the bypass changes.
THEOREM PacketsTakeOneWay == Spec => []OneWayOut
<1>1. Init => OutsideApart
  BY DEF Init, OutsideApart
<1>2. OutsideApart => OneWayOut
  BY DEF OutsideApart, OneWayOut
<1> QED BY <1>1, <1>2, ApartStep, TypeCorrect, FlowInit, FlowStep, PTL DEF Spec

-----------------------------------------------------------------------------
(* The refinement of LossyTunnel *)

\* A queue holds what it held and the one put at its end.
LEMMA RangeOfAppend ==
  ASSUME NEW S, NEW q \in Seq(S), NEW e \in S
  PROVE  Range(Append(q, e)) = Range(q) \cup {e}
<1>1. /\ DOMAIN q = 1 .. Len(q) /\ DOMAIN Append(q, e) = 1 .. Len(q) + 1 /\ Len(q) \in Nat
      /\ \A i \in DOMAIN q : Append(q, e)[i] = q[i]
      /\ Append(q, e)[Len(q) + 1] = e
  BY AppendIs
<1>2. \A i \in DOMAIN Append(q, e) : i \in DOMAIN q \/ i = Len(q) + 1
  BY <1>1
<1>3. \A i \in DOMAIN q : i \in DOMAIN Append(q, e)
  BY <1>1
<1>4. Len(q) + 1 \in DOMAIN Append(q, e)
  BY <1>1
<1> QED BY <1>1, <1>2, <1>3, <1>4 DEF Range

\* A queue holds its first and the others.
LEMMA RangeOfTail ==
  ASSUME NEW S, NEW q \in Seq(S), q # <<>>
  PROVE  Range(q) = {Head(q)} \cup Range(Tail(q))
<1>1. /\ Head(q) = q[1] /\ 1 \in DOMAIN q /\ DOMAIN Tail(q) = 1 .. Len(q) - 1
      /\ DOMAIN q = 1 .. Len(q)
      /\ \A i \in DOMAIN Tail(q) : i + 1 \in DOMAIN q /\ Tail(q)[i] = q[i + 1]
  BY TailIs
<1>2. \A i \in DOMAIN q : i = 1 \/ (i - 1 \in DOMAIN Tail(q) /\ Tail(q)[i - 1] = q[i])
  BY <1>1
<1> QED BY <1>1, <1>2 DEF Range

\* What is inside for a connection is what the queues hold of it.
LEMMA InsideIs ==
  ASSUME NEW p \in Ports, NEW n
  PROVE  n \in Inside[p] <=> n \in PacketNo /\ \E w \in Workers : <<p, n>> \in Range(queue[w])
  BY DEF Inside, PacketNo

tunnelVars == <<next, queue, relayed, outside>>

\* What leaves the packets alone, and does not begin the teardown, is a stutter of the tunnel.
LEMMA Stutters ==
  ASSUME UNCHANGED tunnelVars, cpc = "closing" <=> cpc' = "closing"
  PROVE  UNCHANGED Tunnel!vars
<1>1. (cpc = "closing")' = (cpc = "closing")
  OBVIOUS
<1> QED BY <1>1 DEF tunnelVars, Tunnel!vars, Inside

\* The teardown closes the tunnel when it forgets the asset hosts.
LEMMA ClearIsClose == ClearAssetRoutes => Tunnel!Next
  BY DEF ClearAssetRoutes, Tunnel!Next, Tunnel!Close, packetVars, Inside

\* A packet that is read enters the tunnel, or goes around it.
LEMMA ReadIsSend ==
  ASSUME TypeOK, NEW p \in Ports, ReadPacket(p)
  PROVE  Tunnel!Next
<1> DEFINE packet == <<p, next[p] + 1>>
           w == WorkerOf(packet)
<1>1. next \in [Ports -> 0 .. MaxPackets] /\ queue \in [Workers -> Seq(Ports \X PacketNo)]
  BY DEF TypeOK, PacketTypes, PacketNo
<1>2. next[p] + 1 \in PacketNo /\ packet \in Ports \X PacketNo
  BY <1>1, TrafficAssumption DEF ReadPacket, PacketNo
<1>3. w \in Workers
  <2>1. packet \in Ports \X Nat
    BY <1>2 DEF PacketNo
  <2> QED BY <2>1, WorkerOfType
<1>4. next' = [next EXCEPT ![p] = next[p] + 1] /\ relayed' = relayed /\ cpc' = cpc
  BY DEF ReadPacket
<1>5. CASE queue' = [queue EXCEPT ![w] = Append(@, packet)] /\ outside' = outside
  <2> HIDE DEF packet, w
  <2>1. /\ queue'[w] = Append(queue[w], packet)
        /\ \A v \in Workers \ {w} : queue'[v] = queue[v]
        /\ queue[w] \in Seq(Ports \X PacketNo)
    BY <1>1, <1>3, <1>5
  <2>2. Range(queue'[w]) = Range(queue[w]) \cup {packet}
    BY <1>2, <2>1, RangeOfAppend
  <2>3. \A e : (\E v \in Workers : e \in Range(queue'[v]))
                 <=> e = packet \/ \E v \in Workers : e \in Range(queue[v])
    BY <1>3, <2>1, <2>2
  <2>4. \A q \in Ports : Inside'[q] = IF q = p THEN Inside[q] \cup {next[p] + 1} ELSE Inside[q]
    <3> SUFFICES ASSUME NEW q \in Ports
                 PROVE  Inside'[q] = IF q = p THEN Inside[q] \cup {next[p] + 1}
                                              ELSE Inside[q]
      OBVIOUS
    <3>1. Inside'[q] = {n \in PacketNo : \E v \in Workers : <<q, n>> \in Range(queue'[v])}
      BY DEF Inside, PacketNo
    <3>2. Inside[q] = {n \in PacketNo : \E v \in Workers : <<q, n>> \in Range(queue[v])}
      BY DEF Inside, PacketNo
    <3>3. \A n : <<q, n>> = packet <=> q = p /\ n = next[p] + 1
      BY DEF packet
    <3> QED BY <1>2, <2>3, <3>1, <3>2, <3>3
  <2>5. Inside' = [Inside EXCEPT ![p] = Inside[p] \cup {next[p] + 1}]
    BY <2>4 DEF Inside
  <2> QED BY <1>4, <1>5, <2>5 DEF Tunnel!Next, Tunnel!Enter, Tunnel!Send
<1>6. CASE queue' = queue /\ outside' = outside \cup {packet}
  <2>1. Inside' = Inside
    BY <1>6 DEF Inside
  <2> QED BY <1>4, <1>6, <2>1 DEF Tunnel!Next, Tunnel!GoAround, Tunnel!Send
<1> QED BY <1>5, <1>6 DEF ReadPacket

\* A packet that is handled is the first of its connection inside, and leaves the tunnel at
\* the connection's end, or for the way around it, or is lost.
LEMMA HandleIsLeave ==
  ASSUME TypeOK, FlowInv, NEW w \in Workers, NEW bypassed \in BOOLEAN,
         WorkerHandles(w, bypassed)
  PROVE  Tunnel!Next
<1> DEFINE packet == Head(queue[w])
           p == packet[1]
           n == packet[2]
           frame == <<ExitOf(p), n>>
<1>1. /\ queue \in [Workers -> Seq(Ports \X PacketNo)]
      /\ relayed \in [Ports -> Seq(Servers \X PacketNo)]
  BY DEF TypeOK, PacketTypes, PacketNo
<1>2. queue[w] \in Seq(Ports \X PacketNo) /\ queue[w] # <<>>
  BY <1>1 DEF WorkerHandles
<1>3. /\ packet = queue[w][1] /\ 1 \in DOMAIN queue[w] /\ packet \in Ports \X PacketNo
      /\ DOMAIN Tail(queue[w]) = 1 .. Len(queue[w]) - 1
      /\ DOMAIN queue[w] = 1 .. Len(queue[w])
      /\ \A i \in DOMAIN Tail(queue[w]) :
           i + 1 \in DOMAIN queue[w] /\ Tail(queue[w])[i] = queue[w][i + 1]
  BY <1>2, TailIs
<1>4. /\ queue' = [queue EXCEPT ![w] = Tail(@)] /\ next' = next /\ cpc' = cpc
      /\ \/ UNCHANGED <<relayed, outside>>
         \/ outside' = outside \cup {packet} /\ relayed' = relayed
         \/ /\ outside' = outside
            /\ relayed' = [relayed EXCEPT ![p] = Append(relayed[p], frame)]
  BY DEF WorkerHandles
<1>5. p \in Ports /\ n \in PacketNo /\ n \in Nat /\ packet = <<p, n>>
  BY <1>3, TrafficAssumption DEF PacketNo
<1>6. ExitOf(p) \in Servers
  <2>1. pool \in Seq(Servers)
    BY DEF TypeOK, PoolOK
  <2> QED BY <1>5, <2>1, ExitIsServer
<1> HIDE DEF packet, p, n
<1>7. \A v \in Workers : \A e \in Range(queue[v]) :
        e[1] = p => v = w /\ (e = packet \/ n < e[2])
  <2> SUFFICES ASSUME NEW v \in Workers, NEW i \in DOMAIN queue[v], queue[v][i][1] = p
               PROVE  v = w /\ (queue[v][i] = packet \/ n < queue[v][i][2])
    BY DEF Range
  <2>1. WorkerOf(queue[v][i]) = v /\ WorkerOf(packet) = w
    BY <1>3 DEF FlowInv, Ordered, QueuesInOrder
  <2>2. v = w
    BY <1>5, <2>1 DEF WorkerOf
  <2>3. CASE i = 1
    BY <1>3, <2>2, <2>3
  <2>4. CASE i # 1
    <3>1. 1 < i
      BY <1>3, <2>2, <2>4
    <3>2. packet[1] = p /\ packet[2] = n
      BY <1>5
    <3> QED BY <1>3, <2>2, <3>1, <3>2 DEF FlowInv, Ordered, QueuesInOrder
  <2> QED BY <2>2, <2>3, <2>4
<1>8. packet \notin Range(Tail(queue[w]))
  <2> SUFFICES ASSUME NEW i \in DOMAIN Tail(queue[w]), Tail(queue[w])[i] = packet
               PROVE  FALSE
    BY DEF Range
  <2>1. i + 1 \in DOMAIN queue[w] /\ queue[w][i + 1] = packet /\ 1 < i + 1
    BY <1>3
  <2>2. queue[w][1][2] < queue[w][i + 1][2]
    BY <1>3, <2>1 DEF FlowInv, Ordered, QueuesInOrder
  <2> QED BY <1>3, <1>5, <2>1, <2>2
<1>9. \A e : (\E v \in Workers : e \in Range(queue'[v]))
               <=> e # packet /\ \E v \in Workers : e \in Range(queue[v])
  <2>1. Range(queue[w]) = {packet} \cup Range(Tail(queue[w]))
    BY <1>2, RangeOfTail DEF packet
  <2>2. queue'[w] = Tail(queue[w]) /\ \A v \in Workers \ {w} : queue'[v] = queue[v]
    BY <1>1, <1>4
  <2>3. \A v \in Workers \ {w} : packet \notin Range(queue[v])
    BY <1>5, <1>7
  <2> QED BY <1>8, <2>1, <2>2, <2>3
<1>10. \A q \in Ports : Inside'[q] = IF q = p THEN Inside[q] \ {n} ELSE Inside[q]
  <2> SUFFICES ASSUME NEW q \in Ports
               PROVE  Inside'[q] = IF q = p THEN Inside[q] \ {n} ELSE Inside[q]
    OBVIOUS
  <2>1. Inside'[q] = {k \in PacketNo : \E v \in Workers : <<q, k>> \in Range(queue'[v])}
    BY DEF Inside, PacketNo
  <2>2. Inside[q] = {k \in PacketNo : \E v \in Workers : <<q, k>> \in Range(queue[v])}
    BY DEF Inside, PacketNo
  <2>3. \A k : <<q, k>> = packet <=> q = p /\ k = n
    BY <1>5
  <2> QED BY <1>9, <2>1, <2>2, <2>3
<1>11. Tunnel!Takes(p, n)
  <2>1. n \in Inside[p]
    <3>1. packet \in Range(queue[w])
      BY <1>3 DEF Range
    <3> QED BY <1>5, <3>1, InsideIs
  <2>2. \A m \in Inside[p] : n <= m
    <3> SUFFICES ASSUME NEW m \in Inside[p] PROVE n <= m
      OBVIOUS
    <3>1. m \in PacketNo /\ \E v \in Workers : <<p, m>> \in Range(queue[v])
      BY <1>5, InsideIs
    <3>2. <<p, m>> = packet \/ n < m
      BY <1>7, <3>1
    <3> QED BY <1>5, <3>1, <3>2, TrafficAssumption DEF PacketNo
  <2>3. Inside' = [Inside EXCEPT ![p] = Inside[p] \ {n}]
    BY <1>10 DEF Inside
  <2> QED BY <2>1, <2>2, <2>3 DEF Tunnel!Takes
<1>12. CASE UNCHANGED <<relayed, outside>>
  <2>1. Inside' \in [Ports -> SUBSET (1 .. MaxPackets)]
    BY DEF Inside
  <2>2. \A q \in Ports : Inside'[q] \subseteq Inside[q]
    BY <1>10
  <2> QED BY <1>4, <1>12, <2>1, <2>2 DEF Tunnel!Next, Tunnel!Lose
<1>13. CASE outside' = outside \cup {packet} /\ relayed' = relayed
  <2>1. Tunnel!Divert(p, n)
    BY <1>4, <1>5, <1>11, <1>13 DEF Tunnel!Divert
  <2> QED BY <1>5, <2>1 DEF Tunnel!Next, PacketNo
<1>14. CASE /\ outside' = outside
            /\ relayed' = [relayed EXCEPT ![p] = Append(relayed[p], frame)]
  <2>1. \A k \in DOMAIN relayed[p] :
          /\ relayed[p][k][2] < n
          /\ relayed[p][k][1] = ExitOf(p) \/ (cpc = "closing" /\ ExitOf(p) = Primary)
    <3>1. queue[w][1][1] = p /\ queue[w][1][2] = n
      BY <1>3, <1>5
    <3> QED BY <1>3, <1>5, <3>1 DEF FlowInv, Ordered, RelayedAtExit, RelayedBefore
  <2>2. Tunnel!Leave(p, n, ExitOf(p))
    BY <1>4, <1>11, <1>14, <2>1 DEF Tunnel!Leave
  <2> QED BY <1>5, <1>6, <2>2 DEF Tunnel!Next, PacketNo
<1> QED BY <1>4, <1>12, <1>13, <1>14

\* A worker that stops loses what its queue held.
LEMMA StopIsLose ==
  ASSUME TypeOK, NEW w \in Workers, WorkerStops(w)
  PROVE  Tunnel!Next
<1>1. queue' = [queue EXCEPT ![w] = <<>>] /\ UNCHANGED <<next, relayed, outside, cpc>>
  BY DEF WorkerStops
<1>2. \A v \in Workers : Range(queue'[v]) \subseteq Range(queue[v])
  <2>1. \A v \in Workers : queue'[v] = queue[v] \/ queue'[v] = <<>>
    BY <1>1 DEF TypeOK, PacketTypes
  <2>2. Range(<<>>) = {}
    BY DEF Range
  <2> QED BY <2>1, <2>2
<1>3. Inside' \in [Ports -> SUBSET (1 .. MaxPackets)]
  BY DEF Inside
<1>4. \A p \in Ports : Inside'[p] \subseteq Inside[p]
  BY <1>2 DEF Inside
<1> QED BY <1>1, <1>3, <1>4 DEF Tunnel!Next, Tunnel!Lose

\* Reader, queues and workers are a LossyTunnel: every step is one of its steps or a stutter.
THEOREM TunnelImplemented == Spec => ImplementsTunnel
<1>1. Init => Tunnel!Init
  <2>1. Init => Inside = [p \in Ports |-> {}]
    BY DEF Init, Inside, Range
  <2> QED BY <2>1 DEF Init, Tunnel!Init
<1>2. TypeOK /\ FlowInv /\ [Next]_vars => [Tunnel!Next]_(Tunnel!vars)
  <2> SUFFICES ASSUME TypeOK, FlowInv, [Next]_vars PROVE Tunnel!Next \/ UNCHANGED Tunnel!vars
    OBVIOUS
  <2>1. ASSUME Connecting \/ RelayStep \/ ReaderStops \/ UNCHANGED vars
        PROVE  /\ UNCHANGED tunnelVars
               /\ ClearAssetRoutes \/ (cpc = "closing" <=> cpc' = "closing")
    <3>1. UNCHANGED tunnelVars
      BY <2>1 DEF Connecting, RelayStep, GetTicket, SendHello, GiveUp, Tick, WaitEnds,
         ReceiveAck, SetupPool, Start, ClearAssetRoutes, Stop, RequestBatch, BatchExpires,
         Poll, AnswerHello, AnswerLookup, ReaderStops, vars, packetVars, tunnelVars
    <3>2. ClearAssetRoutes \/ (cpc = "closing" <=> cpc' = "closing")
      BY <2>1 DEF Connecting, RelayStep, GetTicket, SendHello, GiveUp, Settle, Tick,
         WaitEnds, ReceiveAck, SetupPool, Start, Stop, RequestBatch, BatchExpires, Poll,
         NextBatch, AnswerHello, AnswerLookup, ReaderStops, vars
    <3> QED BY <3>1, <3>2
  <2>2. ASSUME NEW m \in net \cup {Data}, ReceiveReply(m) \/ ReceivePacket(m)
        PROVE  UNCHANGED tunnelVars /\ UNCHANGED cpc
    BY <2>2 DEF ReceiveReply, ReceivePacket, packetVars, tunnelVars
  <2> QED BY <2>1, <2>2, Stutters, ClearIsClose, ReadIsSend, HandleIsLeave, StopIsLose
         DEF Next, PacketStep
<1> QED BY <1>1, <1>2, TypeCorrect, FlowInit, FlowStep, PTL
        DEF Spec, ImplementsTunnel, Tunnel!Spec
=============================================================================
