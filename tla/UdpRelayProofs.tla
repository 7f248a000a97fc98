--------------------------- MODULE UdpRelayProofs ---------------------------
(***************************************************************************)
(* A relay switch leaves no gap, and the grace period ends, for every      *)
(* number of relays, every clock bound and every grace period no longer    *)
(* than the switch cooldown. The invariant says, of each relay, when it    *)
(* was left relative to the switch the lookup task is making or made last. *)
(***************************************************************************)
EXTENDS UdpRelay, TLAPS

Switching == spc # "idle"

\* The clock is ahead of every time on record.
PastTimes ==
  /\ switch_time <= now
  /\ committed <= now
  /\ \A r \in Relays : left[r] <= now
  /\ gone <= now

\* Where the lookup task is in its three stores.
StoresInOrder ==
  /\ Switching => committed # Never /\ now - committed <= MaxStall
  /\ spc \in {"time", "addr"} => previous_relay_addr = relay_addr
  /\ spc = "addr" => committed <= switch_time
  /\ spc \in {"idle", "previous"} /\ previous_relay_addr # None /\ previous_relay_addr # relay_addr
       => left[previous_relay_addr] # Never /\ switch_time <= left[previous_relay_addr]

\* When a relay was left: by the last switch, or a cooldown before it.
LeftInTime ==
  \A r \in Relays : left[r] # Never =>
    /\ switch_time # Never /\ left[r] <= switch_time + MaxStall
    /\ committed # Never /\ left[r] <= committed + MaxStall
    /\ Switching => left[r] <= committed - MinInterval + MaxStall
    /\ r # previous_relay_addr => now - left[r] >= Grace - MaxStall

\* What the receiver's datagram owes to the switches since its arrival.
ArrivalInv ==
  rpc # "idle" /\ known =>
    /\ rpc = "expected" /\ gone = Never => from = relay_addr
    /\ rpc \in {"previous", "time"} => gone # Never
    /\ gone # Never => left[from] # Never /\ gone <= left[from]
    /\ rpc = "time" /\ previous # from => now - gone >= Grace - MaxStall

\* A previous address, stored or loaded, is of a relay that is or was in use.
OnceUsed(r)   == r = relay_addr \/ left[r] # Never
PreviousUsed ==
  /\ previous_relay_addr # None => OnceUsed(previous_relay_addr)
  /\ rpc = "time" /\ previous # None => OnceUsed(previous)

SwitchInv == PastTimes /\ StoresInOrder /\ LeftInTime /\ ArrivalInv

\* Every variable has its type in the initial states.
LEMMA TypeInit == Init => TypeOK
<1> SUFFICES ASSUME Init PROVE TypeOK
  OBVIOUS
<1>1. known \in BOOLEAN
  BY Zenon DEF Init
<1> QED BY <1>1, TimingAssumption DEF Init, TypeOK, Never

\* A step keeps the types.
LEMMA TypeStep == TypeOK /\ [Next]_vars => TypeOK'
<1> SUFFICES ASSUME TypeOK, [Next]_vars PROVE TypeOK'
  OBVIOUS
<1> USE TimingAssumption DEF TypeOK, Never, relayVars, switchVars, receiverVars, Conclude
<1>1. ASSUME NEW addr \in Relays, CommitSwitch(addr) PROVE TypeOK'
  BY <1>1 DEF CommitSwitch
<1>2. CASE StorePrevious
  BY <1>2 DEF StorePrevious
<1>3. CASE StoreSwitchTime
  BY <1>3 DEF StoreSwitchTime
<1>4. CASE StoreRelayAddr
  BY <1>4 DEF StoreRelayAddr
<1>5. ASSUME NEW r \in Relays, Receive(r) PROVE TypeOK'
  BY <1>5 DEF Receive
<1>6. CASE LoadExpected
  BY <1>6 DEF LoadExpected
<1>7. CASE LoadPrevious
  BY <1>7 DEF LoadPrevious
<1>8. CASE LoadSwitchTime
  BY <1>8 DEF LoadSwitchTime
<1>9. CASE Tick
  BY <1>9 DEF Tick
<1>10. CASE UNCHANGED vars
  BY <1>10 DEF vars
<1> QED BY <1>1, <1>2, <1>3, <1>4, <1>5, <1>6, <1>7, <1>8, <1>9, <1>10 DEF Next

\* The relay, the lookup task and the receiver keep to their types.
THEOREM TypeCorrect == Spec => []TypeOK
  BY TypeInit, TypeStep, PTL DEF Spec

\* The invariant of a switch holds at first.
LEMMA SwitchInvInit == Init => SwitchInv
  BY TimingAssumption DEF Init, SwitchInv, PastTimes, StoresInOrder, LeftInTime,
     ArrivalInv, Switching, Never

\* A step keeps the invariant of a switch.
LEMMA SwitchInvStep == TypeOK /\ SwitchInv /\ [Next]_vars => SwitchInv'
<1> SUFFICES ASSUME TypeOK, SwitchInv, [Next]_vars PROVE SwitchInv'
  OBVIOUS
<1> USE TimingAssumption DEF TypeOK, Never, relayVars, switchVars, receiverVars, Conclude,
    SwitchInv, PastTimes, StoresInOrder, LeftInTime, ArrivalInv, Switching
<1>1. ASSUME NEW addr \in Relays, CommitSwitch(addr) PROVE SwitchInv'
  BY <1>1 DEF CommitSwitch, CooledDown
<1>2. CASE StorePrevious
  BY <1>2 DEF StorePrevious
<1>3. CASE StoreSwitchTime
  BY <1>3 DEF StoreSwitchTime
<1>4. CASE StoreRelayAddr
  BY <1>4 DEF StoreRelayAddr
<1>5. ASSUME NEW r \in Relays, Receive(r) PROVE SwitchInv'
  <2>1. PastTimes' /\ StoresInOrder' /\ LeftInTime'
    BY <1>5 DEF Receive
  <2>2. rpc' = "expected" /\ from' = r /\ gone' = IF r = relay_addr THEN -1 ELSE left[r]
    BY <1>5 DEF Receive
  <2>3. known' <=> (r = relay_addr \/ left[r] # -1)
    BY <1>5, Zenon DEF Receive
  <2>4. UNCHANGED <<left, relay_addr>>
    BY <1>5 DEF Receive
  <2>5. ArrivalInv'
    BY <2>2, <2>3, <2>4
  <2> QED BY <2>1, <2>5
<1>6. CASE LoadExpected
  BY <1>6 DEF LoadExpected
<1>7. CASE LoadPrevious
  BY <1>7 DEF LoadPrevious
<1>8. CASE LoadSwitchTime
  BY <1>8 DEF LoadSwitchTime
<1>9. CASE Tick
  BY <1>9 DEF Tick
<1>10. CASE UNCHANGED vars
  BY <1>10 DEF vars
<1> QED BY <1>1, <1>2, <1>3, <1>4, <1>5, <1>6, <1>7, <1>8, <1>9, <1>10 DEF Next

\* The types and the invariant of a switch hold always.
LEMMA SwitchInvariant == Spec => [](TypeOK /\ SwitchInv)
  BY TypeInit, TypeStep, SwitchInvInit, SwitchInvStep, PTL DEF Spec

\* A relay once used stays one.
LEMMA OnceUsedStep ==
  TypeOK /\ [Next]_vars => \A r \in Relays : OnceUsed(r) => OnceUsed(r)'
<1> SUFFICES ASSUME TypeOK, [Next]_vars, NEW r \in Relays, OnceUsed(r) PROVE OnceUsed(r)'
  OBVIOUS
<1> USE DEF OnceUsed, TypeOK, Never, relayVars, switchVars, receiverVars, Conclude
<1>1. CASE StoreRelayAddr
  BY <1>1, TimingAssumption DEF StoreRelayAddr
<1>2. CASE ~StoreRelayAddr
  BY <1>2 DEF Next, vars, CommitSwitch, StorePrevious, StoreSwitchTime, Receive, LoadExpected,
     LoadPrevious, LoadSwitchTime, Tick
<1> QED BY <1>1, <1>2

\* A step makes previous only what is or was in use.
LEMMA PreviousUsedStep == TypeOK /\ PreviousUsed /\ [Next]_vars => PreviousUsed'
<1> SUFFICES ASSUME TypeOK, PreviousUsed, [Next]_vars PROVE PreviousUsed'
  OBVIOUS
<1>1. \A r \in Relays : OnceUsed(r) => OnceUsed(r)'
  BY OnceUsedStep
<1>2. previous_relay_addr' # None => OnceUsed(previous_relay_addr)'
  <2>1. CASE StorePrevious
    BY <2>1 DEF StorePrevious, OnceUsed
  <2>2. CASE ~StorePrevious
    <3>1. UNCHANGED previous_relay_addr
      BY <2>2 DEF Next, vars, relayVars, CommitSwitch, StoreSwitchTime, StoreRelayAddr,
         Receive, LoadExpected, LoadPrevious, LoadSwitchTime, Tick
    <3> QED BY <1>1, <3>1 DEF PreviousUsed, OnceUsed, TypeOK
  <2> QED BY <2>1, <2>2
<1>3. rpc' = "time" /\ previous' # None => OnceUsed(previous)'
  <2>1. CASE LoadPrevious
    BY <2>1 DEF LoadPrevious, PreviousUsed, OnceUsed, relayVars
  <2>2. CASE ~LoadPrevious
    <3>1. rpc' = "time" => rpc = "time" /\ UNCHANGED previous
      BY <2>2 DEF Next, vars, receiverVars, CommitSwitch, StorePrevious, StoreSwitchTime,
         StoreRelayAddr, Receive, LoadExpected, LoadSwitchTime, Tick, Conclude
    <3> QED BY <1>1, <3>1 DEF PreviousUsed, OnceUsed, TypeOK
  <2> QED BY <2>1, <2>2
<1> QED BY <1>2, <1>3 DEF PreviousUsed

\* It holds always that previous is or was in use.
LEMMA PreviousAlwaysUsed == Spec => []PreviousUsed
<1>1. Init => PreviousUsed
  BY DEF Init, PreviousUsed
<1> QED BY <1>1, TypeCorrect, PreviousUsedStep, PTL DEF Spec

-----------------------------------------------------------------------------
\* Only the receiver's own loads conclude.
LEMMA ConcludingStep ==
  ASSUME NEW v, Concludes(v), [Next]_vars
  PROVE  \/ LoadExpected /\ v = "delivered" /\ from = relay_addr
         \/ LoadSwitchTime /\ v = (IF InGrace THEN "delivered" ELSE "dropped")
<1>1. CASE LoadExpected
  BY <1>1 DEF LoadExpected, Conclude, Concludes
<1>2. CASE LoadSwitchTime
  BY <1>2 DEF LoadSwitchTime, Conclude, Concludes
<1>3. CASE ~LoadExpected /\ ~LoadSwitchTime
  BY <1>3 DEF Concludes, Next, CommitSwitch, StorePrevious, StoreSwitchTime,
     StoreRelayAddr, Receive, LoadPrevious, Tick, vars, receiverVars
<1> QED BY <1>1, <1>2, <1>3

\* receive_inbound drops no datagram of a relay in use, or left less than a grace
\* period ago (less the time between the stores of switch_relay), because the switch
\* cooldown is no shorter than the grace period.
THEOREM NoGap == Spec => NoSwitchGap
<1>1. TypeOK /\ SwitchInv /\ [Next]_vars =>
        [Drops /\ known => gone # Never /\ now - gone >= Grace - MaxStall]_vars
  <2> SUFFICES ASSUME TypeOK, SwitchInv, [Next]_vars, Drops, known
               PROVE  gone # Never /\ now - gone >= Grace - MaxStall
    OBVIOUS
  <2>1. rpc = "time" /\ ~InGrace
    <3>1. Concludes("dropped")
      BY DEF Drops
    <3>2. LoadSwitchTime /\ "dropped" = (IF InGrace THEN "delivered" ELSE "dropped")
      BY <3>1, ConcludingStep
    <3> QED BY <3>2 DEF LoadSwitchTime
  <2>2. gone # Never /\ left[from] # Never /\ gone <= left[from]
    BY <2>1 DEF SwitchInv, ArrivalInv
  <2>3. CASE previous # from
    BY <2>1, <2>2, <2>3 DEF SwitchInv, ArrivalInv
  <2>4. CASE previous = from
    <3>1. from \in Relays
      BY <2>1 DEF TypeOK
    <3>2. switch_time # Never /\ left[from] <= switch_time + MaxStall
      BY <2>2, <3>1 DEF SwitchInv, LeftInTime
    <3>3. now - switch_time >= Grace
      BY <2>1, <2>4, <3>2, TimingAssumption DEF InGrace, TypeOK
    <3> QED BY <2>2, <3>1, <3>2, <3>3, TimingAssumption DEF TypeOK, Never
  <2> QED BY <2>3, <2>4
<1> QED BY <1>1, SwitchInvariant, PTL DEF Spec, NoSwitchGap

\* A relay that is not in use is heard only within Grace of its being left, unless the
\* previous address changed between the receiver's two loads (receive_inbound).
THEOREM GraceAlwaysEnds == Spec => GraceEnds
<1>1. TypeOK /\ SwitchInv /\ [Next]_vars =>
        [Delivers => \/ from = relay_addr
                     \/ left[from] # Never /\ now - left[from] < Grace
                     \/ previous # previous_relay_addr]_vars
  <2> SUFFICES ASSUME TypeOK, SwitchInv, [Next]_vars, Delivers,
                      from # relay_addr, previous = previous_relay_addr
               PROVE  left[from] # Never /\ now - left[from] < Grace
    OBVIOUS
  <2>1. LoadSwitchTime /\ InGrace
    <3>1. Concludes("delivered")
      BY DEF Delivers
    <3>2. LoadSwitchTime /\ "delivered" = (IF InGrace THEN "delivered" ELSE "dropped")
      BY <3>1, ConcludingStep
    <3> QED BY <3>2
  <2>2. from \in Relays /\ previous_relay_addr = from /\ switch_time # Never
        /\ now - switch_time < Grace
    BY <2>1 DEF LoadSwitchTime, InGrace, TypeOK
  <2>3. spc \in {"idle", "previous"}
    BY <2>2 DEF SwitchInv, StoresInOrder, TypeOK
  <2>4. left[from] # Never /\ switch_time <= left[from]
    BY <2>2, <2>3, TimingAssumption DEF SwitchInv, StoresInOrder
  <2> QED BY <2>2, <2>4, TimingAssumption DEF TypeOK, Never
<1> QED BY <1>1, SwitchInvariant, PTL DEF Spec, GraceEnds

\* Nothing is delivered of a relay the session has not used, in no interleaving of the
\* three stores of switch_relay with the loads of receive_inbound.
THEOREM OnlyUsedEverHeard == Spec => OnlyUsedHeard
<1>1. TypeOK /\ PreviousUsed /\ [Next]_vars =>
        [Delivers => from = relay_addr \/ left[from] # Never]_vars
  <2> SUFFICES ASSUME TypeOK, PreviousUsed, [Next]_vars, Delivers, from # relay_addr
               PROVE  left[from] # Never
    OBVIOUS
  <2>1. Concludes("delivered")
    BY DEF Delivers
  <2>2. LoadSwitchTime /\ "delivered" = (IF InGrace THEN "delivered" ELSE "dropped")
    BY <2>1, ConcludingStep
  <2>3. rpc = "time" /\ from = previous /\ from \in Relays
    BY <2>2 DEF LoadSwitchTime, InGrace, TypeOK
  <2> QED BY <2>3, TimingAssumption DEF PreviousUsed, OnceUsed
<1> QED BY <1>1, TypeCorrect, PreviousAlwaysUsed, PTL DEF Spec, OnlyUsedHeard
=============================================================================
