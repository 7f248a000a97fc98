------------------------- MODULE ProcessCacheProofs -------------------------
(***************************************************************************)
(* Proofs about the process cache: the types and the bound of a worker's   *)
(* cache, that a version stands for one content, that what a worker        *)
(* remembers it can account for, and that a quiet refresh tells the truth. *)
(***************************************************************************)
EXTENDS ProcessCache, FiniteSetTheorems, TLAPS

-----------------------------------------------------------------------------
(* Types *)

\* The system's processes and sockets, and the ETW channel, keep their types.
LEMMA SystemIsTyped == TypeOK /\ [Next]_vars => SystemTypes'
<1>1. SUFFICES ASSUME SystemTypes, [Next]_vars PROVE SystemTypes'
  BY DEF TypeOK
<1> USE CacheAssumption DEF SystemTypes
<1>2. ASSUME NEW p \in Pids, NEW name \in {"app", "other"}, NEW seen \in BOOLEAN,
             StartProcess(p, name, seen)
      PROVE  SystemTypes'
  <2>1. (events' = Append(events, p) /\ Len(events) < MaxEvents) \/ events' = events
    BY <1>2 DEF StartProcess
  <2>2. events' \in Seq(Pids) /\ Len(events') <= MaxEvents
    BY <2>1, <1>1
  <2> QED BY <1>1, <1>2, <2>2 DEF StartProcess, Change, Names
<1>3. ASSUME NEW p \in Pids, ExitProcess(p) PROVE SystemTypes'
  BY <1>1, <1>3 DEF ExitProcess, Change, Names
<1>4. ASSUME NEW k \in Keys, NEW p \in Pids, OpenSocket(k, p) PROVE SystemTypes'
  BY <1>1, <1>4 DEF OpenSocket, Change
<1>5. ASSUME NEW k \in Keys, CloseSocket(k) PROVE SystemTypes'
  BY <1>1, <1>5 DEF CloseSocket, Change
<1>6. CASE UNCHANGED <<systemVars, events>>
  BY <1>1, <1>6 DEF systemVars
<1>7. CASE TakeEvent
  <2>1. events # <<>> /\ events' = Tail(events) /\ UNCHANGED systemVars
    BY <1>7 DEF TakeEvent
  <2>2. events' \in Seq(Pids) /\ Len(events') <= MaxEvents
    BY <1>1, <2>1
  <2> QED BY <1>1, <2>1, <2>2 DEF systemVars
<1> QED
  BY <1>1, <1>2, <1>3, <1>4, <1>5, <1>6, <1>7 DEF Next, SystemStep,
     RefresherStep, MonitorStep, WorkerStep, Wake, ReadTables, NameOwners, Update,
     NumberRegistration, Register, HandlePacket, vars

\* What the monitor is about to store is a snapshot, with the version it was given.
LEMMA RegistrationIsTyped ==
  ASSUME MonitorTypes, mpc \in {"number", "store"}
  PROVE  Registration \in Snapshots /\ Registration.version = mine
<1>1. based_on \in Snapshots /\ event \in Pids /\ mine \in Nat
  BY CacheAssumption DEF MonitorTypes
<1>2. [based_on.pid_names EXCEPT ![event] = "app"] \in [Pids -> Names]
  BY <1>1 DEF Snapshots, Names
<1> QED BY <1>1, <1>2 DEF Registration, Snapshots

\* What the refresher reads and stores is a snapshot.
LEMMA RefresherIsTyped == TypeOK /\ [Next]_vars => RefresherTypes'
<1>1. SUFFICES ASSUME SystemTypes, RefresherTypes, MonitorTypes, [Next]_vars
               PROVE  RefresherTypes'
  BY DEF TypeOK
<1> USE CacheAssumption DEF RefresherTypes
<1>2. CASE Wake
  BY <1>1, <1>2 DEF Wake, cacheVars
<1>3. ASSUME NEW failed \in SUBSET Protocols, ReadTables(failed) PROVE RefresherTypes'
  BY <1>1, <1>3 DEF ReadTables, cacheVars, SystemTypes
<1>4. ASSUME NEW unopened \in SUBSET Pids, NameOwners(unopened) PROVE RefresherTypes'
  <2>1. ReadNames(unopened) \in [Pids -> Names]
    BY <1>1 DEF ReadNames, SystemTypes, Names
  <2>2. numbered' \in Snapshots
    BY <1>1, <1>4, <2>1 DEF NameOwners, Snapshots
  <2>3. tables' \in [Keys -> Pids \cup {None}]
    BY <1>4 DEF NameOwners, Empty
  <2> QED BY <1>1, <1>4, <2>2, <2>3 DEF NameOwners
<1>5. CASE Update
  <2>1. Empty \in Snapshots
    BY DEF Empty, Snapshots, Names
  <2>2. (refresh_count + 1) % ScanEvery \in 0 .. ScanEvery - 1
    BY <1>1
  <2> QED BY <1>1, <1>5, <2>1, <2>2 DEF Update
<1>6. CASE NumberRegistration
  BY <1>1, <1>6 DEF NumberRegistration, refresherVars
<1>7. CASE Register
  <2>1. Registration \in Snapshots
    BY <1>1, <1>7, RegistrationIsTyped DEF Register
  <2> QED BY <1>1, <1>7, <2>1 DEF Register, refresherVars
<1>8. CASE UNCHANGED <<cacheVars, refresherVars>>
  BY <1>1, <1>8 DEF cacheVars, refresherVars
<1> QED
  BY <1>1, <1>2, <1>3, <1>4, <1>5, <1>6, <1>7, <1>8 DEF Next, SystemStep, RefresherStep,
     MonitorStep, WorkerStep, Change, StartProcess, ExitProcess, OpenSocket, CloseSocket,
     TakeEvent, HandlePacket, vars

\* The monitor's event, the snapshot it copied and its version keep their types.
LEMMA MonitorIsTyped == TypeOK /\ [Next]_vars => MonitorTypes'
<1>1. SUFFICES ASSUME SystemTypes, RefresherTypes, MonitorTypes, [Next]_vars
               PROVE  MonitorTypes'
  BY DEF TypeOK
<1> USE CacheAssumption DEF MonitorTypes
<1>2. CASE TakeEvent
  <2>1. Head(events) \in Pids
    BY <1>1, <1>2 DEF TakeEvent, SystemTypes
  <2> QED BY <1>1, <1>2, <2>1 DEF TakeEvent, RefresherTypes
<1>3. CASE NumberRegistration
  BY <1>1, <1>3 DEF NumberRegistration, RefresherTypes
<1>4. CASE Register
  <2>1. Empty \in Snapshots
    BY DEF Empty, Snapshots, Names
  <2> QED BY <1>1, <1>4, <2>1 DEF Register
<1>5. CASE UNCHANGED monitorVars
  BY <1>1, <1>5 DEF monitorVars
<1> QED
  BY <1>1, <1>2, <1>3, <1>4, <1>5 DEF Next, SystemStep, RefresherStep,
     MonitorStep, WorkerStep, Change, StartProcess, ExitProcess, OpenSocket, CloseSocket,
     Wake, ReadTables, NameOwners, Update, HandlePacket, vars

\* The history is a flag.
LEMMA HistoryIsTyped == TypeOK /\ [Next]_vars => HistoryTypes'
<1>1. SUFFICES ASSUME HistoryTypes, [Next]_vars PROVE quiet' \in BOOLEAN
  BY Zenon DEF TypeOK, HistoryTypes
<1> QED
  BY <1>1, Zenon DEF HistoryTypes, Next, SystemStep, RefresherStep, MonitorStep, WorkerStep,
     Change, StartProcess, ExitProcess, OpenSocket, CloseSocket, Wake, ReadTables,
     NameOwners, Update, TakeEvent, NumberRegistration, Register, HandlePacket, vars

\* The source of a packet is one of the sources.
LEMMA PacketHasSource ==
  ASSUME NEW p \in Packets
  PROVE  p.src \in Sources /\ p.dst \in Dsts
BY CacheAssumption

\* A worker's look at the snapshot gives it its own or the current one.
LEMMA LookIsTyped ==
  ASSUME NEW w \in Workers, RefresherTypes, WorkerTypes
  PROVE  /\ LookAgain(w).counter \in 0 .. CheckEvery - 1
         /\ LookAgain(w).snap \in {snapshot[w], current}
         /\ LookAgain(w).snap \in Snapshots
BY CacheAssumption DEF LookAgain, RefresherTypes, WorkerTypes

\* A step of anyone but the workers leaves their variables alone.
LEMMA OnlyWorkersWork ==
  ASSUME [Next]_vars
  PROVE  WorkerStep \/ UNCHANGED workerVars
BY DEF Next, SystemStep, RefresherStep, MonitorStep, Change,
   StartProcess, ExitProcess, OpenSocket, CloseSocket, Wake, ReadTables, NameOwners,
   Update, TakeEvent, NumberRegistration, Register, vars, workerVars

\* What a worker's cache is after a packet: the sources it kept, perhaps with the packet's.
Cached(w) == IF LookAgain(w).kept THEN inline_cache[w] ELSE {}
Kept(w, p) ==
  IF Remembers(LookAgain(w).snap, p) /\ HasRoom(Cached(w))
  THEN Cached(w) \cup {p.src} ELSE Cached(w)

\* A packet changes only its worker's variables, and what is known to be direct.
LEMMA PacketEffect ==
  ASSUME NEW w \in Workers, NEW p \in Packets, NEW settings_host \in BOOLEAN,
         HandlePacket(w, p, settings_host)
  PROVE  /\ check_counter' = [check_counter EXCEPT ![w] = LookAgain(w).counter]
         /\ snapshot' = [snapshot EXCEPT ![w] = LookAgain(w).snap]
         /\ inline_cache' = [inline_cache EXCEPT ![w] = Kept(w, p)]
         /\ direct' = direct \/ direct' = direct \cup {p.dst}
         /\ \E heard : /\ LookAgain(w).snap = snapshot[w] => heard = spoke[w]
                       /\ spoke' = [spoke EXCEPT ![w] = Kept(w, p) \cap
                            IF IsGameServer(p) \/ BootstrapSyn(p)
                            THEN heard \cup {p.src} ELSE heard]
BY DEF HandlePacket, Kept, Cached

\* What a worker keeps are sources, and no more of them than its limit.
LEMMA KeptIsTyped ==
  ASSUME NEW w \in Workers, NEW p \in Packets, WorkerTypes, WithinLimit
  PROVE  /\ Kept(w, p) \in SUBSET Sources
         /\ IsFiniteSet(Kept(w, p)) /\ Cardinality(Kept(w, p)) <= CacheLimit
<1>1. /\ Cached(w) \in SUBSET Sources /\ IsFiniteSet(Cached(w))
      /\ Cardinality(Cached(w)) \in Nat /\ Cardinality(Cached(w)) <= CacheLimit
  <2>1. IsFiniteSet({}) /\ Cardinality({}) = 0
    BY FS_EmptySet
  <2>2. IsFiniteSet(Cached(w)) /\ Cardinality(Cached(w)) <= CacheLimit
    BY <2>1, CacheAssumption DEF Cached, WithinLimit
  <2> QED BY <2>2, FS_CardinalityType DEF Cached, WorkerTypes
<1>2. CASE HasRoom(Cached(w))
  <2>1. Cardinality(Cached(w)) + 1 <= CacheLimit
    BY <1>1, <1>2, CacheAssumption DEF HasRoom
  <2>2. /\ IsFiniteSet(Cached(w) \cup {p.src})
        /\ Cardinality(Cached(w) \cup {p.src}) \in
             {Cardinality(Cached(w)), Cardinality(Cached(w)) + 1}
    BY <1>1, FS_AddElement
  <2> QED BY <1>1, <2>1, <2>2, PacketHasSource DEF Kept
<1>3. CASE ~HasRoom(Cached(w))
  BY <1>1, <1>3 DEF Kept
<1> QED BY <1>2, <1>3

\* The workers' snapshots, caches and counters keep their types and the cache its bound.
LEMMA WorkersAreTyped == TypeOK /\ [Next]_vars => WorkerTypes' /\ WithinLimit'
<1>1. SUFFICES ASSUME RefresherTypes, WorkerTypes, WithinLimit, [Next]_vars
               PROVE  WorkerTypes' /\ WithinLimit'
  BY DEF TypeOK
<1>2. CASE UNCHANGED workerVars
  BY <1>1, <1>2 DEF workerVars, WorkerTypes, WithinLimit
<1>3. ASSUME NEW w \in Workers, NEW p \in Packets, NEW settings_host \in BOOLEAN,
             HandlePacket(w, p, settings_host)
      PROVE  WorkerTypes' /\ WithinLimit'
  <2>1. /\ Kept(w, p) \in SUBSET Sources
        /\ IsFiniteSet(Kept(w, p)) /\ Cardinality(Kept(w, p)) <= CacheLimit
    BY <1>1, KeptIsTyped
  <2>2. /\ LookAgain(w).counter \in 0 .. CheckEvery - 1
        /\ LookAgain(w).snap \in Snapshots
    BY <1>1, LookIsTyped
  <2>3. /\ check_counter' = [check_counter EXCEPT ![w] = LookAgain(w).counter]
        /\ snapshot' = [snapshot EXCEPT ![w] = LookAgain(w).snap]
        /\ inline_cache' = [inline_cache EXCEPT ![w] = Kept(w, p)]
        /\ direct' = direct \/ direct' = direct \cup {p.dst}
    BY <1>3, PacketEffect
  <2>4. PICK some : spoke' = [spoke EXCEPT ![w] = Kept(w, p) \cap some]
    BY <1>3, PacketEffect
  <2>5. WorkerTypes'
    BY <1>1, <2>1, <2>2, <2>3, <2>4, PacketHasSource DEF WorkerTypes
  <2>6. WithinLimit'
    BY <1>1, <2>1, <2>3 DEF WithinLimit, WorkerTypes
  <2> QED BY <2>5, <2>6
<1> QED BY <1>1, <1>2, <1>3, OnlyWorkersWork DEF WorkerStep

\* Every variable has its type in the initial states.
LEMMA InitIsTyped == Init => TypeOK
<1>1. SUFFICES ASSUME Init PROVE TypeOK
  OBVIOUS
<1> USE CacheAssumption
<1>2. Empty \in Snapshots /\ Empty.connections \in [Keys -> Pids \cup {None}]
  BY DEF Empty, Snapshots, Names
<1>3. SystemTypes
  BY <1>1 DEF Init, SystemTypes
<1>4. RefresherTypes /\ MonitorTypes
  BY <1>1, <1>2 DEF Init, RefresherTypes, MonitorTypes
<1>5. WorkerTypes
  BY <1>1, <1>2 DEF Init, WorkerTypes
<1>7. HistoryTypes
  BY <1>1 DEF Init, HistoryTypes
<1>6. WithinLimit
  BY <1>1, FS_EmptySet DEF Init, WithinLimit
<1> QED BY <1>3, <1>4, <1>5, <1>6, <1>7 DEF TypeOK

\* The snapshots, the writers' copies and the workers' caches always have their types,
\* and no worker remembers more sources than the limit of its cache.
THEOREM TypeCorrect == Spec => []TypeOK
<1>1. TypeOK /\ [Next]_vars => TypeOK'
  BY SystemIsTyped, RefresherIsTyped, MonitorIsTyped, WorkersAreTyped, HistoryIsTyped
     DEF TypeOK
<1> QED BY <1>1, InitIsTyped, PTL DEF Spec

-----------------------------------------------------------------------------
(* Versions *)

\* A version is counted before it is given: no snapshot has one that is yet to come.
VersionsCounted == \A s \in Made : s.version <= version

\* Whatever is stored or about to be is a snapshot.
LEMMA MadeIsTyped == TypeOK => \A s \in Made : s.version \in Nat
<1>1. SUFFICES ASSUME TypeOK PROVE \A s \in Made : s \in Snapshots
  BY DEF Snapshots
<1>2. mpc = "store" => Registration \in Snapshots
  BY <1>1, RegistrationIsTyped DEF TypeOK
<1> QED BY <1>1, <1>2 DEF TypeOK, RefresherTypes, WorkerTypes, Made

\* A step makes no snapshot but under the version that it counts.
LEMMA MadeStep ==
  ASSUME TypeOK, [Next]_vars
  PROVE  \/ Made' \subseteq Made /\ version' = version
         \/ /\ version' = version + 1
            /\ \E new : new.version = version + 1 /\ Made' \subseteq Made \cup {new}
<1>1. CASE UNCHANGED <<cacheVars, refresherVars, monitorVars, workerVars>>
  BY <1>1 DEF cacheVars, refresherVars, monitorVars, workerVars, Made, Registration
<1>2. CASE Wake
  BY <1>2 DEF Wake, cacheVars, monitorVars, workerVars, Made, Registration
<1>3. ASSUME NEW failed \in SUBSET Protocols, ReadTables(failed)
       PROVE  Made' \subseteq Made /\ version' = version
  BY <1>3 DEF ReadTables, cacheVars, monitorVars, workerVars, Made, Registration
<1>4. ASSUME NEW unopened \in SUBSET Pids, NameOwners(unopened)
      PROVE  /\ version' = version + 1
             /\ \E new : new.version = version + 1 /\ Made' \subseteq Made \cup {new}
  <2>1. numbered'.version = version + 1 /\ version' = version + 1
    BY <1>4 DEF NameOwners
  <2>2. Made' \subseteq Made \cup {numbered'}
    BY <1>4 DEF NameOwners, monitorVars, workerVars, Made, Registration
  <2> QED BY <2>1, <2>2
<1>5. CASE Update
  BY <1>5 DEF Update, monitorVars, workerVars, Made, Registration
<1>6. CASE TakeEvent
  BY <1>6 DEF TakeEvent, cacheVars, refresherVars, workerVars, Made
<1>7. CASE NumberRegistration
  <2>1. Registration'.version = version + 1 /\ version' = version + 1
    <3>1. mine' = version + 1 /\ version' = version + 1 /\ based_on' = based_on
      BY <1>7 DEF NumberRegistration
    <3> QED BY <3>1 DEF Registration
  <2>2. Made' \subseteq Made \cup {Registration'}
    BY <1>7 DEF NumberRegistration, refresherVars, workerVars, Made
  <2> QED BY <2>1, <2>2
<1>8. CASE Register
  BY <1>8 DEF Register, refresherVars, workerVars, Made
<1>9. ASSUME NEW w \in Workers, NEW p \in Packets, NEW settings_host \in BOOLEAN,
             HandlePacket(w, p, settings_host)
      PROVE  Made' \subseteq Made /\ version' = version
  <2>1. \A v \in Workers : snapshot'[v] \in {snapshot[v], current}
    BY <1>9, PacketEffect, LookIsTyped DEF TypeOK, WorkerTypes
  <2>2. UNCHANGED <<cacheVars, refresherVars, monitorVars>>
    BY <1>9 DEF HandlePacket
  <2> QED BY <2>1, <2>2 DEF cacheVars, refresherVars, monitorVars, Made, Registration
<1> QED
  BY <1>1, <1>2, <1>3, <1>4, <1>5, <1>6, <1>7, <1>8, <1>9 DEF Next,
     SystemStep, RefresherStep, MonitorStep, WorkerStep, Change, StartProcess, ExitProcess,
     OpenSocket, CloseSocket, vars, cacheVars, refresherVars, monitorVars, workerVars

\* Of two snapshots that are stored or about to be, one with the other's version is the
\* other: a worker that sees the version it knows misses nothing.
THEOREM VersionsIdentify == Spec => []VersionIdentifies
<1> DEFINE Inv == VersionIdentifies /\ VersionsCounted
<1>1. Init => Inv
  <2>1. Init => Made = {Empty}
    BY DEF Init, Made
  <2> QED BY <2>1 DEF Init, VersionIdentifies, VersionsCounted, Empty
<1>2. TypeOK /\ Inv /\ [Next]_vars => Inv'
  <2>1. SUFFICES ASSUME TypeOK, Inv, [Next]_vars PROVE Inv'
    OBVIOUS
  <2>2. version \in Nat /\ \A s \in Made : s.version \in Nat
    BY <2>1, MadeIsTyped, CacheAssumption DEF TypeOK, RefresherTypes
  <2>3. CASE Made' \subseteq Made /\ version' = version
    BY <2>1, <2>3 DEF VersionIdentifies, VersionsCounted
  <2>4. ASSUME NEW new, version' = version + 1, new.version = version + 1,
               Made' \subseteq Made \cup {new}
        PROVE  Inv'
    <3>1. \A s \in Made : s.version < new.version
      BY <2>1, <2>2, <2>4 DEF VersionsCounted
    <3>2. VersionIdentifies'
      BY <2>1, <2>2, <2>4, <3>1 DEF VersionIdentifies
    <3>3. VersionsCounted'
      BY <2>1, <2>2, <2>4 DEF VersionsCounted
    <3> QED BY <3>2, <3>3
  <2> QED BY <2>1, <2>3, <2>4, MadeStep
<1> QED BY <1>1, <1>2, TypeCorrect, PTL DEF Spec

-----------------------------------------------------------------------------
(* What a worker remembers *)

\* A source that a worker remembers is accounted for by the snapshot it holds, or has
\* spoken to a game server or a bootstrap host under that snapshot.
THEOREM MemoryIsJustified == Spec => []CacheJustified
<1>1. Init => CacheJustified
  BY DEF Init, CacheJustified
<1>2. TypeOK /\ VersionIdentifies /\ CacheJustified /\ [Next]_vars => CacheJustified'
  <2>1. SUFFICES ASSUME TypeOK, VersionIdentifies, CacheJustified, [Next]_vars
                 PROVE  CacheJustified'
    OBVIOUS
  <2>2. CASE UNCHANGED workerVars
    BY <2>1, <2>2 DEF workerVars, CacheJustified, IsTunnelConnection, PortFallback
  <2>3. ASSUME NEW w \in Workers, NEW p \in Packets, NEW settings_host \in BOOLEAN,
               HandlePacket(w, p, settings_host),
               NEW v \in Workers, NEW src \in inline_cache'[v]
        PROVE  \/ IsTunnelConnection(snapshot'[v], src)
               \/ PortFallback(snapshot'[v], src)
               \/ src \in spoke'[v]
    <3> DEFINE snap == LookAgain(w).snap
    <3>1. PICK heard : /\ snap = snapshot[w] => heard = spoke[w]
                       /\ spoke' = [spoke EXCEPT ![w] = Kept(w, p) \cap
                            IF IsGameServer(p) \/ BootstrapSyn(p)
                            THEN heard \cup {p.src} ELSE heard]
      BY <2>3, PacketEffect
    <3>2. /\ snapshot' = [snapshot EXCEPT ![w] = snap]
          /\ inline_cache' = [inline_cache EXCEPT ![w] = Kept(w, p)]
      BY <2>3, PacketEffect
    <3>3. CASE v # w
      <4>1. snapshot'[v] = snapshot[v] /\ inline_cache'[v] = inline_cache[v]
              /\ spoke'[v] = spoke[v]
        BY <3>1, <3>2, <3>3, <2>1 DEF TypeOK, WorkerTypes
      <4> QED BY <2>1, <2>3, <4>1 DEF CacheJustified
    <3>4. CASE v = w
      <4>1. snapshot'[v] = snap /\ src \in Kept(w, p)
        BY <2>1, <2>3, <3>2, <3>4 DEF TypeOK, WorkerTypes
      <4>2. spoke'[v] = Kept(w, p) \cap
              IF IsGameServer(p) \/ BootstrapSyn(p) THEN heard \cup {p.src} ELSE heard
        BY <2>1, <3>1, <3>4 DEF TypeOK, WorkerTypes
      <4>3. CASE src \in Cached(w)
        <5>1. LookAgain(w).kept /\ src \in inline_cache[w]
          BY <4>3 DEF Cached
        <5>2. snap = snapshot[w]
          BY <2>1, <5>1 DEF LookAgain, VersionIdentifies, Made
        <5>3. src \in spoke[w] => src \in spoke'[v]
          BY <3>1, <4>1, <4>2, <5>2
        <5> QED BY <2>1, <4>1, <5>1, <5>2, <5>3 DEF CacheJustified
      <4>4. CASE src \notin Cached(w)
        <5>1. src = p.src /\ Remembers(snap, p)
          BY <4>1, <4>4 DEF Kept
        <5>2. IsGameServer(p) \/ BootstrapSyn(p) => src \in spoke'[v]
          BY <4>1, <4>2, <5>1
        <5> QED BY <4>1, <5>1, <5>2 DEF Remembers, TunnelOutright
      <4> QED BY <4>3, <4>4
    <3> QED BY <3>3, <3>4
  <2> QED BY <2>1, <2>2, <2>3, OnlyWorkersWork DEF WorkerStep, CacheJustified
<1> QED BY <1>1, <1>2, TypeCorrect, VersionsIdentify, PTL DEF Spec

-----------------------------------------------------------------------------
(* Refreshes *)

\* The snapshot tells the truth about the system.
TellsTheTruth(s) ==
  /\ s.connections = sockets
  /\ \A k \in Keys : sockets[k] # None => s.pid_names[sockets[k]] = running[sockets[k]]
  /\ \A p \in Pids : s.pid_names[p] = "app" => running[p] = "app"

\* What the refresher has so far is true while nothing changes under it.
TruthSoFar ==
  quiet => /\ rpc = "name" => tables = sockets
           /\ rpc = "store" => TellsTheTruth(numbered)
           /\ rpc = "wait" => TellsTheTruth(current)

\* If nothing has changed since the refresher read the tables, the snapshot it has stored
\* is true: a race is healed by the next quiet refresh.
THEOREM QuietRefreshIsTrue == Spec => []FreshWhenQuiet
<1>1. Init => TruthSoFar
  BY DEF Init, TruthSoFar
<1>2. TypeOK /\ TruthSoFar /\ [Next]_vars => TruthSoFar'
  <2>1. SUFFICES ASSUME TypeOK, TruthSoFar, [Next]_vars PROVE TruthSoFar'
    OBVIOUS
  <2>2. CASE ~quiet'
    BY <2>2 DEF TruthSoFar
  <2>3. CASE UNCHANGED <<running, sockets, current, rpc, tables, numbered, quiet>>
    BY <2>1, <2>3 DEF TruthSoFar, TellsTheTruth
  <2>4. CASE Wake
    BY <2>4 DEF Wake, TruthSoFar
  <2>5. ASSUME NEW failed \in SUBSET Protocols, ReadTables(failed) PROVE TruthSoFar'
    <3>1. quiet' => tables' = [k \in Keys |-> sockets[k]]
      BY <2>5 DEF ReadTables
    <3>2. [k \in Keys |-> sockets[k]] = sockets
      BY <2>1 DEF TypeOK, SystemTypes
    <3>3. rpc' = "name" /\ sockets' = sockets
      BY <2>5 DEF ReadTables, systemVars
    <3> QED BY <3>1, <3>2, <3>3 DEF TruthSoFar
  <2>6. ASSUME NEW unopened \in SUBSET Pids, NameOwners(unopened), quiet' PROVE TruthSoFar'
    <3>1. quiet /\ rpc = "name" /\ \A k \in Keys : tables[k] \notin unopened
      BY <2>6, Zenon DEF NameOwners
    <3>2. tables = sockets
      BY <2>1, <3>1 DEF TruthSoFar
    <3>3. /\ numbered'.connections = sockets /\ numbered'.pid_names = ReadNames(unopened)
          /\ rpc' = "store" /\ UNCHANGED systemVars
      BY <2>6, <3>2 DEF NameOwners
    <3>4. \A k \in Keys : sockets[k] # None =>
            /\ sockets[k] \in Named(unopened)
            /\ ReadNames(unopened)[sockets[k]] = running[sockets[k]]
      BY <2>1, <3>1, <3>2 DEF Named, ReadNames, TypeOK, SystemTypes
    <3>5. \A p \in Pids : ReadNames(unopened)[p] = "app" => running[p] = "app"
      BY DEF ReadNames
    <3> QED BY <3>3, <3>4, <3>5 DEF TruthSoFar, TellsTheTruth, systemVars
  <2>7. CASE Update
    BY <2>1, <2>7 DEF Update, TruthSoFar, TellsTheTruth, systemVars
  <2> QED
    BY <2>1, <2>2, <2>3, <2>4, <2>5, <2>6, <2>7, Zenon DEF Next, SystemStep, RefresherStep,
       MonitorStep, WorkerStep, Change, StartProcess, ExitProcess, OpenSocket, CloseSocket,
       TakeEvent, NumberRegistration, Register, HandlePacket, vars,
       systemVars, cacheVars, refresherVars
<1>3. TruthSoFar => FreshWhenQuiet
  BY DEF TruthSoFar, FreshWhenQuiet, TellsTheTruth
<1> QED BY <1>1, <1>2, <1>3, TypeCorrect, PTL DEF Spec
=============================================================================
