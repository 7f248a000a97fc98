---------------------------- MODULE ProcessCache ----------------------------
(***************************************************************************)
(* How a packet's process is known, and where the packet goes for it:      *)
(* LockFreeProcessCache, its two writers (the refresher thread and the     *)
(* process monitor, which drains the ETW events), and the packet workers,  *)
(* which classify with a snapshot and a cache of their own.                *)
(*                                                                         *)
(* An action is what a thread does between two points where another one    *)
(* can run and matter: a snapshot is loaded, numbered and stored in three  *)
(* steps. Process names are reduced to whether they match a tunnel app,    *)
(* addresses to what the classification asks of them.                      *)
(***************************************************************************)
EXTENDS Integers, Sequences, FiniteSets

CONSTANTS
  Pids,
  Keys,                        \* the sockets there may be: ConnectionKey
  Dsts,                        \* destination addresses
  Packets,                     \* the packets there may be
  InRange, Excluded,           \* in ROBLOX_RANGES; the user's exclusions
  Active, DirectOnly,          \* the bootstrap pins: to be relayed, and direct-only
  Workers,
  api, udp,                    \* Route Assist; UDP tunneling: set before the start
  MaxEvents,                   \* capacity of the ETW channel
  CacheLimit,                  \* sources a worker remembers
  CheckEvery,                  \* packets between two looks at the current snapshot
  ScanEvery,                   \* refreshes between two scans of all processes
  MaxChanges,                  \* bound: changes to processes and sockets
  MaxVersion,                  \* bound: the last version counted
  None

Protocols == {"tcp", "udp"}
Names     == {"none", "app", "other"}
Ports     == {k.port : k \in Keys}
Sources   == [port : Ports, proto : Protocols]
Snapshots ==
  [connections : [Keys -> Pids \cup {None}], pid_names : [Pids -> Names], version : Nat]

ASSUME CacheAssumption ==
  /\ \A k \in Keys : k.addr \in {"any", "lan", "other"} /\ k.proto \in Protocols
  /\ Packets \subseteq
       [src : Sources, dst : Dsts, dport : {"dns", "web", "game"}, syn : BOOLEAN]
  /\ None \notin Pids
  /\ InRange \subseteq Dsts /\ Excluded \subseteq Dsts
  /\ Active \subseteq Dsts /\ DirectOnly \subseteq Dsts
  /\ api \in BOOLEAN /\ udp \in BOOLEAN
  /\ MaxEvents \in Nat /\ CacheLimit \in Nat
  /\ MaxChanges \in Nat /\ MaxVersion \in Nat
  /\ CheckEvery \in Nat \ {0} /\ ScanEvery \in Nat \ {0}

VARIABLES
  running, sockets, changes,   \* the system: what runs under a pid, who owns a socket
  events,                      \* the ETW channel
  current, version,            \* the cache
  refresh_count,
  rpc, tables, numbered,       \* the refresher: what it has read, and what it will store
  mpc, event, based_on, mine,  \* the monitor: its event, the snapshot it loaded, its version
  snapshot, inline_cache, check_counter,   \* each worker's
  direct,                      \* destinations known to be direct-only
  quiet,                       \* history: nothing changed since the tables were read
  spoke                        \* history: what of a worker's cache has spoken to a game
                               \* server or bootstrap host under its snapshot

systemVars    == <<running, sockets, changes>>
cacheVars     == <<current, version>>
refresherVars == <<refresh_count, rpc, tables, numbered>>
monitorVars   == <<mpc, event, based_on, mine>>
workerVars    == <<snapshot, inline_cache, check_counter, direct, spoke>>
vars == <<systemVars, events, cacheVars, refresherVars, monitorVars, workerVars, quiet>>

Empty ==
  [connections |-> [k \in Keys |-> None], pid_names |-> [p \in Pids |-> "none"],
   version |-> 0]

\* Interception starts on a system that is already running.
Init ==
  /\ running \in [Pids -> Names]
  /\ sockets \in [Keys -> Pids \cup {None}]
  /\ \A k \in Keys : sockets[k] # None => running[sockets[k]] # "none"
  /\ changes = 0
  /\ events = <<>>
  /\ current = Empty /\ version = 0
  /\ refresh_count = 0
  /\ rpc = "read" /\ tables = Empty.connections /\ numbered = Empty
  /\ mpc = "idle" /\ event = None /\ based_on = Empty /\ mine = 0
  /\ snapshot = [w \in Workers |-> Empty]
  /\ inline_cache = [w \in Workers |-> {}]
  /\ check_counter = [w \in Workers |-> 0]
  /\ direct = DirectOnly /\ quiet = FALSE
  /\ spoke = [w \in Workers |-> {}]

-----------------------------------------------------------------------------
(* The system *)

Change ==
  /\ changes < MaxChanges
  /\ changes' = changes + 1
  /\ quiet' = FALSE
  /\ UNCHANGED <<cacheVars, refresherVars, monitorVars, workerVars>>

\* A tunnel app may go unseen: ETW compares whole names, and need not be running. An
\* event that finds the channel full is dropped.
StartProcess(p, name, seen) ==
  /\ Change
  /\ running[p] = "none"
  /\ running' = [running EXCEPT ![p] = name]
  /\ seen => name = "app"
  /\ events' = IF seen /\ Len(events) < MaxEvents THEN Append(events, p) ELSE events
  /\ UNCHANGED sockets

ExitProcess(p) ==
  /\ Change
  /\ running[p] # "none"
  /\ running' = [running EXCEPT ![p] = "none"]
  /\ sockets' = [k \in Keys |-> IF sockets[k] = p THEN None ELSE sockets[k]]
  /\ UNCHANGED events

OpenSocket(k, p) ==
  /\ Change
  /\ sockets[k] = None /\ running[p] # "none"
  /\ sockets' = [sockets EXCEPT ![k] = p]
  /\ UNCHANGED <<running, events>>

CloseSocket(k) ==
  /\ Change
  /\ sockets[k] # None
  /\ sockets' = [sockets EXCEPT ![k] = None]
  /\ UNCHANGED <<running, events>>

-----------------------------------------------------------------------------
(* The refresher thread *)

\* The monitor has asked for it, which it does on each of its rounds, or two seconds have
\* passed: it may be at any time.
Wake ==
  /\ rpc = "wait"
  /\ rpc' = "read"
  /\ UNCHANGED <<systemVars, events, cacheVars, refresh_count, tables, numbered,
                 monitorVars, workerVars, quiet>>

\* The TCP and the UDP table; a table that has grown since its size was asked is empty.
ReadTables(failed) ==
  /\ rpc = "read"
  /\ tables' = [k \in Keys |-> IF k.proto \in failed THEN None ELSE sockets[k]]
  /\ quiet' = (\A k \in Keys : k.proto \notin failed)
  /\ rpc' = "name"
  /\ UNCHANGED <<systemVars, events, cacheVars, refresh_count, numbered,
                 monitorVars, workerVars>>

\* The owners of sockets whose process could be opened. (One that cannot be has no name.)
Named(unopened) == {p \in Pids \ unopened : \E k \in Keys : tables[k] = p}

\* Now and then all processes are enumerated; only the apps among them are kept.
Scanned == {p \in Pids : refresh_count = 0 /\ running[p] = "app"}

\* Mutant: the names read before are kept.
ReadNamesOnce(unopened) ==
  [p \in Pids |->
     IF current.pid_names[p] # "none" THEN current.pid_names[p]
     ELSE IF p \in Named(unopened) \cup Scanned THEN running[p] ELSE "none"]

ReadNames(unopened) ==
  [p \in Pids |-> IF p \in Named(unopened) \cup Scanned THEN running[p] ELSE "none"]

\* The names are read, and update takes its version.
NameOwners(unopened) ==
  /\ rpc = "name"
  /\ version < MaxVersion
  /\ version' = version + 1
  /\ numbered' = [connections |-> tables, pid_names |-> ReadNames(unopened),
                  version |-> version + 1]
  /\ tables' = Empty.connections
  /\ quiet' = (quiet /\ \A k \in Keys : tables[k] \notin unopened)
  /\ rpc' = "store"
  /\ UNCHANGED <<systemVars, events, current, refresh_count, monitorVars,
                 workerVars>>

Update ==
  /\ rpc = "store"
  /\ current' = numbered /\ numbered' = Empty
  /\ refresh_count' = (refresh_count + 1) % ScanEvery
  /\ rpc' = "wait"
  /\ UNCHANGED <<systemVars, events, version, tables, monitorVars,
                 workerVars, quiet>>

-----------------------------------------------------------------------------
(* The monitor: drain_etw_events, register_process_immediate *)

TakeEvent ==
  /\ mpc = "idle"
  /\ events # <<>>
  /\ event' = Head(events) /\ events' = Tail(events)
  /\ based_on' = current
  /\ mpc' = "number"
  /\ UNCHANGED <<systemVars, cacheVars, refresherVars, mine, workerVars, quiet>>

\* Mutant: the version is read, and counted on when the snapshot is stored.
NumberRegistrationUncounted ==
  /\ mpc = "number"
  /\ version < MaxVersion
  /\ mine' = version + 1
  /\ mpc' = "store"
  /\ UNCHANGED <<systemVars, events, cacheVars, refresherVars, event,
                 based_on, workerVars, quiet>>

NumberRegistration ==
  /\ mpc = "number"
  /\ version < MaxVersion
  /\ version' = version + 1
  /\ mine' = version + 1
  /\ mpc' = "store"
  /\ UNCHANGED <<systemVars, events, current, refresherVars, event, based_on,
                 workerVars, quiet>>

Registration ==
  [connections |-> based_on.connections,
   pid_names |-> [based_on.pid_names EXCEPT ![event] = "app"], version |-> mine]

Register ==
  /\ mpc = "store"
  /\ current' = Registration
  /\ quiet' = FALSE
  /\ event' = None /\ based_on' = Empty /\ mine' = 0
  /\ mpc' = "idle"
  /\ UNCHANGED <<systemVars, events, version, refresherVars, workerVars>>

-----------------------------------------------------------------------------
(* classify_packet *)

IsTunnelPid(s, p) == p # None /\ s.pid_names[p] = "app"

\* The owner of a source address: the socket bound to it, else the one bound to any.
Owner(s, src) ==
  LET bound(addr) == {k \in Keys : /\ k.addr = addr /\ k.port = src.port
                                   /\ k.proto = src.proto /\ s.connections[k] # None}
      keys == IF bound("lan") # {} THEN bound("lan") ELSE bound("any") IN
  IF keys = {} THEN None ELSE s.connections[CHOOSE k \in keys : TRUE]

IsTunnelConnection(s, src) == IsTunnelPid(s, Owner(s, src))

\* tunnel_udp_ports: whatever address the socket is bound to.
PortFallback(s, src) ==
  /\ src.proto = "udp"
  /\ \E k \in Keys : /\ k.proto = "udp" /\ k.port = src.port
                     /\ IsTunnelPid(s, s.connections[k])

IsLikelyGameTraffic(p) ==
  /\ p.dport # "dns"
  /\ p.src.proto = "udp" \/ api

IsGameServer(p) ==
  /\ p.dst \in InRange
  /\ p.dport # "dns"
  /\ IF p.src.proto = "udp" THEN p.dport = "game" ELSE api

\* UDP tunneling is off, the host is excluded, or one that must be reached directly.
NeverTunneled(p) ==
  \/ p.src.proto = "udp" /\ ~udp
  \/ p.dst \in Excluded
  \/ p.src.proto = "tcp" /\ p.dst \in direct

BootstrapSyn(p) ==
  /\ api /\ p.src.proto = "tcp" /\ p.syn /\ p.dport = "web"
  /\ p.dst \in Active \ direct

\* Phases 1, 4 and 5. The process owns the source, or the destination speaks for it.
TunnelOutright(s, p) ==
  \/ IsTunnelConnection(s, p.src) /\ IsLikelyGameTraffic(p)
  \/ ~IsTunnelConnection(s, p.src) /\ IsGameServer(p)
  \/ BootstrapSyn(p)

\* Phases 0 to 5 as the route of a packet, and what the worker's cache is left with.
Tunnels(s, cache, p) ==
  /\ ~NeverTunneled(p)
  /\ \/ TunnelOutright(s, p)
     \/ (p.src \in cache \/ PortFallback(s, p.src)) /\ IsLikelyGameTraffic(p)

Remembers(s, p) ==
  /\ ~NeverTunneled(p)
  /\ TunnelOutright(s, p) \/ PortFallback(s, p.src)

\* Mutant: a snapshot is new if its version is greater.
LookAgainIfGreater(w) ==
  IF check_counter[w] + 1 < CheckEvery
  THEN [counter |-> check_counter[w] + 1, snap |-> snapshot[w], kept |-> TRUE]
  ELSE [counter |-> 0, snap |-> current, kept |-> current.version <= snapshot[w].version]

\* Now and then a worker loads the current snapshot, and empties its cache if the
\* version is another.
LookAgain(w) ==
  IF check_counter[w] + 1 < CheckEvery
  THEN [counter |-> check_counter[w] + 1, snap |-> snapshot[w], kept |-> TRUE]
  ELSE [counter |-> 0, snap |-> current, kept |-> current.version = snapshot[w].version]

\* Mutant: one more than the limit.
HasRoomForOneMore(cached) == Cardinality(cached) <= CacheLimit

HasRoom(cached) == Cardinality(cached) < CacheLimit

\* run_packet_worker, an outbound packet. One relayed that opens TLS to a settings host
\* (and no ban is bypassed) makes the host direct, unless it is pinned.
HandlePacket(w, p, settings_host) ==
  LET look   == LookAgain(w)
      cached == IF look.kept THEN inline_cache[w] ELSE {}
      kept   == IF Remembers(look.snap, p) /\ HasRoom(cached)
                THEN cached \cup {p.src} ELSE cached
      heard  == IF look.snap = snapshot[w] THEN spoke[w] ELSE {}
      tunnel == Tunnels(look.snap, cached, p) IN
  /\ settings_host => /\ tunnel /\ api /\ p.src.proto = "tcp" /\ p.dport = "web" /\ ~p.syn
                      /\ p.dst \notin Active
  /\ check_counter' = [check_counter EXCEPT ![w] = look.counter]
  /\ snapshot' = [snapshot EXCEPT ![w] = look.snap]
  /\ inline_cache' = [inline_cache EXCEPT ![w] = kept]
  /\ spoke' = [spoke EXCEPT ![w] = kept \cap
       IF IsGameServer(p) \/ BootstrapSyn(p) THEN heard \cup {p.src} ELSE heard]
  /\ direct' = IF settings_host THEN direct \cup {p.dst} ELSE direct
  /\ UNCHANGED <<systemVars, events, cacheVars, refresherVars, monitorVars,
                 quiet>>

SystemStep ==
  \/ \E p \in Pids, name \in {"app", "other"}, seen \in BOOLEAN : StartProcess(p, name, seen)
  \/ \E p \in Pids : ExitProcess(p)
  \/ \E k \in Keys, p \in Pids : OpenSocket(k, p)
  \/ \E k \in Keys : CloseSocket(k)

RefresherStep ==
  \/ Wake
  \/ (\E failed \in SUBSET Protocols : ReadTables(failed))
  \/ (\E unopened \in SUBSET Pids : NameOwners(unopened))
  \/ Update

MonitorStep == TakeEvent \/ NumberRegistration \/ Register

WorkerStep ==
  \E w \in Workers, p \in Packets, settings_host \in BOOLEAN :
    HandlePacket(w, p, settings_host)

Next == SystemStep \/ RefresherStep \/ MonitorStep \/ WorkerStep

Spec == Init /\ [][Next]_vars

-----------------------------------------------------------------------------
(* Properties *)

SystemTypes ==
  /\ running \in [Pids -> Names]
  /\ sockets \in [Keys -> Pids \cup {None}]
  /\ changes \in 0 .. MaxChanges
  /\ events \in Seq(Pids) /\ Len(events) <= MaxEvents

RefresherTypes ==
  /\ current \in Snapshots /\ version \in 0 .. MaxVersion
  /\ refresh_count \in 0 .. ScanEvery - 1
  /\ rpc \in {"wait", "read", "name", "store"}
  /\ tables \in [Keys -> Pids \cup {None}] /\ numbered \in Snapshots

MonitorTypes ==
  /\ mpc \in {"idle", "number", "store"}
  /\ event \in Pids \cup {None} /\ (mpc \in {"number", "store"} => event \in Pids)
  /\ based_on \in Snapshots /\ mine \in 0 .. MaxVersion

WorkerTypes ==
  /\ snapshot \in [Workers -> Snapshots]
  /\ inline_cache \in [Workers -> SUBSET Sources]
  /\ check_counter \in [Workers -> 0 .. CheckEvery - 1]
  /\ spoke \in [Workers -> SUBSET Sources]
  /\ direct \subseteq Dsts

HistoryTypes == quiet \in BOOLEAN

WithinLimit ==
  \A w \in Workers :
    IsFiniteSet(inline_cache[w]) /\ Cardinality(inline_cache[w]) <= CacheLimit

\* The cache, its writers' working copies and the workers' caches have their types, and
\* no worker remembers more sources than its limit, nor skips more than CheckEvery looks.
TypeOK ==
  SystemTypes /\ RefresherTypes /\ MonitorTypes /\ WorkerTypes /\ HistoryTypes /\ WithinLimit

\* A worker empties its cache when a snapshot has another version, so a version must
\* stand for one content, although two threads make snapshots and versions may go back:
\* of two snapshots that are stored or about to be, one with the other's version is the
\* other. (process_cache.rs: fetch_add then store, in update and in
\* register_process_immediate.)
Made == {current} \cup (IF rpc = "store" THEN {numbered} ELSE {})
          \cup {snapshot[w] : w \in Workers}
          \cup (IF mpc = "store" THEN {Registration} ELSE {})
VersionIdentifies == \A s, t \in Made : s.version = t.version => s = t

\* What a worker remembers as tunneled it can still account for with the snapshot it
\* holds: the snapshot gives the source to a tunnel app, by its socket or by its port, or
\* under that snapshot it has spoken to a game server or a bootstrap host. A source whose
\* port passed on to another process is not tunneled on a memory of the old owner.
CacheJustified ==
  \A w \in Workers : \A src \in inline_cache[w] :
    \/ IsTunnelConnection(snapshot[w], src)
    \/ PortFallback(snapshot[w], src)
    \/ src \in spoke[w]

\* A refresh tells the truth. If nothing has changed since it read the tables, both of
\* them, it could name every owner, and no registration was stored over it, the snapshot
\* it stored has the sockets that are open, names their owners, and calls no process an
\* app that is none: not one whose event came late, nor one that got the number of an app
\* that has gone.
FreshWhenQuiet ==
  quiet /\ rpc = "wait" =>
    /\ current.connections = sockets
    /\ \A k \in Keys :
         sockets[k] # None => current.pid_names[sockets[k]] = running[sockets[k]]
    /\ \A p \in Pids : current.pid_names[p] = "app" => running[p] = "app"
=============================================================================
