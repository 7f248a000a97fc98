----------------------------- MODULE AutoRouter -----------------------------
(***************************************************************************)
(* Auto-routing of one connected session: the packet workers that meet a   *)
(* game server and ask for its region (evaluate_game_server), the lookup   *)
(* task that resolves the region, picks a relay and commits the switch     *)
(* (the task spawned by setup_split_tunnel), and the owner that tears the  *)
(* session down (cleanup, which calls AutoRouter::reset).                  *)
(*                                                                         *)
(* Workers, task and owner are separate threads sharing the router's locks *)
(* and atomics; a step here is what one of them does between two points    *)
(* where another may run and matter: a lock released, an await, or an      *)
(* atomic stored.                                                          *)
(*                                                                         *)
(* Time is abstracted to what the code compares it with: `active` holds    *)
(* the game servers heard from within GAME_TRAFFIC_QUIET_HANDOFF; whether  *)
(* the last switch is younger than MIN_SWITCH_INTERVAL, and the window     *)
(* older than a minute, is an input of the commit.                         *)
(***************************************************************************)
EXTENDS Integers, Sequences

CONSTANTS
  Workers,        \* packet worker threads
  GameServers,    \* Roblox game-server addresses
  GameRegions,    \* RobloxRegion, without Unknown (a lookup never resolves to it)
  RegionOf,       \* game server -> the region its address geolocates to
  RegionNames,    \* SwiftTunnel region names: "america", "america-02", ...
  Family,         \* region name -> the bare name it is or extends ("america")
  BestFamily,     \* RobloxRegion::best_swifttunnel_region
  Available,      \* region names of available_servers
  Addrs,          \* relay addresses
  AddrOf,         \* available region name -> its relay address
  Whitelisted,    \* game regions the user wants untunneled
  InitialRegion, InitialAddr,   \* what the session connected to
  MaxSwitches,    \* MAX_SWITCHES_PER_MINUTE
  MaxQueue,       \* bound on the (unbounded) lookup channel: a full one delays its senders
  None

ASSUME RoutingAssumption ==
  /\ RegionOf \in [GameServers -> GameRegions]
  /\ Family \in [RegionNames -> RegionNames]
  /\ \A r \in RegionNames : Family[Family[r]] = Family[r]
  /\ BestFamily \in [GameRegions -> RegionNames]
  /\ Available \subseteq RegionNames
  /\ AddrOf \in [Available -> Addrs]
  /\ Whitelisted \subseteq GameRegions
  /\ InitialRegion \in RegionNames
  /\ InitialAddr \in Addrs
  /\ MaxSwitches \in Nat \ {0}
  /\ MaxQueue \in Nat \ {0}
  /\ None \notin GameServers \cup GameRegions \cup RegionNames \cup Addrs

VARIABLES
  \* --- AutoRouter's fields
  enabled, seen, pending, pending_any, active, epoch,
  current_game_region, current_st_region, current_relay_addr,
  bypassed, switches,
  \* --- the workers, the lookup channel and the lookup task
  wpc, target, held_epoch, channel, tpc, job,
  \* --- the owner, the UdpRelay's address, the last event fired
  session, relay_addr, lastEvent,
  owner           \* history: the game server the route of this session was switched for,
                  \* as active_game_server_ip would say

gateVars   == <<seen, pending, pending_any, active>>
routeVars  == <<current_game_region, current_st_region, current_relay_addr>>
workerVars == <<wpc, target, held_epoch>>
taskVars   == <<tpc, job>>
outVars    == <<relay_addr, lastEvent, owner>>
vars == <<enabled, gateVars, epoch, routeVars, bypassed, switches,
          workerVars, channel, taskVars, session, outVars>>

Lookup == [ip : GameServers, epoch : Nat]
NoJob  == [ip |-> None, epoch |-> 0, region |-> None, choice |-> None, from |-> None]

\* The task is through with its lookup, but for clear_pending_lookup: only the
\* address still matters.
Finished(j) == [NoJob EXCEPT !.ip = j.ip]

(***************************************************************************)
(* Auto-routing is on (enabled, with servers to choose from) or was        *)
(* switched off by setup_split_tunnel for want of servers; nothing calls   *)
(* set_enabled after that.                                                 *)
(***************************************************************************)
Init ==
  /\ enabled \in BOOLEAN
  /\ seen = {} /\ pending = {} /\ pending_any = FALSE /\ active = {}
  /\ epoch = 0
  /\ current_game_region = None
  /\ current_st_region = InitialRegion
  /\ current_relay_addr = InitialAddr
  /\ bypassed = FALSE
  /\ switches = 0
  /\ wpc = [w \in Workers |-> "idle"]
  /\ target = [w \in Workers |-> None]
  /\ held_epoch = [w \in Workers |-> 0]
  /\ channel = <<>>
  /\ tpc = "recv" /\ job = NoJob
  /\ session = "up"
  /\ relay_addr = InitialAddr
  /\ lastEvent = [from |-> None, to |-> InitialRegion]
  /\ owner = None

-----------------------------------------------------------------------------
(* The workers: evaluate_game_server *)

OthersQuiet(ip) == active \subseteq {ip}

\* A seen server is not evaluated again: maybe_expire_quiet_pin returns false
\* at its first branch, since no code sets active_game_server_ip.
ShouldEvaluate(ip) ==
  /\ enabled
  /\ ~pending_any
  /\ active \subseteq {ip}
  /\ ip \notin seen

\* A worker meets a packet for game server ip (tunneled or bypassed). It notes
\* the traffic, and goes on only if every gate of the function lets it.
Evaluate(w, ip) ==
  /\ session # "down"
  /\ wpc[w] = "idle"
  /\ active' = active \cup {ip}
  /\ IF ShouldEvaluate(ip)
     THEN /\ wpc' = [wpc EXCEPT ![w] = "mark"]
          /\ target' = [target EXCEPT ![w] = ip]
     ELSE UNCHANGED <<wpc, target>>
  /\ UNCHANGED <<enabled, seen, pending, pending_any, epoch, routeVars, bypassed,
                 switches, held_epoch, channel, taskVars, session, outVars>>

\* seen_game_servers.try_write(): on contention the worker gives up.
MarkSeen(w) ==
  /\ wpc[w] = "mark"
  /\ \/ /\ seen' = seen \cup {target[w]}
        /\ wpc' = [wpc EXCEPT ![w] = "epoch"]
        /\ UNCHANGED target
     \/ /\ UNCHANGED seen
        /\ wpc' = [wpc EXCEPT ![w] = "idle"]
        /\ target' = [target EXCEPT ![w] = None]
  /\ UNCHANGED <<enabled, pending, pending_any, active, epoch, routeVars, bypassed,
                 switches, held_epoch, channel, taskVars, session, outVars>>

ReadEpoch(w) ==
  /\ wpc[w] = "epoch"
  /\ held_epoch' = [held_epoch EXCEPT ![w] = epoch]
  /\ wpc' = [wpc EXCEPT ![w] = "insert"]
  /\ UNCHANGED <<enabled, gateVars, epoch, routeVars, bypassed, switches,
                 target, channel, taskVars, session, outVars>>

\* pending_lookups.try_write(): on contention the server is not marked pending,
\* but the request is sent all the same.
InsertPending(w) ==
  /\ wpc[w] = "insert"
  /\ \/ /\ pending' = pending \cup {target[w]}
        /\ pending_any' = TRUE
     \/ UNCHANGED <<pending, pending_any>>
  /\ wpc' = [wpc EXCEPT ![w] = "send"]
  /\ UNCHANGED <<enabled, seen, active, epoch, routeVars, bypassed, switches,
                 target, held_epoch, channel, taskVars, session, outVars>>

Request(w) == [ip |-> target[w], epoch |-> held_epoch[w]]

SendRequest(w) ==
  /\ wpc[w] = "send"
  /\ Len(channel) < MaxQueue
  /\ channel' = Append(channel, Request(w))
  /\ wpc' = [wpc EXCEPT ![w] = "idle"]
  /\ target' = [target EXCEPT ![w] = None]
  /\ held_epoch' = [held_epoch EXCEPT ![w] = 0]
  /\ UNCHANGED <<enabled, gateVars, epoch, routeVars, bypassed, switches,
                 taskVars, session, outVars>>

-----------------------------------------------------------------------------
(* The lookup task *)

\* Mutant: a request of an earlier epoch is dropped without clear_pending_lookup.
ReceiveDroppingStale ==
  /\ tpc = "recv"
  /\ channel # <<>>
  /\ LET request == Head(channel) IN
       IF request.epoch # epoch \/ (enabled /\ request.ip \notin pending)
       THEN UNCHANGED taskVars
       ELSE /\ tpc' = IF enabled THEN "lookup" ELSE "remove"
            /\ job' = [NoJob EXCEPT !.ip = request.ip, !.epoch = request.epoch]
  /\ channel' = Tail(channel)
  /\ UNCHANGED <<enabled, gateVars, epoch, routeVars, bypassed, switches,
                 workerVars, session, outVars>>

\* lookup_rx.recv(): a request whose server is no longer pending is dropped.
Receive ==
  /\ tpc = "recv"
  /\ channel # <<>>
  /\ LET request == Head(channel) IN
       IF enabled /\ request.ip \notin pending
       THEN UNCHANGED taskVars
       ELSE /\ tpc' = IF enabled THEN "lookup" ELSE "remove"
            /\ job' = [NoJob EXCEPT !.ip = request.ip, !.epoch = request.epoch]
  /\ channel' = Tail(channel)
  /\ UNCHANGED <<enabled, gateVars, epoch, routeVars, bypassed, switches,
                 workerVars, session, outVars>>

\* The geolocation answers: Resolved, or NoRegion, or Failed twice (a first
\* failure is retried at once and changes nothing).
LookupResolved ==
  /\ tpc = "lookup"
  /\ job' = [job EXCEPT !.region = RegionOf[job.ip]]
  /\ tpc' = "check"
  /\ UNCHANGED <<enabled, gateVars, epoch, routeVars, bypassed, switches,
                 workerVars, channel, session, outVars>>

\* Mutant: the failure path forgets clear_pending_lookup.
LookupFailedUncleared ==
  /\ tpc = "lookup"
  /\ tpc' = "recv"
  /\ job' = NoJob
  /\ UNCHANGED <<enabled, gateVars, epoch, routeVars, bypassed, switches,
                 workerVars, channel, session, outVars>>

LookupFailed ==
  /\ tpc = "lookup"
  /\ tpc' = "remove"
  /\ job' = Finished(job)
  /\ UNCHANGED <<enabled, gateVars, epoch, routeVars, bypassed, switches,
                 workerVars, channel, session, outVars>>

LookupCommitAllowed == job.epoch = epoch /\ job.ip \in pending

\* After the await: the router must still be enabled and the session the same.
CheckResult ==
  /\ tpc = "check"
  /\ IF enabled /\ LookupCommitAllowed
     THEN tpc' = "select" /\ UNCHANGED job
     ELSE tpc' = "remove" /\ job' = Finished(job)
  /\ UNCHANGED <<enabled, gateVars, epoch, routeVars, bypassed, switches,
                 workerVars, channel, session, outVars>>

Candidates(g) == {r \in Available : Family[r] = BestFamily[g]}

\* Mutants: the region is recorded before the switch; the bypass is never lowered.
SelectCandidatesEager ==
  /\ tpc = "select"
  /\ bypassed' = (job.region \in Whitelisted)
  /\ current_game_region' = job.region
  /\ IF \/ job.region \in Whitelisted
        \/ Family[current_st_region] = BestFamily[job.region]
        \/ Candidates(job.region) = {}
     THEN tpc' = "remove" /\ job' = Finished(job)
     ELSE tpc' = "ping" /\ job' = [job EXCEPT !.from = current_st_region]
  /\ UNCHANGED <<enabled, gateVars, epoch, current_st_region, current_relay_addr,
                 switches, workerVars, channel, session, outVars>>

SelectCandidatesKeepingBypass ==
  /\ tpc = "select"
  /\ bypassed' = (bypassed \/ job.region \in Whitelisted)
  /\ LET settled == \/ job.region \in Whitelisted
                    \/ Family[current_st_region] = BestFamily[job.region]
     IN /\ current_game_region' =
             IF settled THEN job.region ELSE current_game_region
        /\ IF settled \/ Candidates(job.region) = {}
           THEN tpc' = "remove" /\ job' = Finished(job)
           ELSE tpc' = "ping" /\ job' = [job EXCEPT !.from = current_st_region]
  /\ UNCHANGED <<enabled, gateVars, epoch, current_st_region, current_relay_addr,
                 switches, workerVars, channel, session, outVars>>

\* get_candidates_for_region, preceded by the read of the old region.
SelectCandidates ==
  /\ tpc = "select"
  /\ bypassed' = (job.region \in Whitelisted)
  /\ LET settled == \/ job.region \in Whitelisted
                    \/ Family[current_st_region] = BestFamily[job.region]
     IN /\ current_game_region' =
             IF settled THEN job.region ELSE current_game_region
        /\ IF settled \/ Candidates(job.region) = {}
           THEN tpc' = "remove" /\ job' = Finished(job)
           ELSE tpc' = "ping" /\ job' = [job EXCEPT !.from = current_st_region]
  /\ UNCHANGED <<enabled, gateVars, epoch, current_st_region, current_relay_addr,
                 switches, workerVars, channel, session, outVars>>

RegionsMatch(a, b) == a = b \/ Family[a] = b \/ Family[b] = a

\* Inside a region a switch needs an improvement of SAME_REGION_UPGRADE_THRESHOLD_MS.
SwitchAllowedPrecheck(r, faster) == RegionsMatch(current_st_region, r) => faster

\* ping_and_select_best returns some candidate (the first when none answers).
PingDone(r, faster) ==
  /\ tpc = "ping"
  /\ r \in Candidates(job.region)
  /\ IF SwitchAllowedPrecheck(r, faster)
     THEN tpc' = "commit" /\ job' = [job EXCEPT !.choice = r]
     ELSE tpc' = "remove" /\ job' = Finished(job)
  /\ UNCHANGED <<enabled, gateVars, epoch, routeVars, bypassed, switches,
                 workerVars, channel, session, outVars>>

\* The switches the current window has used, once an expired window is reset.
UsedInWindow(windowOver) == IF windowOver THEN 0 ELSE switches

\* Mutant: an off-by-one in record_switch.
SwitchPermittedOnceMore(to, cooling, windowOver) ==
  /\ current_st_region # to
  /\ ~cooling
  /\ UsedInWindow(windowOver) <= MaxSwitches

SwitchPermitted(to, cooling, windowOver) ==
  /\ current_st_region # to
  /\ ~cooling
  /\ UsedInWindow(windowOver) < MaxSwitches

\* commit_switch / record_switch. The router is born with its cooldown over.
CommitSwitch(cooling, windowOver) ==
  /\ tpc = "commit"
  /\ cooling => switches > 0
  /\ IF SwitchPermitted(job.choice, cooling, windowOver)
     THEN /\ switches' = UsedInWindow(windowOver) + 1
          /\ current_st_region' = job.choice
          /\ current_relay_addr' = AddrOf[job.choice]
          /\ current_game_region' = job.region
          /\ owner' = job.ip
          /\ tpc' = "switch"
          /\ UNCHANGED job
     ELSE /\ tpc' = "remove"
          /\ job' = Finished(job)
          /\ UNCHANGED <<switches, routeVars, owner>>
  /\ UNCHANGED <<enabled, gateVars, epoch, bypassed, workerVars, channel,
                 session, relay_addr, lastEvent>>

\* Mutant: the relay is left where it is once the owner has begun to tear down.
SwitchRelayWhileUp ==
  /\ tpc = "switch"
  /\ relay_addr' = IF session = "up" THEN AddrOf[job.choice] ELSE relay_addr
  /\ tpc' = "fire"
  /\ UNCHANGED <<enabled, gateVars, epoch, routeVars, bypassed, switches, workerVars,
                 channel, job, session, lastEvent, owner>>

\* UdpRelay::switch_relay and the keepalive burst to the new relay.
SwitchRelay ==
  /\ tpc = "switch"
  /\ relay_addr' = AddrOf[job.choice]
  /\ tpc' = "fire"
  /\ UNCHANGED <<enabled, gateVars, epoch, routeVars, bypassed, switches, workerVars,
                 channel, job, session, lastEvent, owner>>

\* Mutant: nobody is told of a switch once the owner has begun to tear down.
FireSwitchedWhileUp ==
  /\ tpc = "fire"
  /\ lastEvent' = IF session = "up" THEN [from |-> job.from, to |-> job.choice] ELSE lastEvent
  /\ tpc' = "remove"
  /\ job' = Finished(job)
  /\ UNCHANGED <<enabled, gateVars, epoch, routeVars, bypassed, switches, workerVars,
                 channel, session, relay_addr, owner>>

FireSwitched ==
  /\ tpc = "fire"
  /\ lastEvent' = [from |-> job.from, to |-> job.choice]
  /\ tpc' = "remove"
  /\ job' = Finished(job)
  /\ UNCHANGED <<enabled, gateVars, epoch, routeVars, bypassed, switches, workerVars,
                 channel, session, relay_addr, owner>>

\* clear_pending_lookup: remove under the write lock, look again under a read
\* lock, store the flag under none.
RemovePending ==
  /\ tpc = "remove"
  /\ pending' = pending \ {job.ip}
  /\ tpc' = "recheck"
  /\ UNCHANGED <<enabled, seen, pending_any, active, epoch, routeVars, bypassed,
                 switches, workerVars, channel, job, session, outVars>>

RecheckPending ==
  /\ tpc = "recheck"
  /\ tpc' = IF pending = {} THEN "lower" ELSE "recv"
  /\ job' = NoJob
  /\ UNCHANGED <<enabled, gateVars, epoch, routeVars, bypassed, switches, workerVars,
                 channel, session, outVars>>

LowerPendingAny ==
  /\ tpc = "lower"
  /\ pending_any' = FALSE
  /\ tpc' = "recv"
  /\ UNCHANGED <<enabled, seen, pending, active, epoch, routeVars, bypassed,
                 switches, workerVars, channel, job, session, outVars>>

-----------------------------------------------------------------------------
(* The owner: VpnConnection::cleanup, and time *)

\* reset(), up to and including the clearing of pending_lookups. No server owns the route
\* after it; the cooldown and the switches of the window are not touched.
ResetRoute ==
  /\ session = "up"
  /\ session' = "resetting"
  /\ current_game_region' = None
  /\ current_relay_addr' = None
  /\ seen' = {}
  /\ pending' = {}
  /\ owner' = None
  /\ UNCHANGED <<enabled, pending_any, active, epoch, current_st_region, bypassed,
                 switches, workerVars, channel, taskVars, relay_addr, lastEvent>>

\* Mutant: the reset forgets the flag.
ResetGatesKeepingFlag ==
  /\ session = "resetting"
  /\ session' = "closing"
  /\ active' = {}
  /\ epoch' = epoch + 1
  /\ bypassed' = FALSE
  /\ UNCHANGED <<enabled, seen, pending, pending_any, routeVars, switches, workerVars,
                 channel, taskVars, outVars>>

\* reset(), from the store of pending_any.
ResetGates ==
  /\ session = "resetting"
  /\ session' = "closing"
  /\ pending_any' = FALSE
  /\ active' = {}
  /\ epoch' = epoch + 1
  /\ bypassed' = FALSE
  /\ UNCHANGED <<enabled, seen, pending, routeVars, switches, workerVars, channel,
                 taskVars, outVars>>

\* driver.close() after the reset: no packet reaches a worker any more. A worker
\* that outlives its join timeout still finishes the packet it holds, and the
\* lookup task, which owns the router and so the sender, never ends.
CloseDriver ==
  /\ session = "closing"
  /\ session' = "down"
  /\ UNCHANGED <<enabled, gateVars, epoch, routeVars, bypassed, switches, workerVars,
                 channel, taskVars, outVars>>

GoesQuiet(ip) ==
  /\ ip \in active
  /\ active' = active \ {ip}
  /\ UNCHANGED <<enabled, seen, pending, pending_any, epoch, routeVars, bypassed,
                 switches, workerVars, channel, taskVars, session, outVars>>

-----------------------------------------------------------------------------
WorkerStep(w) == MarkSeen(w) \/ ReadEpoch(w) \/ InsertPending(w) \/ SendRequest(w)

TaskStep ==
  \/ Receive
  \/ LookupResolved
  \/ LookupFailed
  \/ CheckResult
  \/ SelectCandidates
  \/ \E r \in Available, faster \in BOOLEAN : PingDone(r, faster)
  \/ \E cooling, windowOver \in BOOLEAN : CommitSwitch(cooling, windowOver)
  \/ SwitchRelay
  \/ FireSwitched
  \/ RemovePending
  \/ RecheckPending
  \/ LowerPendingAny

OwnerStep == ResetRoute \/ ResetGates \/ CloseDriver

Next ==
  \/ \E w \in Workers, ip \in GameServers : Evaluate(w, ip)
  \/ \E w \in Workers : WorkerStep(w)
  \/ TaskStep
  \/ OwnerStep
  \/ \E ip \in GameServers : GoesQuiet(ip)

\* The threads and the task run; every HTTP request and ping has a timeout; the
\* driver's close follows the reset. Nothing obliges packets to come, a server
\* to fall quiet, or the user to disconnect.
Fairness ==
  /\ \A w \in Workers : WF_vars(WorkerStep(w))
  /\ WF_vars(TaskStep)
  /\ WF_vars(ResetGates \/ CloseDriver)

Spec == Init /\ [][Next]_vars /\ Fairness
-----------------------------------------------------------------------------
(* Properties *)

WorkerPc == {"idle", "mark", "epoch", "insert", "send"}
TaskPc   == {"recv", "lookup", "check", "select", "ping", "commit", "switch",
             "fire", "remove", "recheck", "lower"}

\* Where the task's job names a server, where it has a region, a chosen relay.
JobHasServer == tpc \notin {"recv", "lower"}
JobHasRegion == tpc \in {"check", "select", "ping", "commit", "switch", "fire"}
JobHasChoice == tpc \in {"commit", "switch", "fire"}

JobOK ==
  /\ job \in [ip : GameServers \cup {None}, epoch : Nat,
             region : GameRegions \cup {None}, choice : Available \cup {None},
             from : RegionNames \cup {None}]
  /\ JobHasServer => job.ip \in GameServers
  /\ JobHasRegion => job.region \in GameRegions
  /\ JobHasChoice => job.choice \in Candidates(job.region)

FlagsOK == enabled \in BOOLEAN /\ pending_any \in BOOLEAN /\ bypassed \in BOOLEAN

RouterOK ==
  /\ switches \in 0..MaxSwitches
  /\ seen \subseteq GameServers /\ pending \subseteq GameServers
  /\ active \subseteq GameServers
  /\ epoch \in Nat
  /\ current_game_region \in GameRegions \cup {None}
  /\ current_st_region \in RegionNames
  /\ current_relay_addr \in Addrs \cup {None}
  /\ session \in {"up", "resetting", "closing", "down"}
  /\ relay_addr \in Addrs
  /\ lastEvent \in [from : RegionNames \cup {None}, to : RegionNames]
  /\ owner \in GameServers \cup {None}

WorkersOK ==
  /\ wpc \in [Workers -> WorkerPc]
  /\ target \in [Workers -> GameServers \cup {None}]
  /\ \A w \in Workers : wpc[w] # "idle" => target[w] \in GameServers
  /\ held_epoch \in [Workers -> Nat]

\* The type invariant; the window never counts more than MAX_SWITCHES_PER_MINUTE
\* switches (record_switch).
TypeOK ==
  /\ FlagsOK /\ RouterOK /\ WorkersOK
  /\ channel \in Seq(Lookup)
  /\ tpc \in TaskPc /\ JobOK

\* Some thread is bound to look at ip again: a worker is about to ask for it, the
\* request is queued, or the task holds it and has not yet cleared it.
LookupUnderway(ip) ==
  \/ \E w \in Workers : wpc[w] = "send" /\ target[w] = ip
  \/ \E i \in 1..Len(channel) : channel[i].ip = ip
  \/ tpc \notin {"recv", "recheck", "lower"} /\ job.ip = ip

\* The workers drop every packet to a pending server (run_packet_worker). A server
\* is therefore pending only while its lookup is underway, whatever the workers,
\* the task and a reset do in between: nobody's packets are dropped for good.
PendingHasLookup == \A ip \in pending : LookupUnderway(ip)

\* pending_any makes every worker skip evaluation. It is up with no server pending
\* only while some thread is on its way to lower it (clear_pending_lookup, which
\* tests and stores in separate steps, and reset, which does too): auto-routing is
\* never switched off by a flag nobody owns.
NoOrphanBlock ==
  pending_any /\ pending = {} => tpc \in {"recheck", "lower"} \/ session = "resetting"

\* The game region the router reports is one the current relay is right for, or
\* one the user whitelisted: a refused or failed switch must not record the region
\* it did not switch for (get_candidates_for_region, record_switch).
RegionServesGame ==
  \/ current_game_region \in Whitelisted \cup {None}
  \/ Family[current_st_region] = BestFamily[current_game_region]

\* The router's copy of the relay address and the UdpRelay's own agree except
\* between commit_switch and switch_relay, across resets and late commits.
RelaysAgree ==
  current_relay_addr \in {relay_addr, None} \/ tpc = "switch"

\* While the bypass sends game packets outside the tunnel, the game is in a
\* whitelisted region: the flag never survives a move to another region. (After
\* a reset the region is forgotten until the flag is lowered too.)
BypassOnlyForWhitelisted ==
  bypassed => current_game_region \in Whitelisted \cup {None}

\* The relay_switched events the application receives form a chain: each starts at
\* the region the one before ended at, though old_region was read before the ping
\* await and the event is fired after the switch.
EventsChain == [][lastEvent'.from = lastEvent.to]_lastEvent

\* The task's switch is a RelayRoute: whatever workers, lookups and a reset do in
\* between, what was decided before an await is what the relay moves to and what the
\* application is told, once, after the move and from the region it last heard of.
Route == INSTANCE RelayRoute
  WITH at <- relay_addr, told <- lastEvent, moved <- tpc = "fire",
       goal <- IF tpc \in {"switch", "fire"} THEN job.choice ELSE None

ImplementsRoute == Route!Spec

\* Packets held for a pending server are released: its lookup ends.
PendingReleased == \A ip \in GameServers : ip \in pending ~> ip \notin pending

\* Claimed: "Bump epoch so in-flight lookups from the old session are discarded"
\* (set_enabled; reset bumps it too), so no switch is committed for a lookup of an
\* earlier session epoch.
StaleLookupDiscarded == [][job.epoch = epoch]_current_st_region

\* Claimed (auto_routing.rs:369-375): while a session is up, once the server that owns the
\* route has gone quiet, another one that talks "re-routes like a fresh join", although it
\* was evaluated before, as when a player comes back to the server left before; unless its
\* evaluation is still going on.
RejoinReevaluates ==
  [][\A w \in Workers, ip \in GameServers :
       /\ Evaluate(w, ip) /\ session = "up"
       /\ enabled /\ ~pending_any /\ OthersQuiet(ip)
       /\ owner \notin {ip, None}
       /\ ~LookupUnderway(ip) /\ \A v \in Workers : target[v] # ip
       => wpc'[w] = "mark"]_vars
=============================================================================
