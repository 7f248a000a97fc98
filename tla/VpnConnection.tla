---------------------------- MODULE VpnConnection ----------------------------
(***************************************************************************)
(* One VpnConnection over its life: connect_ex, disconnect, cleanup and    *)
(* Drop, with the process monitors it spawns running beside them, and what *)
(* it does to the hosts file (BootstrapHosts).                             *)
(*                                                                         *)
(* The SDK lock lets one call run at a time, so a call is a program        *)
(* counter; every await, lock or blocking call in it is a boundary between *)
(* steps. A monitor is a task of its own. It shares the stop flag of the   *)
(* connection and the lock of its session's driver. What it publishes into *)
(* the state, and what the relay and the router do, is left to other       *)
(* modules: here each is only held or not.                                 *)
(***************************************************************************)
EXTENDS BootstrapHosts

CONSTANTS
  Requests,      \* the option records callers connect with
  MaxSessions,   \* bound: connect calls
  MaxCrashes,    \* bound: deaths of the process
  HostsFaults    \* whether the hosts file may be unreadable or unwritable

RequestType ==
  [apps : {"none", "studio", "game"},    \* the processes to tunnel
   api : BOOLEAN, ban : BOOLEAN, partial : BOOLEAN,
   assets : BOOLEAN]                     \* asset_urls given

ASSUME ConnectionAssumption ==
  /\ Requests \subseteq RequestType /\ Requests # {}
  /\ MaxSessions \in Nat \ {0}
  /\ MaxCrashes \in Nat
  /\ HostsFaults \in BOOLEAN

VARIABLES
  state,                  \* ConnectionState
  pc,                     \* where the call in progress is, or "idle"
  after,                  \* the state cleanup is followed by
  opts,                   \* the request of the current session
  session,                \* number of connect calls begun
  held,                   \* which of the Option fields are Some
  bootstrap_dns_applied,
  asset_route,            \* asset_route::ASSET_IPS is not empty
  stop,                   \* process_monitor_stop
  monitor,                \* per session, where its monitor task is
  crashes

callVars == <<pc, after, opts, session>>
vars == <<state, callVars, held, bootstrap_dns_applied, asset_route, stop, monitor,
          crashes, hostsVars>>

Sessions   == 1 .. MaxSessions
Resources  == {"config", "dpi", "relay", "assets", "router", "driver"}
Connecting == {"FetchingConfig", "Connecting", "ConfiguringSplitTunnel"}
AtRest     == {"Disconnected", "Error"}
Live       == {"top", "asleep", "locking", "refreshing"}

\* swifttunnel_connect_ex turns Route Assist on for either ban bypass.
RouteAssist(o) == o.api \/ o.ban \/ o.partial

\* country_ban_bypass, in connect_ex
Bypass(o) == o.ban \/ o.partial

\* Studio is excluded from the tunnel unless a ban is bypassed.
Tunneled(o) == o.apps = "game" \/ (o.apps = "studio" /\ Bypass(o))

\* Whether connect_ex repairs the bootstrap DNS: it looks at the apps as given.
Repairs(o) == RouteAssist(o) /\ o.apps # "none"

Init ==
  /\ state = "Disconnected"
  /\ pc = "idle" /\ after = "Disconnected"
  /\ opts \in Requests
  /\ session = 0
  /\ held = {} /\ bootstrap_dns_applied = FALSE /\ asset_route = FALSE
  /\ stop = FALSE
  /\ monitor = [s \in Sessions |-> "none"]
  /\ crashes = 0
  /\ HostsInit

Goto(p) == pc' = p /\ UNCHANGED <<after, opts, session>>

-----------------------------------------------------------------------------
(* connect_ex *)

\* Mutant: only an established connection refuses another one.
MayConnectUnlessUp == state # "Connected"

MayConnect == state # "Connected" /\ state \notin Connecting

Connect(o) ==
  /\ pc = "idle"
  /\ MayConnect
  /\ session < MaxSessions
  /\ session' = session + 1
  /\ opts' = o
  /\ state' = "FetchingConfig"
  /\ pc' = "repair"
  /\ UNCHANGED <<after, held, bootstrap_dns_applied, asset_route, stop, monitor,
                 crashes, hostsVars>>

RepairDns(outcome) ==
  /\ pc = "repair" /\ Repairs(opts)
  /\ outcome = "unwritten" => HostsFaults
  /\ ApplyBootstrap(session, Bypass(opts), outcome)
  /\ bootstrap_dns_applied' = (bootstrap_dns_applied \/ outcome = "applied")
  /\ Goto("dpi")
  /\ UNCHANGED <<state, held, asset_route, stop, monitor, crashes>>

SkipRepair ==
  /\ pc = "repair" /\ ~Repairs(opts)
  /\ Goto("dpi")
  /\ UNCHANGED <<state, held, bootstrap_dns_applied, asset_route, stop, monitor,
                 crashes, hostsVars>>

\* GoodbyeDPI is best effort.
StartGoodbyeDpi(running) ==
  /\ pc = "dpi"
  /\ running => opts.ban
  /\ held' = IF running THEN held \cup {"dpi"} ELSE held
  /\ Goto("resolve")
  /\ UNCHANGED <<state, bootstrap_dns_applied, asset_route, stop, monitor, crashes,
                 hostsVars>>

\* resolve_relay_for_region; an error returns at once and leaves the state as it is.
ResolveRelay(found) ==
  /\ pc = "resolve"
  /\ held' = IF found THEN held \cup {"config"} ELSE held
  /\ state' = IF found THEN "Connecting" ELSE state
  /\ Goto(IF found THEN "relay" ELSE "idle")
  /\ UNCHANGED <<bootstrap_dns_applied, asset_route, stop, monitor, crashes, hostsVars>>

\* UdpRelay::new, whose error returns in the same way, and the handshake, whose
\* outcome does not matter here.
NewRelay(bound) ==
  /\ pc = "relay"
  /\ held' = IF bound THEN held \cup {"relay"} ELSE held
  /\ Goto(IF bound THEN "assets" ELSE "idle")
  /\ UNCHANGED <<state, bootstrap_dns_applied, asset_route, stop, monitor, crashes,
                 hostsVars>>

\* Only a full country-ban bypass asks the relay for names.
AfterTunnel == IF opts.ban THEN "pins" ELSE "connected"

SetupAssetRelays(resolved, up) ==
  /\ pc = "assets"
  /\ resolved => opts.assets
  /\ up => resolved
  /\ asset_route' = IF opts.assets THEN resolved ELSE asset_route
  /\ held' = IF up THEN held \cup {"assets"} ELSE held
  /\ state' = "ConfiguringSplitTunnel"
  /\ Goto(IF Tunneled(opts) THEN "split" ELSE AfterTunnel)
  /\ UNCHANGED <<bootstrap_dns_applied, stop, monitor, crashes, hostsVars>>

\* Mutant: the stop flag of an earlier session is left set.
StartSplitTunnelStopped ==
  /\ pc = "split"
  /\ held' = held \cup {"router", "driver"}
  /\ monitor' = [monitor EXCEPT ![session] = "top"]
  /\ Goto(AfterTunnel)
  /\ UNCHANGED <<state, stop, bootstrap_dns_applied, asset_route, crashes, hostsVars>>

StartSplitTunnel ==
  /\ pc = "split"
  /\ held' = held \cup {"router", "driver"}
  /\ stop' = FALSE
  /\ monitor' = [monitor EXCEPT ![session] = "top"]
  /\ Goto(AfterTunnel)
  /\ UNCHANGED <<state, bootstrap_dns_applied, asset_route, crashes, hostsVars>>

\* No driver, a failed configuration, or (routed) a failed start, after which the
\* driver, still a local, is dropped and closed.
SplitTunnelFails(routed) ==
  /\ pc = "split"
  /\ held' = IF routed THEN held \cup {"router"} ELSE held
  /\ pc' = "stop" /\ after' = "Error"
  /\ UNCHANGED <<state, opts, session, bootstrap_dns_applied, asset_route, stop, monitor,
                 crashes, hostsVars>>

\* resolve_roblox_hosts: the replies are read by the driver's inbound thread, so
\* without a driver nothing is resolved.
ResolveThroughRelay(outcome) ==
  /\ pc = "pins"
  /\ outcome # "nothing" => "driver" \in held
  /\ outcome = "unwritten" => HostsFaults
  /\ ApplyRelayResolved(session, outcome)
  /\ Goto("connected")
  /\ UNCHANGED <<state, held, bootstrap_dns_applied, asset_route, stop, monitor, crashes>>

EnterConnected ==
  /\ pc = "connected"
  /\ state' = "Connected"
  /\ Goto("idle")
  /\ UNCHANGED <<held, bootstrap_dns_applied, asset_route, stop, monitor, crashes, hostsVars>>

-----------------------------------------------------------------------------
(* disconnect and cleanup *)

\* disconnect looks at no state: any time no call is in progress will do.
Disconnect ==
  /\ pc = "idle"
  /\ state' = "Disconnecting"
  /\ pc' = "stop" /\ after' = "Disconnected"
  /\ UNCHANGED <<opts, session, held, bootstrap_dns_applied, asset_route, stop, monitor,
                 crashes, hostsVars>>

\* Mutant: the monitor is not told.
StopSessionSilently ==
  /\ pc = "stop"
  /\ held' = held \ {"relay", "assets", "router"}
  /\ asset_route' = FALSE
  /\ Goto("driver")
  /\ UNCHANGED <<state, stop, bootstrap_dns_applied, monitor, crashes, hostsVars>>

\* Mutant: the final state is set before the cleanup, not after it.
StopSessionReported ==
  /\ pc = "stop"
  /\ state' = after
  /\ stop' = TRUE
  /\ held' = held \ {"relay", "assets", "router"}
  /\ asset_route' = FALSE
  /\ Goto("driver")
  /\ UNCHANGED <<bootstrap_dns_applied, monitor, crashes, hostsVars>>

\* cleanup up to the driver's lock.
StopSession ==
  /\ pc = "stop"
  /\ stop' = TRUE
  /\ held' = held \ {"relay", "assets", "router"}
  /\ asset_route' = FALSE
  /\ Goto("driver")
  /\ UNCHANGED <<state, bootstrap_dns_applied, monitor, crashes, hostsVars>>

\* Closing the driver takes the lock its session's monitor refreshes under.
CloseDriver ==
  /\ pc = "driver"
  /\ "driver" \in held => monitor[session] # "refreshing"
  /\ held' = held \ {"driver"}
  /\ Goto("restore")
  /\ UNCHANGED <<state, bootstrap_dns_applied, asset_route, stop, monitor, crashes, hostsVars>>

\* The hosts file is restored only if this connection is known to have written it;
\* an error is logged, and forgotten.
RestoreHosts(written) ==
  /\ pc = "restore"
  /\ written \/ HostsFaults
  /\ IF bootstrap_dns_applied THEN RemoveOverrides(written) ELSE UNCHANGED hostsVars
  /\ bootstrap_dns_applied' = FALSE
  /\ held' = held \ {"dpi", "config"}
  /\ Goto("finish")
  /\ UNCHANGED <<state, asset_route, stop, monitor, crashes>>

Finish ==
  /\ pc = "finish"
  /\ state' = after
  /\ Goto("idle")
  /\ UNCHANGED <<held, bootstrap_dns_applied, asset_route, stop, monitor, crashes, hostsVars>>

-----------------------------------------------------------------------------
(* The process monitor of session s *)

MonitorAt(s, from, to) ==
  /\ monitor[s] = from
  /\ monitor' = [monitor EXCEPT ![s] = to]
  /\ UNCHANGED <<state, callVars, held, bootstrap_dns_applied, asset_route, stop,
                 crashes, hostsVars>>

MonitorLoop(s)    == MonitorAt(s, "top", IF stop THEN "ended" ELSE "asleep")
MonitorWake(s)    == MonitorAt(s, "asleep", IF stop THEN "ended" ELSE "locking")
MonitorLock(s)    == MonitorAt(s, "locking", "refreshing")
MonitorRefresh(s) == MonitorAt(s, "refreshing", "top")

\* The packet workers of a running driver learn a direct host from a relayed flow.
LearnFromSni ==
  /\ "driver" \in held /\ RouteAssist(opts)
  /\ LearnDirectOnly(session)
  /\ UNCHANGED <<state, callVars, held, bootstrap_dns_applied, asset_route, stop,
                 monitor, crashes>>

-----------------------------------------------------------------------------
(* The end of a connection, and of the process *)

NewConnection ==
  /\ state' = "Disconnected"
  /\ pc' = "idle" /\ after' = "Disconnected"
  /\ held' = {} /\ bootstrap_dns_applied' = FALSE
  /\ stop' = FALSE
  /\ monitor' = [s \in Sessions |-> IF monitor[s] = "none" THEN "none" ELSE "ended"]
  /\ UNCHANGED <<opts, session>>

\* Mutant: Drop leaves the hosts file to nobody.
RecreateDirty(written) ==
  /\ pc = "idle" /\ state # "Connected"
  /\ written \/ HostsFaults
  /\ NewConnection
  /\ UNCHANGED <<asset_route, crashes, hostsVars>>

\* swifttunnel_cleanup after its disconnect, if it needed one, then swifttunnel_init.
\* The dropped connection's flag stays set, so its monitors end; a new one has a
\* flag of its own. Drop does not touch the asset routes.
Recreate(written) ==
  /\ pc = "idle" /\ state # "Connected"
  /\ written \/ HostsFaults
  /\ IF bootstrap_dns_applied THEN RemoveOverrides(written) ELSE UNCHANGED hostsVars
  /\ NewConnection
  /\ UNCHANGED <<asset_route, crashes>>

\* The process dies and is started again. Nothing runs at startup to clean the
\* hosts file (recover_stale has no caller).
Crash ==
  /\ crashes < MaxCrashes
  /\ crashes' = crashes + 1
  /\ NewConnection
  /\ asset_route' = FALSE
  /\ FreshStatics
  /\ UNCHANGED hosts_file

Outcomes == {"unresolved", "unwritten", "applied"}

ConnectSteps ==
  \/ \E outcome \in Outcomes : RepairDns(outcome)
  \/ SkipRepair
  \/ \E running \in BOOLEAN : StartGoodbyeDpi(running)
  \/ \E found \in BOOLEAN : ResolveRelay(found)
  \/ \E bound \in BOOLEAN : NewRelay(bound)
  \/ \E resolved, up \in BOOLEAN : SetupAssetRelays(resolved, up)
  \/ StartSplitTunnel
  \/ \E routed \in BOOLEAN : SplitTunnelFails(routed)
  \/ \E outcome \in {"nothing", "unwritten", "applied"} : ResolveThroughRelay(outcome)
  \/ EnterConnected

CleanupSteps ==
  \/ StopSession
  \/ CloseDriver
  \/ \E written \in BOOLEAN : RestoreHosts(written)
  \/ Finish

MonitorSteps(s) == MonitorLoop(s) \/ MonitorWake(s) \/ MonitorLock(s) \/ MonitorRefresh(s)

Next ==
  \/ \E o \in Requests : Connect(o)
  \/ ConnectSteps
  \/ Disconnect
  \/ CleanupSteps
  \/ \E s \in Sessions : MonitorSteps(s)
  \/ LearnFromSni
  \/ \E written \in BOOLEAN : Recreate(written)
  \/ Crash

\* A call runs on the caller's thread and a monitor on the runtime's: each goes on
\* while it can. Nobody has to call.
Fairness ==
  /\ WF_vars(ConnectSteps \/ CleanupSteps)
  /\ \A s \in Sessions : WF_vars(MonitorSteps(s))

Spec == Init /\ [][Next]_vars /\ Fairness
-----------------------------------------------------------------------------
(* Properties *)

TypeOK ==
  /\ state \in Connecting \cup AtRest \cup {"Connected", "Disconnecting"}
  /\ pc \in {"idle", "repair", "dpi", "resolve", "relay", "assets", "split", "pins",
             "connected", "stop", "driver", "restore", "finish"}
  /\ after \in AtRest
  /\ opts \in Requests
  /\ session \in 0 .. MaxSessions
  /\ held \subseteq Resources
  /\ bootstrap_dns_applied \in BOOLEAN /\ asset_route \in BOOLEAN
  /\ stop \in BOOLEAN
  /\ monitor \in [Sessions -> {"none", "ended"} \cup Live]
  /\ crashes \in Nat
  /\ hosts_file \subseteq Sessions /\ last_applied \subseteq Sessions
  /\ active_ips \subseteq Sessions /\ direct_only_ips \subseteq Sessions
  /\ country_ban_routing \in BOOLEAN

Backed == held # {} \/ bootstrap_dns_applied \/ asset_route

\* Between calls, a connection that says Disconnected or Error holds nothing: no
\* path through connect_ex, its failures included, and none through cleanup leaves
\* a relay, a driver, a router, a helper process, asset routes or a pending hosts
\* restoration behind.
IdleHoldsNothing == pc = "idle" /\ state \in AtRest => ~Backed

\* Connected with something to tunnel means the tunnel is there, and that the
\* process monitor of this very session is alive and not about to be stopped, though
\* all sessions share one stop flag.
TunnelBacked ==
  state = "Connected" /\ Tunneled(opts) =>
    /\ {"config", "relay", "router", "driver"} \subseteq held
    /\ ~stop
    /\ monitor[session] \in Live

\* While the connection owes a hosts restoration, the file and the relayed addresses
\* are those of this session alone: nothing an earlier session, or a crash, left in
\* the file or in the statics shows through.
PinsCurrent ==
  bootstrap_dns_applied =>
    /\ hosts_file = {session}
    /\ active_ips = {session}
    /\ direct_only_ips \subseteq {session}

\* While packets are intercepted under the full country-ban bypass, no Roblox host is demoted
\* to the direct path, even when DNS-over-HTTPS is blocked and apply_bootstrap_overrides
\* fails: hosts.rs:250-258, "the plays 20s then dies report". Nothing is said of the partial
\* bypass, of which the code and its docs disagree (README, Observations).
BanNeverDirect ==
  "driver" \in held /\ opts.ban => country_ban_routing /\ direct_only_ips = {}

\* How far what follows can go wrong (NothingLeftInHosts): relayed addresses that no
\* connection owes the removal of are a country-ban session's, under whose routing they
\* then stay. Whatever else a caller asks for, wherever its calls fail, and though the hosts
\* file cannot be written, cleanup or Drop takes them back.
OnlyBanLeavesPins ==
  active_ips # {} => bootstrap_dns_applied \/ country_ban_routing

\* The same of the file, which outlives a process and which a write may fail to clean.
OnlyBanLeavesFile ==
  crashes = 0 /\ ~HostsFaults /\ hosts_file # {} =>
    bootstrap_dns_applied \/ country_ban_routing

\* A monitor is alive and not told to stop only beside a driver to watch for: whatever ends a
\* session tells the monitors of all sessions, those included that an earlier end had told
\* and a later start, resetting the flag they share, untold.
MonitorsTold ==
  \A s \in Sessions : monitor[s] \in Live => stop \/ "driver" \in held

\* Once a session is over, its monitor ends, unless another connect has reused the
\* stop flag first.
MonitorsEnd ==
  \A s \in Sessions :
    (pc = "idle" /\ state = "Disconnected" /\ session = s /\ monitor[s] \in Live)
      ~> (monitor[s] = "ended" \/ session > s)

\* The connection is a TunnelLifecycle: cleaning up is part of stopping or failing,
\* and an attempt that returned an error halfway is one still starting.
Phase ==
  IF state \in Connecting
  THEN IF pc \in {"stop", "driver", "restore", "finish"} THEN "failing" ELSE "starting"
  ELSE IF state = "Connected" THEN "up"
  ELSE IF state = "Disconnecting" THEN "stopping"
  ELSE IF state = "Error" THEN "failed"
  ELSE "off"

Lifecycle == INSTANCE TunnelLifecycle WITH phase <- Phase, backed <- Backed

ImplementsLifecycle == Lifecycle!Spec

\* Claimed by cleanup ("remove any hosts-file DNS overrides we applied"): with a
\* hosts file that can be written and no crash, nothing is left in it at rest.
NothingLeftInHosts == pc = "idle" /\ state = "Disconnected" => hosts_file = {}
=============================================================================
