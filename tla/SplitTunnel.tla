----------------------------- MODULE SplitTunnel -----------------------------
(***************************************************************************)
(* The life of a split-tunnel session: what SplitTunnelDriver.start and    *)
(* close do to the adapter, the filter table and the threads, step by      *)
(* step, under the SDK's lock; the packet reader, which sets the adapter's *)
(* mode; the ETW thread, which calls the host back; and the death of the   *)
(* process at any point, which leaves the machine as it is.                *)
(*                                                                         *)
(* A session is a driver of its own. The other threads of a session (its   *)
(* workers, the refresher, the receivers) are one: they are joined the     *)
(* same way. A PowerShell script may do its work or not, and may say so or *)
(* not: errors are silenced, and one that takes five seconds is killed.    *)
(***************************************************************************)
EXTENDS Integers, FiniteSets

CONSTANTS
  MaxSessions,    \* bound: sessions
  Ours, Foreign,  \* filters a session may install, and entries of other programs
  Capacity,       \* STATIC_FILTER_TABLE_CAPACITY: entries the SDK reads or writes
  CallsBack,      \* does the host's process callback call the SDK?
  Stalls,         \* may a thread outlive the three seconds it is joined for?
  PromptWatcher,  \* has the ETW thread started its trace by the time it is stopped?
  MaxCrashes,     \* bound: crashes
  None

ASSUME SplitTunnelAssumption ==
  /\ MaxSessions \in Nat
  /\ Ours \cap Foreign = {} /\ Capacity \in Nat
  /\ CallsBack \in BOOLEAN /\ Stalls \in BOOLEAN /\ PromptWatcher \in BOOLEAN
  /\ MaxCrashes \in Nat /\ None # "host"

VARIABLES
  sdk,                   \* who holds the SDK's lock
  hpc,                   \* the host's thread: where in start or close it is
  session,               \* the current session's number
  active, stop_flag,     \* the interceptor's; a stop flag for each session
  reader, helpers,       \* each session's reader thread, and its other threads
  etw, tracing, wstop,   \* the ETW thread, its trace, the watcher's stop flag
  mode, offload, ipv6,   \* the adapter: its mode, and two of its settings
  tso_was_disabled, ipv6_was_disabled,
  table, installed,      \* the driver's filter table; INSTALLED_FILTERS
  crashes,
  trouble,               \* history: a script of this session went wrong, or it crashed
  detached,              \* history: readers that outlived their join
  stranded               \* history: filters a crash or a failed removal has left

hostVars    == <<sdk, hpc, session, active>>
threadVars  == <<stop_flag, reader, helpers>>
etwVars     == <<etw, tracing, wstop>>
settings    == <<offload, ipv6, tso_was_disabled, ipv6_was_disabled>>
filterVars  == <<table, installed>>
historyVars == <<trouble, detached, stranded>>
vars == <<hostVars, threadVars, etwVars, mode, settings, filterVars, crashes, historyVars>>

Sessions   == 1 .. MaxSessions
StartSteps == {"watch", "offload", "ipv6", "offload_again", "ipv6_again", "filters", "spawn"}
CloseSteps == {"stop", "join_reader", "join_helpers", "enable_offload", "enable_ipv6",
               "remove_filters", "stop_watcher", "join_watcher"}

Init ==
  /\ sdk = None /\ hpc = "idle" /\ session = 0 /\ active = FALSE
  /\ stop_flag = [s \in Sessions |-> FALSE]
  /\ reader = [s \in Sessions |-> "none"] /\ helpers = [s \in Sessions |-> "none"]
  /\ etw = "none" /\ tracing = FALSE /\ wstop = FALSE
  /\ mode = "default" /\ offload = "on" /\ ipv6 = "on"
  /\ tso_was_disabled = FALSE /\ ipv6_was_disabled = FALSE
  /\ table \in SUBSET Foreign /\ installed = {}
  /\ crashes = 0
  /\ trouble = FALSE /\ detached = {} /\ stranded = {}

Goto(from, to) == hpc = from /\ hpc' = to

-----------------------------------------------------------------------------
(* connect: SplitTunnelDriver.start, ParallelInterceptor.start *)

Connect ==
  /\ Goto("idle", "watch")
  /\ ~active
  /\ session + 1 \in Sessions
  /\ sdk = None /\ sdk' = "host"
  /\ session' = session + 1
  /\ tso_was_disabled' = FALSE /\ ipv6_was_disabled' = FALSE
  /\ trouble' = FALSE
  /\ UNCHANGED <<active, threadVars, etwVars, mode, offload, ipv6, filterVars, crashes,
                 detached, stranded>>

\* The watcher's thread may not be had; the session does without.
StartWatcher ==
  /\ Goto("watch", "offload")
  /\ etw' \in {"starting", "none"}
  /\ wstop' = FALSE
  /\ UNCHANGED <<sdk, session, active, threadVars, tracing, mode, settings, filterVars,
                 crashes, historyVars>>

\* run_powershell_with_timeout: whether a script did its work, and whether it said so. One
\* that is killed after five seconds says no, whatever it has done.
Scripts == [worked : BOOLEAN, said : BOOLEAN]

\* Mutant: what was off already (after a crash, say) is not ours to turn on again.
DisableOffloadIfOn(script) ==
  /\ \/ Goto("offload", "ipv6")
     \/ Goto("offload_again", "ipv6_again")
  /\ offload' = IF script.worked THEN "off" ELSE offload
  /\ tso_was_disabled' = (tso_was_disabled \/ (script.said /\ offload = "on"))
  /\ trouble' = (trouble \/ ~script.worked \/ ~script.said)
  /\ UNCHANGED <<sdk, session, active, threadVars, etwVars, mode, ipv6, ipv6_was_disabled,
                 filterVars, crashes, detached, stranded>>

\* disable_adapter_offload: the driver calls it, and the interceptor again.
DisableOffload(script) ==
  /\ \/ Goto("offload", "ipv6")
     \/ Goto("offload_again", "ipv6_again")
  /\ offload' = IF script.worked THEN "off" ELSE offload
  /\ tso_was_disabled' = (tso_was_disabled \/ script.said)
  /\ trouble' = (trouble \/ ~script.worked \/ ~script.said)
  /\ UNCHANGED <<sdk, session, active, threadVars, etwVars, mode, ipv6, ipv6_was_disabled,
                 filterVars, crashes, detached, stranded>>

DisableIpv6(script) ==
  /\ \/ Goto("ipv6", "offload_again")
     \/ Goto("ipv6_again", "filters")
  /\ ipv6' = IF script.worked THEN "off" ELSE ipv6
  /\ ipv6_was_disabled' = (ipv6_was_disabled \/ script.said)
  /\ trouble' = (trouble \/ ~script.worked \/ ~script.said)
  /\ UNCHANGED <<sdk, session, active, threadVars, etwVars, mode, offload,
                 tso_was_disabled, filterVars, crashes, detached, stranded>>

\* What the owner tables say is the system disk's: established connections and bound
\* ports of the System process, as many as fit the caps.
SystemFlows == SUBSET Ours

\* read_static_filter_entries, set_static_filter_entries: a table that is larger than the
\* SDK can hold is neither read nor written. The driver may refuse as well.
Fits(entries) == Cardinality(entries) <= Capacity

\* install_for_adapter, on a diskless PC. A failure is logged and changes nothing.
InstallFilters(flows) ==
  LET merged == (table \ flows) \cup flows IN
  /\ Goto("filters", "spawn")
  /\ \/ /\ flows # {} /\ Fits(table) /\ Fits(merged)
        /\ table' = merged
        /\ installed' = flows
     \/ UNCHANGED filterVars
  /\ UNCHANGED <<sdk, session, active, threadVars, etwVars, mode, settings, crashes,
                 historyVars>>

Spawn ==
  /\ Goto("spawn", "idle")
  /\ active' = TRUE
  /\ reader' = [reader EXCEPT ![session] = "started"]
  /\ helpers' = [helpers EXCEPT ![session] = "running"]
  /\ sdk' = None
  /\ UNCHANGED <<session, stop_flag, etwVars, mode, settings, filterVars, crashes,
                 historyVars>>

-----------------------------------------------------------------------------
(* disconnect: SplitTunnelDriver.close, ParallelInterceptor.stop *)

Disconnect ==
  /\ Goto("idle", "stop")
  /\ active
  /\ sdk = None /\ sdk' = "host"
  /\ UNCHANGED <<session, active, threadVars, etwVars, mode, settings, filterVars, crashes,
                 historyVars>>

Stop ==
  /\ Goto("stop", "join_reader")
  /\ stop_flag' = [stop_flag EXCEPT ![session] = TRUE]
  /\ UNCHANGED <<sdk, session, active, reader, helpers, etwVars, mode, settings, filterVars,
                 crashes, historyVars>>

\* Mutant: its handle is dropped.
JoinReaderNot ==
  /\ Goto("join_reader", "join_helpers")
  /\ UNCHANGED <<sdk, session, active, threadVars, etwVars, mode, settings, filterVars,
                 crashes, historyVars>>

\* join_with_timeout: a thread that takes too long is left to itself.
JoinReader ==
  /\ Goto("join_reader", "join_helpers")
  /\ \/ reader[session] = "ended" /\ UNCHANGED detached
     \/ /\ Stalls /\ reader[session] # "ended"
        /\ detached' = detached \cup {session}
  /\ UNCHANGED <<sdk, session, active, threadVars, etwVars, mode, settings, filterVars,
                 crashes, trouble, stranded>>

JoinHelpers ==
  /\ Goto("join_helpers", "enable_offload")
  /\ helpers[session] = "ended" \/ Stalls
  /\ active' = FALSE
  /\ UNCHANGED <<sdk, session, threadVars, etwVars, mode, settings, filterVars, crashes,
                 historyVars>>

\* enable_adapter_offload. (close calls it again: the flag is down by then.)
EnableOffload(script) ==
  /\ Goto("enable_offload", "enable_ipv6")
  /\ offload' = IF tso_was_disabled /\ script.worked THEN "on" ELSE offload
  /\ tso_was_disabled' = FALSE
  /\ trouble' = (trouble \/ ~script.worked \/ ~script.said)
  /\ UNCHANGED <<sdk, session, active, threadVars, etwVars, mode, ipv6, ipv6_was_disabled,
                 filterVars, crashes, detached, stranded>>

EnableIpv6(script) ==
  /\ Goto("enable_ipv6", "remove_filters")
  /\ ipv6' = IF ipv6_was_disabled /\ script.worked THEN "on" ELSE ipv6
  /\ ipv6_was_disabled' = FALSE
  /\ trouble' = (trouble \/ ~script.worked \/ ~script.said)
  /\ UNCHANGED <<sdk, session, active, threadVars, etwVars, mode, offload,
                 tso_was_disabled, filterVars, crashes, detached, stranded>>

\* Mutant: the list is cleared before it is used.
RemoveFiltersCleared(failed) ==
  /\ Goto("remove_filters", "stop_watcher")
  /\ installed' = {}
  /\ UNCHANGED <<sdk, session, active, threadVars, etwVars, mode, settings, table, crashes,
                 historyVars>>

\* remove_installed takes the list first: what it then fails to remove is forgotten.
RemoveFilters(failed) ==
  /\ Goto("remove_filters", "stop_watcher")
  /\ installed' = {}
  /\ failed \/ Fits(table)
  /\ table' = IF failed THEN table ELSE table \ installed
  /\ stranded' = IF failed THEN stranded \cup installed ELSE stranded
  /\ UNCHANGED <<sdk, session, active, threadVars, etwVars, mode, settings, crashes,
                 trouble, detached>>

\* Mutant: the flag alone.
StopWatcherByFlag ==
  /\ Goto("stop_watcher", IF etw = "none" THEN "idle" ELSE "join_watcher")
  /\ PromptWatcher => etw # "starting"
  /\ wstop' = (etw # "none")
  /\ sdk' = IF etw = "none" THEN None ELSE sdk
  /\ UNCHANGED <<session, active, threadVars, etw, tracing, mode, settings, filterVars,
                 crashes, historyVars>>

\* ProcessWatcher.stop: the flag, and whatever trace has the name is stopped.
StopWatcher ==
  /\ Goto("stop_watcher", IF etw = "none" THEN "idle" ELSE "join_watcher")
  /\ PromptWatcher => etw # "starting"
  /\ wstop' = (etw # "none")
  /\ tracing' = (tracing /\ etw = "none")
  /\ sdk' = IF etw = "none" THEN None ELSE sdk
  /\ UNCHANGED <<session, active, threadVars, etw, mode, settings, filterVars, crashes,
                 historyVars>>

\* This join has no timeout.
JoinWatcher ==
  /\ Goto("join_watcher", "idle")
  /\ etw = "ended" /\ etw' = "none"
  /\ sdk' = None
  /\ UNCHANGED <<session, active, threadVars, tracing, wstop, mode, settings, filterVars,
                 crashes, historyVars>>

-----------------------------------------------------------------------------
(* The threads *)

\* The mode is set before the flag is looked at; or the driver fails it, and it ends.
ReaderStarts(s) ==
  /\ reader[s] = "started"
  /\ \/ /\ reader' = [reader EXCEPT ![s] = "loop"]
        /\ mode' = "tunnel"
     \/ /\ reader' = [reader EXCEPT ![s] = "ended"]
        /\ UNCHANGED mode
  /\ UNCHANGED <<hostVars, stop_flag, helpers, etwVars, settings, filterVars, crashes,
                 historyVars>>

\* Mutant: the mode is left as it is.
ReaderStopsAsIs(s) ==
  /\ reader[s] = "loop" /\ stop_flag[s]
  /\ reader' = [reader EXCEPT ![s] = "ended"]
  /\ UNCHANGED <<hostVars, stop_flag, helpers, etwVars, mode, settings, filterVars, crashes,
                 historyVars>>

ReaderStops(s) ==
  /\ reader[s] = "loop" /\ stop_flag[s]
  /\ reader' = [reader EXCEPT ![s] = "ended"]
  /\ mode' = "default"
  /\ UNCHANGED <<hostVars, stop_flag, helpers, etwVars, settings, filterVars, crashes,
                 historyVars>>

HelpersStop(s) ==
  /\ helpers[s] = "running" /\ stop_flag[s]
  /\ helpers' = [helpers EXCEPT ![s] = "ended"]
  /\ UNCHANGED <<hostVars, stop_flag, reader, etwVars, mode, settings, filterVars, crashes,
                 historyVars>>

\* run_etw_session up to ProcessTrace: a trace left by another is stopped, and one is
\* started or fails to be. The stop flag is not looked at.
EtwStarts ==
  /\ etw = "starting"
  /\ \/ etw' = "tracing" /\ tracing' = TRUE
     \/ etw' = "ended" /\ tracing' = FALSE
  /\ UNCHANGED <<hostVars, threadVars, wstop, mode, settings, filterVars, crashes,
                 historyVars>>

\* event_record_callback calls the host on this thread.
EtwEvent ==
  /\ etw = "tracing" /\ tracing /\ ~wstop
  /\ etw' = "calling"
  /\ UNCHANGED <<hostVars, threadVars, tracing, wstop, mode, settings, filterVars, crashes,
                 historyVars>>

\* A callback that calls the SDK waits for its lock.
EtwCalled ==
  /\ etw = "calling"
  /\ CallsBack => sdk = None
  /\ etw' = "tracing"
  /\ UNCHANGED <<hostVars, threadVars, tracing, wstop, mode, settings, filterVars, crashes,
                 historyVars>>

\* ProcessTrace returns when the trace has been stopped.
EtwEnds ==
  /\ etw = "tracing" /\ ~tracing
  /\ etw' = "ended"
  /\ UNCHANGED <<hostVars, threadVars, tracing, wstop, mode, settings, filterVars, crashes,
                 historyVars>>

\* The process dies and is started again. The driver gives up the mode with the handle;
\* the trace stays, until the next watcher stops it by its name.
Crash ==
  /\ crashes < MaxCrashes
  /\ hpc # "idle" \/ active
  /\ crashes' = crashes + 1
  /\ sdk' = None /\ hpc' = "idle" /\ active' = FALSE
  /\ stop_flag' = [s \in Sessions |-> FALSE]
  /\ reader' = [s \in Sessions |-> "none"] /\ helpers' = [s \in Sessions |-> "none"]
  /\ etw' = "none" /\ wstop' = FALSE
  /\ mode' = "default"
  /\ tso_was_disabled' = FALSE /\ ipv6_was_disabled' = FALSE
  /\ installed' = {}
  /\ trouble' = TRUE /\ detached' = {}
  /\ stranded' = stranded \cup (table \cap Ours)
  /\ UNCHANGED <<session, tracing, offload, ipv6, table>>

HostStep ==
  \/ StartWatcher
  \/ (\E script \in Scripts :
        \/ DisableOffload(script) \/ DisableIpv6(script)
        \/ EnableOffload(script) \/ EnableIpv6(script))
  \/ (\E flows \in SystemFlows : InstallFilters(flows))
  \/ Spawn
  \/ Stop \/ JoinReader \/ JoinHelpers
  \/ (\E failed \in BOOLEAN : RemoveFilters(failed))
  \/ StopWatcher \/ JoinWatcher

ReaderStep == \E s \in Sessions : ReaderStarts(s) \/ ReaderStops(s)
HelperStep == \E s \in Sessions : HelpersStop(s)
EtwStep    == EtwStarts \/ EtwCalled \/ EtwEnds

Next ==
  Connect \/ Disconnect \/ HostStep \/ ReaderStep \/ HelperStep \/ EtwStep \/ EtwEvent \/ Crash

\* A thread that can take a step takes it in the end; nobody need connect, disconnect or
\* start a process.
Fairness ==
  /\ WF_vars(HostStep) /\ WF_vars(EtwStep)
  /\ \A s \in Sessions : /\ WF_vars(ReaderStarts(s) \/ ReaderStops(s))
                         /\ WF_vars(HelpersStop(s))

Spec == Init /\ [][Next]_vars /\ Fairness

-----------------------------------------------------------------------------
(* Properties *)

HostTypes ==
  /\ sdk \in {None, "host"} /\ hpc \in {"idle"} \cup StartSteps \cup CloseSteps
  /\ (hpc = "idle" <=> sdk = None)
  /\ session \in Sessions \cup {0}
  /\ (hpc \in StartSteps => ~active)
  /\ (hpc # "idle" \/ active => session # 0)

ThreadTypes ==
  /\ reader \in [Sessions -> {"none", "started", "loop", "ended"}]
  /\ helpers \in [Sessions -> {"none", "running", "ended"}]
  /\ \A s \in Sessions : s > session => reader[s] = "none" /\ helpers[s] = "none"
  /\ etw \in {"none", "starting", "tracing", "calling", "ended"}
  /\ detached \subseteq Sessions
  /\ crashes \in 0 .. MaxCrashes

AdapterTypes ==
  /\ mode \in {"default", "tunnel"} /\ offload \in {"on", "off"} /\ ipv6 \in {"on", "off"}
  /\ table \subseteq Ours \cup Foreign /\ installed \subseteq Ours /\ stranded \subseteq Ours

FlagTypes ==
  /\ {active, tracing, wstop, tso_was_disabled, ipv6_was_disabled, trouble} \subseteq BOOLEAN
  /\ stop_flag \in [Sessions -> BOOLEAN]

\* The host, the threads and the adapter are where they can be; the lock is held during
\* start and close, the interceptor is active from the end of start, and no thread of a
\* session that has not begun runs.
TypeOK == HostTypes /\ ThreadTypes /\ AdapterTypes /\ FlagTypes

\* The adapter is given back: after a session none of whose scripts went wrong, offload
\* and IPv6 are on, whatever an earlier session or a crash had left behind. (Each is
\* turned off twice and on once, by flags that die with the process.)
AdapterRestored ==
  hpc = "idle" /\ ~active /\ ~trouble => offload = "on" /\ ipv6 = "on"

\* A session that has not been stopped keeps intercepting: its reader's adapter is in
\* tunnel mode, unless the reader of an earlier session was given up by its join and,
\* late, reset the mode under the new one.
InterceptionHolds ==
  \A s \in Sessions :
    reader[s] = "loop" /\ ~stop_flag[s] => mode = "tunnel" \/ detached # {}

\* The PC's packets are captured only while somebody reads them: the adapter is in tunnel
\* mode only with a reader in its loop, and past the join of its session's reader only if
\* that reader was given up. (Readers of two sessions set and reset one adapter's mode.)
CapturedIsRead ==
  mode = "tunnel" =>
    \E s \in Sessions :
      reader[s] = "loop" /\ (s \in detached \/ (s = session /\ active))

\* close waits only for what is bound to end: the session's threads have its stop flag, and
\* the ETW thread, waited for without a timeout, a trace that was stopped under it and that
\* nobody starts again.
JoinedWereStopped ==
  /\ hpc = "join_reader" => stop_flag[session] /\ reader[session] # "none"
  /\ hpc = "join_helpers" => stop_flag[session] /\ helpers[session] # "none"
  /\ hpc = "join_watcher" /\ PromptWatcher =>
       wstop /\ ~tracing /\ etw \in {"tracing", "calling", "ended"}

\* No pass filter outlives its session: between sessions the table has none of ours but
\* those a crash or a failed removal has left.
OursGone == hpc = "idle" /\ ~active => table \cap Ours \subseteq stranded

\* A stopped session lets the traffic go: the adapter is back in its default mode in the
\* end, also when the reader was not waited for.
TrafficFreed == hpc = "stop" ~> mode = "default"

\* A disconnect returns, and with it every call that waits for the SDK's lock: nothing it
\* joins waits for it. (mod.rs close, process_watcher.rs stop: a join without a timeout.)
CloseReturns == hpc \in CloseSteps ~> hpc = "idle"

\* callbacks.rs:90 drops its own lock "before calling into foreign code to avoid
\* deadlocks"; the SDK's is held by the disconnect that joins the calling thread.
NoDeadlockWithCallbacks == hpc \in CloseSteps ~> hpc = "idle"
=============================================================================
