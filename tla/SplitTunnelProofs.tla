-------------------------- MODULE SplitTunnelProofs --------------------------
(***************************************************************************)
(* The safety of a split-tunnel session, for any number of sessions,       *)
(* filters and crashes: what start and close and the threads of all        *)
(* sessions together leave of the adapter and the filter table.            *)
(***************************************************************************)
EXTENDS SplitTunnel, TLAPS

\* The flags are Boolean in the initial states.
LEMMA FlagInit == Init => FlagTypes
  BY Zenon DEF Init, FlagTypes

\* Every variable has its type in the initial states.
LEMMA TypeInit == Init => TypeOK
<1> SUFFICES ASSUME Init PROVE TypeOK
  OBVIOUS
<1>1. HostTypes
  BY SplitTunnelAssumption DEF Init, HostTypes, StartSteps
<1>2. ThreadTypes
  BY SplitTunnelAssumption DEF Init, ThreadTypes
<1>3. AdapterTypes
  BY DEF Init, AdapterTypes
<1> QED BY <1>1, <1>2, <1>3, FlagInit DEF TypeOK

DataTypes == HostTypes /\ ThreadTypes /\ AdapterTypes

\* A step keeps everything but the flags typed.
LEMMA DataStep == DataTypes /\ [Next]_vars => DataTypes'
<1> SUFFICES ASSUME DataTypes, [Next]_vars PROVE DataTypes'
  OBVIOUS
<1> USE SplitTunnelAssumption
    DEF DataTypes, HostTypes, ThreadTypes, AdapterTypes, hostVars, threadVars, etwVars,
        settings, filterVars, historyVars, Goto, StartSteps, CloseSteps, Sessions
<1>1. CASE Connect
  BY <1>1 DEF Connect
<1>2. CASE StartWatcher
  BY <1>2 DEF StartWatcher
<1>3. ASSUME NEW script \in Scripts, DisableOffload(script) PROVE DataTypes'
  BY <1>3 DEF DisableOffload
<1>4. ASSUME NEW script \in Scripts, DisableIpv6(script) PROVE DataTypes'
  BY <1>4 DEF DisableIpv6
<1>5. ASSUME NEW script \in Scripts, EnableOffload(script) PROVE DataTypes'
  BY <1>5 DEF EnableOffload
<1>6. ASSUME NEW script \in Scripts, EnableIpv6(script) PROVE DataTypes'
  BY <1>6 DEF EnableIpv6
<1>7. ASSUME NEW flows \in SystemFlows, InstallFilters(flows) PROVE DataTypes'
  BY <1>7 DEF InstallFilters, SystemFlows
<1>8. CASE Spawn
  <2>1. /\ sdk' = None /\ hpc' = "idle" /\ session' = session /\ session \in Sessions
        /\ reader' = [reader EXCEPT ![session] = "started"]
        /\ helpers' = [helpers EXCEPT ![session] = "running"]
    BY <1>8 DEF Spawn
  <2>2. HostTypes'
    BY <1>8, <2>1 DEF Spawn
  <2>3. ThreadTypes'
    BY <1>8, <2>1 DEF Spawn
  <2>4. AdapterTypes'
    BY <1>8 DEF Spawn
  <2> QED BY <2>2, <2>3, <2>4
<1>9. CASE Disconnect
  BY <1>9 DEF Disconnect
<1>10. CASE Stop
  BY <1>10 DEF Stop
<1>11. CASE JoinReader
  BY <1>11 DEF JoinReader
<1>12. CASE JoinHelpers
  BY <1>12 DEF JoinHelpers
<1>13. ASSUME NEW failed \in BOOLEAN, RemoveFilters(failed) PROVE DataTypes'
  BY <1>13 DEF RemoveFilters
<1>14. CASE StopWatcher
  BY <1>14 DEF StopWatcher
<1>15. CASE JoinWatcher
  BY <1>15 DEF JoinWatcher
<1>16. ASSUME NEW s \in Sessions, ReaderStarts(s) PROVE DataTypes'
  BY <1>16 DEF ReaderStarts
<1>17. ASSUME NEW s \in Sessions, ReaderStops(s) PROVE DataTypes'
  BY <1>17 DEF ReaderStops
<1>18. ASSUME NEW s \in Sessions, HelpersStop(s) PROVE DataTypes'
  BY <1>18 DEF HelpersStop
<1>19. CASE EtwStep \/ EtwEvent
  <2>1. /\ etw' \in {"tracing", "ended", "calling"}
        /\ UNCHANGED <<hostVars, threadVars, mode, settings, filterVars, crashes, historyVars>>
    BY <1>19 DEF EtwStep, EtwStarts, EtwCalled, EtwEnds, EtwEvent
  <2> QED BY <2>1
<1>20. CASE Crash
  BY <1>20 DEF Crash
<1>21. CASE UNCHANGED vars
  BY <1>21 DEF vars
<1> QED BY <1>1, <1>2, <1>3, <1>4, <1>5, <1>6, <1>7, <1>8, <1>9, <1>10, <1>11, <1>12,
           <1>13, <1>14, <1>15, <1>16, <1>17, <1>18, <1>19, <1>20, <1>21
        DEF Next, HostStep, ReaderStep, HelperStep

\* A step keeps the flags Boolean.
LEMMA FlagStep == FlagTypes /\ [Next]_vars => FlagTypes'
<1> SUFFICES ASSUME FlagTypes, [Next]_vars PROVE FlagTypes'
  OBVIOUS
<1> DEFINE flags == {active, tracing, wstop, tso_was_disabled, ipv6_was_disabled, trouble}
<1>1. flags' \subseteq BOOLEAN
  <2> USE Zenon DEF FlagTypes, hostVars, threadVars, etwVars, settings, filterVars, historyVars
  <2>1. CASE Connect \/ StartWatcher \/ Spawn
    BY <2>1 DEF Connect, StartWatcher, Spawn
  <2>2. ASSUME NEW script \in Scripts, DisableOffload(script) PROVE flags' \subseteq BOOLEAN
    BY <2>2 DEF DisableOffload
  <2>3. ASSUME NEW script \in Scripts, DisableIpv6(script) PROVE flags' \subseteq BOOLEAN
    BY <2>3 DEF DisableIpv6
  <2>4. ASSUME NEW script \in Scripts, EnableOffload(script) PROVE flags' \subseteq BOOLEAN
    BY <2>4 DEF EnableOffload
  <2>5. ASSUME NEW script \in Scripts, EnableIpv6(script) PROVE flags' \subseteq BOOLEAN
    BY <2>5 DEF EnableIpv6
  <2>6. ASSUME NEW flows \in SystemFlows, InstallFilters(flows) PROVE flags' \subseteq BOOLEAN
    BY <2>6 DEF InstallFilters
  <2>7. CASE Disconnect \/ Stop \/ JoinReader \/ JoinHelpers
    BY <2>7 DEF Disconnect, Stop, JoinReader, JoinHelpers
  <2>8. ASSUME NEW failed \in BOOLEAN, RemoveFilters(failed) PROVE flags' \subseteq BOOLEAN
    BY <2>8 DEF RemoveFilters
  <2>9. CASE StopWatcher \/ JoinWatcher
    BY <2>9 DEF StopWatcher, JoinWatcher
  <2>10. ASSUME NEW s \in Sessions, ReaderStarts(s) \/ ReaderStops(s) \/ HelpersStop(s)
         PROVE  flags' \subseteq BOOLEAN
    BY <2>10 DEF ReaderStarts, ReaderStops, HelpersStop
  <2>11. CASE EtwStep \/ EtwEvent
    BY <2>11 DEF EtwStep, EtwStarts, EtwCalled, EtwEnds, EtwEvent
  <2>12. CASE Crash
    BY <2>12 DEF Crash
  <2>13. CASE UNCHANGED vars
    BY <2>13 DEF vars
  <2> QED BY <2>1, <2>2, <2>3, <2>4, <2>5, <2>6, <2>7, <2>8, <2>9, <2>10, <2>11, <2>12, <2>13
          DEF Next, HostStep, ReaderStep, HelperStep
<1>2. stop_flag' \in [Sessions -> BOOLEAN]
  <2>1. \/ UNCHANGED stop_flag
        \/ stop_flag' = [stop_flag EXCEPT ![session] = TRUE]
        \/ stop_flag' = [s \in Sessions |-> FALSE]
    BY DEF Next, HostStep, ReaderStep, HelperStep, EtwStep, hostVars, threadVars, etwVars,
       settings, filterVars, historyVars, vars, Connect, StartWatcher, Spawn, DisableOffload,
       DisableIpv6, EnableOffload, EnableIpv6, InstallFilters, Disconnect, Stop, JoinReader,
       JoinHelpers, RemoveFilters, StopWatcher, JoinWatcher, ReaderStarts, ReaderStops,
       HelpersStop, EtwStarts, EtwCalled, EtwEnds, EtwEvent, Crash
  <2> QED BY <2>1 DEF FlagTypes
<1> QED BY <1>1, <1>2 DEF FlagTypes

\* The host, the threads, the adapter and the table keep to their types; the lock is held
\* exactly during start and close.
THEOREM TypeCorrect == Spec => []TypeOK
<1>1. TypeOK <=> DataTypes /\ FlagTypes
  BY DEF TypeOK, DataTypes
<1>2. TypeOK /\ [Next]_vars => TypeOK'
  BY DataStep, FlagStep DEF TypeOK, DataTypes
<1> QED BY <1>2, TypeInit, PTL DEF Spec

-----------------------------------------------------------------------------
(* The adapter's settings *)

BetweenSessions == hpc = "idle" /\ ~active

\* In a session without trouble, what has been turned off is known to be, until it is on.
AdapterInv ==
  ~trouble =>
    /\ hpc \in {"ipv6", "offload_again", "ipv6_again", "filters", "spawn", "stop",
                "join_reader", "join_helpers", "enable_offload"}
         \/ (hpc = "idle" /\ active) => tso_was_disabled
    /\ hpc \in {"offload_again", "ipv6_again", "filters", "spawn", "stop", "join_reader",
                "join_helpers", "enable_offload", "enable_ipv6"}
         \/ (hpc = "idle" /\ active) => ipv6_was_disabled
    /\ hpc \in {"enable_ipv6", "remove_filters", "stop_watcher", "join_watcher"}
         \/ BetweenSessions => offload = "on"
    /\ hpc \in {"remove_filters", "stop_watcher", "join_watcher"}
         \/ BetweenSessions => ipv6 = "on"

\* From the joins on the interceptor is not active.
Inactive ==
  hpc \in {"enable_offload", "enable_ipv6", "remove_filters", "stop_watcher",
           "join_watcher"} => ~active

\* The actions that leave the host and the adapter's settings alone.
LEMMA Elsewhere ==
  ASSUME \/ \E s \in Sessions : ReaderStarts(s) \/ ReaderStops(s) \/ HelpersStop(s)
         \/ EtwStep \/ EtwEvent \/ UNCHANGED vars
  PROVE  UNCHANGED <<hostVars, settings, trouble, filterVars, stranded, stop_flag, detached>>
  BY DEF ReaderStarts, ReaderStops, HelpersStop, EtwStep, EtwStarts, EtwCalled, EtwEnds,
     EtwEvent, vars, threadVars, etwVars, historyVars, hostVars, settings, filterVars

\* The adapter has its settings at first.
LEMMA AdapterInit == Init => AdapterInv /\ Inactive
  BY DEF Init, AdapterInv, BetweenSessions, Inactive

\* A step keeps the settings on, or the flag set that turns them on.
LEMMA AdapterStep ==
  TypeOK /\ AdapterInv /\ Inactive /\ [Next]_vars => AdapterInv' /\ Inactive'
<1> SUFFICES ASSUME TypeOK, AdapterInv, Inactive, [Next]_vars
             PROVE  AdapterInv' /\ Inactive'
  OBVIOUS
<1> USE DEF AdapterInv, Inactive, BetweenSessions, Goto, hostVars, settings, historyVars,
        StartSteps, CloseSteps, FlagTypes
<1>0. FlagTypes /\ hpc \in {"idle"} \cup StartSteps \cup CloseSteps
      /\ (hpc \in StartSteps => ~active)
  BY DEF TypeOK, HostTypes
<1>1. CASE Connect \/ StartWatcher \/ Spawn
  BY <1>0, <1>1 DEF Connect, StartWatcher, Spawn
<1>2. ASSUME NEW script \in Scripts, DisableOffload(script) PROVE AdapterInv' /\ Inactive'
  BY <1>0, <1>2 DEF DisableOffload
<1>3. ASSUME NEW script \in Scripts, DisableIpv6(script) PROVE AdapterInv' /\ Inactive'
  BY <1>0, <1>3 DEF DisableIpv6
<1>4. ASSUME NEW script \in Scripts, EnableOffload(script) PROVE AdapterInv' /\ Inactive'
  BY <1>0, <1>4 DEF EnableOffload
<1>5. ASSUME NEW script \in Scripts, EnableIpv6(script) PROVE AdapterInv' /\ Inactive'
  BY <1>0, <1>5 DEF EnableIpv6
<1>6. ASSUME NEW flows \in SystemFlows, InstallFilters(flows)
      PROVE  AdapterInv' /\ Inactive'
  BY <1>0, <1>6 DEF InstallFilters
<1>7. CASE Disconnect \/ Stop \/ JoinReader \/ JoinHelpers
  BY <1>0, <1>7 DEF Disconnect, Stop, JoinReader, JoinHelpers
<1>8. ASSUME NEW failed \in BOOLEAN, RemoveFilters(failed) PROVE AdapterInv' /\ Inactive'
  BY <1>0, <1>8 DEF RemoveFilters
<1>9. CASE StopWatcher \/ JoinWatcher
  BY <1>0, <1>9 DEF StopWatcher, JoinWatcher
<1>10. CASE Crash
  BY <1>10 DEF Crash
<1>11. CASE UNCHANGED <<hostVars, settings, trouble>>
  BY <1>0, <1>11
<1> QED BY <1>1, <1>2, <1>3, <1>4, <1>5, <1>6, <1>7, <1>8, <1>9, <1>10, <1>11, Elsewhere
        DEF Next, HostStep, ReaderStep, HelperStep

\* After a session without trouble the adapter has its settings back, whatever earlier
\* sessions and crashes have left.
THEOREM AdapterIsRestored == Spec => []AdapterRestored
<1>1. AdapterInv => AdapterRestored
  BY DEF AdapterInv, AdapterRestored, BetweenSessions
<1> QED BY <1>1, TypeCorrect, AdapterInit, AdapterStep, PTL DEF Spec

-----------------------------------------------------------------------------
(* The filter table *)

\* The filters of ours in the table are on the list or stranded; outside of a session the
\* list is empty.
FilterInv ==
  /\ table \cap Ours \subseteq stranded \cup installed
  /\ hpc \in {"watch", "offload", "ipv6", "offload_again", "ipv6_again", "filters",
              "stop_watcher", "join_watcher"} \/ BetweenSessions => installed = {}

\* No filter of ours is in the table at first.
LEMMA FilterInit == Init => FilterInv
  BY SplitTunnelAssumption DEF Init, FilterInv, BetweenSessions

\* A step leaves no filter of ours in the table that is neither listed nor stranded.
LEMMA FilterStep == TypeOK /\ FilterInv /\ Inactive /\ [Next]_vars => FilterInv'
<1> SUFFICES ASSUME TypeOK, FilterInv, Inactive, [Next]_vars PROVE FilterInv'
  OBVIOUS
<1> USE DEF FilterInv, Inactive, BetweenSessions, Goto, hostVars, filterVars, historyVars
<1>0. active \in BOOLEAN /\ (hpc \in StartSteps => ~active)
  BY DEF TypeOK, HostTypes, FlagTypes
<1>1. CASE Connect \/ StartWatcher \/ Spawn
  BY <1>0, <1>1 DEF Connect, StartWatcher, Spawn
<1>2. ASSUME NEW script \in Scripts, DisableOffload(script) \/ DisableIpv6(script)
             \/ EnableOffload(script) \/ EnableIpv6(script)
      PROVE  FilterInv'
  BY <1>0, <1>2 DEF DisableOffload, DisableIpv6, EnableOffload, EnableIpv6
<1>3. ASSUME NEW flows \in SystemFlows, InstallFilters(flows) PROVE FilterInv'
  BY <1>3 DEF InstallFilters
<1>4. CASE Disconnect \/ Stop \/ JoinReader \/ JoinHelpers
  BY <1>4 DEF Disconnect, Stop, JoinReader, JoinHelpers
<1>5. ASSUME NEW failed \in BOOLEAN, RemoveFilters(failed) PROVE FilterInv'
  BY <1>5 DEF RemoveFilters
<1>6. CASE StopWatcher \/ JoinWatcher
  BY <1>6 DEF StopWatcher, JoinWatcher
<1>7. CASE Crash
  BY <1>7 DEF Crash
<1>8. CASE UNCHANGED <<hostVars, filterVars, stranded>>
  BY <1>8
<1> QED BY <1>1, <1>2, <1>3, <1>4, <1>5, <1>6, <1>7, <1>8, Elsewhere
        DEF Next, HostStep, ReaderStep, HelperStep

\* No pass filter outlives its session but by a crash or a removal that failed.
THEOREM OursAreGone == Spec => []OursGone
<1>1. FilterInv => OursGone
  BY DEF FilterInv, OursGone, BetweenSessions
<1> QED BY <1>1, TypeCorrect, AdapterInit, AdapterStep, FilterInit, FilterStep, PTL DEF Spec

-----------------------------------------------------------------------------
(* The readers *)

Alive(s) == reader[s] \in {"started", "loop"}

\* A reader of a session that is over has been given up by its join.
ReaderInv ==
  \A s \in Sessions :
    Alive(s) /\ (s < session \/ hpc \in {"join_helpers", "enable_offload", "enable_ipv6",
                   "remove_filters", "stop_watcher", "join_watcher"} \/ BetweenSessions)
      => s \in detached

\* No reader runs at first.
LEMMA ReaderInit == Init => ReaderInv /\ InterceptionHolds
  BY DEF Init, ReaderInv, Alive, InterceptionHolds

\* A step ends a session only with its reader ended or given up.
LEMMA ReaderInvStep == TypeOK /\ ReaderInv /\ Inactive /\ [Next]_vars => ReaderInv'
<1> SUFFICES ASSUME TypeOK, ReaderInv, Inactive, [Next]_vars PROVE ReaderInv'
  OBVIOUS
<1> USE DEF ReaderInv, Inactive, Alive, BetweenSessions, Goto, hostVars, threadVars,
        historyVars
<1>0. /\ session \in Sessions \cup {0} /\ active \in BOOLEAN
      /\ reader \in [Sessions -> {"none", "started", "loop", "ended"}]
      /\ \A s \in Sessions : s \in Nat /\ (s > session => reader[s] = "none")
      /\ session \in Nat
  BY DEF TypeOK, HostTypes, ThreadTypes, FlagTypes, Sessions
<1>1. CASE Connect
  BY <1>0, <1>1 DEF Connect
<1>2. CASE StartWatcher \/ Disconnect \/ Stop
  BY <1>0, <1>2 DEF StartWatcher, Disconnect, Stop
<1>3. CASE Spawn
  BY <1>0, <1>3 DEF Spawn
<1>4. ASSUME NEW script \in Scripts, DisableOffload(script) \/ DisableIpv6(script)
             \/ EnableOffload(script) \/ EnableIpv6(script)
      PROVE  ReaderInv'
  BY <1>0, <1>4 DEF DisableOffload, DisableIpv6, EnableOffload, EnableIpv6
<1>5. ASSUME NEW flows \in SystemFlows, InstallFilters(flows) PROVE ReaderInv'
  BY <1>0, <1>5 DEF InstallFilters
<1>6. CASE JoinReader
  BY <1>0, <1>6 DEF JoinReader
<1>7. CASE JoinHelpers
  BY <1>0, <1>7 DEF JoinHelpers
<1>8. ASSUME NEW failed \in BOOLEAN, RemoveFilters(failed) PROVE ReaderInv'
  BY <1>0, <1>8 DEF RemoveFilters
<1>9. CASE StopWatcher \/ JoinWatcher
  BY <1>0, <1>9 DEF StopWatcher, JoinWatcher
<1>10. ASSUME NEW s \in Sessions, ReaderStarts(s) \/ ReaderStops(s) PROVE ReaderInv'
  BY <1>0, <1>10 DEF ReaderStarts, ReaderStops
<1>11. CASE Crash
  BY <1>11 DEF Crash
<1>12. ASSUME NEW s \in Sessions, HelpersStop(s) PROVE ReaderInv'
  BY <1>12 DEF HelpersStop
<1>13. CASE EtwStep \/ EtwEvent \/ UNCHANGED vars
  BY <1>13 DEF EtwStep, EtwStarts, EtwCalled, EtwEnds, EtwEvent, vars
<1> QED BY <1>1, <1>2, <1>3, <1>4, <1>5, <1>6, <1>7, <1>8, <1>9, <1>10, <1>11, <1>12, <1>13
        DEF Next, HostStep, ReaderStep, HelperStep

\* A step resets the mode under a running reader only by one given up.
LEMMA InterceptionStep ==
  TypeOK /\ ReaderInv /\ InterceptionHolds /\ [Next]_vars => InterceptionHolds'
<1> SUFFICES ASSUME TypeOK, ReaderInv, InterceptionHolds, [Next]_vars
             PROVE  InterceptionHolds'
  OBVIOUS
<1> USE DEF InterceptionHolds, threadVars, historyVars
<1>0. /\ reader \in [Sessions -> {"none", "started", "loop", "ended"}]
      /\ stop_flag \in [Sessions -> BOOLEAN]
      /\ \A s \in Sessions : s \in Nat /\ (s > session => reader[s] = "none")
      /\ session \in Nat
  BY DEF TypeOK, HostTypes, ThreadTypes, FlagTypes, Sessions
<1>1. ASSUME NEW s \in Sessions, ReaderStarts(s) PROVE InterceptionHolds'
  BY <1>0, <1>1 DEF ReaderStarts
\* Of two readers that are alive, one is of an earlier session.
<1>2. ASSUME NEW s \in Sessions, ReaderStops(s) PROVE InterceptionHolds'
  <2> SUFFICES ASSUME NEW t \in Sessions, reader'[t] = "loop", ~stop_flag'[t]
               PROVE  detached' # {}
    OBVIOUS
  <2>1. t # s /\ reader[t] = "loop" /\ reader[s] = "loop" /\ detached' = detached
    BY <1>0, <1>2 DEF ReaderStops
  <2>2. s < session \/ t < session
    BY <1>0, <2>1
  <2> QED BY <2>1, <2>2 DEF ReaderInv, Alive
<1>3. CASE Spawn
  BY <1>0, <1>3 DEF Spawn
<1>4. CASE Stop
  BY <1>0, <1>4 DEF Stop
<1>5. CASE JoinReader
  BY <1>5 DEF JoinReader
<1>6. CASE Crash
  BY <1>6 DEF Crash
<1>7. CASE Connect \/ StartWatcher \/ Disconnect \/ JoinHelpers \/ StopWatcher \/ JoinWatcher
  BY <1>7 DEF Connect, StartWatcher, Disconnect, JoinHelpers, StopWatcher, JoinWatcher
<1>8. ASSUME NEW script \in Scripts, DisableOffload(script) \/ DisableIpv6(script)
             \/ EnableOffload(script) \/ EnableIpv6(script)
      PROVE  InterceptionHolds'
  BY <1>8 DEF DisableOffload, DisableIpv6, EnableOffload, EnableIpv6
<1>9. ASSUME NEW flows \in SystemFlows, InstallFilters(flows) PROVE InterceptionHolds'
  BY <1>9 DEF InstallFilters
<1>10. ASSUME NEW failed \in BOOLEAN, RemoveFilters(failed) PROVE InterceptionHolds'
  BY <1>10 DEF RemoveFilters
<1>11. ASSUME NEW s \in Sessions, HelpersStop(s) PROVE InterceptionHolds'
  BY <1>11 DEF HelpersStop
<1>12. CASE EtwStep \/ EtwEvent \/ UNCHANGED vars
  BY <1>12 DEF EtwStep, EtwStarts, EtwCalled, EtwEnds, EtwEvent, vars
<1> QED BY <1>1, <1>2, <1>3, <1>4, <1>5, <1>6, <1>7, <1>8, <1>9, <1>10, <1>11, <1>12
        DEF Next, HostStep, ReaderStep, HelperStep

\* A session that runs keeps its adapter in tunnel mode, unless a reader was given up.
THEOREM InterceptionIsHeld == Spec => []InterceptionHolds
  BY TypeCorrect, AdapterInit, AdapterStep, ReaderInit, ReaderInvStep, InterceptionStep, PTL
     DEF Spec

-----------------------------------------------------------------------------
(* The threads a session starts and waits for *)

\* A session has its threads from the end of start; close has stopped those it waits for.
SessionInv ==
  /\ hpc \in StartSteps => reader[session] = "none"
  /\ hpc \in {"stop", "join_reader", "join_helpers"} => active
  /\ active => reader[session] # "none" /\ helpers[session] # "none"
  /\ hpc \in {"join_reader", "join_helpers"} => stop_flag[session]

\* The tunnel mode is some reader's.
ModeInv == mode = "tunnel" => \E s \in Sessions : reader[s] = "loop"

WatcherInv ==
  hpc = "join_watcher" /\ PromptWatcher =>
    wstop /\ ~tracing /\ etw \in {"tracing", "calling", "ended"}

\* No thread runs at first.
LEMMA SessionInit == Init => SessionInv /\ ModeInv /\ WatcherInv
  BY DEF Init, SessionInv, ModeInv, WatcherInv, StartSteps

\* A step of the threads takes nothing from the session.
LEMMA SessionStep == TypeOK /\ SessionInv /\ Inactive /\ [Next]_vars => SessionInv'
<1> SUFFICES ASSUME TypeOK, SessionInv, Inactive, [Next]_vars PROVE SessionInv'
  OBVIOUS
<1> USE DEF SessionInv, Goto, hostVars, threadVars, StartSteps
<1>0. /\ session \in Sessions \cup {0} /\ active \in BOOLEAN
      /\ (hpc \in StartSteps => ~active) /\ (hpc # "idle" \/ active => session \in Sessions)
      /\ reader \in [Sessions -> {"none", "started", "loop", "ended"}]
      /\ helpers \in [Sessions -> {"none", "running", "ended"}]
      /\ \A s \in Sessions : s \in Nat /\ (s > session => reader[s] = "none")
      /\ session \in Nat /\ stop_flag \in [Sessions -> BOOLEAN]
  BY DEF TypeOK, HostTypes, ThreadTypes, FlagTypes, Sessions
<1>1. CASE Connect
  BY <1>0, <1>1 DEF Connect
<1>2. CASE StartWatcher \/ Disconnect
  BY <1>0, <1>2 DEF StartWatcher, Disconnect
<1>3. CASE Spawn
  BY <1>0, <1>3 DEF Spawn
<1>4. ASSUME NEW script \in Scripts, DisableOffload(script) \/ DisableIpv6(script)
             \/ EnableOffload(script) \/ EnableIpv6(script)
      PROVE  SessionInv'
  BY <1>0, <1>4 DEF DisableOffload, DisableIpv6, EnableOffload, EnableIpv6
<1>5. ASSUME NEW flows \in SystemFlows, InstallFilters(flows) PROVE SessionInv'
  BY <1>0, <1>5 DEF InstallFilters
<1>6. CASE Stop
  BY <1>0, <1>6 DEF Stop
<1>7. CASE JoinReader \/ JoinHelpers
  BY <1>0, <1>7 DEF JoinReader, JoinHelpers, Inactive
<1>8. ASSUME NEW failed \in BOOLEAN, RemoveFilters(failed) PROVE SessionInv'
  BY <1>0, <1>8 DEF RemoveFilters
<1>9. CASE StopWatcher \/ JoinWatcher
  BY <1>0, <1>9 DEF StopWatcher, JoinWatcher
<1>10. ASSUME NEW s \in Sessions, ReaderStarts(s) \/ ReaderStops(s) PROVE SessionInv'
  BY <1>0, <1>10 DEF ReaderStarts, ReaderStops
<1>11. ASSUME NEW s \in Sessions, HelpersStop(s) PROVE SessionInv'
  BY <1>0, <1>11 DEF HelpersStop
<1>12. CASE Crash
  BY <1>12 DEF Crash
<1>13. CASE EtwStep \/ EtwEvent \/ UNCHANGED vars
  BY <1>13 DEF EtwStep, EtwStarts, EtwCalled, EtwEnds, EtwEvent, vars
<1> QED BY <1>1, <1>2, <1>3, <1>4, <1>5, <1>6, <1>7, <1>8, <1>9, <1>10, <1>11, <1>12, <1>13
        DEF Next, HostStep, ReaderStep, HelperStep

\* A reader sets the mode as it enters its loop, and none leaves its loop in tunnel mode.
LEMMA ModeStep == TypeOK /\ SessionInv /\ ModeInv /\ [Next]_vars => ModeInv'
<1> SUFFICES ASSUME TypeOK, SessionInv, ModeInv, [Next]_vars PROVE ModeInv'
  OBVIOUS
<1> USE DEF ModeInv
<1>0. /\ session \in Sessions \cup {0} /\ (hpc # "idle" => session \in Sessions)
      /\ reader \in [Sessions -> {"none", "started", "loop", "ended"}]
  BY DEF TypeOK, HostTypes, ThreadTypes
<1>1. ASSUME NEW s \in Sessions, ReaderStarts(s) PROVE ModeInv'
  BY <1>0, <1>1 DEF ReaderStarts
<1>2. ASSUME NEW s \in Sessions, ReaderStops(s) PROVE ModeInv'
  BY <1>2 DEF ReaderStops
\* The session that begins has a reader that has not run.
<1>3. CASE Spawn
  BY <1>0, <1>3 DEF Spawn, Goto, SessionInv, StartSteps
<1>4. CASE Crash
  BY <1>4 DEF Crash
<1>5. CASE UNCHANGED <<mode, reader>>
  BY <1>5
<1>6. \/ UNCHANGED <<mode, reader>>
      \/ Spawn \/ Crash \/ \E s \in Sessions : ReaderStarts(s) \/ ReaderStops(s)
  BY DEF Next, HostStep, ReaderStep, HelperStep, EtwStep, hostVars, threadVars, etwVars,
     settings, filterVars, historyVars, vars, Connect, StartWatcher, DisableOffload,
     DisableIpv6, EnableOffload, EnableIpv6, InstallFilters, Disconnect, Stop, JoinReader,
     JoinHelpers, RemoveFilters, StopWatcher, JoinWatcher, HelpersStop, EtwStarts,
     EtwCalled, EtwEnds, EtwEvent
<1> QED BY <1>1, <1>2, <1>3, <1>4, <1>5, <1>6

\* Once stopped the trace stays stopped: the ETW thread is past the start of its own.
LEMMA WatcherStep == TypeOK /\ WatcherInv /\ [Next]_vars => WatcherInv'
<1> SUFFICES ASSUME TypeOK, WatcherInv, [Next]_vars, hpc' = "join_watcher", PromptWatcher
             PROVE  wstop' /\ ~tracing' /\ etw' \in {"tracing", "calling", "ended"}
  BY DEF WatcherInv
<1>1. CASE StopWatcher
  <2>1. etw' = etw /\ etw # "none" /\ etw # "starting"
    BY <1>1 DEF StopWatcher, Goto
  <2>2. wstop' /\ ~tracing'
    BY <1>1, <2>1, Zenon DEF StopWatcher
  <2>3. etw \in {"none", "starting", "tracing", "calling", "ended"}
    BY DEF TypeOK, ThreadTypes
  <2> QED BY <2>1, <2>2, <2>3
<1>2. CASE hpc = "join_watcher" /\ EtwStep
  <2>1. wstop /\ ~tracing /\ etw \in {"tracing", "calling", "ended"}
    BY <1>2 DEF WatcherInv
  <2>2. etw' \in {"tracing", "ended"} /\ UNCHANGED <<wstop, tracing>>
    BY <1>2, <2>1 DEF EtwStep, EtwStarts, EtwCalled, EtwEnds
  <2> QED BY <2>1, <2>2
<1>3. CASE hpc = "join_watcher" /\ EtwEvent
  BY <1>3 DEF WatcherInv, EtwEvent
<1>4. CASE hpc = "join_watcher" /\ UNCHANGED etwVars
  BY <1>4 DEF WatcherInv, etwVars
<1>5. \/ StopWatcher
      \/ hpc = "join_watcher" /\ (EtwStep \/ EtwEvent \/ UNCHANGED etwVars)
  <2>1. CASE HostStep
    BY <2>1 DEF HostStep, Goto, StartWatcher, DisableOffload, DisableIpv6, EnableOffload,
       EnableIpv6, InstallFilters, Spawn, Stop, JoinReader, JoinHelpers, RemoveFilters,
       JoinWatcher
  <2>2. CASE Connect \/ Disconnect \/ Crash
    BY <2>2 DEF Connect, Disconnect, Crash, Goto
  <2>3. CASE ReaderStep \/ HelperStep
    BY <2>3 DEF ReaderStep, HelperStep, ReaderStarts, ReaderStops, HelpersStop, hostVars
  <2>4. CASE EtwStep \/ EtwEvent
    BY <2>4 DEF EtwStep, EtwEvent, EtwStarts, EtwCalled, EtwEnds, hostVars
  <2>5. CASE UNCHANGED vars
    BY <2>5 DEF vars, hostVars
  <2> QED BY <2>1, <2>2, <2>3, <2>4, <2>5 DEF Next
<1> QED BY <1>1, <1>2, <1>3, <1>4, <1>5

\* The packets are captured only while somebody reads them, and after the session only by a
\* reader that was given up.
THEOREM CapturedIsAlwaysRead == Spec => []CapturedIsRead
<1>1. TypeOK /\ Inactive /\ ReaderInv /\ SessionInv /\ ModeInv => CapturedIsRead
  <2> SUFFICES ASSUME TypeOK, Inactive, ReaderInv, SessionInv, ModeInv, mode = "tunnel"
               PROVE  \E s \in Sessions :
                        reader[s] = "loop" /\ (s \in detached \/ (s = session /\ active))
    BY DEF CapturedIsRead
  <2>1. PICK s \in Sessions : reader[s] = "loop"
    BY DEF ModeInv
  <2>2. s \in Nat /\ session \in Nat /\ s <= session
    BY <2>1 DEF TypeOK, HostTypes, ThreadTypes, Sessions
  <2>3. s \in detached \/ (s = session /\ active)
    BY <2>1, <2>2 DEF ReaderInv, Alive, BetweenSessions, SessionInv, TypeOK, HostTypes,
       StartSteps, CloseSteps
  <2> QED BY <2>1, <2>3
<1> QED BY <1>1, TypeCorrect, AdapterInit, AdapterStep, ReaderInit, ReaderInvStep, SessionInit,
           SessionStep, ModeStep, PTL DEF Spec

\* close waits only for threads it has stopped: the safety of its liveness.
THEOREM JoinedAreStopped == Spec => []JoinedWereStopped
<1>1. SessionInv /\ WatcherInv => JoinedWereStopped
  BY DEF SessionInv, WatcherInv, JoinedWereStopped
<1> QED BY <1>1, TypeCorrect, AdapterInit, AdapterStep, SessionInit, SessionStep, WatcherStep,
           PTL DEF Spec
=============================================================================
