-------------------------- MODULE AutoRouterProofs --------------------------
(***************************************************************************)
(* Safety of auto-routing for every number of workers, game servers and    *)
(* relays. Each invariant is inductive together with TypeOK and one fact   *)
(* about what the lookup task holds at a given program point.              *)
(***************************************************************************)
EXTENDS AutoRouter, TLAPS

USE DEF gateVars, routeVars, workerVars, taskVars, outVars

-----------------------------------------------------------------------------
\* Every variable has its type in the initial states.
LEMMA TypeInit == Init => TypeOK
<1> SUFFICES ASSUME Init PROVE TypeOK
  OBVIOUS
<1>1. FlagsOK
  BY Zenon DEF Init, FlagsOK
<1>2. RouterOK
  BY RoutingAssumption DEF Init, RouterOK
<1>3. WorkersOK
  BY DEF Init, WorkersOK, WorkerPc
<1>4. channel \in Seq(Lookup) /\ tpc \in TaskPc
  BY DEF Init, TaskPc
<1>5. JobOK
  BY DEF Init, JobOK, NoJob, JobHasServer, JobHasRegion, JobHasChoice
<1> QED BY <1>1, <1>2, <1>3, <1>4, <1>5 DEF TypeOK

\* A step keeps the flags Boolean.
LEMMA FlagsStep == TypeOK /\ [Next]_vars => FlagsOK'
<1> SUFFICES ASSUME TypeOK, [Next]_vars PROVE FlagsOK'
  OBVIOUS
<1> USE DEF TypeOK, FlagsOK
<1>1. CASE \E w \in Workers, ip \in GameServers : Evaluate(w, ip)
  BY <1>1, Zenon DEF Evaluate
<1>2. ASSUME NEW w \in Workers, WorkerStep(w) PROVE FlagsOK'
  <2>1. CASE InsertPending(w)
    BY <2>1, Zenon DEF InsertPending
  <2>2. CASE MarkSeen(w)
    BY <2>2, Zenon DEF MarkSeen
  <2>3. CASE ReadEpoch(w)
    BY <2>3, Zenon DEF ReadEpoch
  <2>4. CASE SendRequest(w)
    BY <2>4, Zenon DEF SendRequest
  <2> QED BY <1>2, <2>1, <2>2, <2>3, <2>4 DEF WorkerStep
<1>3. CASE TaskStep
  <2>1. CASE SelectCandidates
    <3>1. bypassed' \in BOOLEAN
      BY <2>1, SMT DEF SelectCandidates
    <3>2. UNCHANGED <<enabled, pending_any>>
      BY <2>1, SMT DEF SelectCandidates
    <3> QED BY <3>1, <3>2, Zenon
  <2>2. CASE LowerPendingAny
    BY <2>2, Zenon DEF LowerPendingAny
  <2>3. CASE ~SelectCandidates /\ ~LowerPendingAny
    BY <1>3, <2>3, Zenon DEF TaskStep, Receive, LookupResolved, LookupFailed, CheckResult,
       PingDone, CommitSwitch, SwitchRelay, FireSwitched, RemovePending, RecheckPending
  <2> QED BY <2>1, <2>2, <2>3
<1>4. CASE OwnerStep
  BY <1>4, Zenon DEF OwnerStep, ResetRoute, ResetGates, CloseDriver
<1>5. CASE \E ip \in GameServers : GoesQuiet(ip)
  BY <1>5, Zenon DEF GoesQuiet
<1>6. CASE UNCHANGED vars
  BY <1>6, Zenon DEF vars
<1> QED BY <1>1, <1>2, <1>3, <1>4, <1>5, <1>6 DEF Next

\* A step keeps what the workers hold typed.
LEMMA WorkersStep == TypeOK /\ [Next]_vars => WorkersOK'
<1> SUFFICES ASSUME TypeOK, [Next]_vars PROVE WorkersOK'
  OBVIOUS
<1> USE DEF TypeOK, WorkersOK, WorkerPc
<1>1. ASSUME NEW w \in Workers, NEW ip \in GameServers, Evaluate(w, ip)
      PROVE  WorkersOK'
  BY <1>1 DEF Evaluate
<1>2. ASSUME NEW w \in Workers, WorkerStep(w) PROVE WorkersOK'
  <2>1. CASE MarkSeen(w) BY <2>1 DEF MarkSeen
  <2>2. CASE ReadEpoch(w) BY <2>2 DEF ReadEpoch, RouterOK
  <2>3. CASE InsertPending(w) BY <2>3 DEF InsertPending
  <2>4. CASE SendRequest(w) BY <2>4 DEF SendRequest
  <2> QED BY <1>2, <2>1, <2>2, <2>3, <2>4 DEF WorkerStep
<1>3. CASE UNCHANGED workerVars
  BY <1>3
<1>4. CASE TaskStep
  BY <1>3, <1>4 DEF TaskStep, Receive, LookupResolved, LookupFailed, CheckResult,
     SelectCandidates, PingDone, CommitSwitch, SwitchRelay, FireSwitched, RemovePending,
     RecheckPending, LowerPendingAny
<1>5. CASE OwnerStep
  BY <1>3, <1>5 DEF OwnerStep, ResetRoute, ResetGates, CloseDriver
<1>6. CASE \E ip \in GameServers : GoesQuiet(ip)
  BY <1>3, <1>6 DEF GoesQuiet
<1>7. CASE UNCHANGED vars
  BY <1>3, <1>7 DEF vars
<1> QED BY <1>1, <1>2, <1>4, <1>5, <1>6, <1>7 DEF Next

\* A step keeps what the lookup task holds typed.
LEMMA TaskOKStep ==
  TypeOK /\ [Next]_vars => channel' \in Seq(Lookup) /\ tpc' \in TaskPc /\ JobOK'
<1> DEFINE Goal == channel' \in Seq(Lookup) /\ tpc' \in TaskPc /\ JobOK'
<1> SUFFICES ASSUME TypeOK, [Next]_vars PROVE Goal
  OBVIOUS
<1> USE DEF TypeOK, JobOK, TaskPc, JobHasServer, JobHasRegion, JobHasChoice, NoJob, Finished
<1>1. ASSUME NEW w \in Workers, NEW ip \in GameServers, Evaluate(w, ip) PROVE Goal
  BY <1>1 DEF Evaluate, Candidates
<1>2. ASSUME NEW w \in Workers, WorkerStep(w) PROVE Goal
  <2>1. CASE SendRequest(w)
    BY <2>1 DEF SendRequest, Request, Lookup, WorkersOK, Candidates
  <2>2. CASE ~SendRequest(w)
    BY <1>2, <2>2 DEF WorkerStep, MarkSeen, ReadEpoch, InsertPending, Candidates
  <2> QED BY <2>1, <2>2
<1>3. CASE TaskStep
  <2>1. CASE Receive
    <3>1. Head(channel) \in Lookup /\ Tail(channel) \in Seq(Lookup)
      BY <2>1 DEF Receive
    <3>2. CASE UNCHANGED taskVars
      BY <2>1, <3>1, <3>2 DEF Receive, Candidates
    <3>3. CASE ~UNCHANGED taskVars
      <4>1. /\ tpc' \in {"lookup", "remove"}
            /\ job' = [NoJob EXCEPT !.ip = Head(channel).ip, !.epoch = Head(channel).epoch]
        BY <2>1, <3>3 DEF Receive
      <4> QED BY <2>1, <3>1, <4>1 DEF Receive, Lookup
    <3> QED BY <3>2, <3>3
  <2>2. CASE LookupResolved BY <2>2, RoutingAssumption DEF LookupResolved, Candidates
  <2>3. CASE LookupFailed BY <2>3 DEF LookupFailed
  <2>4. CASE CheckResult BY <2>4 DEF CheckResult
  <2>5. CASE SelectCandidates BY <2>5 DEF SelectCandidates, RouterOK
  <2>6. ASSUME NEW r \in Available, NEW faster \in BOOLEAN, PingDone(r, faster)
        PROVE Goal
    BY <2>6 DEF PingDone, Candidates
  <2>7. ASSUME NEW cooling \in BOOLEAN, NEW windowOver \in BOOLEAN,
               CommitSwitch(cooling, windowOver)
        PROVE Goal
    BY <2>7 DEF CommitSwitch, Candidates
  <2>8. CASE SwitchRelay BY <2>8 DEF SwitchRelay, Candidates
  <2>9. CASE FireSwitched BY <2>9 DEF FireSwitched
  <2>10. CASE RemovePending BY <2>10 DEF RemovePending
  <2>11. CASE RecheckPending BY <2>11 DEF RecheckPending
  <2>12. CASE LowerPendingAny BY <2>12 DEF LowerPendingAny
  <2> QED BY <1>3, <2>1, <2>2, <2>3, <2>4, <2>5, <2>6, <2>7, <2>8, <2>9, <2>10,
             <2>11, <2>12 DEF TaskStep
<1>4. CASE OwnerStep
  BY <1>4 DEF OwnerStep, ResetRoute, ResetGates, CloseDriver, Candidates
<1>5. CASE \E ip \in GameServers : GoesQuiet(ip)
  BY <1>5 DEF GoesQuiet, Candidates
<1>6. CASE UNCHANGED vars
  BY <1>6 DEF vars, Candidates
<1> QED BY <1>1, <1>2, <1>3, <1>4, <1>5, <1>6 DEF Next

\* A step keeps the router's fields typed.
LEMMA RouterStep == TypeOK /\ [Next]_vars => RouterOK'
<1> SUFFICES ASSUME TypeOK, [Next]_vars PROVE RouterOK'
  OBVIOUS
<1> USE RoutingAssumption DEF TypeOK, RouterOK
<1>1. ASSUME NEW w \in Workers, NEW ip \in GameServers, Evaluate(w, ip)
      PROVE  RouterOK'
  BY <1>1 DEF Evaluate
<1>2. ASSUME NEW w \in Workers, WorkerStep(w) PROVE RouterOK'
  <2>1. wpc[w] # "idle" => target[w] \in GameServers
    BY DEF WorkersOK
  <2> QED BY <1>2, <2>1 DEF WorkerStep, MarkSeen, ReadEpoch, InsertPending, SendRequest
<1>3. CASE TaskStep
  <2>1. CASE SelectCandidates
    BY <2>1 DEF SelectCandidates, JobOK, JobHasRegion
  <2>2. ASSUME NEW cooling \in BOOLEAN, NEW windowOver \in BOOLEAN,
               CommitSwitch(cooling, windowOver)
        PROVE RouterOK'
    <3>1. job.choice \in Available /\ job.region \in GameRegions /\ job.ip \in GameServers
      BY <2>2 DEF CommitSwitch, JobOK, JobHasServer, JobHasRegion, JobHasChoice, Candidates
    <3>2. AddrOf[job.choice] \in Addrs /\ job.choice \in RegionNames
      BY <3>1
    <3>3. CASE SwitchPermitted(job.choice, cooling, windowOver)
      <4>1. UsedInWindow(windowOver) + 1 \in 0..MaxSwitches
        BY <3>3 DEF SwitchPermitted, UsedInWindow
      <4> QED BY <2>2, <3>1, <3>2, <3>3, <4>1 DEF CommitSwitch
    <3>4. CASE ~SwitchPermitted(job.choice, cooling, windowOver)
      BY <2>2, <3>4 DEF CommitSwitch
    <3> QED BY <3>3, <3>4
  <2>3. CASE SwitchRelay
    BY <2>3 DEF SwitchRelay, JobOK, JobHasChoice, Candidates
  <2>4. CASE FireSwitched
    <3>1. job.from \in RegionNames \cup {None} /\ job.choice \in RegionNames
      BY <2>4 DEF FireSwitched, JobOK, JobHasChoice, Candidates
    <3> QED BY <2>4, <3>1 DEF FireSwitched
  <2>5. CASE RemovePending
    BY <2>5 DEF RemovePending
  <2>6. CASE \/ Receive \/ LookupResolved \/ LookupFailed \/ CheckResult
             \/ \E r \in Available, faster \in BOOLEAN : PingDone(r, faster)
             \/ RecheckPending \/ LowerPendingAny
    BY <2>6 DEF Receive, LookupResolved, LookupFailed, CheckResult, PingDone,
       RecheckPending, LowerPendingAny
  <2> QED BY <1>3, <2>1, <2>2, <2>3, <2>4, <2>5, <2>6 DEF TaskStep
<1>4. CASE OwnerStep
  BY <1>4 DEF OwnerStep, ResetRoute, ResetGates, CloseDriver
<1>5. CASE \E ip \in GameServers : GoesQuiet(ip)
  BY <1>5 DEF GoesQuiet
<1>6. CASE UNCHANGED vars
  BY <1>6 DEF vars
<1> QED BY <1>1, <1>2, <1>3, <1>4, <1>5, <1>6 DEF Next

\* The router, its workers and the lookup task keep to their types, and the switch
\* window never counts more than MAX_SWITCHES_PER_MINUTE switches (record_switch).
THEOREM TypeCorrect == Spec => []TypeOK
<1>1. TypeOK /\ [Next]_vars => TypeOK'
  BY FlagsStep, WorkersStep, TaskOKStep, RouterStep DEF TypeOK
<1> QED BY TypeInit, <1>1, PTL DEF Spec

-----------------------------------------------------------------------------
\* Packets are held for a game server only while its lookup is underway: in a worker
\* about to send it, in the channel, or in the lookup task (run_packet_worker,
\* evaluate_game_server, clear_pending_lookup, reset).
THEOREM PendingLookups == Spec => []PendingHasLookup
<1>1. Init => PendingHasLookup
  BY DEF Init, PendingHasLookup
<1>2. TypeOK /\ PendingHasLookup /\ [Next]_vars => PendingHasLookup'
  <2> SUFFICES ASSUME TypeOK, PendingHasLookup, [Next]_vars,
                      NEW ip \in pending'
               PROVE  LookupUnderway(ip)'
    BY DEF PendingHasLookup
  <2>0. ip \in pending => LookupUnderway(ip)
    BY DEF PendingHasLookup
  <2> USE DEF LookupUnderway
  <2>1. ASSUME NEW w \in Workers, NEW g \in GameServers, Evaluate(w, g)
        PROVE  LookupUnderway(ip)'
    BY <2>0, <2>1 DEF Evaluate, TypeOK, WorkersOK
  <2>2. ASSUME NEW w \in Workers, WorkerStep(w) PROVE LookupUnderway(ip)'
    <3>1. CASE MarkSeen(w)
      BY <2>0, <3>1 DEF MarkSeen, TypeOK, WorkersOK
    <3>2. CASE ReadEpoch(w)
      BY <2>0, <3>2 DEF ReadEpoch, TypeOK, WorkersOK
    <3>3. CASE InsertPending(w)
      BY <2>0, <3>3 DEF InsertPending, TypeOK, WorkersOK
    <3>4. CASE SendRequest(w)
      <4>1. channel \in Seq(Lookup) /\ Request(w) \in Lookup
        BY <3>4 DEF SendRequest, Request, Lookup, TypeOK, WorkersOK
      <4>2. /\ Len(channel') = Len(channel) + 1
            /\ \A i \in 1..Len(channel) : channel'[i] = channel[i]
            /\ channel'[Len(channel) + 1] = Request(w)
        BY <3>4, <4>1 DEF SendRequest
      <4>3. Len(channel) \in Nat
        BY <4>1
      <4>4. ip \in pending
        BY <3>4 DEF SendRequest
      <4>5. CASE \E i \in 1..Len(channel) : channel[i].ip = ip
        BY <4>2, <4>3, <4>5
      <4>6. CASE \E v \in Workers : wpc[v] = "send" /\ target[v] = ip
        <5>1. PICK v \in Workers : wpc[v] = "send" /\ target[v] = ip
          BY <4>6
        <5>2. CASE v = w
          <6>1. channel'[Len(channel) + 1].ip = ip
            BY <4>2, <5>1, <5>2 DEF Request
          <6> QED BY <4>2, <4>3, <6>1
        <5>3. CASE v # w
          BY <3>4, <5>1, <5>3 DEF SendRequest, TypeOK, WorkersOK
        <5> QED BY <5>2, <5>3
      <4>7. CASE tpc \notin {"recv", "recheck", "lower"} /\ job.ip = ip
        BY <3>4, <4>7 DEF SendRequest
      <4> QED BY <2>0, <4>4, <4>5, <4>6, <4>7
    <3> QED BY <2>2, <3>1, <3>2, <3>3, <3>4 DEF WorkerStep
  <2>3. CASE TaskStep
    <3>1. CASE Receive
      <4>1. /\ ip \in pending /\ tpc = "recv" /\ channel # <<>>
            /\ channel \in Seq(Lookup) /\ channel' = Tail(channel)
            /\ UNCHANGED workerVars
        BY <3>1 DEF Receive, TypeOK
      <4>2. /\ Len(channel) \in Nat \ {0} /\ Len(channel') = Len(channel) - 1
            /\ \A i \in 1..Len(channel') : channel'[i] = channel[i + 1]
            /\ Head(channel) = channel[1] /\ channel[1] \in Lookup
        BY <4>1
      <4>3. CASE \E v \in Workers : wpc[v] = "send" /\ target[v] = ip
        BY <4>1, <4>3
      <4>4. CASE \E i \in 1..Len(channel) : channel[i].ip = ip
        <5>1. PICK i \in 1..Len(channel) : channel[i].ip = ip
          BY <4>4
        <5>2. CASE i = 1
          <6>1. ip = Head(channel).ip
            BY <4>2, <5>1, <5>2
          <6>2. ~UNCHANGED taskVars \/ tpc' \in {"lookup", "remove"}
            BY <3>1, <4>1, <6>1 DEF Receive
          <6>3. /\ tpc' \in {"lookup", "remove"}
                /\ job' = [NoJob EXCEPT !.ip = Head(channel).ip, !.epoch = Head(channel).epoch]
            BY <3>1, <4>1, <6>1 DEF Receive
          <6>4. job'.ip = ip
            BY <6>1, <6>3 DEF NoJob
          <6> QED BY <6>3, <6>4
        <5>3. CASE i # 1
          <6>1. i - 1 \in 1..Len(channel') /\ channel'[i - 1] = channel[i]
            BY <4>2, <5>3
          <6> QED BY <5>1, <6>1
        <5> QED BY <5>2, <5>3
      <4> QED BY <2>0, <4>1, <4>3, <4>4
    <3>2. CASE RemovePending
      BY <2>0, <3>2 DEF RemovePending, TypeOK
    <3>3. CASE \/ LookupResolved \/ LookupFailed \/ CheckResult \/ SelectCandidates
               \/ \E r \in Available, faster \in BOOLEAN : PingDone(r, faster)
               \/ \E cooling, windowOver \in BOOLEAN : CommitSwitch(cooling, windowOver)
               \/ SwitchRelay \/ FireSwitched
      <4>1. UNCHANGED <<pending, channel, workerVars>>
        BY <3>3 DEF LookupResolved, LookupFailed, CheckResult, SelectCandidates, PingDone,
           CommitSwitch, SwitchRelay, FireSwitched
      <4>2. tpc' \notin {"recv", "recheck", "lower"}
        BY <3>3 DEF LookupResolved, LookupFailed, CheckResult, SelectCandidates, PingDone,
           CommitSwitch, SwitchRelay, FireSwitched
      <4>3. job'.ip = job.ip
        BY <3>3 DEF LookupResolved, LookupFailed, CheckResult, SelectCandidates, PingDone,
           CommitSwitch, SwitchRelay, FireSwitched, TypeOK, JobOK, Finished, NoJob
      <4> QED BY <2>0, <4>1, <4>2, <4>3
    <3>4. CASE RecheckPending \/ LowerPendingAny
      BY <2>0, <3>4 DEF RecheckPending, LowerPendingAny
    <3> QED BY <2>3, <3>1, <3>2, <3>3, <3>4 DEF TaskStep
  <2>4. CASE OwnerStep
    BY <2>0, <2>4 DEF OwnerStep, ResetRoute, ResetGates, CloseDriver
  <2>5. CASE \E g \in GameServers : GoesQuiet(g)
    BY <2>0, <2>5 DEF GoesQuiet
  <2>6. CASE UNCHANGED vars
    BY <2>0, <2>6 DEF vars
  <2> QED BY <2>1, <2>2, <2>3, <2>4, <2>5, <2>6 DEF Next
<1> QED BY <1>1, <1>2, TypeCorrect, PTL DEF Spec

-----------------------------------------------------------------------------
\* The gate pending_any is never left up by accident: with no server pending it is
\* up only while the lookup task or a reset is about to lower it
\* (clear_pending_lookup, reset).
THEOREM NoOrphanBlocks == Spec => []NoOrphanBlock
<1>1. Init => NoOrphanBlock
  BY Zenon DEF Init, NoOrphanBlock
<1>2. TypeOK /\ NoOrphanBlock /\ [Next]_vars => NoOrphanBlock'
  <2> SUFFICES ASSUME TypeOK, NoOrphanBlock, [Next]_vars PROVE NoOrphanBlock'
    OBVIOUS
  <2> USE DEF NoOrphanBlock
  <2>1. ASSUME NEW w \in Workers, NEW g \in GameServers, Evaluate(w, g)
        PROVE  NoOrphanBlock'
    BY <2>1, Zenon DEF Evaluate
  <2>2. ASSUME NEW w \in Workers, WorkerStep(w) PROVE NoOrphanBlock'
    <3>1. CASE InsertPending(w)
      <4>1. CASE pending' = pending \cup {target[w]}
        BY <4>1
      <4>2. CASE UNCHANGED <<pending, pending_any>>
        BY <3>1, <4>2, Zenon DEF InsertPending
      <4> QED BY <3>1, <4>1, <4>2, Zenon DEF InsertPending
    <3>2. CASE MarkSeen(w) \/ ReadEpoch(w) \/ SendRequest(w)
      BY <3>2, Zenon DEF MarkSeen, ReadEpoch, SendRequest
    <3> QED BY <2>2, <3>1, <3>2, Zenon DEF WorkerStep
  <2>3. CASE TaskStep
    <3>1. CASE RecheckPending
      BY <3>1 DEF RecheckPending
    <3>2. CASE RemovePending
      BY <3>2, Zenon DEF RemovePending
    <3>3. CASE LowerPendingAny
      BY <3>3, Zenon DEF LowerPendingAny
    <3>4. CASE \/ Receive \/ LookupResolved \/ LookupFailed \/ CheckResult
               \/ SelectCandidates
               \/ \E r \in Available, faster \in BOOLEAN : PingDone(r, faster)
               \/ \E cooling, windowOver \in BOOLEAN : CommitSwitch(cooling, windowOver)
               \/ SwitchRelay \/ FireSwitched
      <4>1. UNCHANGED <<pending, pending_any, session>>
        BY <3>4, Zenon DEF Receive, LookupResolved, LookupFailed, CheckResult,
           SelectCandidates, PingDone, CommitSwitch, SwitchRelay, FireSwitched
      <4>2. tpc \notin {"recheck", "lower"}
        BY <3>4 DEF Receive, LookupResolved, LookupFailed, CheckResult,
           SelectCandidates, PingDone, CommitSwitch, SwitchRelay, FireSwitched
      <4> QED BY <4>1, <4>2, Zenon
    <3> QED BY <2>3, <3>1, <3>2, <3>3, <3>4, Zenon DEF TaskStep
  <2>4. CASE OwnerStep
    <3>1. CASE ResetRoute
      BY <3>1 DEF ResetRoute
    <3>2. CASE ResetGates
      BY <3>2, Zenon DEF ResetGates
    <3>3. CASE CloseDriver
      <4>1. session # "resetting" /\ UNCHANGED <<pending, pending_any, tpc>>
        BY <3>3 DEF CloseDriver
      <4> QED BY <4>1, Zenon
    <3> QED BY <2>4, <3>1, <3>2, <3>3, Zenon DEF OwnerStep
  <2>5. CASE \E g \in GameServers : GoesQuiet(g)
    <3>1. UNCHANGED <<pending, pending_any, tpc, session>>
      BY <2>5, Zenon DEF GoesQuiet
    <3> QED BY <3>1, Zenon
  <2>6. CASE UNCHANGED vars
    BY <2>6, Zenon DEF vars
  <2> QED BY <2>1, <2>2, <2>3, <2>4, <2>5, <2>6, Zenon DEF Next
<1> QED BY <1>1, <1>2, TypeCorrect, PTL DEF Spec

-----------------------------------------------------------------------------
\* The reported game region is one the current relay serves or one the user
\* whitelisted (get_candidates_for_region, record_switch).
THEOREM RegionServesGames == Spec => []RegionServesGame
<1>1. Init => RegionServesGame
  BY DEF Init, RegionServesGame
<1>2. TypeOK /\ RegionServesGame /\ [Next]_vars => RegionServesGame'
  <2> SUFFICES ASSUME TypeOK, RegionServesGame, [Next]_vars PROVE RegionServesGame'
    OBVIOUS
  <2> USE DEF RegionServesGame
  <2>1. CASE UNCHANGED <<current_game_region, current_st_region>>
    BY <2>1
  <2>2. CASE SelectCandidates
    BY <2>2 DEF SelectCandidates
  <2>3. ASSUME NEW cooling \in BOOLEAN, NEW windowOver \in BOOLEAN,
               CommitSwitch(cooling, windowOver)
        PROVE  RegionServesGame'
    <3>1. job.choice \in Candidates(job.region)
      BY <2>3 DEF CommitSwitch, TypeOK, JobOK, JobHasChoice
    <3>2. CASE SwitchPermitted(job.choice, cooling, windowOver)
      BY <2>3, <3>1, <3>2 DEF CommitSwitch, Candidates
    <3>3. CASE ~SwitchPermitted(job.choice, cooling, windowOver)
      BY <2>1, <2>3, <3>3 DEF CommitSwitch
    <3> QED BY <3>2, <3>3
  <2>4. CASE ResetRoute
    BY <2>4 DEF ResetRoute
  <2>5. CASE \/ \E w \in Workers, g \in GameServers : Evaluate(w, g)
             \/ \E w \in Workers : WorkerStep(w)
             \/ ResetGates \/ CloseDriver
             \/ \E g \in GameServers : GoesQuiet(g)
             \/ UNCHANGED vars
    BY <2>1, <2>5 DEF Evaluate, WorkerStep, MarkSeen, ReadEpoch, InsertPending,
       SendRequest, ResetGates, CloseDriver, GoesQuiet, vars
  <2>6. CASE \/ Receive \/ LookupResolved \/ LookupFailed \/ CheckResult
             \/ \E r \in Available, faster \in BOOLEAN : PingDone(r, faster)
             \/ SwitchRelay \/ FireSwitched \/ RemovePending \/ RecheckPending
             \/ LowerPendingAny
    BY <2>1, <2>6 DEF Receive, LookupResolved, LookupFailed, CheckResult, PingDone,
       SwitchRelay, FireSwitched, RemovePending, RecheckPending, LowerPendingAny
  <2> QED BY <2>2, <2>3, <2>4, <2>5, <2>6 DEF Next, TaskStep, OwnerStep
<1> QED BY <1>1, <1>2, TypeCorrect, PTL DEF Spec

-----------------------------------------------------------------------------
\* Between commit_switch and switch_relay the router is ahead of the UdpRelay by the
\* switch the task holds; or a reset has forgotten the address in between.
SwitchInHand == tpc = "switch" => current_relay_addr \in {AddrOf[job.choice], None}

\* The router's relay address and the UdpRelay's agree, except for the step between
\* commit_switch and switch_relay.
THEOREM RelaysAlwaysAgree == Spec => []RelaysAgree
<1> DEFINE Inv == RelaysAgree /\ SwitchInHand
<1>1. Init => Inv
  BY DEF Init, RelaysAgree, SwitchInHand
<1>2. TypeOK /\ Inv /\ [Next]_vars => Inv'
  <2> SUFFICES ASSUME TypeOK, Inv, [Next]_vars PROVE Inv'
    OBVIOUS
  <2> USE DEF RelaysAgree, SwitchInHand
  <2>1. CASE UNCHANGED <<current_relay_addr, relay_addr, tpc, job>>
    BY <2>1
  <2>2. ASSUME NEW cooling \in BOOLEAN, NEW windowOver \in BOOLEAN,
               CommitSwitch(cooling, windowOver)
        PROVE  Inv'
    BY <2>2 DEF CommitSwitch
  <2>3. CASE SwitchRelay
    BY <2>3 DEF SwitchRelay
  <2>4. CASE ResetRoute
    BY <2>4 DEF ResetRoute
  <2>5. CASE \/ \E w \in Workers, g \in GameServers : Evaluate(w, g)
             \/ \E w \in Workers : WorkerStep(w)
             \/ ResetGates \/ CloseDriver
             \/ \E g \in GameServers : GoesQuiet(g)
             \/ UNCHANGED vars
    BY <2>1, <2>5 DEF Evaluate, WorkerStep, MarkSeen, ReadEpoch, InsertPending,
       SendRequest, ResetGates, CloseDriver, GoesQuiet, vars
  <2>6. CASE \/ Receive \/ LookupResolved \/ LookupFailed \/ CheckResult
             \/ SelectCandidates
             \/ \E r \in Available, faster \in BOOLEAN : PingDone(r, faster)
             \/ FireSwitched \/ RemovePending \/ RecheckPending \/ LowerPendingAny
    <3>1. UNCHANGED <<current_relay_addr, relay_addr>> /\ tpc # "switch"
      BY <2>6 DEF Receive, LookupResolved, LookupFailed, CheckResult, SelectCandidates,
         PingDone, FireSwitched, RemovePending, RecheckPending, LowerPendingAny
    <3>2. tpc' # "switch"
      BY <2>6 DEF Receive, LookupResolved, LookupFailed, CheckResult, SelectCandidates,
         PingDone, FireSwitched, RemovePending, RecheckPending, LowerPendingAny
    <3> QED BY <3>1, <3>2
  <2> QED BY <2>2, <2>3, <2>4, <2>5, <2>6 DEF Next, TaskStep, OwnerStep
<1> QED BY <1>1, <1>2, TypeCorrect, PTL DEF Spec

-----------------------------------------------------------------------------
\* A game that is being moved to a tunneled region is not bypassed any more.
MovingMeansTunneled == tpc \in {"ping", "commit"} => ~bypassed

\* The bypass sends game packets outside the tunnel only while the game is in a
\* whitelisted region (get_candidates_for_region, record_switch, reset).
THEOREM BypassedIsWhitelisted == Spec => []BypassOnlyForWhitelisted
<1> DEFINE Inv == BypassOnlyForWhitelisted /\ MovingMeansTunneled
<1>1. Init => Inv
  BY DEF Init, BypassOnlyForWhitelisted, MovingMeansTunneled
<1>2. TypeOK /\ Inv /\ [Next]_vars => Inv'
  <2> SUFFICES ASSUME TypeOK, Inv, [Next]_vars PROVE Inv'
    OBVIOUS
  <2> USE DEF BypassOnlyForWhitelisted, MovingMeansTunneled
  <2>1. CASE UNCHANGED <<bypassed, current_game_region>>
             /\ (tpc' \in {"ping", "commit"} => tpc \in {"ping", "commit"})
    BY <2>1, Zenon
  <2>2. CASE SelectCandidates
    <3>1. bypassed' = (job.region \in Whitelisted)
      BY <2>2, Zenon DEF SelectCandidates
    <3>2. job.region \in Whitelisted => current_game_region' = job.region /\ tpc' = "remove"
      BY <2>2, SMT DEF SelectCandidates
    <3> QED BY <3>1, <3>2
  <2>3. ASSUME NEW cooling \in BOOLEAN, NEW windowOver \in BOOLEAN,
               CommitSwitch(cooling, windowOver)
        PROVE  Inv'
    <3>1. bypassed' = bypassed /\ tpc = "commit"
      BY <2>3, Zenon DEF CommitSwitch
    <3>2. ~bypassed'
      BY <3>1, Zenon
    <3> QED BY <3>2, Zenon
  <2>4. CASE ResetRoute
    <3>1. UNCHANGED <<bypassed, tpc>> /\ current_game_region' = None
      BY <2>4, Zenon DEF ResetRoute
    <3> QED BY <3>1, Zenon
  <2>5. CASE ResetGates
    BY <2>5, Zenon DEF ResetGates
  <2>6. CASE \/ \E w \in Workers, g \in GameServers : Evaluate(w, g)
             \/ \E w \in Workers : WorkerStep(w)
             \/ CloseDriver
             \/ \E g \in GameServers : GoesQuiet(g)
             \/ UNCHANGED vars
    <3>1. UNCHANGED <<bypassed, current_game_region, tpc>>
      BY <2>6, Zenon DEF Evaluate, WorkerStep, MarkSeen, ReadEpoch, InsertPending,
         SendRequest, CloseDriver, GoesQuiet, vars
    <3> QED BY <2>1, <3>1, Zenon
  <2>7. CASE \/ Receive \/ LookupResolved \/ LookupFailed \/ CheckResult
             \/ \E r \in Available, faster \in BOOLEAN : PingDone(r, faster)
             \/ SwitchRelay \/ FireSwitched \/ RemovePending \/ RecheckPending
             \/ LowerPendingAny
    <3>1. UNCHANGED <<bypassed, current_game_region>>
      BY <2>7, Zenon DEF Receive, LookupResolved, LookupFailed, CheckResult, PingDone,
         SwitchRelay, FireSwitched, RemovePending, RecheckPending, LowerPendingAny
    <3>2. tpc' \in {"ping", "commit"} => tpc \in {"ping", "commit"}
      BY <2>7 DEF Receive, LookupResolved, LookupFailed, CheckResult, PingDone,
         SwitchRelay, FireSwitched, RemovePending, RecheckPending, LowerPendingAny
    <3> QED BY <2>1, <3>1, <3>2, Zenon
  <2> QED BY <2>2, <2>3, <2>4, <2>5, <2>6, <2>7, Zenon DEF Next, TaskStep, OwnerStep
<1> QED BY <1>1, <1>2, TypeCorrect, PTL DEF Spec

-----------------------------------------------------------------------------
\* What links the job's old region, read before the ping await, to the region the
\* application last heard of.
EventInv ==
  /\ tpc \in {"ping", "commit"} => job.from = current_st_region
  /\ IF tpc \in {"switch", "fire"}
     THEN job.from = lastEvent.to /\ job.choice = current_st_region
     ELSE lastEvent.to = current_st_region

LEMMA EventInit == Init => EventInv
  BY DEF Init, EventInv

LEMMA EventStep == TypeOK /\ EventInv /\ [Next]_vars => EventInv'
<1> SUFFICES ASSUME TypeOK, EventInv, [Next]_vars PROVE EventInv'
  OBVIOUS
<1> USE DEF EventInv
<1>1. CASE UNCHANGED <<tpc, job, lastEvent, current_st_region>>
  BY <1>1
<1>2. CASE SelectCandidates
  BY <1>2 DEF SelectCandidates, Finished, NoJob, TypeOK, JobOK
<1>3. ASSUME NEW r \in Available, NEW faster \in BOOLEAN, PingDone(r, faster)
      PROVE  EventInv'
  BY <1>3 DEF PingDone, Finished, NoJob, TypeOK, JobOK
<1>4. ASSUME NEW cooling \in BOOLEAN, NEW windowOver \in BOOLEAN,
             CommitSwitch(cooling, windowOver)
      PROVE  EventInv'
  BY <1>4 DEF CommitSwitch
<1>5. CASE SwitchRelay
  BY <1>5 DEF SwitchRelay
<1>6. CASE FireSwitched
  BY <1>6 DEF FireSwitched
<1>7. CASE \/ Receive \/ LookupResolved \/ LookupFailed \/ CheckResult
           \/ RemovePending \/ RecheckPending \/ LowerPendingAny
  <2>1. UNCHANGED <<lastEvent, current_st_region>>
    BY <1>7 DEF Receive, LookupResolved, LookupFailed, CheckResult, RemovePending,
       RecheckPending, LowerPendingAny
  <2>2. tpc \notin {"switch", "fire"} /\ tpc' \notin {"ping", "commit", "switch", "fire"}
    BY <1>7 DEF Receive, LookupResolved, LookupFailed, CheckResult, RemovePending,
       RecheckPending, LowerPendingAny
  <2> QED BY <2>1, <2>2
<1>8. CASE \/ \E w \in Workers, g \in GameServers : Evaluate(w, g)
           \/ \E w \in Workers : WorkerStep(w)
           \/ OwnerStep
           \/ \E g \in GameServers : GoesQuiet(g)
           \/ UNCHANGED vars
  BY <1>1, <1>8 DEF Evaluate, WorkerStep, MarkSeen, ReadEpoch, InsertPending,
     SendRequest, OwnerStep, ResetRoute, ResetGates, CloseDriver, GoesQuiet, vars
<1> QED BY <1>2, <1>3, <1>4, <1>5, <1>6, <1>7, <1>8 DEF Next, TaskStep

\* The relay_switched events form a chain: each starts at the region the one before
\* ended at (the lookup task of setup_split_tunnel).
THEOREM EventsAlwaysChain == Spec => EventsChain
<1>1. EventInv /\ [Next]_vars => [lastEvent'.from = lastEvent.to]_lastEvent
  <2> SUFFICES ASSUME EventInv, [Next]_vars, lastEvent' # lastEvent
               PROVE  lastEvent'.from = lastEvent.to
    OBVIOUS
  <2>1. FireSwitched
    BY DEF Next, Evaluate, WorkerStep, MarkSeen, ReadEpoch, InsertPending, SendRequest,
       TaskStep, Receive, LookupResolved, LookupFailed, CheckResult, SelectCandidates,
       PingDone, CommitSwitch, SwitchRelay, RemovePending, RecheckPending,
       LowerPendingAny, OwnerStep, ResetRoute, ResetGates, CloseDriver, GoesQuiet, vars
  <2> QED BY <2>1 DEF FireSwitched, EventInv
<1> QED BY <1>1, EventInit, EventStep, TypeCorrect, PTL DEF Spec, EventsChain

-----------------------------------------------------------------------------
(* The refinement of RelayRoute *)

routeSteps == <<tpc, job, relay_addr, lastEvent>>

\* commit_switch decides on an available region other than the announced one.
LEMMA CommitIsDecide ==
  ASSUME TypeOK, EventInv, NEW cooling \in BOOLEAN, NEW windowOver \in BOOLEAN,
         CommitSwitch(cooling, windowOver)
  PROVE  Route!Next \/ UNCHANGED Route!vars
<1>1. tpc = "commit" /\ UNCHANGED <<relay_addr, lastEvent>>
  BY DEF CommitSwitch
<1>2. job.choice \in Available /\ lastEvent.to = current_st_region
  BY <1>1 DEF TypeOK, JobOK, JobHasChoice, Candidates, EventInv
<1>3. CASE tpc' = "switch" /\ job' = job /\ current_st_region # job.choice
  BY <1>1, <1>2, <1>3 DEF Route!Next, Route!Decide
<1>4. CASE tpc' = "remove"
  BY <1>1, <1>4 DEF Route!vars
<1> QED BY <1>3, <1>4 DEF CommitSwitch, SwitchPermitted

\* switch_relay moves the relay, once.
LEMMA SwitchIsMove ==
  ASSUME TypeOK, SwitchRelay
  PROVE  Route!Next
<1>1. job.choice # None
  BY RoutingAssumption DEF SwitchRelay, TypeOK, JobOK, JobHasChoice, Candidates
<1> QED BY <1>1 DEF SwitchRelay, Route!Next, Route!Move

\* The event announces the region decided on, from the one announced before.
LEMMA FireIsAnnounce ==
  ASSUME EventInv, FireSwitched
  PROVE  Route!Next
  BY DEF EventInv, FireSwitched, Route!Next, Route!Announce

\* Nobody else decides, moves or announces.
LEMMA OthersLeaveRoute ==
  ASSUME [Next]_vars
  PROVE  \/ \E cooling, windowOver \in BOOLEAN : CommitSwitch(cooling, windowOver)
         \/ SwitchRelay \/ FireSwitched
         \/ UNCHANGED Route!vars
<1>1. CASE \/ Receive \/ LookupResolved \/ LookupFailed \/ CheckResult
           \/ SelectCandidates
           \/ \E r \in Available, faster \in BOOLEAN : PingDone(r, faster)
           \/ RemovePending \/ RecheckPending \/ LowerPendingAny
  <2>1. UNCHANGED <<relay_addr, lastEvent>>
    BY <1>1 DEF Receive, LookupResolved, LookupFailed, CheckResult, SelectCandidates,
       PingDone, RemovePending, RecheckPending, LowerPendingAny, outVars
  <2>2. tpc \notin {"switch", "fire"} /\ tpc' \notin {"switch", "fire"}
    BY <1>1 DEF Receive, LookupResolved, LookupFailed, CheckResult, SelectCandidates,
       PingDone, RemovePending, RecheckPending, LowerPendingAny, taskVars
  <2> QED BY <2>1, <2>2 DEF Route!vars
<1>2. CASE \/ \E w \in Workers, g \in GameServers : Evaluate(w, g)
           \/ \E w \in Workers : WorkerStep(w)
           \/ OwnerStep
           \/ \E g \in GameServers : GoesQuiet(g)
           \/ UNCHANGED vars
  <2>1. UNCHANGED routeSteps
    BY <1>2 DEF routeSteps, Evaluate, WorkerStep, MarkSeen, ReadEpoch, InsertPending,
       SendRequest, OwnerStep, ResetRoute, ResetGates, CloseDriver, GoesQuiet, vars,
       taskVars, outVars
  <2> QED BY <2>1 DEF routeSteps, Route!vars
<1> QED BY <1>1, <1>2 DEF Next, TaskStep

\* The lookup task's switch implements RelayRoute: a decision made before an await is
\* what the relay moves to and what the application is told, once and in order.
THEOREM RouteImplemented == Spec => ImplementsRoute
<1>1. Init => Route!Init
  BY DEF Init, Route!Init
<1>2. TypeOK /\ EventInv /\ [Next]_vars => [Route!Next]_(Route!vars)
  <2> SUFFICES ASSUME TypeOK, EventInv, [Next]_vars
               PROVE  Route!Next \/ UNCHANGED Route!vars
    OBVIOUS
  <2> QED BY OthersLeaveRoute, CommitIsDecide, SwitchIsMove, FireIsAnnounce
<1> QED BY <1>1, <1>2, EventInit, EventStep, TypeCorrect, PTL
        DEF Spec, ImplementsRoute, Route!Spec
=============================================================================
