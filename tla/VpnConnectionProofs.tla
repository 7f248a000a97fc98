------------------------- MODULE VpnConnectionProofs -------------------------
(***************************************************************************)
(* What a connection holds, promises and owes at every step of a call, for *)
(* every set of requests and every number of sessions and crashes, and     *)
(* that it implements TunnelLifecycle. The invariant follows a call: what  *)
(* connect_ex has acquired so far, and what cleanup has let go of so far.  *)
(***************************************************************************)
EXTENDS VpnConnection, TLAPS

Cleaning == pc \in {"stop", "driver", "restore", "finish"}

\* Where a call is determines the state it has published.
Flow ==
  /\ pc \in {"repair", "dpi", "resolve"} => state = "FetchingConfig"
  /\ pc \in {"relay", "assets"} => state = "Connecting"
  /\ pc \in {"split", "pins", "connected"} => state = "ConfiguringSplitTunnel"
  /\ pc = "idle" => state \notin {"Disconnecting", "ConfiguringSplitTunnel"}
  /\ Cleaning => \/ state = "ConfiguringSplitTunnel" /\ after = "Error"
                 \/ state = "Disconnecting" /\ after = "Disconnected"
  /\ state \in Connecting \cup {"Connected"} \/ "driver" \in held => session \in Sessions
  /\ pc = "split" => Tunneled(opts)

\* What is not held: before it is acquired, and once it is released.
Released ==
  /\ pc = "repair" => ~Backed
  /\ state \in {"FetchingConfig", "Connecting"} => ~asset_route /\ "driver" \notin held
  /\ pc = "split" => "driver" \notin held
  /\ pc \in {"driver", "restore", "finish"} =>
       ~asset_route /\ held \cap {"relay", "assets", "router"} = {}
  /\ pc \in {"restore", "finish"} => "driver" \notin held
  /\ pc = "finish" => ~Backed
  /\ IdleHoldsNothing

\* What is held: connect_ex's acquisitions so far.
Acquired ==
  /\ pc \in {"relay", "assets", "split", "pins", "connected"} \/ state = "Connected"
       => "config" \in held
  /\ pc \in {"assets", "split", "pins", "connected"} \/ state = "Connected"
       => "relay" \in held
  /\ (pc \in {"pins", "connected"} \/ state = "Connected") /\ Tunneled(opts)
       => /\ {"router", "driver"} \subseteq held
          /\ ~stop
          /\ monitor[session] \in Live

\* The pins written, and the pins remembered to be merged into, are the session's.
PinsOwn == PinsCurrent /\ (bootstrap_dns_applied => last_applied = {session})

\* A full ban's routing is in force from the repair to the closing of the driver.
BanRouted ==
  /\ pc \in {"dpi", "resolve", "relay", "assets", "split", "pins", "connected"}
       /\ opts.ban /\ Tunneled(opts)
     => country_ban_routing /\ direct_only_ips = {}
  /\ BanNeverDirect

\* The flag stays set from the start of a cleanup to the end of the call.
Told == (pc \in {"driver", "restore", "finish"} => stop) /\ MonitorsTold

\* Only a full country-ban bypass asks the relay for names.
Leftover == (pc = "pins" => opts.ban) /\ OnlyBanLeavesPins /\ OnlyBanLeavesFile

\* Every variable has its type in the initial states.
LEMMA TypeInit == Init => TypeOK
<1> SUFFICES ASSUME Init PROVE TypeOK
  OBVIOUS
<1>1. bootstrap_dns_applied \in BOOLEAN /\ asset_route \in BOOLEAN /\ stop \in BOOLEAN
      /\ country_ban_routing \in BOOLEAN
  BY Zenon DEF Init, HostsInit
<1>2. monitor \in [Sessions -> {"none", "ended"} \cup Live]
  BY DEF Init
<1> QED
  BY <1>1, <1>2, ConnectionAssumption DEF Init, HostsInit, TypeOK, AtRest, Connecting,
     Live, Sessions

\* A step keeps the types.
LEMMA TypeStep == TypeOK /\ Flow /\ [Next]_vars => TypeOK'
<1> SUFFICES ASSUME TypeOK, Flow, [Next]_vars PROVE TypeOK'
  OBVIOUS
<1> USE ConnectionAssumption DEF TypeOK, Flow, Cleaning, Connecting, AtRest, Live,
                                 Resources, Sessions, Goto, hostsVars, callVars,
                                 NewConnection
<1>1. ASSUME NEW o \in Requests, Connect(o) PROVE TypeOK'
  BY <1>1 DEF Connect
<1>2. ASSUME NEW outcome \in Outcomes, RepairDns(outcome) PROVE TypeOK'
  BY <1>2 DEF RepairDns, ApplyBootstrap, Outcomes
<1>3. CASE SkipRepair
  BY <1>3 DEF SkipRepair
<1>4. ASSUME NEW running \in BOOLEAN, StartGoodbyeDpi(running) PROVE TypeOK'
  BY <1>4 DEF StartGoodbyeDpi
<1>5. ASSUME NEW found \in BOOLEAN, ResolveRelay(found) PROVE TypeOK'
  BY <1>5 DEF ResolveRelay
<1>6. ASSUME NEW bound \in BOOLEAN, NewRelay(bound) PROVE TypeOK'
  BY <1>6 DEF NewRelay
<1>7. ASSUME NEW resolved \in BOOLEAN, NEW up \in BOOLEAN, SetupAssetRelays(resolved, up)
      PROVE TypeOK'
  <2>1. asset_route' \in BOOLEAN
    BY <1>7, Zenon DEF SetupAssetRelays
  <2> QED BY <1>7, <2>1 DEF SetupAssetRelays, AfterTunnel
<1>8. CASE StartSplitTunnel
  BY <1>8 DEF StartSplitTunnel, AfterTunnel
<1>9. ASSUME NEW routed \in BOOLEAN, SplitTunnelFails(routed) PROVE TypeOK'
  BY <1>9 DEF SplitTunnelFails
<1>10. ASSUME NEW outcome \in {"nothing", "unwritten", "applied"}, ResolveThroughRelay(outcome)
       PROVE TypeOK'
  BY <1>10 DEF ResolveThroughRelay, ApplyRelayResolved
<1>11. CASE EnterConnected
  BY <1>11 DEF EnterConnected
<1>12. CASE Disconnect
  BY <1>12 DEF Disconnect
<1>13. CASE StopSession
  BY <1>13 DEF StopSession
<1>14. CASE CloseDriver
  BY <1>14 DEF CloseDriver
<1>15. ASSUME NEW written \in BOOLEAN, RestoreHosts(written) PROVE TypeOK'
  BY <1>15 DEF RestoreHosts, RemoveOverrides
<1>16. CASE Finish
  BY <1>16 DEF Finish
<1>17. ASSUME NEW s \in Sessions, MonitorSteps(s) PROVE TypeOK'
  <2>1. PICK from \in Live, to \in Live \cup {"ended"} : MonitorAt(s, from, to)
    BY <1>17 DEF MonitorSteps, MonitorLoop, MonitorWake, MonitorLock, MonitorRefresh
  <2> QED BY <1>17, <2>1 DEF MonitorAt
<1>18. CASE LearnFromSni
  BY <1>18 DEF LearnFromSni, LearnDirectOnly
<1>19. ASSUME NEW written \in BOOLEAN, Recreate(written) PROVE TypeOK'
  BY <1>19 DEF Recreate, RemoveOverrides
<1>20. CASE Crash
  <2>1. monitor' \in [Sessions -> {"none", "ended"} \cup Live]
    BY <1>20 DEF Crash
  <2>2. crashes' \in Nat /\ session' \in 0 .. MaxSessions /\ opts' \in Requests
    BY <1>20 DEF Crash
  <2> QED BY <1>20, <2>1, <2>2 DEF Crash, FreshStatics
<1>21. CASE UNCHANGED vars
  BY <1>21 DEF vars
<1> QED
  BY <1>1, <1>2, <1>3, <1>4, <1>5, <1>6, <1>7, <1>8, <1>9, <1>10, <1>11, <1>12, <1>13,
     <1>14, <1>15, <1>16, <1>17, <1>18, <1>19, <1>20, <1>21
     DEF Next, ConnectSteps, CleanupSteps

\* A step keeps each state where in the call it can be.
LEMMA FlowStep == TypeOK /\ Flow /\ Released /\ [Next]_vars => Flow'
<1> SUFFICES ASSUME TypeOK, Flow, Released, [Next]_vars PROVE Flow'
  OBVIOUS
<1> USE ConnectionAssumption DEF TypeOK, Flow, Cleaning, Connecting, AtRest, Goto,
                                 hostsVars, callVars, NewConnection
<1>1. ASSUME NEW o \in Requests, Connect(o) PROVE Flow'
  BY <1>1 DEF Connect, MayConnect, Sessions
<1>2. ASSUME NEW outcome \in Outcomes, RepairDns(outcome) PROVE Flow'
  BY <1>2 DEF RepairDns
<1>3. CASE SkipRepair
  BY <1>3 DEF SkipRepair
<1>4. ASSUME NEW running \in BOOLEAN, StartGoodbyeDpi(running) PROVE Flow'
  BY <1>4 DEF StartGoodbyeDpi
<1>5. ASSUME NEW found \in BOOLEAN, ResolveRelay(found) PROVE Flow'
  BY <1>5 DEF ResolveRelay
<1>6. ASSUME NEW bound \in BOOLEAN, NewRelay(bound) PROVE Flow'
  BY <1>6 DEF NewRelay
<1>7. ASSUME NEW resolved \in BOOLEAN, NEW up \in BOOLEAN, SetupAssetRelays(resolved, up)
      PROVE Flow'
  BY <1>7 DEF SetupAssetRelays, AfterTunnel
<1>8. CASE StartSplitTunnel
  BY <1>8 DEF StartSplitTunnel, AfterTunnel
<1>9. ASSUME NEW routed \in BOOLEAN, SplitTunnelFails(routed) PROVE Flow'
  BY <1>9 DEF SplitTunnelFails
<1>10. ASSUME NEW outcome \in {"nothing", "unwritten", "applied"}, ResolveThroughRelay(outcome)
       PROVE Flow'
  BY <1>10 DEF ResolveThroughRelay
<1>11. CASE EnterConnected
  BY <1>11 DEF EnterConnected
<1>12. CASE Disconnect
  BY <1>12 DEF Disconnect
<1>13. CASE StopSession
  BY <1>13 DEF StopSession
<1>14. CASE CloseDriver
  BY <1>14 DEF CloseDriver
<1>15. ASSUME NEW written \in BOOLEAN, RestoreHosts(written) PROVE Flow'
  BY <1>15 DEF RestoreHosts
<1>16. CASE Finish
  BY <1>16 DEF Finish
<1>17. ASSUME NEW s \in Sessions, MonitorSteps(s) PROVE Flow'
  BY <1>17 DEF MonitorSteps, MonitorLoop, MonitorWake, MonitorLock, MonitorRefresh,
               MonitorAt
<1>18. CASE LearnFromSni
  BY <1>18 DEF LearnFromSni
<1>19. ASSUME NEW written \in BOOLEAN, Recreate(written) PROVE Flow'
  BY <1>19 DEF Recreate
<1>20. CASE Crash
  BY <1>20 DEF Crash
<1>21. CASE UNCHANGED vars
  BY <1>21 DEF vars
<1> QED
  BY <1>1, <1>2, <1>3, <1>4, <1>5, <1>6, <1>7, <1>8, <1>9, <1>10, <1>11, <1>12, <1>13,
     <1>14, <1>15, <1>16, <1>17, <1>18, <1>19, <1>20, <1>21
     DEF Next, ConnectSteps, CleanupSteps

\* A step takes nothing back that cleanup has released.
LEMMA ReleasedStep == TypeOK /\ Flow /\ Released /\ [Next]_vars => Released'
<1> SUFFICES ASSUME TypeOK, Flow, Released, [Next]_vars PROVE Released'
  OBVIOUS
<1> USE DEF TypeOK, Flow, Released, IdleHoldsNothing, Backed, Cleaning, Connecting,
            AtRest, Resources, Goto, hostsVars, callVars, NewConnection
<1>1. ASSUME NEW o \in Requests, Connect(o) PROVE Released'
  BY <1>1 DEF Connect, MayConnect
<1>2. ASSUME NEW outcome \in Outcomes, RepairDns(outcome) PROVE Released'
  BY <1>2 DEF RepairDns
<1>3. CASE SkipRepair
  BY <1>3 DEF SkipRepair
<1>4. ASSUME NEW running \in BOOLEAN, StartGoodbyeDpi(running) PROVE Released'
  BY <1>4 DEF StartGoodbyeDpi
<1>5. ASSUME NEW found \in BOOLEAN, ResolveRelay(found) PROVE Released'
  BY <1>5 DEF ResolveRelay
<1>6. ASSUME NEW bound \in BOOLEAN, NewRelay(bound) PROVE Released'
  BY <1>6 DEF NewRelay
<1>7. ASSUME NEW resolved \in BOOLEAN, NEW up \in BOOLEAN, SetupAssetRelays(resolved, up)
      PROVE Released'
  BY <1>7 DEF SetupAssetRelays, AfterTunnel
<1>8. CASE StartSplitTunnel
  BY <1>8 DEF StartSplitTunnel, AfterTunnel
<1>9. ASSUME NEW routed \in BOOLEAN, SplitTunnelFails(routed) PROVE Released'
  BY <1>9 DEF SplitTunnelFails
<1>10. ASSUME NEW outcome \in {"nothing", "unwritten", "applied"}, ResolveThroughRelay(outcome)
       PROVE Released'
  BY <1>10 DEF ResolveThroughRelay
<1>11. CASE EnterConnected
  BY <1>11 DEF EnterConnected
<1>12. CASE Disconnect
  BY <1>12 DEF Disconnect
<1>13. CASE StopSession
  BY <1>13 DEF StopSession
<1>14. CASE CloseDriver
  BY <1>14 DEF CloseDriver
<1>15. ASSUME NEW written \in BOOLEAN, RestoreHosts(written) PROVE Released'
  BY <1>15 DEF RestoreHosts
<1>16. CASE Finish
  BY <1>16 DEF Finish
<1>17. ASSUME NEW s \in Sessions, MonitorSteps(s) PROVE Released'
  BY <1>17 DEF MonitorSteps, MonitorLoop, MonitorWake, MonitorLock, MonitorRefresh,
               MonitorAt
<1>18. CASE LearnFromSni
  BY <1>18 DEF LearnFromSni
<1>19. ASSUME NEW written \in BOOLEAN, Recreate(written) PROVE Released'
  BY <1>19 DEF Recreate
<1>20. CASE Crash
  BY <1>20 DEF Crash
<1>21. CASE UNCHANGED vars
  BY <1>21 DEF vars
<1> QED
  BY <1>1, <1>2, <1>3, <1>4, <1>5, <1>6, <1>7, <1>8, <1>9, <1>10, <1>11, <1>12, <1>13,
     <1>14, <1>15, <1>16, <1>17, <1>18, <1>19, <1>20, <1>21
     DEF Next, ConnectSteps, CleanupSteps

\* A step keeps what connect has acquired.
LEMMA AcquiredStep == TypeOK /\ Flow /\ Released /\ Acquired /\ [Next]_vars => Acquired'
<1> SUFFICES ASSUME TypeOK, Flow, Released, Acquired, [Next]_vars PROVE Acquired'
  OBVIOUS
<1> USE DEF TypeOK, Flow, Acquired, Cleaning, Connecting, AtRest, Live, Goto, hostsVars,
            callVars, NewConnection
<1>1. ASSUME NEW o \in Requests, Connect(o) PROVE Acquired'
  BY <1>1 DEF Connect, MayConnect
<1>2. ASSUME NEW outcome \in Outcomes, RepairDns(outcome) PROVE Acquired'
  BY <1>2 DEF RepairDns
<1>3. CASE SkipRepair
  BY <1>3 DEF SkipRepair
<1>4. ASSUME NEW running \in BOOLEAN, StartGoodbyeDpi(running) PROVE Acquired'
  BY <1>4 DEF StartGoodbyeDpi
<1>5. ASSUME NEW found \in BOOLEAN, ResolveRelay(found) PROVE Acquired'
  BY <1>5 DEF ResolveRelay
<1>6. ASSUME NEW bound \in BOOLEAN, NewRelay(bound) PROVE Acquired'
  BY <1>6 DEF NewRelay
<1>7. ASSUME NEW resolved \in BOOLEAN, NEW up \in BOOLEAN, SetupAssetRelays(resolved, up)
      PROVE Acquired'
  BY <1>7 DEF SetupAssetRelays, AfterTunnel
<1>8. CASE StartSplitTunnel
  BY <1>8 DEF StartSplitTunnel, AfterTunnel
<1>9. ASSUME NEW routed \in BOOLEAN, SplitTunnelFails(routed) PROVE Acquired'
  BY <1>9 DEF SplitTunnelFails
<1>10. ASSUME NEW outcome \in {"nothing", "unwritten", "applied"}, ResolveThroughRelay(outcome)
       PROVE Acquired'
  BY <1>10 DEF ResolveThroughRelay
<1>11. CASE EnterConnected
  BY <1>11 DEF EnterConnected
<1>12. CASE Disconnect
  BY <1>12 DEF Disconnect
<1>13. CASE StopSession
  BY <1>13 DEF StopSession
<1>14. CASE CloseDriver
  BY <1>14 DEF CloseDriver
<1>15. ASSUME NEW written \in BOOLEAN, RestoreHosts(written) PROVE Acquired'
  BY <1>15 DEF RestoreHosts
<1>16. CASE Finish
  BY <1>16 DEF Finish
<1>17. ASSUME NEW s \in Sessions, MonitorSteps(s) PROVE Acquired'
  BY <1>17 DEF MonitorSteps, MonitorLoop, MonitorWake, MonitorLock, MonitorRefresh,
               MonitorAt
<1>18. CASE LearnFromSni
  BY <1>18 DEF LearnFromSni
<1>19. ASSUME NEW written \in BOOLEAN, Recreate(written) PROVE Acquired'
  BY <1>19 DEF Recreate
<1>20. CASE Crash
  BY <1>20 DEF Crash
<1>21. CASE UNCHANGED vars
  BY <1>21 DEF vars
<1> QED
  BY <1>1, <1>2, <1>3, <1>4, <1>5, <1>6, <1>7, <1>8, <1>9, <1>10, <1>11, <1>12, <1>13,
     <1>14, <1>15, <1>16, <1>17, <1>18, <1>19, <1>20, <1>21
     DEF Next, ConnectSteps, CleanupSteps

\* A step keeps the pins the session's own.
LEMMA PinsStep == TypeOK /\ Flow /\ Released /\ PinsOwn /\ [Next]_vars => PinsOwn'
<1> SUFFICES ASSUME TypeOK, Flow, Released, PinsOwn, [Next]_vars PROVE PinsOwn'
  OBVIOUS
<1> USE DEF Released, IdleHoldsNothing, Backed, PinsOwn, PinsCurrent, Connecting, AtRest,
            Goto, hostsVars, callVars, NewConnection
<1>1. ASSUME NEW o \in Requests, Connect(o) PROVE PinsOwn'
  BY <1>1 DEF Connect, MayConnect, TypeOK, Flow
<1>2. ASSUME NEW outcome \in Outcomes, RepairDns(outcome) PROVE PinsOwn'
  BY <1>2 DEF RepairDns, ApplyBootstrap
<1>3. CASE SkipRepair
  BY <1>3 DEF SkipRepair
<1>4. ASSUME NEW running \in BOOLEAN, StartGoodbyeDpi(running) PROVE PinsOwn'
  BY <1>4 DEF StartGoodbyeDpi
<1>5. ASSUME NEW found \in BOOLEAN, ResolveRelay(found) PROVE PinsOwn'
  BY <1>5 DEF ResolveRelay
<1>6. ASSUME NEW bound \in BOOLEAN, NewRelay(bound) PROVE PinsOwn'
  BY <1>6 DEF NewRelay
<1>7. ASSUME NEW resolved \in BOOLEAN, NEW up \in BOOLEAN, SetupAssetRelays(resolved, up)
      PROVE PinsOwn'
  BY <1>7 DEF SetupAssetRelays
<1>8. CASE StartSplitTunnel
  BY <1>8 DEF StartSplitTunnel
<1>9. ASSUME NEW routed \in BOOLEAN, SplitTunnelFails(routed) PROVE PinsOwn'
  BY <1>9 DEF SplitTunnelFails
<1>10. ASSUME NEW outcome \in {"nothing", "unwritten", "applied"}, ResolveThroughRelay(outcome)
       PROVE PinsOwn'
  BY <1>10 DEF ResolveThroughRelay, ApplyRelayResolved
<1>11. CASE EnterConnected
  BY <1>11 DEF EnterConnected
<1>12. CASE Disconnect
  BY <1>12 DEF Disconnect
<1>13. CASE StopSession
  BY <1>13 DEF StopSession
<1>14. CASE CloseDriver
  BY <1>14 DEF CloseDriver
<1>15. ASSUME NEW written \in BOOLEAN, RestoreHosts(written) PROVE PinsOwn'
  BY <1>15 DEF RestoreHosts, RemoveOverrides
<1>16. CASE Finish
  BY <1>16 DEF Finish
<1>17. ASSUME NEW s \in Sessions, MonitorSteps(s) PROVE PinsOwn'
  BY <1>17 DEF MonitorSteps, MonitorLoop, MonitorWake, MonitorLock, MonitorRefresh,
               MonitorAt
<1>18. CASE LearnFromSni
  BY <1>18 DEF LearnFromSni, LearnDirectOnly
<1>19. ASSUME NEW written \in BOOLEAN, Recreate(written) PROVE PinsOwn'
  BY <1>19 DEF Recreate, RemoveOverrides
<1>20. CASE Crash
  BY <1>20 DEF Crash, FreshStatics
<1>21. CASE UNCHANGED vars
  BY <1>21 DEF vars
<1> QED
  BY <1>1, <1>2, <1>3, <1>4, <1>5, <1>6, <1>7, <1>8, <1>9, <1>10, <1>11, <1>12, <1>13,
     <1>14, <1>15, <1>16, <1>17, <1>18, <1>19, <1>20, <1>21
     DEF Next, ConnectSteps, CleanupSteps

\* A step keeps a ban routed.
LEMMA BanStep == TypeOK /\ Flow /\ Released /\ BanRouted /\ [Next]_vars => BanRouted'
<1> SUFFICES ASSUME TypeOK, Flow, Released, BanRouted, [Next]_vars PROVE BanRouted'
  OBVIOUS
<1> USE DEF TypeOK, Flow, Released, IdleHoldsNothing, Backed, BanRouted, BanNeverDirect,
            Connecting, AtRest, Goto, hostsVars, callVars, NewConnection
<1>1. ASSUME NEW o \in Requests, Connect(o) PROVE BanRouted'
  BY <1>1 DEF Connect, MayConnect
<1>2. ASSUME NEW outcome \in Outcomes, RepairDns(outcome) PROVE BanRouted'
  BY <1>2 DEF RepairDns, ApplyBootstrap, Bypass
<1>3. CASE SkipRepair
  BY <1>3 DEF SkipRepair, Repairs, RouteAssist, Tunneled
<1>4. ASSUME NEW running \in BOOLEAN, StartGoodbyeDpi(running) PROVE BanRouted'
  BY <1>4 DEF StartGoodbyeDpi
<1>5. ASSUME NEW found \in BOOLEAN, ResolveRelay(found) PROVE BanRouted'
  BY <1>5 DEF ResolveRelay
<1>6. ASSUME NEW bound \in BOOLEAN, NewRelay(bound) PROVE BanRouted'
  BY <1>6 DEF NewRelay
<1>7. ASSUME NEW resolved \in BOOLEAN, NEW up \in BOOLEAN, SetupAssetRelays(resolved, up)
      PROVE BanRouted'
  BY <1>7 DEF SetupAssetRelays, AfterTunnel
<1>8. CASE StartSplitTunnel
  BY <1>8 DEF StartSplitTunnel, AfterTunnel
<1>9. ASSUME NEW routed \in BOOLEAN, SplitTunnelFails(routed) PROVE BanRouted'
  BY <1>9 DEF SplitTunnelFails
<1>10. ASSUME NEW outcome \in {"nothing", "unwritten", "applied"}, ResolveThroughRelay(outcome)
       PROVE BanRouted'
  BY <1>10 DEF ResolveThroughRelay, ApplyRelayResolved
<1>11. CASE EnterConnected
  BY <1>11 DEF EnterConnected
<1>12. CASE Disconnect
  BY <1>12 DEF Disconnect
<1>13. CASE StopSession
  BY <1>13 DEF StopSession
<1>14. CASE CloseDriver
  BY <1>14 DEF CloseDriver
<1>15. ASSUME NEW written \in BOOLEAN, RestoreHosts(written) PROVE BanRouted'
  BY <1>15 DEF RestoreHosts, RemoveOverrides
<1>16. CASE Finish
  BY <1>16 DEF Finish
<1>17. ASSUME NEW s \in Sessions, MonitorSteps(s) PROVE BanRouted'
  BY <1>17 DEF MonitorSteps, MonitorLoop, MonitorWake, MonitorLock, MonitorRefresh,
               MonitorAt
<1>18. CASE LearnFromSni
  BY <1>18 DEF LearnFromSni, LearnDirectOnly
<1>19. ASSUME NEW written \in BOOLEAN, Recreate(written) PROVE BanRouted'
  BY <1>19 DEF Recreate, RemoveOverrides
<1>20. CASE Crash
  BY <1>20 DEF Crash, FreshStatics
<1>21. CASE UNCHANGED vars
  BY <1>21 DEF vars
<1> QED
  BY <1>1, <1>2, <1>3, <1>4, <1>5, <1>6, <1>7, <1>8, <1>9, <1>10, <1>11, <1>12, <1>13,
     <1>14, <1>15, <1>16, <1>17, <1>18, <1>19, <1>20, <1>21
     DEF Next, ConnectSteps, CleanupSteps

\* A step leaves no pin without an owner but a country ban's.
LEMMA LeftoverStep ==
  TypeOK /\ Flow /\ Released /\ BanRouted /\ Leftover /\ [Next]_vars => Leftover'
<1> SUFFICES ASSUME TypeOK, Flow, Released, BanRouted, Leftover, [Next]_vars
             PROVE  Leftover'
  OBVIOUS
<1> USE ConnectionAssumption
        DEF TypeOK, Leftover, OnlyBanLeavesPins, OnlyBanLeavesFile, Goto, hostsVars,
            callVars, NewConnection
<1>1. ASSUME NEW o \in Requests, Connect(o) PROVE Leftover'
  BY <1>1 DEF Connect, MayConnect
<1>2. ASSUME NEW outcome \in Outcomes, RepairDns(outcome) PROVE Leftover'
  BY <1>2 DEF RepairDns, ApplyBootstrap, Bypass
<1>3. CASE SkipRepair
  BY <1>3 DEF SkipRepair, Repairs, RouteAssist, Tunneled
<1>4. ASSUME NEW running \in BOOLEAN, StartGoodbyeDpi(running) PROVE Leftover'
  BY <1>4 DEF StartGoodbyeDpi
<1>5. ASSUME NEW found \in BOOLEAN, ResolveRelay(found) PROVE Leftover'
  BY <1>5 DEF ResolveRelay
<1>6. ASSUME NEW bound \in BOOLEAN, NewRelay(bound) PROVE Leftover'
  BY <1>6 DEF NewRelay
<1>7. ASSUME NEW resolved \in BOOLEAN, NEW up \in BOOLEAN, SetupAssetRelays(resolved, up)
      PROVE Leftover'
  BY <1>7 DEF SetupAssetRelays, AfterTunnel, Tunneled
<1>8. CASE StartSplitTunnel
  BY <1>8 DEF StartSplitTunnel, AfterTunnel, Bypass
<1>9. ASSUME NEW routed \in BOOLEAN, SplitTunnelFails(routed) PROVE Leftover'
  BY <1>9 DEF SplitTunnelFails
<1>10. ASSUME NEW outcome \in {"nothing", "unwritten", "applied"}, ResolveThroughRelay(outcome)
       PROVE Leftover'
  BY <1>10 DEF ResolveThroughRelay, ApplyRelayResolved, BanRouted, BanNeverDirect, Bypass
<1>11. CASE EnterConnected
  BY <1>11 DEF EnterConnected
<1>12. CASE Disconnect
  BY <1>12 DEF Disconnect
<1>13. CASE StopSession
  BY <1>13 DEF StopSession
<1>14. CASE CloseDriver
  BY <1>14 DEF CloseDriver
<1>15. ASSUME NEW written \in BOOLEAN, RestoreHosts(written) PROVE Leftover'
  BY <1>15 DEF RestoreHosts, RemoveOverrides
<1>16. CASE Finish
  BY <1>16 DEF Finish
<1>17. ASSUME NEW s \in Sessions, MonitorSteps(s) PROVE Leftover'
  BY <1>17 DEF MonitorSteps, MonitorLoop, MonitorWake, MonitorLock, MonitorRefresh,
               MonitorAt
<1>18. CASE LearnFromSni
  BY <1>18 DEF LearnFromSni, LearnDirectOnly
<1>19. ASSUME NEW written \in BOOLEAN, Recreate(written) PROVE Leftover'
  BY <1>19 DEF Recreate, RemoveOverrides
<1>20. CASE Crash
  BY <1>20 DEF Crash, FreshStatics
<1>21. CASE UNCHANGED vars
  BY <1>21 DEF vars
<1> QED
  BY <1>1, <1>2, <1>3, <1>4, <1>5, <1>6, <1>7, <1>8, <1>9, <1>10, <1>11, <1>12, <1>13,
     <1>14, <1>15, <1>16, <1>17, <1>18, <1>19, <1>20, <1>21
     DEF Next, ConnectSteps, CleanupSteps

\* A step leaves no monitor alive and untold without a driver.
LEMMA ToldStep == TypeOK /\ Told /\ [Next]_vars => Told'
<1> SUFFICES ASSUME TypeOK, Told, [Next]_vars PROVE Told'
  OBVIOUS
<1> USE DEF TypeOK, Told, MonitorsTold, Live, Goto, hostsVars, callVars, NewConnection
<1>1. ASSUME NEW o \in Requests, Connect(o) PROVE Told'
  BY <1>1 DEF Connect, MayConnect
<1>2. ASSUME NEW outcome \in Outcomes, RepairDns(outcome) PROVE Told'
  BY <1>2 DEF RepairDns
<1>3. CASE SkipRepair
  BY <1>3 DEF SkipRepair
<1>4. ASSUME NEW running \in BOOLEAN, StartGoodbyeDpi(running) PROVE Told'
  BY <1>4 DEF StartGoodbyeDpi
<1>5. ASSUME NEW found \in BOOLEAN, ResolveRelay(found) PROVE Told'
  BY <1>5 DEF ResolveRelay
<1>6. ASSUME NEW bound \in BOOLEAN, NewRelay(bound) PROVE Told'
  BY <1>6 DEF NewRelay
<1>7. ASSUME NEW resolved \in BOOLEAN, NEW up \in BOOLEAN, SetupAssetRelays(resolved, up)
      PROVE Told'
  BY <1>7 DEF SetupAssetRelays, AfterTunnel
<1>8. CASE StartSplitTunnel
  BY <1>8 DEF StartSplitTunnel, AfterTunnel
<1>9. ASSUME NEW routed \in BOOLEAN, SplitTunnelFails(routed) PROVE Told'
  BY <1>9 DEF SplitTunnelFails
<1>10. ASSUME NEW outcome \in {"nothing", "unwritten", "applied"}, ResolveThroughRelay(outcome)
       PROVE Told'
  BY <1>10 DEF ResolveThroughRelay
<1>11. CASE EnterConnected
  BY <1>11 DEF EnterConnected
<1>12. CASE Disconnect
  BY <1>12 DEF Disconnect
<1>13. CASE StopSession
  BY <1>13 DEF StopSession
<1>14. CASE CloseDriver
  BY <1>14 DEF CloseDriver
<1>15. ASSUME NEW written \in BOOLEAN, RestoreHosts(written) PROVE Told'
  BY <1>15 DEF RestoreHosts
<1>16. CASE Finish
  BY <1>16 DEF Finish
<1>17. ASSUME NEW s \in Sessions, MonitorSteps(s) PROVE Told'
  BY <1>17 DEF MonitorSteps, MonitorLoop, MonitorWake, MonitorLock, MonitorRefresh,
               MonitorAt
<1>18. CASE LearnFromSni
  BY <1>18 DEF LearnFromSni
<1>19. ASSUME NEW written \in BOOLEAN, Recreate(written) PROVE Told'
  BY <1>19 DEF Recreate
<1>20. CASE Crash
  BY <1>20 DEF Crash
<1>21. CASE UNCHANGED vars
  BY <1>21 DEF vars
<1> QED
  BY <1>1, <1>2, <1>3, <1>4, <1>5, <1>6, <1>7, <1>8, <1>9, <1>10, <1>11, <1>12, <1>13,
     <1>14, <1>15, <1>16, <1>17, <1>18, <1>19, <1>20, <1>21
     DEF Next, ConnectSteps, CleanupSteps

ConnInv ==
  TypeOK /\ Flow /\ Released /\ Acquired /\ PinsOwn /\ BanRouted /\ Leftover /\ Told

\* The invariant holds at first.
LEMMA InvInit == Init => ConnInv
  BY TypeInit DEF Init, HostsInit, ConnInv, Flow, Released, Acquired, PinsOwn, BanRouted,
     Leftover, OnlyBanLeavesPins, OnlyBanLeavesFile, Told, MonitorsTold, Live,
     Cleaning, Connecting, AtRest, Backed, IdleHoldsNothing, PinsCurrent, BanNeverDirect

\* A step keeps the invariant.
LEMMA InvStep == ConnInv /\ [Next]_vars => ConnInv'
  BY TypeStep, FlowStep, ReleasedStep, AcquiredStep, PinsStep, BanStep, LeftoverStep,
     ToldStep
     DEF ConnInv

\* The invariant holds always.
LEMMA Invariance == Spec => []ConnInv
  BY InvInit, InvStep, PTL DEF Spec

-----------------------------------------------------------------------------

\* Every variable keeps its type.
THEOREM TypeCorrect == Spec => []TypeOK
<1>1. ConnInv => TypeOK
  BY DEF ConnInv
<1> QED BY <1>1, Invariance, PTL

\* No way through connect_ex or cleanup leaves anything held at rest.
THEOREM RestHoldsNothing == Spec => []IdleHoldsNothing
<1>1. ConnInv => IdleHoldsNothing
  BY DEF ConnInv, Released
<1> QED BY <1>1, Invariance, PTL

\* A connection that says Connected has its tunnel, and a live monitor of its own.
THEOREM TunnelAlwaysBacked == Spec => []TunnelBacked
<1>1. ConnInv => TunnelBacked
  BY DEF ConnInv, Acquired, TunnelBacked
<1> QED BY <1>1, Invariance, PTL

\* The pins a connection owes the removal of are its own session's alone.
THEOREM PinsAlwaysCurrent == Spec => []PinsCurrent
<1>1. ConnInv => PinsCurrent
  BY DEF ConnInv, PinsOwn
<1> QED BY <1>1, Invariance, PTL

\* Under the full ban bypass nothing intercepted is ever demoted to the direct path.
THEOREM BanNeverGoesDirect == Spec => []BanNeverDirect
<1>1. ConnInv => BanNeverDirect
  BY DEF ConnInv, BanRouted
<1> QED BY <1>1, Invariance, PTL

\* Relayed addresses nobody owes the removal of are a country-ban session's.
THEOREM OnlyBanEverLeavesPins == Spec => []OnlyBanLeavesPins
<1>1. ConnInv => OnlyBanLeavesPins
  BY DEF ConnInv, Leftover
<1> QED BY <1>1, Invariance, PTL

\* So are the pins in the file, if no write failed and the process lived.
THEOREM OnlyBanEverLeavesFile == Spec => []OnlyBanLeavesFile
<1>1. ConnInv => OnlyBanLeavesFile
  BY DEF ConnInv, Leftover
<1> QED BY <1>1, Invariance, PTL

\* No monitor goes on unstopped once there is no driver to watch for.
THEOREM MonitorsAlwaysTold == Spec => []MonitorsTold
<1>1. ConnInv => MonitorsTold
  BY DEF ConnInv, Told
<1> QED BY <1>1, Invariance, PTL

-----------------------------------------------------------------------------
(* Refinement of TunnelLifecycle *)

\* At first nothing is begun and nothing held.
LEMMA LifecycleInit == Init => Lifecycle!Init
  BY DEF Init, Lifecycle!Init, Phase, Backed, Connecting

\* Every step is a step of the lifecycle or leaves phase and backed alone.
LEMMA LifecycleStep == ConnInv /\ [Next]_vars => [Lifecycle!Next]_(Lifecycle!vars)
<1> SUFFICES ASSUME ConnInv, [Next]_vars PROVE [Lifecycle!Next]_(Lifecycle!vars)
  OBVIOUS
<1> USE DEF ConnInv, TypeOK, Flow, Phase, Backed, Cleaning, Connecting, AtRest,
            Lifecycle!vars,
            Goto, hostsVars, callVars, NewConnection
<1>1. ASSUME NEW o \in Requests, Connect(o) PROVE Lifecycle!Start
  BY <1>1 DEF Connect, Lifecycle!Start, MayConnect, Released, IdleHoldsNothing
<1>2. ASSUME NEW outcome \in Outcomes, RepairDns(outcome)
      PROVE Lifecycle!Acquire \/ UNCHANGED Lifecycle!vars
  BY <1>2 DEF RepairDns, Lifecycle!Acquire
<1>3. ASSUME SkipRepair PROVE UNCHANGED Lifecycle!vars
  BY <1>3 DEF SkipRepair
<1>4. ASSUME NEW running \in BOOLEAN, StartGoodbyeDpi(running)
      PROVE Lifecycle!Acquire \/ UNCHANGED Lifecycle!vars
  BY <1>4 DEF StartGoodbyeDpi, Lifecycle!Acquire
<1>5. ASSUME NEW found \in BOOLEAN, ResolveRelay(found)
      PROVE Lifecycle!Acquire \/ UNCHANGED Lifecycle!vars
  BY <1>5 DEF ResolveRelay, Lifecycle!Acquire
<1>6. ASSUME NEW bound \in BOOLEAN, NewRelay(bound)
      PROVE Lifecycle!Acquire \/ UNCHANGED Lifecycle!vars
  BY <1>6 DEF NewRelay, Lifecycle!Acquire
<1>7. ASSUME NEW resolved \in BOOLEAN, NEW up \in BOOLEAN, SetupAssetRelays(resolved, up)
      PROVE Lifecycle!Acquire \/ UNCHANGED Lifecycle!vars
  BY <1>7 DEF SetupAssetRelays, Lifecycle!Acquire, AfterTunnel, Acquired
<1>8. ASSUME StartSplitTunnel PROVE Lifecycle!Acquire \/ UNCHANGED Lifecycle!vars
  BY <1>8 DEF StartSplitTunnel, Lifecycle!Acquire, AfterTunnel
<1>9. ASSUME NEW routed \in BOOLEAN, SplitTunnelFails(routed) PROVE Lifecycle!Fail
  BY <1>9 DEF SplitTunnelFails, Lifecycle!Fail
<1>10. ASSUME NEW outcome \in {"nothing", "unwritten", "applied"}, ResolveThroughRelay(outcome)
       PROVE UNCHANGED Lifecycle!vars
  BY <1>10 DEF ResolveThroughRelay
<1>11. ASSUME EnterConnected PROVE Lifecycle!Up
  BY <1>11 DEF EnterConnected, Lifecycle!Up, Acquired
<1>12. ASSUME Disconnect PROVE Lifecycle!Stop
  BY <1>12 DEF Disconnect, Lifecycle!Stop
<1>13. ASSUME StopSession PROVE Lifecycle!Release \/ UNCHANGED Lifecycle!vars
  BY <1>13 DEF StopSession, Lifecycle!Release
<1>14. ASSUME CloseDriver PROVE Lifecycle!Release \/ UNCHANGED Lifecycle!vars
  BY <1>14 DEF CloseDriver, Lifecycle!Release
<1>15. ASSUME NEW written \in BOOLEAN, RestoreHosts(written)
       PROVE Lifecycle!Release \/ UNCHANGED Lifecycle!vars
  BY <1>15 DEF RestoreHosts, Lifecycle!Release
<1>16. ASSUME Finish PROVE Lifecycle!Rest
  BY <1>16 DEF Finish, Lifecycle!Rest, Released
<1>17. ASSUME NEW s \in Sessions, MonitorSteps(s) PROVE UNCHANGED Lifecycle!vars
  BY <1>17 DEF MonitorSteps, MonitorLoop, MonitorWake, MonitorLock, MonitorRefresh,
               MonitorAt
<1>18. ASSUME LearnFromSni PROVE UNCHANGED Lifecycle!vars
  BY <1>18 DEF LearnFromSni
<1>19. ASSUME NEW written \in BOOLEAN, Recreate(written) PROVE Lifecycle!Abandon
  BY <1>19 DEF Recreate, Lifecycle!Abandon, Released, IdleHoldsNothing
<1>20. ASSUME Crash PROVE Lifecycle!Abandon
  BY <1>20 DEF Crash, Lifecycle!Abandon
<1>21. CASE UNCHANGED vars
  BY <1>21 DEF vars
<1> QED
  BY <1>1, <1>2, <1>3, <1>4, <1>5, <1>6, <1>7, <1>8, <1>9, <1>10, <1>11, <1>12, <1>13,
     <1>14, <1>15, <1>16, <1>17, <1>18, <1>19, <1>20, <1>21
     DEF Next, ConnectSteps, CleanupSteps, Lifecycle!Next

\* The connection implements TunnelLifecycle.
THEOREM LifecycleImplemented == Spec => ImplementsLifecycle
<1>1. ConnInv /\ [Next]_vars => [Lifecycle!Next]_(Lifecycle!vars)
  BY LifecycleStep
<1> QED BY <1>1, LifecycleInit, Invariance, PTL DEF Spec, ImplementsLifecycle, Lifecycle!Spec
=============================================================================
