----------------------------- MODULE AuthProofs -----------------------------
(***************************************************************************)
(* What storage and state owe each other at every step of a call, for any  *)
(* number of sessions, flows and restarts and any set of faults. The       *)
(* invariant follows a session from its issue to the file, the keyring and *)
(* the state, which it reaches in that order.                              *)
(***************************************************************************)
EXTENDS Auth, TLAPS

Storing  == pc \in {"open", "write", "keyring"}
OwnStore == purpose \in {"login", "refresh"}

\* Where a call is determines the state it has published, and what it stores.
Flow ==
  /\ pc \in {"load", "fallback"} => state = "LoggedOut"
  /\ pc \in {"check", "refresh"} => state = "LoggedIn"
  /\ pc \in {"password", "exchange", "verify"} => state = "LoggingIn"
  /\ Storing => purpose # "none" /\ new \in Sessions /\ new <= issued
  /\ Storing /\ OwnStore => new = issued
  /\ Storing => state \in {"LoggedOut", "LoggingIn", "LoggedIn"}
  /\ Storing /\ state = "LoggedIn" => OwnStore
  /\ file <= issued /\ keyring <= issued /\ durable <= issued

\* The order in which the copies of a session are made.
CopyOrder ==
  /\ StoredSurvives
  /\ Storing /\ durable # None /\ "keyring" \notin failed => new >= durable
  /\ pc = "keyring" /\ OwnStore => file = new
  /\ pc \in {"clear", "forget"} => durable = None

\* Nothing is left of a session signed out of.
Forgotten ==
  /\ SignedOutStaysOut
  /\ pc = "forget" /\ "delete" \notin failed => file = None
  /\ signed_out /\ "delete" \notin failed => ~Storing

\* The file has the session in use before the state has.
FileFirst ==
  {"open", "write"} \cap failed = {} =>
    /\ pc \in {"idle", "check", "refresh", "clear"} /\ login # None => file = login
    /\ pc = "keyring" => file = new

\* The flow awaited is the one the application waits for.
Awaited == state = "Awaiting" /\ pc \notin {"clear", "forget"} => pending = wanted

\* A login is under way wherever the state says so.
Settled ==
  {"open", "write"} \cap failed = {} /\ state = "LoggingIn" =>
    pc \in {"password", "exchange", "verify"} \/ (Storing /\ purpose = "login")

AuthInv == Flow /\ CopyOrder /\ Forgotten /\ FileFirst /\ Awaited /\ Settled /\ AnswerKept

\* Every variable has its type in the initial states, and the invariant holds.
LEMMA TypeInit == Init => TypeOK /\ AuthInv
<1> SUFFICES ASSUME Init PROVE TypeOK /\ AuthInv
  OBVIOUS
<1>1. legacy \in BOOLEAN /\ late \in BOOLEAN /\ signed_out \in BOOLEAN
  BY Zenon DEF Init
<1>2. file \in Sessions \cup {None} /\ file \in 0 .. MaxSessions
      /\ keyring \in Sessions \cup {None} /\ keyring <= issued
  BY AuthAssumption DEF Init, Sessions, None
<1> QED
  BY <1>1, <1>2, AuthAssumption DEF Init, TypeOK, StateOK, FlagsOK, StoredOK,
     CallOK, WorldOK, AuthInv, Flow, CopyOrder, Forgotten,
     FileFirst, Awaited, Settled, AnswerKept, Storing, OwnStore, StoredSurvives, SignedOutStaysOut, Sessions,
     Attempts, Ages, FaultKinds, None, Torn

\* A step keeps the flags Boolean.
LEMMA FlagsStep == FlagsOK /\ [Next]_vars => FlagsOK'
<1> SUFFICES ASSUME FlagsOK, [Next]_vars PROVE FlagsOK'
  OBVIOUS
<1> USE DEF FlagsOK, stateVars, serverVars, diskVars, historyVars
<1>1. CASE SignIn
  BY <1>1, Zenon DEF SignIn, Become, Begin
<1>2. CASE Refresh
  BY <1>2, Zenon DEF Refresh, Begin
<1>3. CASE SignOut
  BY <1>3, Zenon DEF SignOut, Begin
<1>4. ASSUME NEW started \in BOOLEAN, StartOAuth(started) PROVE FlagsOK'
  BY <1>4, Zenon DEF StartOAuth, Begin
<1>5. CASE CompleteOAuth
  BY <1>5, Zenon DEF CompleteOAuth, StopServer, Become, Begin
<1>6. CASE CancelOAuth
  BY <1>6, Zenon DEF CancelOAuth, StopServer, Become, Begin
<1>7. CASE PasswordAnswer
  BY <1>7, Zenon DEF PasswordAnswer, Issue, StartStore, RequestFails, Become, Return, Finish
<1>8. CASE CheckToken
  BY <1>8, Zenon DEF CheckToken, Finish, Goto
<1>9. CASE RefreshAnswer
  BY <1>9, Zenon DEF RefreshAnswer, Issue, StartStore
<1>10. CASE RetryRefresh
  BY <1>10, Zenon DEF RetryRefresh
<1>11. CASE GiveUpRefresh
  BY <1>11, Zenon DEF GiveUpRefresh, Finish
<1>12. CASE Exchanged
  BY <1>12, Zenon DEF Exchanged, Goto, RequestFails, Become, Return, Finish
<1>13. CASE Verified
  BY <1>13, Zenon DEF Verified, Issue, StartStore, RequestFails, Become, Return, Finish
<1>14. CASE OpenFile
  BY <1>14, Zenon DEF OpenFile, Succeeds, Fails, Goto, NotStored, BecomeLoggedIn, Return,
                      Finish
<1>15. CASE WriteFile
  BY <1>15, Zenon DEF WriteFile, Succeeds, Fails, Goto, Stored, NotStored, BecomeLoggedIn,
                      Return, Finish
<1>16. CASE StoreToKeyring
  BY <1>16, Zenon DEF StoreToKeyring, Succeeds, Fails, BecomeLoggedIn, Return, Finish
<1>17. CASE LoadFromFile
  BY <1>17, Zenon DEF LoadFromFile, Succeeds, Fails, Goto, StartStore, BecomeLoggedIn,
                      Return, Finish
<1>18. CASE LoadFromKeyring
  BY <1>18, Zenon DEF LoadFromKeyring, Succeeds, Fails, StartStore, Return, Finish
<1>19. CASE ClearFile
  BY <1>19, Zenon DEF ClearFile, Succeeds, Fails, Goto
<1>20. CASE ClearKeyring
  BY <1>20, Zenon DEF ClearKeyring, Succeeds, Fails, Become, Return, Finish
<1>21. ASSUME NEW k \in Attempts, BrowserRedirect(k) PROVE FlagsOK'
  BY <1>21, Zenon DEF BrowserRedirect
<1>22. CASE TokenAges
  BY <1>22, Zenon DEF TokenAges
<1>23. CASE FlowAges
  BY <1>23, Zenon DEF FlowAges
<1>24. CASE Restart
  BY <1>24, Zenon DEF Restart, Become, StopServer
<1>25. CASE UNCHANGED vars
  BY <1>25, Zenon DEF vars
<1> QED
  BY <1>1, <1>2, <1>3, <1>4, <1>5, <1>6, <1>7, <1>8, <1>9, <1>10, <1>11, <1>12, <1>13,
     <1>14, <1>15, <1>16, <1>17, <1>18, <1>19, <1>20, <1>21, <1>22, <1>23, <1>24, <1>25
     DEF Next, Calls, RequestSteps, StorageSteps

\* A step keeps the types.
LEMMA TypeStep == TypeOK /\ Flow /\ [Next]_vars => TypeOK'
<1> SUFFICES ASSUME TypeOK, Flow, [Next]_vars PROVE TypeOK'
  OBVIOUS
<1> USE AuthAssumption DEF stateVars, serverVars, diskVars, callVars, worldVars,
                           historyVars, None, Torn, TypeOK, StateOK, StoredOK, CallOK,
                           WorldOK, Flow, Storing, Sessions, Attempts, Ages, FaultKinds
<1>0. FlagsOK'
  BY FlagsStep
<1>1. CASE SignIn
  BY <1>1, <1>0 DEF SignIn, Become, Begin
<1>2. CASE Refresh
  BY <1>2, <1>0 DEF Refresh, Begin
<1>3. CASE SignOut
  BY <1>3, <1>0 DEF SignOut, Begin
<1>4. ASSUME NEW started \in BOOLEAN, StartOAuth(started) PROVE TypeOK'
  BY <1>4, <1>0 DEF StartOAuth, Begin
<1>5. CASE CompleteOAuth
  BY <1>5, <1>0 DEF CompleteOAuth, StopServer, Become, Begin
<1>6. CASE CancelOAuth
  BY <1>6, <1>0 DEF CancelOAuth, StopServer, Become, Begin
<1>7. CASE PasswordAnswer
  <2>1. StateOK'
    BY <1>7 DEF PasswordAnswer, Issue, StartStore, RequestFails, Become, Return, Finish
  <2>2. StoredOK'
    BY <1>7 DEF PasswordAnswer, Issue, StartStore, RequestFails, Become, Return, Finish
  <2>3. CallOK'
    BY <1>7 DEF PasswordAnswer, Issue, StartStore, RequestFails, Become, Return, Finish
  <2>4. WorldOK'
    BY <1>7 DEF PasswordAnswer, Issue, StartStore, RequestFails, Become, Return, Finish
  <2> QED BY <1>0, <2>1, <2>2, <2>3, <2>4
<1>8. CASE CheckToken
  BY <1>8, <1>0 DEF CheckToken, Finish, Goto
<1>9. CASE RefreshAnswer
  BY <1>9, <1>0 DEF RefreshAnswer, Issue, StartStore
<1>10. CASE RetryRefresh
  BY <1>10, <1>0 DEF RetryRefresh
<1>11. CASE GiveUpRefresh
  BY <1>11, <1>0 DEF GiveUpRefresh, Finish
<1>12. CASE Exchanged
  <2>1. StateOK'
    BY <1>12 DEF Exchanged, Goto, RequestFails, Become, Return, Finish
  <2>2. StoredOK'
    BY <1>12 DEF Exchanged, Goto, RequestFails, Become, Return, Finish
  <2>3. CallOK'
    BY <1>12 DEF Exchanged, Goto, RequestFails, Become, Return, Finish
  <2>4. WorldOK'
    BY <1>12 DEF Exchanged, Goto, RequestFails, Become, Return, Finish
  <2> QED BY <1>0, <2>1, <2>2, <2>3, <2>4
<1>13. CASE Verified
  <2>1. StateOK'
    BY <1>13 DEF Verified, Issue, StartStore, RequestFails, Become, Return, Finish
  <2>2. StoredOK'
    BY <1>13 DEF Verified, Issue, StartStore, RequestFails, Become, Return, Finish
  <2>3. CallOK'
    BY <1>13 DEF Verified, Issue, StartStore, RequestFails, Become, Return, Finish
  <2>4. WorldOK'
    BY <1>13 DEF Verified, Issue, StartStore, RequestFails, Become, Return, Finish
  <2> QED BY <1>0, <2>1, <2>2, <2>3, <2>4
<1>14. CASE OpenFile
  BY <1>14, <1>0 DEF OpenFile, Succeeds, Fails, Goto, NotStored, BecomeLoggedIn, Return,
                     Finish
<1>15. CASE WriteFile
  BY <1>15, <1>0 DEF WriteFile, Succeeds, Fails, Goto, Stored, NotStored, BecomeLoggedIn,
                     Return, Finish
<1>16. CASE StoreToKeyring
  <2>1. StateOK'
    BY <1>16 DEF StoreToKeyring, Succeeds, Fails, BecomeLoggedIn, Return, Finish
  <2>2. StoredOK'
    BY <1>16 DEF StoreToKeyring, Succeeds, Fails, BecomeLoggedIn, Return, Finish
  <2>3. CallOK'
    BY <1>16 DEF StoreToKeyring, Succeeds, Fails, BecomeLoggedIn, Return, Finish
  <2>4. WorldOK'
    BY <1>16 DEF StoreToKeyring, Succeeds, Fails, BecomeLoggedIn, Return, Finish
  <2> QED BY <1>0, <2>1, <2>2, <2>3, <2>4
<1>17. CASE LoadFromFile
  <2>1. StateOK'
    BY <1>17 DEF LoadFromFile, Succeeds, Fails, Goto, StartStore, BecomeLoggedIn, Return,
                 Finish
  <2>2. StoredOK'
    BY <1>17 DEF LoadFromFile, Succeeds, Fails, Goto, StartStore, BecomeLoggedIn, Return,
                 Finish
  <2>3. CallOK'
    BY <1>17 DEF LoadFromFile, Succeeds, Fails, Goto, StartStore, BecomeLoggedIn, Return,
                 Finish
  <2>4. WorldOK'
    BY <1>17 DEF LoadFromFile, Succeeds, Fails, Goto, StartStore, BecomeLoggedIn, Return,
                 Finish
  <2> QED BY <1>0, <2>1, <2>2, <2>3, <2>4
<1>18. CASE LoadFromKeyring
  <2>1. StateOK'
    BY <1>18 DEF LoadFromKeyring, Succeeds, Fails, StartStore, Return, Finish
  <2>2. StoredOK'
    BY <1>18 DEF LoadFromKeyring, Succeeds, Fails, StartStore, Return, Finish
  <2>3. CallOK'
    BY <1>18 DEF LoadFromKeyring, Succeeds, Fails, StartStore, Return, Finish
  <2>4. WorldOK'
    BY <1>18 DEF LoadFromKeyring, Succeeds, Fails, StartStore, Return, Finish
  <2> QED BY <1>0, <2>1, <2>2, <2>3, <2>4
<1>19. CASE ClearFile
  <2>1. StateOK'
    BY <1>19 DEF ClearFile, Succeeds, Fails, Goto
  <2>2. StoredOK'
    BY <1>19 DEF ClearFile, Succeeds, Fails, Goto
  <2>3. CallOK'
    BY <1>19 DEF ClearFile, Succeeds, Fails, Goto
  <2>4. WorldOK'
    BY <1>19 DEF ClearFile, Succeeds, Fails, Goto
  <2> QED BY <1>0, <2>1, <2>2, <2>3, <2>4
<1>20. CASE ClearKeyring
  <2>1. StateOK'
    BY <1>20 DEF ClearKeyring, Succeeds, Fails, Become, Return, Finish
  <2>2. StoredOK'
    BY <1>20 DEF ClearKeyring, Succeeds, Fails, Become, Return, Finish
  <2>3. CallOK'
    BY <1>20 DEF ClearKeyring, Succeeds, Fails, Become, Return, Finish
  <2>4. WorldOK'
    BY <1>20 DEF ClearKeyring, Succeeds, Fails, Become, Return, Finish
  <2> QED BY <1>0, <2>1, <2>2, <2>3, <2>4
<1>21. ASSUME NEW k \in Attempts, BrowserRedirect(k) PROVE TypeOK'
  BY <1>21, <1>0 DEF BrowserRedirect
<1>22. CASE TokenAges
  BY <1>22, <1>0 DEF TokenAges
<1>23. CASE FlowAges
  BY <1>23, <1>0 DEF FlowAges
<1>24. CASE Restart
  BY <1>24, <1>0 DEF Restart, Become, StopServer
<1>25. CASE UNCHANGED vars
  BY <1>25, <1>0 DEF vars
<1> QED
  BY <1>1, <1>2, <1>3, <1>4, <1>5, <1>6, <1>7, <1>8, <1>9, <1>10, <1>11, <1>12, <1>13,
     <1>14, <1>15, <1>16, <1>17, <1>18, <1>19, <1>20, <1>21, <1>22, <1>23, <1>24, <1>25
     DEF Next, Calls, RequestSteps, StorageSteps

\* A step keeps purpose, state and program counter together.
LEMMA FlowStep == TypeOK /\ Flow /\ [Next]_vars => Flow'
<1> SUFFICES ASSUME TypeOK, Flow, [Next]_vars PROVE Flow'
  OBVIOUS
<1> USE AuthAssumption DEF stateVars, serverVars, diskVars, callVars, worldVars,
                           historyVars, None, Torn, TypeOK, StateOK, StoredOK, CallOK,
                           WorldOK, Flow, Storing, OwnStore, Sessions, Attempts
<1>1. CASE SignIn
  BY <1>1 DEF SignIn, Become, Begin
<1>2. CASE Refresh
  BY <1>2 DEF Refresh, Begin
<1>3. CASE SignOut
  BY <1>3 DEF SignOut, Begin
<1>4. ASSUME NEW started \in BOOLEAN, StartOAuth(started) PROVE Flow'
  BY <1>4 DEF StartOAuth, Begin
<1>5. CASE CompleteOAuth
  BY <1>5 DEF CompleteOAuth, StopServer, Become, Begin
<1>6. CASE CancelOAuth
  BY <1>6 DEF CancelOAuth, StopServer, Become, Begin
<1>7. CASE PasswordAnswer
  BY <1>7 DEF PasswordAnswer, Issue, StartStore, RequestFails, Become, Return, Finish
<1>8. CASE CheckToken
  BY <1>8 DEF CheckToken, Finish, Goto
<1>9. CASE RefreshAnswer
  BY <1>9 DEF RefreshAnswer, Issue, StartStore
<1>10. CASE RetryRefresh
  BY <1>10 DEF RetryRefresh
<1>11. CASE GiveUpRefresh
  BY <1>11 DEF GiveUpRefresh, Finish
<1>12. CASE Exchanged
  BY <1>12 DEF Exchanged, Goto, RequestFails, Become, Return, Finish
<1>13. CASE Verified
  BY <1>13 DEF Verified, Issue, StartStore, RequestFails, Become, Return, Finish
<1>14. CASE OpenFile
  BY <1>14 DEF OpenFile, Succeeds, Fails, Goto, NotStored, BecomeLoggedIn, Return, Finish
<1>15. CASE WriteFile
  BY <1>15 DEF WriteFile, Succeeds, Fails, Goto, Stored, NotStored, BecomeLoggedIn,
               Return, Finish
<1>16. CASE StoreToKeyring
  BY <1>16 DEF StoreToKeyring, Succeeds, Fails, BecomeLoggedIn, Return, Finish
<1>17. CASE LoadFromFile
  BY <1>17 DEF LoadFromFile, Succeeds, Fails, Goto, StartStore, BecomeLoggedIn, Return,
               Finish
<1>18. CASE LoadFromKeyring
  BY <1>18 DEF LoadFromKeyring, Succeeds, Fails, StartStore, Return, Finish
<1>19. CASE ClearFile
  BY <1>19 DEF ClearFile, Succeeds, Fails, Goto
<1>20. CASE ClearKeyring
  BY <1>20 DEF ClearKeyring, Succeeds, Fails, Become, Return, Finish
<1>21. ASSUME NEW k \in Attempts, BrowserRedirect(k) PROVE Flow'
  BY <1>21 DEF BrowserRedirect
<1>22. CASE TokenAges
  BY <1>22 DEF TokenAges
<1>23. CASE FlowAges
  BY <1>23 DEF FlowAges
<1>24. CASE Restart
  BY <1>24 DEF Restart, Become, StopServer
<1>25. CASE UNCHANGED vars
  BY <1>25 DEF vars
<1> QED
  BY <1>1, <1>2, <1>3, <1>4, <1>5, <1>6, <1>7, <1>8, <1>9, <1>10, <1>11, <1>12, <1>13,
     <1>14, <1>15, <1>16, <1>17, <1>18, <1>19, <1>20, <1>21, <1>22, <1>23, <1>24, <1>25
     DEF Next, Calls, RequestSteps, StorageSteps

\* A step leaves no copy older than what was durably stored.
LEMMA CopyOrderStep == TypeOK /\ Flow /\ CopyOrder /\ [Next]_vars => CopyOrder'
<1> SUFFICES ASSUME TypeOK, Flow, CopyOrder, [Next]_vars PROVE CopyOrder'
  OBVIOUS
<1> USE AuthAssumption DEF stateVars, serverVars, diskVars, callVars, worldVars,
                           historyVars, None, Torn, TypeOK, StateOK, StoredOK, CallOK,
                           WorldOK, Flow, Storing, OwnStore, Sessions, CopyOrder,
                           StoredSurvives
<1>1. CASE SignIn
  BY <1>1 DEF SignIn, Become, Begin
<1>2. CASE Refresh
  BY <1>2 DEF Refresh, Begin
<1>3. CASE SignOut
  BY <1>3 DEF SignOut, Begin
<1>4. ASSUME NEW started \in BOOLEAN, StartOAuth(started) PROVE CopyOrder'
  BY <1>4 DEF StartOAuth, Begin
<1>5. CASE CompleteOAuth
  BY <1>5 DEF CompleteOAuth, StopServer, Become, Begin
<1>6. CASE CancelOAuth
  BY <1>6 DEF CancelOAuth, StopServer, Become, Begin
<1>7. CASE PasswordAnswer
  BY <1>7 DEF PasswordAnswer, Issue, StartStore, RequestFails, Become, Return, Finish
<1>8. CASE CheckToken
  BY <1>8 DEF CheckToken, Finish, Goto
<1>9. CASE RefreshAnswer
  BY <1>9 DEF RefreshAnswer, Issue, StartStore
<1>10. CASE RetryRefresh
  BY <1>10 DEF RetryRefresh
<1>11. CASE GiveUpRefresh
  BY <1>11 DEF GiveUpRefresh, Finish
<1>12. CASE Exchanged
  BY <1>12 DEF Exchanged, Goto, RequestFails, Become, Return, Finish
<1>13. CASE Verified
  BY <1>13 DEF Verified, Issue, StartStore, RequestFails, Become, Return, Finish
<1>14. CASE OpenFile
  BY <1>14 DEF OpenFile, Succeeds, Fails, Goto, NotStored, BecomeLoggedIn, Return, Finish
<1>15. CASE WriteFile
  BY <1>15 DEF WriteFile, Succeeds, Fails, Goto, Stored, NotStored, BecomeLoggedIn,
               Return, Finish
<1>16. CASE StoreToKeyring
  BY <1>16 DEF StoreToKeyring, Succeeds, Fails, BecomeLoggedIn, Return, Finish
<1>17. CASE LoadFromFile
  BY <1>17 DEF LoadFromFile, Succeeds, Fails, Goto, StartStore, BecomeLoggedIn, Return,
               Finish
<1>18. CASE LoadFromKeyring
  BY <1>18 DEF LoadFromKeyring, Succeeds, Fails, StartStore, Return, Finish
<1>19. CASE ClearFile
  BY <1>19 DEF ClearFile, Succeeds, Fails, Goto
<1>20. CASE ClearKeyring
  BY <1>20 DEF ClearKeyring, Succeeds, Fails, Become, Return, Finish
<1>21. ASSUME NEW k \in Attempts, BrowserRedirect(k) PROVE CopyOrder'
  BY <1>21 DEF BrowserRedirect
<1>22. CASE TokenAges
  BY <1>22 DEF TokenAges
<1>23. CASE FlowAges
  BY <1>23 DEF FlowAges
<1>24. CASE Restart
  BY <1>24 DEF Restart, Become, StopServer
<1>25. CASE UNCHANGED vars
  BY <1>25 DEF vars
<1> QED
  BY <1>1, <1>2, <1>3, <1>4, <1>5, <1>6, <1>7, <1>8, <1>9, <1>10, <1>11, <1>12, <1>13,
     <1>14, <1>15, <1>16, <1>17, <1>18, <1>19, <1>20, <1>21, <1>22, <1>23, <1>24, <1>25
     DEF Next, Calls, RequestSteps, StorageSteps

\* A step brings nothing back that a sign-out has removed.
LEMMA ForgottenStep == TypeOK /\ Flow /\ Forgotten /\ [Next]_vars => Forgotten'
<1> SUFFICES ASSUME TypeOK, Flow, Forgotten, [Next]_vars PROVE Forgotten'
  OBVIOUS
<1> USE AuthAssumption DEF stateVars, serverVars, diskVars, callVars, worldVars,
                           historyVars, None, Torn, TypeOK, StateOK, StoredOK, CallOK,
                           WorldOK, Flow, Storing, OwnStore, Sessions, Forgotten,
                           SignedOutStaysOut
<1>1. CASE SignIn
  BY <1>1 DEF SignIn, Become, Begin
<1>2. CASE Refresh
  BY <1>2 DEF Refresh, Begin
<1>3. CASE SignOut
  BY <1>3 DEF SignOut, Begin
<1>4. ASSUME NEW started \in BOOLEAN, StartOAuth(started) PROVE Forgotten'
  BY <1>4 DEF StartOAuth, Begin
<1>5. CASE CompleteOAuth
  BY <1>5 DEF CompleteOAuth, StopServer, Become, Begin
<1>6. CASE CancelOAuth
  BY <1>6 DEF CancelOAuth, StopServer, Become, Begin
<1>7. CASE PasswordAnswer
  BY <1>7 DEF PasswordAnswer, Issue, StartStore, RequestFails, Become, Return, Finish
<1>8. CASE CheckToken
  BY <1>8 DEF CheckToken, Finish, Goto
<1>9. CASE RefreshAnswer
  BY <1>9 DEF RefreshAnswer, Issue, StartStore
<1>10. CASE RetryRefresh
  BY <1>10 DEF RetryRefresh
<1>11. CASE GiveUpRefresh
  BY <1>11 DEF GiveUpRefresh, Finish
<1>12. CASE Exchanged
  BY <1>12 DEF Exchanged, Goto, RequestFails, Become, Return, Finish
<1>13. CASE Verified
  BY <1>13 DEF Verified, Issue, StartStore, RequestFails, Become, Return, Finish
<1>14. CASE OpenFile
  BY <1>14 DEF OpenFile, Succeeds, Fails, Goto, NotStored, BecomeLoggedIn, Return, Finish
<1>15. CASE WriteFile
  BY <1>15 DEF WriteFile, Succeeds, Fails, Goto, Stored, NotStored, BecomeLoggedIn,
               Return, Finish
<1>16. CASE StoreToKeyring
  BY <1>16 DEF StoreToKeyring, Succeeds, Fails, BecomeLoggedIn, Return, Finish
<1>17. CASE LoadFromFile
  BY <1>17 DEF LoadFromFile, Succeeds, Fails, Goto, StartStore, BecomeLoggedIn, Return,
               Finish
<1>18. CASE LoadFromKeyring
  BY <1>18 DEF LoadFromKeyring, Succeeds, Fails, StartStore, Return, Finish
<1>19. CASE ClearFile
  BY <1>19 DEF ClearFile, Succeeds, Fails, Goto
<1>20. CASE ClearKeyring
  BY <1>20 DEF ClearKeyring, Succeeds, Fails, Become, Return, Finish
<1>21. ASSUME NEW k \in Attempts, BrowserRedirect(k) PROVE Forgotten'
  BY <1>21 DEF BrowserRedirect
<1>22. CASE TokenAges
  BY <1>22 DEF TokenAges
<1>23. CASE FlowAges
  BY <1>23 DEF FlowAges
<1>24. CASE Restart
  BY <1>24 DEF Restart, Become, StopServer
<1>25. CASE UNCHANGED vars
  BY <1>25 DEF vars
<1> QED
  BY <1>1, <1>2, <1>3, <1>4, <1>5, <1>6, <1>7, <1>8, <1>9, <1>10, <1>11, <1>12, <1>13,
     <1>14, <1>15, <1>16, <1>17, <1>18, <1>19, <1>20, <1>21, <1>22, <1>23, <1>24, <1>25
     DEF Next, Calls, RequestSteps, StorageSteps

\* A step makes no session the state's before the file has it.
LEMMA FileFirstStep == TypeOK /\ Flow /\ FileFirst /\ [Next]_vars => FileFirst'
<1> SUFFICES ASSUME TypeOK, Flow, FileFirst, [Next]_vars PROVE FileFirst'
  OBVIOUS
<1> USE AuthAssumption DEF stateVars, serverVars, diskVars, callVars, worldVars,
                           historyVars, None, Torn, TypeOK, StateOK, StoredOK, CallOK,
                           WorldOK, Flow, Storing, OwnStore, Sessions, FileFirst
<1>1. CASE SignIn
  BY <1>1 DEF SignIn, Become, Begin
<1>2. CASE Refresh
  BY <1>2 DEF Refresh, Begin
<1>3. CASE SignOut
  BY <1>3 DEF SignOut, Begin
<1>4. ASSUME NEW started \in BOOLEAN, StartOAuth(started) PROVE FileFirst'
  BY <1>4 DEF StartOAuth, Begin
<1>5. CASE CompleteOAuth
  BY <1>5 DEF CompleteOAuth, StopServer, Become, Begin
<1>6. CASE CancelOAuth
  BY <1>6 DEF CancelOAuth, StopServer, Become, Begin
<1>7. CASE PasswordAnswer
  BY <1>7 DEF PasswordAnswer, Issue, StartStore, RequestFails, Become, Return, Finish
<1>8. CASE CheckToken
  BY <1>8 DEF CheckToken, Finish, Goto
<1>9. CASE RefreshAnswer
  BY <1>9 DEF RefreshAnswer, Issue, StartStore
<1>10. CASE RetryRefresh
  BY <1>10 DEF RetryRefresh
<1>11. CASE GiveUpRefresh
  BY <1>11 DEF GiveUpRefresh, Finish
<1>12. CASE Exchanged
  BY <1>12 DEF Exchanged, Goto, RequestFails, Become, Return, Finish
<1>13. CASE Verified
  BY <1>13 DEF Verified, Issue, StartStore, RequestFails, Become, Return, Finish
<1>14. CASE OpenFile
  BY <1>14 DEF OpenFile, Succeeds, Fails, Goto, NotStored, BecomeLoggedIn, Return, Finish
<1>15. CASE WriteFile
  BY <1>15 DEF WriteFile, Succeeds, Fails, Goto, Stored, NotStored, BecomeLoggedIn,
               Return, Finish
<1>16. CASE StoreToKeyring
  BY <1>16 DEF StoreToKeyring, Succeeds, Fails, BecomeLoggedIn, Return, Finish
<1>17. CASE LoadFromFile
  BY <1>17 DEF LoadFromFile, Succeeds, Fails, Goto, StartStore, BecomeLoggedIn, Return,
               Finish
<1>18. CASE LoadFromKeyring
  BY <1>18 DEF LoadFromKeyring, Succeeds, Fails, StartStore, Return, Finish
<1>19. CASE ClearFile
  BY <1>19 DEF ClearFile, Succeeds, Fails, Goto
<1>20. CASE ClearKeyring
  BY <1>20 DEF ClearKeyring, Succeeds, Fails, Become, Return, Finish
<1>21. ASSUME NEW k \in Attempts, BrowserRedirect(k) PROVE FileFirst'
  BY <1>21 DEF BrowserRedirect
<1>22. CASE TokenAges
  BY <1>22 DEF TokenAges
<1>23. CASE FlowAges
  BY <1>23 DEF FlowAges
<1>24. CASE Restart
  BY <1>24 DEF Restart, Become, StopServer
<1>25. CASE UNCHANGED vars
  BY <1>25 DEF vars
<1> QED
  BY <1>1, <1>2, <1>3, <1>4, <1>5, <1>6, <1>7, <1>8, <1>9, <1>10, <1>11, <1>12, <1>13,
     <1>14, <1>15, <1>16, <1>17, <1>18, <1>19, <1>20, <1>21, <1>22, <1>23, <1>24, <1>25
     DEF Next, Calls, RequestSteps, StorageSteps

\* A step keeps the awaited flow the wanted one.
LEMMA AwaitedStep == TypeOK /\ Flow /\ Awaited /\ [Next]_vars => Awaited'
<1> SUFFICES ASSUME TypeOK, Flow, Awaited, [Next]_vars PROVE Awaited'
  OBVIOUS
<1> USE AuthAssumption DEF stateVars, serverVars, diskVars, callVars, worldVars,
                           historyVars, None, Torn, TypeOK, StateOK, StoredOK, CallOK,
                           WorldOK, Flow, Awaited, Attempts, Storing
<1>1. CASE SignIn
  BY <1>1 DEF SignIn, Become, Begin
<1>2. CASE Refresh
  BY <1>2 DEF Refresh, Begin
<1>3. CASE SignOut
  BY <1>3 DEF SignOut, Begin
<1>4. ASSUME NEW started \in BOOLEAN, StartOAuth(started) PROVE Awaited'
  BY <1>4 DEF StartOAuth, Begin
<1>5. CASE CompleteOAuth
  BY <1>5 DEF CompleteOAuth, StopServer, Become, Begin
<1>6. CASE CancelOAuth
  BY <1>6 DEF CancelOAuth, StopServer, Become, Begin
<1>7. CASE PasswordAnswer
  BY <1>7 DEF PasswordAnswer, Issue, StartStore, RequestFails, Become, Return, Finish
<1>8. CASE CheckToken
  BY <1>8 DEF CheckToken, Finish, Goto
<1>9. CASE RefreshAnswer
  BY <1>9 DEF RefreshAnswer, Issue, StartStore
<1>10. CASE RetryRefresh
  BY <1>10 DEF RetryRefresh
<1>11. CASE GiveUpRefresh
  BY <1>11 DEF GiveUpRefresh, Finish
<1>12. CASE Exchanged
  BY <1>12 DEF Exchanged, Goto, RequestFails, Become, Return, Finish
<1>13. CASE Verified
  BY <1>13 DEF Verified, Issue, StartStore, RequestFails, Become, Return, Finish
<1>14. CASE OpenFile
  BY <1>14 DEF OpenFile, Succeeds, Fails, Goto, NotStored, BecomeLoggedIn, Return, Finish
<1>15. CASE WriteFile
  BY <1>15 DEF WriteFile, Succeeds, Fails, Goto, Stored, NotStored, BecomeLoggedIn,
               Return, Finish
<1>16. CASE StoreToKeyring
  BY <1>16 DEF StoreToKeyring, Succeeds, Fails, BecomeLoggedIn, Return, Finish
<1>17. CASE LoadFromFile
  BY <1>17 DEF LoadFromFile, Succeeds, Fails, Goto, StartStore, BecomeLoggedIn, Return,
               Finish
<1>18. CASE LoadFromKeyring
  BY <1>18 DEF LoadFromKeyring, Succeeds, Fails, StartStore, Return, Finish
<1>19. CASE ClearFile
  BY <1>19 DEF ClearFile, Succeeds, Fails, Goto
<1>20. CASE ClearKeyring
  BY <1>20 DEF ClearKeyring, Succeeds, Fails, Become, Return, Finish
<1>21. ASSUME NEW k \in Attempts, BrowserRedirect(k) PROVE Awaited'
  BY <1>21 DEF BrowserRedirect
<1>22. CASE TokenAges
  BY <1>22 DEF TokenAges
<1>23. CASE FlowAges
  BY <1>23 DEF FlowAges
<1>24. CASE Restart
  BY <1>24 DEF Restart, Become, StopServer
<1>25. CASE UNCHANGED vars
  BY <1>25 DEF vars
<1> QED
  BY <1>1, <1>2, <1>3, <1>4, <1>5, <1>6, <1>7, <1>8, <1>9, <1>10, <1>11, <1>12, <1>13,
     <1>14, <1>15, <1>16, <1>17, <1>18, <1>19, <1>20, <1>21, <1>22, <1>23, <1>24, <1>25
     DEF Next, Calls, RequestSteps, StorageSteps

\* A step leaves a login behind only by a write that failed.
LEMMA SettledStep == TypeOK /\ Flow /\ Settled /\ [Next]_vars => Settled'
<1> SUFFICES ASSUME TypeOK, Flow, Settled, [Next]_vars PROVE Settled'
  OBVIOUS
<1> USE AuthAssumption DEF stateVars, serverVars, diskVars, callVars, worldVars,
                           historyVars, None, Torn, TypeOK, StateOK, StoredOK, CallOK,
                           WorldOK, Flow, Settled, Attempts, Storing
<1>1. CASE SignIn
  BY <1>1 DEF SignIn, Become, Begin
<1>2. CASE Refresh
  BY <1>2 DEF Refresh, Begin
<1>3. CASE SignOut
  BY <1>3 DEF SignOut, Begin
<1>4. ASSUME NEW started \in BOOLEAN, StartOAuth(started) PROVE Settled'
  BY <1>4 DEF StartOAuth, Begin
<1>5. CASE CompleteOAuth
  BY <1>5 DEF CompleteOAuth, StopServer, Become, Begin
<1>6. CASE CancelOAuth
  BY <1>6 DEF CancelOAuth, StopServer, Become, Begin
<1>7. CASE PasswordAnswer
  BY <1>7 DEF PasswordAnswer, Issue, StartStore, RequestFails, Become, Return, Finish
<1>8. CASE CheckToken
  BY <1>8 DEF CheckToken, Finish, Goto
<1>9. CASE RefreshAnswer
  BY <1>9 DEF RefreshAnswer, Issue, StartStore
<1>10. CASE RetryRefresh
  BY <1>10 DEF RetryRefresh
<1>11. CASE GiveUpRefresh
  BY <1>11 DEF GiveUpRefresh, Finish
<1>12. CASE Exchanged
  BY <1>12 DEF Exchanged, Goto, RequestFails, Become, Return, Finish
<1>13. CASE Verified
  BY <1>13 DEF Verified, Issue, StartStore, RequestFails, Become, Return, Finish
<1>14. CASE OpenFile
  BY <1>14 DEF OpenFile, Succeeds, Fails, Goto, NotStored, BecomeLoggedIn, Return, Finish
<1>15. CASE WriteFile
  BY <1>15 DEF WriteFile, Succeeds, Fails, Goto, Stored, NotStored, BecomeLoggedIn,
               Return, Finish
<1>16. CASE StoreToKeyring
  BY <1>16 DEF StoreToKeyring, Succeeds, Fails, BecomeLoggedIn, Return, Finish
<1>17. CASE LoadFromFile
  BY <1>17 DEF LoadFromFile, Succeeds, Fails, Goto, StartStore, BecomeLoggedIn, Return,
               Finish
<1>18. CASE LoadFromKeyring
  BY <1>18 DEF LoadFromKeyring, Succeeds, Fails, StartStore, Return, Finish
<1>19. CASE ClearFile
  BY <1>19 DEF ClearFile, Succeeds, Fails, Goto
<1>20. CASE ClearKeyring
  BY <1>20 DEF ClearKeyring, Succeeds, Fails, Become, Return, Finish
<1>21. ASSUME NEW k \in Attempts, BrowserRedirect(k) PROVE Settled'
  BY <1>21 DEF BrowserRedirect
<1>22. CASE TokenAges
  BY <1>22 DEF TokenAges
<1>23. CASE FlowAges
  BY <1>23 DEF FlowAges
<1>24. CASE Restart
  BY <1>24 DEF Restart, Become, StopServer
<1>25. CASE UNCHANGED vars
  BY <1>25 DEF vars
<1> QED
  BY <1>1, <1>2, <1>3, <1>4, <1>5, <1>6, <1>7, <1>8, <1>9, <1>10, <1>11, <1>12, <1>13,
     <1>14, <1>15, <1>16, <1>17, <1>18, <1>19, <1>20, <1>21, <1>22, <1>23, <1>24, <1>25
     DEF Next, Calls, RequestSteps, StorageSteps

\* A step takes an answer only to act on it, or late.
LEMMA AnswerStep == TypeOK /\ Flow /\ AnswerKept /\ [Next]_vars => AnswerKept'
<1> SUFFICES ASSUME TypeOK, Flow, AnswerKept, [Next]_vars PROVE AnswerKept'
  OBVIOUS
<1> USE AuthAssumption DEF stateVars, serverVars, diskVars, callVars, worldVars,
                           historyVars, None, Torn, TypeOK, StateOK, StoredOK, CallOK,
                           WorldOK, Flow, AnswerKept, Attempts, Storing
<1>1. CASE SignIn
  BY <1>1 DEF SignIn, Become, Begin
<1>2. CASE Refresh
  BY <1>2 DEF Refresh, Begin
<1>3. CASE SignOut
  BY <1>3 DEF SignOut, Begin
<1>4. ASSUME NEW started \in BOOLEAN, StartOAuth(started) PROVE AnswerKept'
  BY <1>4 DEF StartOAuth, Begin
<1>5. CASE CompleteOAuth
  BY <1>5 DEF CompleteOAuth, StopServer, Become, Begin
<1>6. CASE CancelOAuth
  BY <1>6 DEF CancelOAuth, StopServer, Become, Begin
<1>7. CASE PasswordAnswer
  BY <1>7 DEF PasswordAnswer, Issue, StartStore, RequestFails, Become, Return, Finish
<1>8. CASE CheckToken
  BY <1>8 DEF CheckToken, Finish, Goto
<1>9. CASE RefreshAnswer
  BY <1>9 DEF RefreshAnswer, Issue, StartStore
<1>10. CASE RetryRefresh
  BY <1>10 DEF RetryRefresh
<1>11. CASE GiveUpRefresh
  BY <1>11 DEF GiveUpRefresh, Finish
<1>12. CASE Exchanged
  BY <1>12 DEF Exchanged, Goto, RequestFails, Become, Return, Finish
<1>13. CASE Verified
  BY <1>13 DEF Verified, Issue, StartStore, RequestFails, Become, Return, Finish
<1>14. CASE OpenFile
  BY <1>14 DEF OpenFile, Succeeds, Fails, Goto, NotStored, BecomeLoggedIn, Return, Finish
<1>15. CASE WriteFile
  BY <1>15 DEF WriteFile, Succeeds, Fails, Goto, Stored, NotStored, BecomeLoggedIn,
               Return, Finish
<1>16. CASE StoreToKeyring
  BY <1>16 DEF StoreToKeyring, Succeeds, Fails, BecomeLoggedIn, Return, Finish
<1>17. CASE LoadFromFile
  BY <1>17 DEF LoadFromFile, Succeeds, Fails, Goto, StartStore, BecomeLoggedIn, Return,
               Finish
<1>18. CASE LoadFromKeyring
  BY <1>18 DEF LoadFromKeyring, Succeeds, Fails, StartStore, Return, Finish
<1>19. CASE ClearFile
  BY <1>19 DEF ClearFile, Succeeds, Fails, Goto
<1>20. CASE ClearKeyring
  BY <1>20 DEF ClearKeyring, Succeeds, Fails, Become, Return, Finish
<1>21. ASSUME NEW k \in Attempts, BrowserRedirect(k) PROVE AnswerKept'
  BY <1>21 DEF BrowserRedirect
<1>22. CASE TokenAges
  BY <1>22 DEF TokenAges
<1>23. CASE FlowAges
  BY <1>23 DEF FlowAges
<1>24. CASE Restart
  BY <1>24 DEF Restart, Become, StopServer
<1>25. CASE UNCHANGED vars
  BY <1>25 DEF vars
<1> QED
  BY <1>1, <1>2, <1>3, <1>4, <1>5, <1>6, <1>7, <1>8, <1>9, <1>10, <1>11, <1>12, <1>13,
     <1>14, <1>15, <1>16, <1>17, <1>18, <1>19, <1>20, <1>21, <1>22, <1>23, <1>24, <1>25
     DEF Next, Calls, RequestSteps, StorageSteps

\* The types and the invariant hold always.
LEMMA Invariance == Spec => [](TypeOK /\ AuthInv)
<1>1. TypeOK /\ AuthInv /\ [Next]_vars => (TypeOK /\ AuthInv)'
  BY TypeStep, FlowStep, CopyOrderStep, ForgottenStep, FileFirstStep, AwaitedStep,
     SettledStep, AnswerStep
     DEF AuthInv
<1> QED BY TypeInit, <1>1, PTL DEF Spec

\* The types of AuthManager's state and of what is on disk.
THEOREM TypeCorrect == Spec => []TypeOK
BY Invariance, PTL

\* A session stored with success outlives the process, while the keyring works
\* (store_session, load_session).
THEOREM StoredAlwaysSurvives == Spec => []StoredSurvives
<1>1. AuthInv => StoredSurvives
  BY DEF AuthInv, CopyOrder
<1> QED BY Invariance, <1>1, PTL

\* A sign-out that could delete what it had to holds across restarts (logout).
THEOREM SignedOutAlwaysOut == Spec => []SignedOutStaysOut
<1>1. AuthInv => SignedOutStaysOut
  BY DEF AuthInv, Forgotten
<1> QED BY Invariance, <1>1, PTL

\* The session in use is the one on disk (sign_in, refresh_if_needed, load_session).
THEOREM LoggedInAlwaysStored == Spec => []LoggedInIsStored
<1>1. AuthInv => LoggedInIsStored
  BY DEF AuthInv, FileFirst, LoggedInIsStored
<1> QED BY Invariance, <1>1, PTL

\* A call that logs in leaves the state at LoggingIn only when the file could not be written
\* (sign_in, complete_oauth_callback).
THEOREM LoginAlwaysSettled == Spec => []LoginSettled
<1>1. TypeOK /\ AuthInv => LoginSettled
  BY DEF AuthInv, Settled, LoginSettled, Storing
<1> QED BY Invariance, <1>1, PTL

\* An answer to the awaited flow waits to be taken (OAuthServer, complete_oauth_callback).
THEOREM AnswerAlwaysKept == Spec => []AnswerKept
<1>1. AuthInv => AnswerKept
  BY DEF AuthInv
<1> QED BY Invariance, <1>1, PTL

\* Only the answer to the awaited flow is exchanged for a session
\* (complete_oauth_callback).
THEOREM AlwaysOwnAnswer == Spec => OwnAnswer
<1>1. Awaited /\ [Next]_vars => [pc # "exchange" /\ pc' = "exchange" => callback = wanted]_vars
  <2> SUFFICES ASSUME Awaited, [Next]_vars, pc # "exchange", pc' = "exchange"
               PROVE callback = wanted
    OBVIOUS
  <2>1. CompleteOAuth
    BY DEF Next, Calls, RequestSteps, StorageSteps, SignIn, Refresh, SignOut, StartOAuth,
       CancelOAuth, PasswordAnswer, CheckToken, RefreshAnswer, RetryRefresh, GiveUpRefresh,
       Exchanged, Verified, OpenFile, WriteFile, StoreToKeyring, LoadFromFile,
       LoadFromKeyring, ClearFile, ClearKeyring, BrowserRedirect, TokenAges, FlowAges,
       Restart, Begin, Goto, Return, Finish, Issue, StartStore, RequestFails, Stored,
       NotStored, vars, callVars
  <2> QED BY <2>1 DEF CompleteOAuth, Awaited, Begin
<1>2. AuthInv => Awaited
  BY DEF AuthInv
<1> QED BY Invariance, <1>1, <1>2, PTL DEF Spec, OwnAnswer

\* A token that is kept when refreshing fails has not expired (refresh_if_needed).
THEOREM TokenAlwaysValid == Spec => TokenValid
<1>1. [Next]_vars => [answer # "ok" /\ answer' = "ok" => age # "expired"]_vars
  <2> SUFFICES ASSUME [Next]_vars, answer # "ok", answer' = "ok"
               PROVE age # "expired"
    OBVIOUS
  <2>1. CheckToken \/ GiveUpRefresh
    BY DEF Next, Calls, RequestSteps, StorageSteps, SignIn, Refresh, SignOut, StartOAuth,
       CompleteOAuth, CancelOAuth, PasswordAnswer, RefreshAnswer, RetryRefresh, Exchanged,
       Verified, OpenFile, WriteFile, StoreToKeyring, LoadFromFile, LoadFromKeyring,
       ClearFile, ClearKeyring, BrowserRedirect, TokenAges, FlowAges, Restart, Begin,
       Goto, Return, Finish, Issue, StartStore, RequestFails, Stored, NotStored, vars,
       callVars
  <2> QED BY <2>1 DEF CheckToken, GiveUpRefresh, Finish, Goto
<1> QED BY <1>1, PTL DEF Spec, TokenValid
=============================================================================
