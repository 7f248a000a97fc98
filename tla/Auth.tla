-------------------------------- MODULE Auth --------------------------------
(***************************************************************************)
(* Logging in, staying logged in and logging out: AuthManager, the two     *)
(* places SecureStorage keeps the session in (a file, and the keyring as a *)
(* second copy), and the local server that receives the OAuth callback.    *)
(*                                                                         *)
(* The SDK lock lets one call run at a time, so a call is a program        *)
(* counter with a step per request, file operation or keyring operation.   *)
(* Beside it run the callback server's thread, the browser, time, and the  *)
(* end of the process, which may come between any two steps.               *)
(*                                                                         *)
(* A session is its number in order of issue; tokens, users and encryption *)
(* are left out. So are the refresh-failure record, which only a log line  *)
(* reads, and Banned, which nothing sets.                                  *)
(***************************************************************************)
EXTENDS Integers

CONSTANTS
  MaxSessions,   \* bound: sessions the service issues
  MaxAttempts,   \* bound: OAuth flows started
  MaxRestarts,   \* bound: deaths and restarts of the process
  MaxRetries,    \* MAX_REFRESH_RETRIES
  Faults         \* the kinds of storage operation that may fail

FaultKinds == {"read", "open", "write", "delete", "keyring"}

ASSUME AuthAssumption ==
  /\ MaxSessions \in Nat \ {0}
  /\ MaxAttempts \in Nat /\ MaxRestarts \in Nat
  /\ MaxRetries \in Nat \ {0}
  /\ Faults \subseteq FaultKinds

VARIABLES
  state, login, age,     \* AuthState; the session it holds, and how near its expiry is
  pending, late,         \* the OAuth flow it awaits; older than ten minutes
  server, callback,      \* the callback server; the flow whose answer its channel holds
  file, legacy,          \* auth_session.dat; whether it has the pre-1.0 format
  keyring,
  pc, purpose, new,      \* the call in progress; why it stores which session
  attempt, answer,       \* refresh_if_needed: its attempt, and what it last returned
  issued, attempts, restarts,
  failed,                \* history: kinds of storage operation that have failed
  durable,               \* history: the last session store_session returned Ok for
  signed_out,            \* history: signed out, and no session issued since
  wanted                 \* history: the OAuth flow the application is waiting for

stateVars   == <<state, login, age, pending, late>>
serverVars  == <<server, callback>>
diskVars    == <<file, legacy, keyring>>
callVars    == <<pc, purpose, new, attempt, answer>>
worldVars   == <<issued, attempts, restarts>>
historyVars == <<failed, durable, signed_out, wanted>>
vars == <<stateVars, serverVars, diskVars, callVars, worldVars, historyVars>>

None == 0
Torn == -1     \* a file cut off in the middle of being written

Sessions == 1 .. MaxSessions
Attempts == 1 .. MaxAttempts
Ages     == {"fresh", "soon", "expired"}     \* is_expired, expires_soon

\* A first start, or the first after an upgrade from a pre-1.0 SDK.
Init ==
  /\ state = "LoggedOut" /\ login = None /\ age = "fresh" /\ pending = None /\ late = FALSE
  /\ server = "none" /\ callback = None
  /\ legacy \in BOOLEAN
  /\ file = (IF legacy THEN 1 ELSE None)
  /\ keyring \in {None, file}
  /\ pc = "load" /\ purpose = "none" /\ new = None /\ attempt = 0 /\ answer = "none"
  /\ issued = file /\ attempts = 0 /\ restarts = 0
  /\ failed = {} /\ durable = None /\ signed_out = FALSE /\ wanted = None

\* A storage operation succeeds, or is one that may fail and does.
Succeeds == UNCHANGED failed
Fails(kind) == kind \in Faults /\ failed' = failed \cup {kind}

\* A call begins, moves on, and returns (refresh_if_needed with a result).
Begin(p)       == pc' = p /\ answer' = "none" /\ UNCHANGED <<purpose, new, attempt>>
Goto(p)        == pc' = p /\ UNCHANGED <<purpose, new, attempt, answer>>
Finish(result) == /\ pc' = "idle" /\ answer' = result
                  /\ purpose' = "none" /\ new' = None /\ attempt' = 0
Return         == Finish("none")

\* The session may be an old one, or have aged while it was stored.
BecomeLoggedIn(s) ==
  /\ state' = "LoggedIn" /\ login' = s /\ age' \in Ages
  /\ pending' = None /\ late' = FALSE

Become(st) ==
  /\ state' = st /\ login' = None /\ age' = "fresh"
  /\ pending' = None /\ late' = FALSE

\* A call goes on to store session s.
StartStore(why, s) ==
  /\ pc' = "open" /\ purpose' = why /\ new' = s
  /\ attempt' = 0 /\ UNCHANGED answer

\* The service answers with a new session.
Issue(why) ==
  /\ issued < MaxSessions
  /\ issued' = issued + 1
  /\ StartStore(why, issued + 1)
  /\ signed_out' = FALSE
  /\ UNCHANGED <<attempts, restarts, failed, durable, wanted>>

-----------------------------------------------------------------------------
(* SecureStorage *)

\* What store_to_file is followed by, when it has worked and when it has not.
Stored ==
  IF purpose = "rewrite"
  THEN BecomeLoggedIn(new) /\ Return
  ELSE Goto("keyring") /\ UNCHANGED stateVars

NotStored ==
  CASE purpose = "login"   -> Return /\ UNCHANGED stateVars
    [] purpose = "migrate" -> Goto("keyring") /\ UNCHANGED stateVars
    [] OTHER               -> BecomeLoggedIn(new) /\ Return

\* fs::write truncates the file before it writes to it.
OpenFile ==
  /\ pc = "open"
  /\ \/ Succeeds /\ file' = Torn /\ legacy' = FALSE /\ Goto("write") /\ UNCHANGED stateVars
     \/ Fails("open") /\ UNCHANGED <<file, legacy>> /\ NotStored
  /\ UNCHANGED <<keyring, serverVars, worldVars, durable, signed_out, wanted>>

WriteFile ==
  /\ pc = "write"
  /\ \/ Succeeds /\ file' = new /\ Stored
     \/ Fails("write") /\ UNCHANGED file /\ NotStored
  /\ UNCHANGED <<legacy, keyring, serverVars, worldVars, durable, signed_out, wanted>>

\* Mutant: only a login refreshes the second copy.
StoreToKeyringAtLogin ==
  /\ pc = "keyring"
  /\ \/ Succeeds /\ keyring' = IF purpose = "login" THEN new ELSE keyring
     \/ Fails("keyring") /\ UNCHANGED keyring
  /\ durable' = IF purpose \in {"login", "refresh"} THEN new ELSE durable
  /\ BecomeLoggedIn(new)
  /\ Return
  /\ UNCHANGED <<file, legacy, serverVars, worldVars, signed_out, wanted>>

\* The keyring is best effort; then the session becomes the state's.
StoreToKeyring ==
  /\ pc = "keyring"
  /\ \/ Succeeds /\ keyring' = new
     \/ Fails("keyring") /\ UNCHANGED keyring
  /\ durable' = IF purpose \in {"login", "refresh"} THEN new ELSE durable
  /\ BecomeLoggedIn(new)
  /\ Return
  /\ UNCHANGED <<file, legacy, serverVars, worldVars, signed_out, wanted>>

\* load_from_file: no file, one that cannot be read, one that does not decode and is
\* removed, or a session, sealed again if it has the old format.
LoadFromFile ==
  /\ pc = "load"
  /\ \/ /\ \/ file = None /\ Succeeds
           \/ file # None /\ Fails("read")
        /\ Goto("fallback")
        /\ UNCHANGED <<file, stateVars>>
     \/ /\ file = Torn
        /\ \/ Succeeds /\ file' = None
           \/ Fails("delete") /\ UNCHANGED file
        /\ Goto("fallback")
        /\ UNCHANGED stateVars
     \/ /\ file \in Sessions /\ legacy
        /\ Succeeds
        /\ StartStore("rewrite", file)
        /\ UNCHANGED <<file, stateVars>>
     \/ /\ file \in Sessions /\ ~legacy
        /\ Succeeds
        /\ BecomeLoggedIn(file)
        /\ Return
        /\ UNCHANGED file
  /\ UNCHANGED <<legacy, keyring, serverVars, worldVars, durable, signed_out, wanted>>

\* Mutant: the session found is used, and not written back.
LoadFromKeyringOnly ==
  /\ pc = "fallback"
  /\ IF keyring = None
     THEN Succeeds /\ UNCHANGED stateVars
     ELSE \/ Succeeds /\ BecomeLoggedIn(keyring)
          \/ Fails("keyring") /\ UNCHANGED stateVars
  /\ Return
  /\ UNCHANGED <<diskVars, serverVars, worldVars, durable, signed_out, wanted>>

\* load_from_keyring; a session found there is written to both places again.
LoadFromKeyring ==
  /\ pc = "fallback"
  /\ IF keyring = None
     THEN Succeeds /\ Return
     ELSE \/ Succeeds /\ StartStore("migrate", keyring)
          \/ Fails("keyring") /\ Return
  /\ UNCHANGED <<stateVars, diskVars, serverVars, worldVars, durable, signed_out, wanted>>

-----------------------------------------------------------------------------
(* sign_in and refresh_if_needed *)

SignIn ==
  /\ pc = "idle"
  /\ Become("LoggingIn")
  /\ wanted' = None
  /\ Begin("password")
  /\ UNCHANGED <<serverVars, diskVars, worldVars, failed, durable, signed_out>>

\* Mutant: the call returns its error, and the state says that it goes on.
RequestFailsUnseen == Return /\ UNCHANGED <<stateVars, worldVars, historyVars>>

RequestFails == Become("Error") /\ Return /\ UNCHANGED <<worldVars, historyVars>>

PasswordAnswer ==
  /\ pc = "password"
  /\ \/ Issue("login") /\ UNCHANGED stateVars
     \/ RequestFails
  /\ UNCHANGED <<serverVars, diskVars>>

Refresh ==
  /\ pc = "idle"
  /\ state = "LoggedIn"
  /\ Begin("check")
  /\ UNCHANGED <<stateVars, serverVars, diskVars, worldVars, historyVars>>

CheckToken ==
  /\ pc = "check"
  /\ IF age = "fresh" THEN Finish("ok") ELSE Goto("refresh")
  /\ UNCHANGED <<stateVars, serverVars, diskVars, worldVars, historyVars>>

\* try_refresh_token returns a session, which is stored before it is the state's.
RefreshAnswer ==
  /\ pc = "refresh"
  /\ Issue("refresh")
  /\ UNCHANGED <<stateVars, serverVars, diskVars>>

\* Some attempt before the last fails: the next follows after a pause.
RetryRefresh ==
  /\ pc = "refresh"
  /\ attempt + 1 < MaxRetries
  /\ attempt' = attempt + 1
  /\ UNCHANGED <<pc, purpose, new, answer>>
  /\ UNCHANGED <<stateVars, serverVars, diskVars, worldVars, historyVars>>

\* Mutant: a refresh that failed is never an error.
GiveUpRefreshSilently ==
  /\ pc = "refresh"
  /\ attempt + 1 = MaxRetries
  /\ Finish("ok")
  /\ UNCHANGED <<stateVars, serverVars, diskVars, worldVars, historyVars>>

\* The last attempt has failed: whether that is an error depends on the time it is now.
GiveUpRefresh ==
  /\ pc = "refresh"
  /\ attempt + 1 = MaxRetries
  /\ Finish(IF age = "expired" THEN "err" ELSE "ok")
  /\ UNCHANGED <<stateVars, serverVars, diskVars, worldVars, historyVars>>

-----------------------------------------------------------------------------
(* The OAuth flow *)

\* start_google_sign_in: an earlier server is stopped first; a new one that cannot
\* be started is an error, and the state is left as it was.
StartOAuth(started) ==
  /\ pc = "idle"
  /\ attempts < MaxAttempts
  /\ callback' = None
  /\ IF started
     THEN /\ attempts' = attempts + 1
          /\ server' = "listening"
          /\ state' = "Awaiting" /\ login' = None /\ age' = "fresh"
          /\ pending' = attempts + 1 /\ late' = FALSE
          /\ wanted' = attempts + 1
     ELSE /\ server' = "none"
          /\ UNCHANGED <<attempts, stateVars, wanted>>
  /\ Begin("idle")
  /\ UNCHANGED <<diskVars, issued, restarts, failed, durable, signed_out>>

\* The browser is redirected back from the page of flow k, this one's or an earlier
\* one's: the server passes the answer on and its thread ends.
BrowserRedirect(k) ==
  /\ server = "listening"
  /\ k <= attempts
  /\ callback' = k
  /\ server' = "done"
  /\ UNCHANGED <<stateVars, diskVars, callVars, worldVars, historyVars>>

StopServer == server' = "none" /\ callback' = None

\* Mutant: the state parameter is not compared.
CompleteAnyOAuth ==
  /\ pc = "idle"
  /\ state = "Awaiting" /\ callback # None
  /\ IF late
     THEN /\ callback' = None
          /\ Begin("idle") /\ UNCHANGED <<server, stateVars>>
     ELSE /\ StopServer
          /\ Become("LoggingIn") /\ Begin("exchange")
  /\ UNCHANGED <<diskVars, worldVars, historyVars>>

\* Mutant: an answer with another state is thrown away, for the awaited one to come yet.
CompleteOwnOAuth ==
  /\ pc = "idle"
  /\ state = "Awaiting" /\ callback # None
  /\ IF late \/ callback # pending
     THEN /\ callback' = None
          /\ Begin("idle") /\ UNCHANGED <<server, stateVars>>
     ELSE /\ StopServer
          /\ Become("LoggingIn") /\ Begin("exchange")
  /\ UNCHANGED <<diskVars, worldVars, historyVars>>

\* swifttunnel_auth_poll_oauth takes the callback from the channel, then
\* complete_oauth_callback looks at it. Past ten minutes only the call fails: the
\* state still awaits the callback that is gone.
CompleteOAuth ==
  /\ pc = "idle"
  /\ state = "Awaiting" /\ callback # None
  /\ IF late
     THEN /\ callback' = None
          /\ Begin("idle") /\ UNCHANGED <<server, stateVars>>
     ELSE /\ StopServer
          /\ IF callback = pending
             THEN Become("LoggingIn") /\ Begin("exchange")
             ELSE Become("Error") /\ Begin("idle")
  /\ UNCHANGED <<diskVars, worldVars, historyVars>>

\* exchange_oauth_token, then verify_magic_link.
Exchanged ==
  /\ pc = "exchange"
  /\ \/ Goto("verify") /\ UNCHANGED <<stateVars, worldVars, historyVars>>
     \/ RequestFails
  /\ UNCHANGED <<serverVars, diskVars>>

Verified ==
  /\ pc = "verify"
  /\ \/ Issue("login") /\ UNCHANGED stateVars
     \/ RequestFails
  /\ UNCHANGED <<serverVars, diskVars>>

CancelOAuth ==
  /\ pc = "idle"
  /\ StopServer
  /\ IF state = "Awaiting" THEN Become("LoggedOut") ELSE UNCHANGED stateVars
  /\ wanted' = None
  /\ Begin("idle")
  /\ UNCHANGED <<diskVars, worldVars, failed, durable, signed_out>>

-----------------------------------------------------------------------------
(* logout: errors are logged, and forgotten *)

SignOut ==
  /\ pc = "idle"
  /\ durable' = None
  /\ wanted' = None
  /\ Begin("clear")
  /\ UNCHANGED <<stateVars, serverVars, diskVars, worldVars, failed, signed_out>>

ClearFile ==
  /\ pc = "clear"
  /\ \/ Succeeds /\ file' = None /\ legacy' = FALSE
     \/ file # None /\ Fails("delete") /\ UNCHANGED <<file, legacy>>
  /\ Goto("forget")
  /\ UNCHANGED <<keyring, stateVars, serverVars, worldVars, durable, signed_out, wanted>>

\* Mutant: the second copy is forgotten.
ClearKeyringNever ==
  /\ pc = "forget"
  /\ Become("LoggedOut")
  /\ signed_out' = TRUE
  /\ Return
  /\ UNCHANGED <<diskVars, serverVars, worldVars, failed, durable, wanted>>

ClearKeyring ==
  /\ pc = "forget"
  /\ \/ Succeeds /\ keyring' = None
     \/ keyring # None /\ Fails("delete") /\ UNCHANGED keyring
  /\ Become("LoggedOut")
  /\ signed_out' = TRUE
  /\ Return
  /\ UNCHANGED <<file, legacy, serverVars, worldVars, durable, wanted>>

-----------------------------------------------------------------------------
(* Time, and the process *)

TokenAges ==
  /\ login # None
  /\ \/ age = "fresh" /\ age' = "soon"
     \/ age = "soon"  /\ age' = "expired"
  /\ UNCHANGED <<state, login, pending, late, serverVars, diskVars, callVars, worldVars,
                 historyVars>>

\* The ten minutes of an OAuth flow.
FlowAges ==
  /\ pending # None /\ ~late
  /\ late' = TRUE
  /\ UNCHANGED <<state, login, age, pending, serverVars, diskVars, callVars, worldVars,
                 historyVars>>

\* The process ends, wherever it is, and AuthManager::new runs in the next one.
Restart ==
  /\ restarts < MaxRestarts
  /\ restarts' = restarts + 1
  /\ Become("LoggedOut")
  /\ StopServer
  /\ pc' = "load" /\ purpose' = "none" /\ new' = None /\ attempt' = 0 /\ answer' = "none"
  /\ wanted' = None
  /\ UNCHANGED <<diskVars, issued, attempts, failed, durable, signed_out>>

StorageSteps ==
  \/ OpenFile \/ WriteFile \/ StoreToKeyring
  \/ LoadFromFile \/ LoadFromKeyring
  \/ ClearFile \/ ClearKeyring

RequestSteps ==
  \/ PasswordAnswer
  \/ CheckToken \/ RefreshAnswer \/ RetryRefresh \/ GiveUpRefresh
  \/ Exchanged \/ Verified

Calls ==
  \/ SignIn \/ Refresh \/ SignOut
  \/ \E started \in BOOLEAN : StartOAuth(started)
  \/ CompleteOAuth \/ CancelOAuth

Next ==
  \/ Calls
  \/ RequestSteps
  \/ StorageSteps
  \/ \E k \in Attempts : BrowserRedirect(k)
  \/ TokenAges
  \/ FlowAges
  \/ Restart

Spec == Init /\ [][Next]_vars
-----------------------------------------------------------------------------
(* Properties *)

StateOK ==
  /\ state \in {"LoggedOut", "LoggingIn", "Awaiting", "LoggedIn", "Error"}
  /\ login \in Sessions \cup {None} /\ (state = "LoggedIn" <=> login # None)
  /\ pending \in Attempts \cup {None} /\ (state = "Awaiting" <=> pending # None)
  /\ age \in Ages

FlagsOK == late \in BOOLEAN /\ legacy \in BOOLEAN /\ signed_out \in BOOLEAN

StoredOK ==
  /\ file \in Sessions \cup {None, Torn}
  /\ keyring \in Sessions \cup {None}
  /\ failed \subseteq FaultKinds
  /\ durable \in Sessions \cup {None}

CallOK ==
  /\ pc \in {"idle", "load", "fallback", "open", "write", "keyring", "password", "check",
             "refresh", "exchange", "verify", "clear", "forget"}
  /\ purpose \in {"none", "login", "refresh", "rewrite", "migrate"}
  /\ new \in Sessions \cup {None}
  /\ attempt \in 0 .. MaxRetries - 1
  /\ answer \in {"none", "ok", "err"}

WorldOK ==
  /\ server \in {"none", "listening", "done"}
  /\ callback \in Attempts \cup {None}
  /\ issued \in 0 .. MaxSessions /\ attempts \in 0 .. MaxAttempts
  /\ restarts \in 0 .. MaxRestarts
  /\ wanted \in Attempts \cup {None}

TypeOK == StateOK /\ FlagsOK /\ StoredOK /\ CallOK /\ WorldOK

\* A session store_session returned Ok for is not lost, short of a sign-out, as long
\* as the keyring works: at any moment, a store half done included, a process that
\* dies finds that session or a later one, whether the file reads, is torn by a later
\* store or cannot be read.
StoredSurvives ==
  durable # None /\ "keyring" \notin failed =>
    /\ keyring >= durable
    /\ file \in Sessions => file >= durable

\* After a sign-out whose deletions worked, nobody is logged in and there is nothing to
\* log in from, whatever restarts follow, until the service issues a session again.
SignedOutStaysOut ==
  signed_out /\ "delete" \notin failed =>
    login = None /\ file = None /\ keyring = None

\* Between calls, the session in use is the one in the file, unless a write of the
\* file has failed: across refreshes, migration from the keyring or from the old
\* format, and deaths in the middle of any of them.
LoggedInIsStored ==
  pc = "idle" /\ login # None /\ {"open", "write"} \cap failed = {} => file = login

\* An OAuth token is exchanged only for the flow the application is waiting for, not
\* for one it has cancelled, restarted or left for a password, though the browser page
\* of an earlier flow redirects to the same server.
OwnAnswer == [][pc # "exchange" /\ pc' = "exchange" => callback = wanted]_vars

\* A login that has begun is over when its call returns, by success or as an error: the
\* state is left at LoggingIn only when the file could not be written, for then sign_in and
\* complete_oauth_callback return early. A sign-out, a new flow or a death of the process in
\* between leaves it behind no more than the calls themselves.
LoginSettled ==
  pc = "idle" /\ state = "LoggingIn" => {"open", "write"} \cap failed # {}

\* An answer the browser has brought to the awaited flow is there to be taken until the ten
\* minutes are over: the server, which hears one answer and ends, is never left without
\* anything to say to a flow that still waits for it.
AnswerKept == state = "Awaiting" /\ server = "done" => callback # None \/ late

\* refresh_if_needed returns Ok without a new session only if the one at hand has not
\* expired by then; it may have expired while the attempts were made.
TokenValid == [][answer # "ok" /\ answer' = "ok" => age # "expired"]_vars
=============================================================================
