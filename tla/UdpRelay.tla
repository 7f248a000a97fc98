------------------------------ MODULE UdpRelay ------------------------------
(***************************************************************************)
(* Switching the relay of a live session (UdpRelay::switch_relay) under    *)
(* the inbound receiver's feet (UdpRelay::receive_inbound).                *)
(*                                                                         *)
(* The lookup task replaces the relay in three separate stores. The        *)
(* receiver thread decides on a datagram with up to three separate loads,  *)
(* and accepts the relay just left for RELAY_SWITCH_GRACE_PERIOD. Neither  *)
(* takes a lock. Each store and each load is a step here; time passes      *)
(* between any two of them.                                                *)
(*                                                                         *)
(* A datagram is its source address: the session id and frame checks that  *)
(* follow do not depend on the switch. The mid-session authentication that *)
(* receive_inbound looks for first is never begun (nothing calls           *)
(* authenticate_addr_with_ticket), so pending_auth_addr is always None.    *)
(***************************************************************************)
EXTENDS Integers

CONSTANTS
  Relays,         \* relay addresses
  FirstRelay,     \* the address UdpRelay::new was given
  Grace,          \* RELAY_SWITCH_GRACE_PERIOD, in ticks
  MinInterval,    \* MIN_SWITCH_INTERVAL, in ticks
  MaxStall,       \* ticks the lookup task may take from commit_switch to the last store
  MaxTime,        \* bound on the clock
  None

ASSUME TimingAssumption ==
  /\ FirstRelay \in Relays
  /\ None \notin Relays
  /\ Grace \in Nat /\ MinInterval \in Nat /\ MaxStall \in Nat /\ MaxTime \in Nat
  /\ Grace <= MinInterval

VARIABLES
  now,
  relay_addr, previous_relay_addr, switch_time,   \* UdpRelay's fields
  spc, new_addr, committed,     \* the lookup task; when it last committed a switch
  rpc, from, expected, previous, verdict,         \* the receiver and what it loaded
  left,           \* history: when each relay was last left
  known, gone     \* history: at its arrival the datagram's relay was or had been in
                  \* use; when that use ended

relayVars    == <<relay_addr, previous_relay_addr, switch_time>>
switchVars   == <<spc, new_addr, committed>>
receiverVars == <<rpc, from, expected, previous, verdict, known>>
vars == <<now, relayVars, switchVars, receiverVars, left, gone>>

Never == -1     \* an Option<Instant> that is None

Init ==
  /\ now = 0
  /\ relay_addr = FirstRelay /\ previous_relay_addr = None /\ switch_time = Never
  /\ spc = "idle" /\ new_addr = FirstRelay /\ committed = Never
  /\ rpc = "idle" /\ from = None /\ expected = None /\ previous = None
  /\ verdict = "none"
  /\ left = [r \in Relays |-> Never]
  /\ known = FALSE /\ gone = Never

-----------------------------------------------------------------------------
(* The lookup task: commit_switch, then switch_relay *)

\* Mutant: no cooldown between switches.
AlwaysCool == TRUE

\* record_switch refuses a switch within MIN_SWITCH_INTERVAL of the last.
CooledDown == committed = Never \/ now - committed >= MinInterval

CommitSwitch(addr) ==
  /\ spc = "idle"
  /\ CooledDown
  /\ committed' = now
  /\ new_addr' = addr
  /\ spc' = "previous"
  /\ UNCHANGED <<now, relayVars, receiverVars, left, gone>>

\* Mutant: the address switched to is taken for the one switched from.
StorePreviousOfNew ==
  /\ spc = "previous"
  /\ previous_relay_addr' = new_addr
  /\ spc' = "time"
  /\ UNCHANGED <<now, relay_addr, switch_time, new_addr, committed, receiverVars, left, gone>>

\* Only this task writes relay_addr, so its load is one with the store.
StorePrevious ==
  /\ spc = "previous"
  /\ previous_relay_addr' = relay_addr
  /\ spc' = "time"
  /\ UNCHANGED <<now, relay_addr, switch_time, new_addr, committed, receiverVars, left, gone>>

StoreSwitchTime ==
  /\ spc = "time"
  /\ switch_time' = now
  /\ spc' = "addr"
  /\ UNCHANGED <<now, relay_addr, previous_relay_addr, new_addr, committed,
                 receiverVars, left, gone>>

StoreRelayAddr ==
  /\ spc = "addr"
  /\ relay_addr' = new_addr
  /\ left' = IF new_addr = relay_addr THEN left ELSE [left EXCEPT ![relay_addr] = now]
  /\ gone' = IF known /\ gone = Never /\ from = relay_addr /\ new_addr # relay_addr
             THEN now ELSE gone
  /\ spc' = "idle"
  /\ UNCHANGED <<now, previous_relay_addr, switch_time, new_addr, committed, receiverVars>>

-----------------------------------------------------------------------------
(* The receiver: receive_inbound *)

\* socket.recv_from: a datagram from some relay.
Receive(r) ==
  /\ rpc = "idle"
  /\ rpc' = "expected"
  /\ from' = r
  /\ known' = (r = relay_addr \/ left[r] # Never)
  /\ gone' = IF r = relay_addr THEN Never ELSE left[r]
  /\ verdict' = "none"
  /\ UNCHANGED <<now, relayVars, switchVars, expected, previous, left>>

Conclude(v) == verdict' = v /\ rpc' = "idle"

LoadExpected ==
  /\ rpc = "expected"
  /\ expected' = relay_addr
  /\ \/ from = relay_addr /\ Conclude("delivered")
     \/ from # relay_addr /\ rpc' = "previous" /\ UNCHANGED verdict
  /\ UNCHANGED <<now, relayVars, switchVars, from, previous, known, left, gone>>

LoadPrevious ==
  /\ rpc = "previous"
  /\ previous' = previous_relay_addr
  /\ rpc' = "time"
  /\ UNCHANGED <<now, relayVars, switchVars, from, expected, verdict, known, left, gone>>

\* Mutant: the grace period is a tick longer than the constant.
InGraceInclusive ==
  /\ from = previous
  /\ switch_time # Never
  /\ now - switch_time <= Grace

\* in_grace, with the previous address loaded before the switch time.
InGrace ==
  /\ from = previous
  /\ switch_time # Never
  /\ now - switch_time < Grace

LoadSwitchTime ==
  /\ rpc = "time"
  /\ Conclude(IF InGrace THEN "delivered" ELSE "dropped")
  /\ UNCHANGED <<now, relayVars, switchVars, from, expected, previous, known, left, gone>>

-----------------------------------------------------------------------------
\* Time passes; the lookup task does not sit between its stores for longer than
\* MaxStall.
Tick ==
  /\ now < MaxTime
  /\ spc # "idle" => now - committed < MaxStall
  /\ now' = now + 1
  /\ UNCHANGED <<relayVars, switchVars, receiverVars, left, gone>>

Next ==
  \/ \E addr \in Relays : CommitSwitch(addr)
  \/ StorePrevious
  \/ StoreSwitchTime
  \/ StoreRelayAddr
  \/ \E r \in Relays : Receive(r)
  \/ LoadExpected
  \/ LoadPrevious
  \/ LoadSwitchTime
  \/ Tick

Spec == Init /\ [][Next]_vars
-----------------------------------------------------------------------------
(* Properties *)

TypeOK ==
  /\ now \in Nat
  /\ relay_addr \in Relays
  /\ previous_relay_addr \in Relays \cup {None}
  /\ switch_time \in Nat \cup {Never}
  /\ spc \in {"idle", "previous", "time", "addr"}
  /\ new_addr \in Relays
  /\ committed \in Nat \cup {Never}
  /\ rpc \in {"idle", "expected", "previous", "time"}
  /\ from \in Relays \cup {None}
  /\ rpc # "idle" => from \in Relays
  /\ expected \in Relays \cup {None}
  /\ previous \in Relays \cup {None}
  /\ verdict \in {"none", "delivered", "dropped"}
  /\ known \in BOOLEAN
  /\ left \in [Relays -> Nat \cup {Never}]
  /\ gone \in Nat \cup {Never}

Concludes(v) == rpc # "idle" /\ rpc' = "idle" /\ verdict' = v
Drops        == Concludes("dropped")
Delivers     == Concludes("delivered")

\* No gap in a switch: receive_inbound drops no datagram of a relay that was in use
\* when it arrived, or had been, unless that relay was left a grace period ago (less
\* what the task took between its stores). It rests on the order of the three stores,
\* and on the cooldown of record_switch being no shorter than the grace period.
NoSwitchGap ==
  [][Drops /\ known => gone # Never /\ now - gone >= Grace - MaxStall]_vars

\* The grace period ends: a relay that is not in use is heard only within Grace of its
\* being left, unless a switch replaced the previous address between the receiver's
\* two loads.
GraceEnds ==
  [][Delivers =>
       \/ from = relay_addr
       \/ left[from] # Never /\ now - left[from] < Grace
       \/ previous # previous_relay_addr]_vars

\* Whatever the receiver pairs with whatever in that race, it hears nobody the session has
\* not used: what it delivers is from the relay in use or from one that was, never from the
\* one about to be used nor from a stranger.
OnlyUsedHeard ==
  [][Delivers => from = relay_addr \/ left[from] # Never]_vars
=============================================================================
