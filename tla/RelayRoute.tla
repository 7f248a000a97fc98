----------------------------- MODULE RelayRoute -----------------------------
(***************************************************************************)
(* What auto-routing promises the application about the relay: it moves    *)
(* for one decision at a time, to an available server of a region other    *)
(* than the announced one; every move is announced, after it is made and   *)
(* before the next is decided; and the announcements form one chain.       *)
(***************************************************************************)
CONSTANTS Available, AddrOf, None

VARIABLES
  at,      \* the relay's address
  told,    \* the last announcement: from which region, to which
  goal,    \* the region decided on, until it is announced
  moved    \* the relay is there

vars == <<at, told, goal, moved>>

Decide(region) ==
  /\ goal = None /\ region # told.to
  /\ goal' = region
  /\ UNCHANGED <<at, told, moved>>

Move ==
  /\ goal # None /\ ~moved
  /\ at' = AddrOf[goal] /\ moved' = TRUE
  /\ UNCHANGED <<told, goal>>

Announce ==
  /\ moved
  /\ told' = [from |-> told.to, to |-> goal]
  /\ goal' = None /\ moved' = FALSE
  /\ UNCHANGED at

Next == (\E region \in Available : Decide(region)) \/ Move \/ Announce

\* The session begins anywhere, undecided.
Init == goal = None /\ moved = FALSE

Spec == Init /\ [][Next]_vars
=============================================================================
