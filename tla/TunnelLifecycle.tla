--------------------------- MODULE TunnelLifecycle ---------------------------
(***************************************************************************)
(* What the connection promises its user: one tunnel at a time, begun only *)
(* from rest; it is reported up only while something stands behind it, and *)
(* reported at rest (off, or failed) only when nothing does.               *)
(***************************************************************************)

VARIABLES
  phase,    \* "off", "starting", "up", "failing", "failed" or "stopping"
  backed    \* the connection holds something to be released

vars == <<phase, backed>>

Init == phase = "off" /\ backed = FALSE

\* A new attempt begins with nothing left of an earlier one.
Start ==
  /\ phase \in {"off", "failed"}
  /\ ~backed
  /\ phase' = "starting" /\ backed' = FALSE

Acquire == phase = "starting" /\ phase' = "starting" /\ backed' = TRUE

Up == phase = "starting" /\ backed /\ phase' = "up" /\ backed' = TRUE

Fail == phase = "starting" /\ phase' = "failing" /\ backed' \in {backed, TRUE}

\* The user may stop at any time a call is not under way, an attempt that returned
\* an error halfway included.
Stop ==
  /\ phase \in {"off", "starting", "up", "failed"}
  /\ phase' = "stopping" /\ UNCHANGED backed

Release == phase \in {"failing", "stopping"} /\ backed' = FALSE /\ UNCHANGED phase

Rest ==
  /\ ~backed
  /\ \/ phase = "failing" /\ phase' = "failed"
     \/ phase = "stopping" /\ phase' = "off"
  /\ UNCHANGED backed

\* The library is torn down, or the process dies.
Abandon == phase' = "off" /\ backed' = FALSE

Next == Start \/ Acquire \/ Up \/ Fail \/ Stop \/ Release \/ Rest \/ Abandon

Spec == Init /\ [][Next]_vars
=============================================================================
