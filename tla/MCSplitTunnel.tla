---------------------------- MODULE MCSplitTunnel ----------------------------
(* Two sessions, a crash, a filter of ours, and perhaps one of another program
   which leaves no room for it. *)
EXTENDS SplitTunnel
=============================================================================
