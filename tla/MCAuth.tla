------------------------------- MODULE MCAuth -------------------------------
(* Three sessions, so that one can be in the file, a later one half written and
   an earlier one in the keyring; two OAuth flows, so that a page of the first
   can answer the second. *)
EXTENDS Auth
=============================================================================
