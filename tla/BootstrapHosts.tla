---------------------------- MODULE BootstrapHosts ----------------------------
(***************************************************************************)
(* The bootstrap DNS overrides (roblox_proxy/hosts.rs): the block written  *)
(* into the Windows hosts file, and the process-wide statics the packet    *)
(* classifier reads.                                                       *)
(*                                                                         *)
(* A set of pins is the set of sessions whose name resolution they come    *)
(* from; which host goes with which address is left out. hosts_file is on  *)
(* disk and outlives the process, the rest does not.                       *)
(***************************************************************************)
EXTENDS Naturals

VARIABLES
  hosts_file,           \* the marker block: sessions whose pins it holds
  last_applied,         \* LAST_APPLIED_OVERRIDES
  active_ips,           \* ACTIVE_BOOTSTRAP_IPS
  direct_only_ips,      \* DIRECT_ONLY_BOOTSTRAP_IPS
  country_ban_routing   \* COUNTRY_BAN_BYPASS_ROUTING

hostsVars == <<hosts_file, last_applied, active_ips, direct_only_ips, country_ban_routing>>

\* A new process: every static is empty, the file is what the last one left.
FreshStatics ==
  /\ last_applied' = {}
  /\ active_ips' = {}
  /\ direct_only_ips' = {}
  /\ country_ban_routing' = FALSE

HostsInit ==
  /\ hosts_file = {}
  /\ last_applied = {}
  /\ active_ips = {}
  /\ direct_only_ips = {}
  /\ country_ban_routing = FALSE

\* Mutant: the new pins are merged with the last ones instead of replacing them.
ApplyBootstrapMerging(s, ban, outcome) ==
  /\ country_ban_routing' = (ban \/ country_ban_routing)
  /\ last_applied' = IF outcome = "unresolved" THEN last_applied ELSE last_applied \cup {s}
  /\ hosts_file' = IF outcome = "applied" THEN last_applied \cup {s} ELSE hosts_file
  /\ active_ips' = IF outcome = "applied" THEN {s} ELSE active_ips
  /\ direct_only_ips' = IF ban THEN {}
                        ELSE IF outcome = "applied" THEN {s} ELSE direct_only_ips

\* Mutant: country-ban routing is entered only once the names are resolved.
ApplyBootstrapThenBan(s, ban, outcome) ==
  LET entered == ban /\ outcome # "unresolved" IN
  /\ country_ban_routing' = (entered \/ country_ban_routing)
  /\ last_applied' = IF outcome = "unresolved" THEN last_applied ELSE {s}
  /\ hosts_file' = IF outcome = "applied" THEN {s} ELSE hosts_file
  /\ active_ips' = IF outcome = "applied" THEN {s} ELSE active_ips
  /\ direct_only_ips' = IF entered THEN {}
                        ELSE IF outcome = "applied" THEN {s} ELSE direct_only_ips

\* apply_bootstrap_overrides: country-ban routing is entered before the fallible
\* resolution, and the new pins are recorded before the fallible write.
ApplyBootstrap(s, ban, outcome) ==
  /\ country_ban_routing' = (ban \/ country_ban_routing)
  /\ last_applied' = IF outcome = "unresolved" THEN last_applied ELSE {s}
  /\ hosts_file' = IF outcome = "applied" THEN {s} ELSE hosts_file
  /\ active_ips' = IF outcome = "applied" THEN {s} ELSE active_ips
  /\ direct_only_ips' = IF ban THEN {}
                        ELSE IF outcome = "applied" THEN {s} ELSE direct_only_ips

\* apply_relay_resolved_overrides: merge into the pins last applied; a failed write
\* leaves every static as it was, and nothing resolved is nothing done.
ApplyRelayResolved(s, outcome) ==
  LET merged == last_applied \cup {s} IN
  /\ hosts_file' = IF outcome = "applied" THEN merged ELSE hosts_file
  /\ last_applied' = IF outcome = "applied" THEN merged ELSE last_applied
  /\ active_ips' = IF outcome = "applied" THEN active_ips \cup merged ELSE active_ips
  /\ UNCHANGED <<direct_only_ips, country_ban_routing>>

\* learn_direct_only_bootstrap_ip: an address seen serving a direct host, not one
\* of the active pins.
LearnDirectOnly(s) ==
  /\ ~country_ban_routing
  /\ direct_only_ips' = direct_only_ips \cup {s}
  /\ UNCHANGED <<hosts_file, last_applied, active_ips, country_ban_routing>>

\* remove_overrides: the sets are cleared whether or not the file could be; what
\* was last applied is not forgotten.
RemoveOverrides(written) ==
  /\ hosts_file' = IF written THEN {} ELSE hosts_file
  /\ active_ips' = {}
  /\ direct_only_ips' = {}
  /\ country_ban_routing' = FALSE
  /\ UNCHANGED last_applied
=============================================================================
