------------------------------ MODULE RoutePins ------------------------------
(***************************************************************************)
(* Which addresses of the bootstrap hosts are relayed and which must not   *)
(* be: the computation behind the pins that BootstrapHosts keeps and       *)
(* ProcessCache classifies by (roblox_proxy/hosts.rs). Roblox serves       *)
(* unrelated hosts from shared addresses, so a host that must go direct    *)
(* may have an address that a relayed host has too.                        *)
(*                                                                         *)
(* An override is an address and the host it was resolved for.             *)
(***************************************************************************)
EXTENDS TLAPS

CONSTANTS
  Hosts, Ips,
  Direct,           \* hosts that Route Assist leaves alone; the others are relayed
  PinnedDirect,     \* of those, the ones that may be written into the hosts file
  LaunchCritical    \* hosts without which the game does not start

Overrides == [ip : Ips, domain : Hosts]

HostsOf(overrides) == {o.domain : o \in overrides}
IpsOf(overrides)   == {o.ip : o \in overrides}
For(overrides, hosts) == {o \in overrides : o.domain \in hosts}

\* Hosts without which the game does not start, and that have not been resolved.
Missing(overrides) == LaunchCritical \ HostsOf(overrides)

\* One more pass for those that are missing, if anything was resolved at all: first is
\* what the first pass found, again what a second one would.
Resolved(first, again) ==
  IF first = {} THEN {} ELSE first \cup For(again, Missing(first))

\* The addresses of the hosts that go the other way than this one.
OtherPool(overrides, host) ==
  IF host \in Direct THEN IpsOf(For(overrides, Hosts \ Direct))
                     ELSE IpsOf(For(overrides, Direct))

ConflictFree(overrides, host) ==
  {o \in For(overrides, {host}) : o.ip \notin OtherPool(overrides, host)}

\* A host keeps the addresses that are free of conflict; all it has, if none is.
Kept(overrides) ==
  {o \in overrides : \/ o \in ConflictFree(overrides, o.domain)
                     \/ ConflictFree(overrides, o.domain) = {}}

ActiveIps(overrides) == IpsOf(For(Kept(overrides), Hosts \ Direct))

DirectOnlyIps(overrides) == IpsOf(For(Kept(overrides), Direct)) \ ActiveIps(overrides)

\* Relayed hosts, and of the pinned direct ones what is not relayed for another.
Written(overrides) ==
  For(Kept(overrides), Hosts \ Direct)
    \cup {o \in For(Kept(overrides), PinnedDirect) : o.ip \in DirectOnlyIps(overrides)}

\* A relayed flow to ip opens TLS to a host: what is known to be direct afterwards.
Learn(active, direct_only, ban, host, ip) ==
  IF host \in Direct /\ ~ban /\ ip \notin active THEN direct_only \cup {ip} ELSE direct_only

-----------------------------------------------------------------------------
(* What the allocation promises, of any overrides *)

\* An address relayed for one host is a direct host's too only if there was no other way:
\* the relayed host shares all of its addresses with direct hosts.
SharedOnlyIfForced(overrides) ==
  \A o \in For(Kept(overrides), Hosts \ Direct) :
    o.ip \in IpsOf(For(overrides, Direct)) =>
      \A other \in For(overrides, {o.domain}) : other.ip \in IpsOf(For(overrides, Direct))

\* A direct host with an address of its own, one that no relayed host has, has it kept
\* direct.
OwnAddressIsDirect(overrides) ==
  \A o \in For(overrides, Direct) :
    o.ip \notin IpsOf(For(overrides, Hosts \ Direct)) => o.ip \in DirectOnlyIps(overrides)

\* No host that was resolved is left without an address.
NoHostDropped(overrides) == HostsOf(Kept(overrides)) = HostsOf(overrides)

\* A line written for a direct host never leads it onto the relay, nor a line written for
\* a relayed host off it.
WrittenGoesItsWay(overrides) ==
  \A o \in Written(overrides) :
    IF o.domain \in Direct THEN o.ip \notin ActiveIps(overrides)
                           ELSE o.ip \in ActiveIps(overrides) \ DirectOnlyIps(overrides)

-----------------------------------------------------------------------------
(* Proofs *)

\* An address kept for a host that has one of its own is its own.
LEMMA KeptIsOwn ==
  ASSUME NEW overrides \in SUBSET Overrides, NEW o \in Kept(overrides),
         ConflictFree(overrides, o.domain) # {}
  PROVE  o.ip \notin OtherPool(overrides, o.domain)
BY DEF Kept, ConflictFree

\* Relaying an address that a direct host has too is a last resort of its host.
\* (hosts.rs allocate_route_assist_pins: the conflict-free entries come first.)
THEOREM SharingIsForced ==
  ASSUME NEW overrides \in SUBSET Overrides
  PROVE  SharedOnlyIfForced(overrides)
<1>1. SUFFICES ASSUME NEW o \in For(Kept(overrides), Hosts \ Direct),
                      o.ip \in IpsOf(For(overrides, Direct)),
                      NEW other \in For(overrides, {o.domain}),
                      other.ip \notin IpsOf(For(overrides, Direct))
               PROVE  FALSE
  BY DEF SharedOnlyIfForced
<1>2. o \in Kept(overrides) /\ o.domain \notin Direct
  BY DEF For
<1>3. OtherPool(overrides, o.domain) = IpsOf(For(overrides, Direct))
  BY <1>2 DEF OtherPool
<1>4. other \in ConflictFree(overrides, o.domain)
  BY <1>1, <1>3 DEF ConflictFree
<1> QED BY <1>1, <1>2, <1>3, <1>4, KeptIsOwn

\* What is relayed was resolved for a relayed host.
LEMMA ActiveIsResolved ==
  ASSUME NEW overrides \in SUBSET Overrides
  PROVE  ActiveIps(overrides) \subseteq IpsOf(For(overrides, Hosts \ Direct))
BY DEF ActiveIps, IpsOf, For, Kept

\* A direct host's own address is kept direct: no other host's pins take the guard away.
\* (hosts.rs allocate_route_assist_pins: direct_only.)
THEOREM OwnAddressStaysDirect ==
  ASSUME NEW overrides \in SUBSET Overrides
  PROVE  OwnAddressIsDirect(overrides)
<1>1. SUFFICES ASSUME NEW o \in For(overrides, Direct),
                      o.ip \notin IpsOf(For(overrides, Hosts \ Direct))
               PROVE  o.ip \in DirectOnlyIps(overrides)
  BY DEF OwnAddressIsDirect
<1>2. o \in overrides /\ o.domain \in Direct
  BY DEF For
<1>3. o \in ConflictFree(overrides, o.domain)
  BY <1>1, <1>2 DEF ConflictFree, OtherPool, For
<1>4. o \in For(Kept(overrides), Direct)
  BY <1>2, <1>3 DEF Kept, For
<1>5. o.ip \notin ActiveIps(overrides)
  BY <1>1, ActiveIsResolved
<1> QED BY <1>4, <1>5 DEF DirectOnlyIps, IpsOf

\* Every host that was resolved keeps an address. (hosts.rs allocate_route_assist_pins:
\* all candidates are kept where none is free of conflict.)
THEOREM EveryHostIsKept ==
  ASSUME NEW overrides \in SUBSET Overrides
  PROVE  NoHostDropped(overrides)
<1>1. ASSUME NEW o \in overrides PROVE o.domain \in HostsOf(Kept(overrides))
  <2>1. CASE ConflictFree(overrides, o.domain) = {}
    BY <2>1 DEF Kept, HostsOf
  <2>2. ASSUME NEW own \in ConflictFree(overrides, o.domain)
        PROVE  o.domain \in HostsOf(Kept(overrides))
    <3>1. own \in overrides /\ own.domain = o.domain
      BY DEF ConflictFree, For
    <3> QED BY <2>2, <3>1 DEF Kept, HostsOf
  <2> QED BY <2>1, <2>2
<1> QED BY <1>1 DEF NoHostDropped, HostsOf, Kept

\* The hosts file agrees with the classifier: a written host goes the way it is meant to.
\* (hosts.rs allocate_route_assist_pins: "never a relayed edge".)
THEOREM WrittenAgrees ==
  ASSUME NEW overrides \in SUBSET Overrides, PinnedDirect \subseteq Direct
  PROVE  WrittenGoesItsWay(overrides)
<1>1. ASSUME NEW o \in For(Kept(overrides), Hosts \ Direct)
      PROVE  o.domain \notin Direct /\ o.ip \in ActiveIps(overrides) \ DirectOnlyIps(overrides)
  BY DEF ActiveIps, DirectOnlyIps, IpsOf, For
<1>2. ASSUME NEW o \in For(Kept(overrides), PinnedDirect), o.ip \in DirectOnlyIps(overrides)
      PROVE  o.domain \in Direct /\ o.ip \notin ActiveIps(overrides)
  BY <1>2 DEF DirectOnlyIps, For
<1> QED BY <1>1, <1>2 DEF WrittenGoesItsWay, Written

\* A host without which the game does not start is guarded if either pass found an
\* address of its own for it. (hosts.rs resolve_bootstrap_overrides: the second pass.)
THEOREM LaunchCriticalIsGuarded ==
  ASSUME NEW first \in SUBSET Overrides, NEW again \in SUBSET Overrides, first # {},
         LaunchCritical \subseteq Direct,
         NEW o \in first \cup For(again, Missing(first)), o.domain \in LaunchCritical,
         o.ip \notin IpsOf(For(first, Hosts \ Direct))
  PROVE  o.ip \in DirectOnlyIps(Resolved(first, again))
<1> DEFINE overrides == Resolved(first, again)
<1>1. overrides = first \cup For(again, Missing(first)) /\ overrides \in SUBSET Overrides
  BY DEF Resolved, For
<1>2. For(overrides, Hosts \ Direct) = For(first, Hosts \ Direct)
  BY <1>1 DEF For, Missing
<1>3. o \in For(overrides, Direct)
  BY <1>1 DEF For
<1> HIDE DEF overrides
<1> QED BY <1>1, <1>2, <1>3, OwnAddressStaysDirect DEF OwnAddressIsDirect, overrides

\* Learning never calls an address direct that is relayed for another host.
\* (hosts.rs learn_direct_only_bootstrap_ip: "no demotion".)
THEOREM LearningKeepsApart ==
  ASSUME NEW active, NEW direct_only, NEW ban, NEW host, NEW ip,
         active \cap direct_only = {}
  PROVE  active \cap Learn(active, direct_only, ban, host, ip) = {}
BY DEF Learn
=============================================================================
