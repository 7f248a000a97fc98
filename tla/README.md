# SwiftTunnel SDK: a TLA+ verification project

The SDK is a Rust library with a C interface. It tunnels the UDP traffic of a
game through a relay: packets of the tunneled processes are intercepted on the
Windows network adapter, framed with a session id and sent to a relay, and the
replies are injected back. While a session runs, an auto-router looks up which
region each new game server is in and moves the session to a better relay.
Around that core stand a login (password or Google OAuth) with a persisted
session, DNS pins in the hosts file for networks that block Roblox, a helper
process, and a server list.

Every definition here is translated from the Rust source; line numbers below
and in `PROJECT.json` refer to the commit this directory sits beside.

## 1. Inventory

Each entry: state, operations, interactions, what is hard, what makes it correct.

**Auto-routing** (`vpn/auto_routing.rs`, the task in `vpn/connection.rs:799-950`,
`vpn/geolocation.rs`). State: `AutoRouter`, some fields under their own locks
(current game region, SwiftTunnel region, relay address, seen and pending
servers, per-server traffic times), some atomics (`enabled`, `pending_any`,
`bypassed`, `session_epoch`, switch counters); an unbounded lookup channel.
Operations: `evaluate_game_server` (packet workers), the lookup task (receive,
geolocate, choose candidates, ping, `commit_switch`, `switch_relay`, event),
`clear_pending_lookup`, `reset`. Hard: no operation holds all locks; the task
awaits HTTP and pings between reading and writing; a disconnect may come at any
point; workers drop packets to servers whose lookup is pending. Correct when
packets are held only while somebody is looking the server up, the fast-path
flag never blocks evaluation for good, the recorded region, the relay address
and the events agree, and a bypass covers only whitelisted regions.

**UDP relay** (`vpn/relay.rs`). State: socket, `relay_addr`,
`previous_relay_addr` and `switch_time` in separate `ArcSwap`s, pending
authentication, resolve slots, counters. Operations: `forward_outbound`,
`receive_inbound`, `switch_relay`, keepalives, `authenticate_with_ticket`,
`resolve_roblox_hosts`. Hard: the receiver thread reads what the lookup task is
in the middle of replacing, without a lock. Correct when a switch loses no
datagram of either relay and a relay that was left stops being heard.

**VPN connection** (`vpn/connection.rs`). State: `ConnectionState`, one `Option`
per resource (config, helper, relay, asset relays, router, driver),
`bootstrap_dns_applied`, the stop flag of the process monitor. Operations:
`connect_ex`, `disconnect`, `cleanup`, `Drop`. Hard: a long sequence of fallible
steps, some of which clean up on error and some of which return halfway; tasks
that outlive the call; one stop flag for all sessions; statics and a file that
outlive the connection. Correct when what the state reports is what is held.

**Bootstrap hosts** (`roblox_proxy/hosts.rs`). State: the marker block in the
hosts file (on disk), `LAST_APPLIED_OVERRIDES`, the active and direct-only
bootstrap addresses, country-ban routing. Operations:
`apply_bootstrap_overrides`, `apply_relay_resolved_overrides`,
`learn_direct_only_bootstrap_ip`, `remove_overrides`, `recover_stale` (which has
no caller). Hard: partial failure between resolution, statics and file; a crash
leaves the file. Correct when pins live as long as the session they are for.

**Packet interception** (`split_tunnel/interceptor.rs`, `mod.rs`,
`process_tracker.rs`). State: adapter settings changed (offload, IPv6), reader
and worker threads, per-worker bounded queues, statistics. Operations: start,
stop, reader loop, `classify_packet`, `run_packet_worker`, inbound thread. Hard:
full queues, threads that outlive their join timeout, adapter settings restored
on every path, packets of one flow classified differently over time. Correct when
the adapter and the driver's filter table are given back, a running session
keeps intercepting, and a packet takes one way out, in order, whatever a full queue,
the bypass or a teardown does to its neighbours.

**Process cache** (`split_tunnel/process_cache.rs`) and **process watcher**
(`process_watcher.rs`). State: an `ArcSwap` snapshot of connections and process
names, a version counter; an ETW event channel of 100. Operations: `update`
(refresher), `register_process_immediate` (ETW consumer), the readers. Hard: two
writers read, build and store; events are dropped when the channel is full.
Correct when a worker never tunnels on the memory of a snapshot it no longer
holds, and a refresh heals what the races left.

**Authentication** (`auth/manager.rs`, `client.rs`, `types.rs`), **session
storage** (`auth/storage.rs`), **OAuth callback server** (`auth/oauth_server.rs`).
State: `AuthState`, pending OAuth state, the callback server; a session file and
a keyring entry, refresh-failure records. Operations: `sign_in`,
`refresh_if_needed`, `start_google_sign_in`, `poll`, `complete_oauth_callback`,
`cancel_oauth`, `logout`; `store`, `load`, `clear`. Hard: failure between memory,
file and keyring; restarts; an OAuth answer that comes late, twice or for
another attempt; retries of a refresh.

**C interface and callbacks** (`lib.rs`, `callbacks.rs`, `error.rs`,
`runtime.rs`). One mutex holds the whole SDK for the length of every call;
callbacks are fired on the calling thread under it; the last error is one global.
Hard: an application that calls back into the SDK from a callback. Correct when
whatever a call waits for does not wait for the mutex.

**Server list** (`vpn/servers.rs`), **GoodbyeDPI helper**
(`roblox_proxy/goodbyedpi.rs`): a cached download with fallback; a search for a
helper mode that works within a time budget.

**Diskless support** (`diskless.rs`, `vpn/diskless_passthrough.rs`) and the
**static filter table** (`vpn/ipv6_recovery.rs`, which despite its name only
reads and writes that table). State: `INSTALLED_FILTERS`, and the table in the
WinpkFilter driver, shared with other programs. Hard: read, change and write back
without a lock; removal that fails after the list of what to remove is gone.

**Others**, not modelled: see section 7.

How they interact: the C interface calls the connection and the auth manager
under its mutex. `connect_ex` calls hosts, helper, server list, relay, asset
relays and driver in turn and spawns the process monitor and the lookup task.
Packet workers call the process cache, the hosts statics, the router and the
relay; the router's task calls the relay; the relay's inbound thread belongs to
the driver. `cleanup` resets the router before it closes the driver.

## 2. Modules

| module | what it is |
| --- | --- |
| `AutoRouter` | auto-routing of one session: workers, lookup task, owner |
| `UdpRelay` | a relay switch under the receiver, store by store, load by load, with time |
| `BootstrapHosts` | hosts file and routing statics; operations composed by `VpnConnection` |
| `VpnConnection` | the connection over its life, EXTENDS `BootstrapHosts` |
| `TunnelLifecycle` | abstract: what a connection promises its user |
| `RelayRoute` | abstract: what auto-routing promises about the relay and its announcements |
| `LossyTunnel` | abstract: what the tunnel promises a connection about its packets |
| `Auth` | logging in, refreshing and logging out, with the stored session and the OAuth callback server |
| `ProcessCache` | the process snapshot, its two writers, and the classification of packets by workers with caches of their own |
| `SplitTunnel` | starting and stopping interception under the SDK's lock: adapter settings, filter table, threads, callbacks, crashes |
| `RelayTraffic` | a session's traffic: handshake, asset relays, queues, forwarding, injection, names looked up through the relay |
| `RoutePins` | which addresses of the bootstrap hosts are relayed, direct, and written: a computation, with its theorems |
| `MC*` | instances for TLC |
| `*Proofs` | theorems and their proofs |

### AutoRouter

State: `AutoRouter`'s fields under their names; each worker's program counter
and what it read (`wpc`, `target`, `held_epoch`); the lookup `channel`; the
task's program counter and job (`tpc`, `job`); the owner's progress (`session`);
the `UdpRelay`'s address and the last event. One action is what a thread does
between two points where another can run and matter. `evaluate_game_server` is
`Evaluate`, `MarkSeen`, `ReadEpoch`, `InsertPending`, `SendRequest`, with the
`try_write` failures as alternatives. The lookup task is `Receive` to
`FireSwitched`, with `clear_pending_lookup` as its three real steps
`RemovePending`, `RecheckPending`, `LowerPendingAny`. `reset` is `ResetRoute` and
`ResetGates`: the pending set is cleared in one critical section and the flag
stored after it. `owner`, the server the last switch was made for, is history; a
reset ends it, as it ends the session.

Abstracted: `active` is the set of servers heard from within
`GAME_TRAFFIC_QUIET_HANDOFF` (`GoesQuiet` removes one). Whether the last switch is
younger than `MIN_SWITCH_INTERVAL` (`cooling`), and the window older than a
minute, are inputs of `CommitSwitch`; latencies are an input of `PingDone`. The
quiet gate comes before `MarkSeen`, so a server met while another talks is evaluated
later; one already seen is not looked at again, because `maybe_expire_quiet_pin`
returns at its first branch: nothing sets `active_game_server_ip`.

### UdpRelay

`switch_relay` is three stores (`StorePrevious`, `StoreSwitchTime`,
`StoreRelayAddr`), `receive_inbound` up to three loads after a datagram arrives.
`Tick` is time. `CommitSwitch` keeps the cooldown of `record_switch`, which lives
in another file and without which the relay's promise does not hold. `left`,
`known` and `gone` are history.

### BootstrapHosts and VpnConnection

A set of pins is the set of sessions whose resolution they come from.
`ApplyBootstrap` and `ApplyRelayResolved` take their outcome as a parameter and
do what the code does in that order: routing before resolution, memory before or
after the write. `VpnConnection` is `connect_ex` as a program counter, a step per
fallible call. `found`, `bound`, `routed`, `outcome` are the ways a step ends. An
error before the tunnel is set up returns at once and leaves the state as it is
(`ResolveRelay`, `NewRelay`); one in `setup_split_tunnel` cleans up. `cleanup` is
`StopSession`, `CloseDriver` (which waits for the monitor's lock), `RestoreHosts`,
`Finish`. The monitors are tasks that go on after the call. `Recreate` is
`swifttunnel_cleanup` and `swifttunnel_init`; `Crash` is the death of the process
at any point: the hosts file stays, everything else starts afresh.

### TunnelLifecycle

`phase` and `backed`: begun only from rest with nothing held, up only with
something behind it, at rest only with nothing. `VpnConnection` implements it
with `Phase` (from `state` and the program counter) and `Backed` (anything held,
a hosts restoration owed, or asset routes set).

### RelayRoute and LossyTunnel

`RelayRoute` knows where the relay is (`at`), what was announced last (`told`) and
what is decided (`goal`, `moved`): decide, move, announce, one at a time.
`AutoRouter` implements it with `Route`: a decision is a commit, a move the store
of the relay's address, an announcement the event. Its initial state leaves `at`
and `told` open: a session begins at any server.

`LossyTunnel` is, for each connection, how much was sent, which of it is inside,
where the rest came out, and what went around, and whether it is being closed.
`RelayTraffic` implements it with `Tunnel`: `inside` is what reader, queues and
workers hold of a connection (`Inside`), `out` what its relay was sent, `around`
what left outside. A full queue is `GoAround`, the bypass `Divert`, a worker's
stopping `Lose`. `ClearAssetRoutes` is `Close`: from then on packets may come out at
`Home`, the gameplay relay, and having done so never elsewhere again.

### Auth

State: `AuthState` (`state`, the session it holds, the flow it awaits), the
callback server and its channel, the file and the keyring, and the call in
progress. The SDK lock lets one call run at a time, so calls do not interleave
with each other; each is a program counter with a step per request, file
operation and keyring operation, and the server's thread, the browser, time and
the end of the process (`Restart`) come between any two. `store_session` is
`StartStore`, `OpenFile`, `WriteFile`, `StoreToKeyring`: `fs::write` truncates
before it writes, so a death or an error in between leaves a file that does not
decode (`Torn`). `load_session` is `LoadFromFile` and `LoadFromKeyring`, which go
on to store when they migrate (`purpose` says why a store is underway and so what
follows when it fails, `NotStored`). `logout` is `SignOut`, `ClearFile`,
`ClearKeyring`. `refresh_if_needed` is `Refresh`, `CheckToken`, then one
`RefreshAnswer`, `RetryRefresh` or `GiveUpRefresh` per attempt. The OAuth flow is
`StartOAuth`, `BrowserRedirect` (from the page of this flow or of an earlier one),
`CompleteOAuth`, `Exchanged`, `Verified`, `CancelOAuth`.

A session is its number in order of issue, a flow likewise (its `state`
parameter). How near a token is to its expiry is one of three ages (`TokenAges`),
the ten minutes of a flow one bit (`FlowAges`). Which kinds of storage operation
have failed (`failed`), what `store_session` last returned Ok for (`durable`),
whether the user has signed out since the last session was issued
(`signed_out`) and which flow the application is waiting for (`wanted`) are
history.

### ProcessCache

State: the cache's `current` snapshot and `version` counter; the refresher
(`rpc`, the `tables` it has read, the snapshot it has `numbered`); the monitor
(`mpc`, its `event`, the snapshot it is `based_on`, `mine`); each worker's
`snapshot`, `inline_cache` and `check_counter`; and the system underneath, whose
processes and sockets change at any time. A snapshot is read, numbered and stored
in three steps by each writer: `ReadTables`, `NameOwners`, `Update`, and
`TakeEvent`, `NumberRegistration`, `Register`. `HandlePacket` is one turn of
`run_packet_worker`: look at the snapshot again if it is time, classify by
phases 0 to 5, remember. It contains `classify_packet` as predicates
(`NeverTunneled`, `TunnelOutright`, `PortFallback`, ...).

Abstracted: a name is whether it matches a tunnel app; an address is whether it
is in the Roblox ranges, excluded, or pinned; a port is DNS, web or game. Apps do
not change during a session, since `set_tunnel_apps` is called before the threads
start. `quiet` and `spoke` are history.

### SplitTunnel

State: the lock (`sdk`), the host's place in `start` or `close` (`hpc`), each
session's reader and other threads with their stop flag, the ETW thread and its
trace, the adapter (`mode`, `offload`, `ipv6`), the two flags that say what to
restore, the filter `table` and the list `installed`. `start` is `Connect` to
`Spawn`: the adapter's settings are turned off by the driver and again by the
interceptor. `close` is `Disconnect` to `JoinWatcher`. A script may work or not
and say so or not. A join of three seconds may give up (`Stalls`); the reader
given up goes on, and resets the adapter's mode when it ends. `EtwEvent` calls the
host back; with `CallsBack` the host calls the SDK from there (`EtwCalled`).
`InstallFilters` and `RemoveFilters` read, change and write the table; `Fits` is
its capacity. `Crash` ends the process and leaves adapter and table as they are.

Abstracted: all threads but the reader are joined alike and are one
(`helpers`); a session is a new driver. `PromptWatcher` is an assumption of the
runs: a watcher stopped before its trace is up is among the observations.
`trouble`, `detached` and `stranded` are history.

### RelayTraffic

State: the handshake (`clock`, `until`, `hellos`, `mode`), what the relay has sent
(`net`), whether the asset hosts' addresses are known (`asset_ips`), the asset relays
(`pool`), the threads, each worker's bounded `queue`, and the lookup (`batch`, `slot`, `resolved`). `SendHello`, `ReceiveAck`, `WaitEnds` and
`GiveUp` are `authenticate_with_ticket`; `PoolPicked` and `PoolNamed` are the two
ways of `setup_asset_relays`; `ReadPacket` and `WorkerHandles` the way
out; `ReceiveReply` and `ReceivePacket` the way in; `RequestBatch`, `Poll` and
`NextBatch` are `resolve_roblox_hosts`. The network loses, repeats, delays and
reorders: what is in `net` may be received at any time, any number of times.
`AnswerHello` and `AnswerLookup` are the relay, external to the SDK.

`ExitOf` is `forward`: each packet asks whether its address is an asset host's.
`cleanup` is `ClearAssetRoutes` and, when the driver's lock is had, `Stop`; reader
and workers go on in between, and for a while after.

Abstracted: packets are those that `ProcessCache` would tunnel; the relay is not
switched here (`UdpRelay`); an asset server is an address. Whether the auto-router
bypasses the tunnel is an input of `WorkerHandles`, any value for any packet; when it
does is `AutoRouter`'s. A worker always has its relay context, which
`setup_split_tunnel` sets before the threads start, so the branch without one is left
out. `accepted`, `named`, `arrived` and `overwritten` are history.

### RoutePins

`allocate_route_assist_pins` and `resolve_bootstrap_overrides` as set operators
over overrides (an address and its host), and `Learn` for what a TLS server name
teaches. The two passes of the resolution are two sets; lists become sets, since
order only decides the name `host_for_ip` logs. `MCVpnConnection` evaluates the
promises for every way in which four hosts can share three addresses.

## 3. Runs

| run | expects | shows |
| --- | --- | --- |
| `auto_router` | pass | two workers, two servers of different regions, one switch a minute, queue of one, with resets: who may be held up, what router and relay agree on, and the refinement of `RelayRoute` |
| `auto_router_bypass` | pass | one worker, a whitelisted region, two switches a minute, queue of two: the bypass, and that every pending server is released |
| `auto_router_stale` | violation | finding 1 |
| `auto_router_rejoin` | violation | finding 2 |
| `udp_relay` | pass | three relays, time for three switches, stalls of one tick |
| `vpn_connection` | pass | two sessions of any of five kinds of request, a crash, an unwritable hosts file; all safety, the monitors' end, and the refinement |
| `vpn_leftover_pins` | violation | finding 3 |
| `auth` | pass | three sessions, two OAuth flows, two deaths, every storage operation failing where it can: all safety properties of `Auth` |
| `process_cache` | pass | refresher, monitor, a worker and a changing system, interleaved at every load and store of the snapshot |
| `split_tunnel` | pass | two sessions, failing and lying scripts, threads that outlive their join, a crash anywhere, a full filter table |
| `split_tunnel_callback` | violation | finding 4 |
| `relay_traffic` | pass | a handshake, asset relays picked or named, packets over two workers with queues of one, bypass and teardown, two batches of names, over a network that keeps everything; the refinement of `LossyTunnel` |

**Properties of `AutoRouter`.** `PendingHasLookup`: packets are held only while a
lookup is underway. `NoOrphanBlock`: the fast-path flag is up without a pending
server only while a thread is about to lower it. `RegionServesGame`: the recorded
game region is one the relay is right for, or whitelisted. `RelaysAgree`: router and
relay disagree only inside a switch. `BypassOnlyForWhitelisted`. `PendingReleased`
(liveness). `ImplementsRoute` (refinement): decisions, moves and announcements
alternate, each move goes where the decision said, and each announcement says so,
from where the last one ended (of which `EventsChain`, proved on its own, is a
part).

**Properties of `UdpRelay`.** `NoSwitchGap`: no datagram of a relay in use, or
left less than a grace period (minus a stall) ago, is dropped. `GraceEnds`: a
relay that was left is not heard past its grace, except through the race of the
three stores (section 5). `OnlyUsedHeard`: not even in that race is a relay heard
that the session has not used.

**Properties of `VpnConnection`.** `TunnelBacked` (with the monitor alive although
sessions share its stop flag). `PinsCurrent`: whose pins they are while a
restoration is owed; nothing of sessions whose repair failed. `BanNeverDirect`: of
the full country-ban bypass only, since code and comments disagree about the partial
one (section 5). `MonitorsEnd` (liveness), `ImplementsLifecycle` (refinement, which
includes `IdleHoldsNothing`).
`OnlyBanLeavesPins`: relayed addresses that no connection owes the removal of are a
country-ban session's, whatever fails. It bounds how far finding 3 goes.

**Properties of `Auth`.** `StoredSurvives`: while the keyring works, a stored
session is never lost and never replaced by an older one. `SignedOutStaysOut`: after
a sign-out whose deletions worked, nothing brings a session back.
`LoggedInIsStored`: between calls, the session in use is the one in the file unless
a write of it failed. `OwnAnswer`: a token is exchanged only for the flow the
application is waiting for. `TokenValid`: `refresh_if_needed` returns Ok without a
new session only while the token is valid, also when it expires during the attempts.
`OwnAnswer` and `TokenValid` are about steps. `LoginSettled`: a call leaves
`LoggingIn` behind only if the file could not be written. `AnswerKept`: the server
of an awaited flow, which hears one answer and ends, does not end without that
answer waiting to be taken, until the flow is late.

**Properties of `ProcessCache`.** `VersionIdentifies`: a worker empties its cache
when the version differs, so of two snapshots stored or about to be, one with the
other's version is the other. `CacheJustified`: what a worker remembers as
tunneled, the snapshot it holds accounts for, or the source has spoken to a game
server or bootstrap host under it. `FreshWhenQuiet`: a refresh under which nothing
changed stores the truth, whatever stale registration came before.

**Properties of `SplitTunnel`.** `AdapterRestored`: after a session without
trouble offload and IPv6 are on, whatever earlier sessions and crashes left.
`InterceptionHolds`: a running reader's adapter is in tunnel mode, unless a reader
was given up. `CapturedIsRead`: conversely, an adapter in tunnel mode has a reader
in its loop, of the session that runs or one that was given up. `JoinedWereStopped`:
close joins only threads that were told to stop, the ETW thread, which it joins
without a timeout, only once its trace was stopped. `OursGone`: between sessions the
table has none of ours but what a crash or a failed removal left. `TrafficFreed` and
`CloseReturns` (liveness): a stopped session's adapter goes back to its default mode,
and a disconnect returns.

**Properties of `RelayTraffic`.** `HandshakeSound`: the budget is kept, and
"authenticated" means that the relay accepted. `OnlyPacketsInjected`: late answers
are not handed to the system. `BatchesCollected` (of steps): a batch answered in
time is not given up, unless a late answer covered its own. `TypeOK` includes that
asset relays are distinct and, if picked from the server list, not the gameplay
relay, and of another region while there are enough; one the host names itself may be
either (section 5). `ImplementsTunnel` (refinement): from the reader to the relay the
threads are one tunnel per connection, that loses packets and never swaps or repeats
them, nor sends one both ways. Of this, `FlowInOrder` (a connection's packets reach
one relay in order, through several workers; at the teardown perhaps the gameplay
relay after it) and `OneWayOut` (what left outside, by a full queue or by the bypass,
is not relayed as well) are also proved on their own.

**Proved, and not repeated in a run.** The type invariants of `UdpRelay`,
`VpnConnection`, `Auth` and `SplitTunnel`; those in the runs carry a bound or a
choice besides types. `MonitorsTold`: a monitor alive and not told to stop has a
driver beside it, also one that a later session untold. `OnlyBanLeavesFile`: as
`OnlyBanLeavesPins`, of the hosts file, while the process lives and can write it.

**Bounds.** Two workers are needed for one to insert between another's check and
its store; two servers for one to be pending while the other is met; two
regions and a family with a numbered member for every branch of
`get_candidates_for_region`. `MaxQueue` delays senders of an unbounded channel,
which loses no interleaving of what they did before. `epoch` grows once per
reset, which ends the session. Three relays are the least for a second switch to
overwrite the previous address of a first; `Grace = 2`, `MinInterval = 3` keep
the order of the real 2 s and 10 s bounds, and `MaxTime = 9` leaves room for
three switches. Two sessions are the least for one to inherit from another, and a
crash in either covers both sides of every step. Three sessions let one be in
the keyring, a later one in the file and a third half written; two deaths let one
interrupt the recovery from the other; two flows let a page of the first answer
the second; two refresh attempts (three in the code) give a first and a last. A
flow cannot be started beyond `MaxAttempts` nor a session issued beyond
`MaxSessions`; requests can always fail instead.

`process_cache` has one process, which may end and come back as another, and one UDP
port on two addresses, so that a socket and its port can disagree; two changes and
three versions let a registration be based on one snapshot, numbered after a second
and stored over it, with a change before and after; a channel of one is full with
one event, a cache of one with one source; `CheckEvery = 2` has packets classified
by an old snapshot, `ScanEvery = 2` refreshes with and without a scan.
`split_tunnel` has one filter of ours and perhaps one of another program which, with
a capacity of one, leaves no room. `relay_traffic` keeps the order of 1500 and 500
ms as 6 and 2 ticks with four hellos; three servers, one of them far, so that a pool
of two must take a near one; two workers with queues of one, two packets of a
connection, so that one can go another way than the one before it, or find the queue
full; two batches so that one's answer can cover the other's. That run has one
connection, to an asset host; `TunnelImplemented` covers any number that share queues
and workers.
Every action fires.

**Deadlock.** Checked in the runs of the connection and of `Auth`. Not in the
others: there every thread may be idle with nothing left to come (a session that
is down with an empty queue, a clock, a version or a number of sessions at its
bound). What `SplitTunnel` could deadlock on is `CloseReturns`, which says so
directly.

**Fairness.** Each worker, the lookup task, a call in progress and each monitor
get weak fairness: they are threads or runtime tasks, and every request and ping
they await has a timeout. The reset is followed by the driver's close. In
`SplitTunnel` the host's call, the ETW thread and each session's reader and other
threads do: their waits are bounded, by timeouts or by the end of the trace. No
fairness for packets arriving, servers falling quiet, callers calling, events,
callbacks, or crashes. `UdpRelay`, `Auth`, `ProcessCache` and `RelayTraffic` state
only safety.

## 4. Findings

1. A lookup checks the session epoch once, then awaits pings; a reset in between
   does not stop its commit (`StaleLookupDiscarded`).
2. A server that was evaluated is never evaluated again in the session, also when
   the player comes back to it and the server the relay was moved for is quiet: the
   pin that `maybe_expire_quiet_pin` waits for is never set (`RejoinReevaluates`). A
   server only met while another talks is not concerned: it is not marked seen.
3. With DNS-over-HTTPS blocked, pins written through the relay are not removed at
   disconnect (`NothingLeftInHosts`).
4. The process callback runs on the ETW thread. If it calls the SDK, it waits for
   the SDK's lock, which the disconnect holds that joins the ETW thread without a
   timeout; `callbacks.rs` only lets go of its own lock (`NoDeadlockWithCallbacks`).

## 5. Observations

Seen while modelling, in the models where it matters, and contradicting nothing
that the repository promises clearly enough to be a finding:

- `switch_relay` is three stores, and the receiver three loads, under a heading
  that says atomic: the receiver can pair an old previous address with a new time.
- `remove_overrides` does not forget what was last applied, so a later merge
  writes an old session's pins back.
- Country-ban routing, "of the current session", is cleared only with the overrides,
  which are not removed after a session whose repair failed: a Route Assist session
  that follows runs under it.
- hosts.rs:77-90 says that launch-critical and sign-in hosts "must stay DIRECT under
  Route Assist / Partial bypass", and lib.rs:67-71 promises their relaying for
  `enable_country_ban` only. connection.rs:497 asks for country-ban routing under the
  partial bypass too, which relays them. The models follow the code; `BanNeverDirect`
  speaks of the full bypass. (The comment at hosts.rs:255-256 counts a partial session
  among those that leave hosts direct.)
- interceptor.rs:165-167 has an asset connection "stay on one exit IP". `cleanup`
  forgets the asset hosts (connection.rs:1016) before it waits for the driver's lock
  and stops the workers (1023-1025), and `forward_outbound` looks at no stop flag: the
  connection's last packets leave by the gameplay relay. The same relay's flag, which
  `stop` sets, is read by nothing. (`FlowInOrder` says that this is all that happens.)
- `asset_relay_server` is taken as it is: it may be the gameplay relay, or of its
  region, which `pick_asset_relays` avoids for those of the list.
- Packets already queued for the tunnel when the bypass is raised leave outside it
  (interceptor.rs:1421), behind some of their connection that did not.
- A login whose session cannot be stored returns an error, and the state stays
  `LoggingIn` (`LoginSettled` says that this is the only way).
- When a second OAuth flow cannot start its server, the first one's server is
  already stopped and the state still awaits it; an answer after ten minutes is
  taken and dropped in the same way. Polling then says "still waiting" for ever.
- A session loaded from the file is not copied to the keyring: after a death
  between the two copies, a file torn later is replaced by an older session. A file
  of the pre-1.0 format is rewritten in place, and a death in between loses it if
  the keyring has no copy. (`StoredSurvives` is about what a store has finished.)
- `process_cache.rs` calls the version monotonic; with two writers it may go back.
  Workers compare for equality, so nothing is lost (`VersionIdentifies`).
- A late reply to one batch of names lands in the slot of the next and may cover
  its answer; the batch then goes unresolved.
- Of four handshake attempts within 1500 ms in windows of 500 ms, the last never
  has time.
- The adapter's settings are turned on at the end even if the user had them off.
- A watcher that is stopped before its trace has started is joined without having
  been stopped.
- The filter table is read, changed and written back without a lock shared with
  the other programs that use it.
- Without a caller: `recover_stale`, `authenticate_addr_with_ticket`, the
  keepalives, `ProcessTracker`.

## 6. Proofs

All by tlapm (Z3, Zenon, LS4), for every value of the constants that satisfies
the named assumption of the module, with no bound on workers, servers, relays,
sessions or time.

`AutoRouterProofs` (from `RoutingAssumption`): type correctness, and
`PendingHasLookup`, `NoOrphanBlock`, `RegionServesGame`, `RelaysAgree`,
`BypassOnlyForWhitelisted`, `EventsChain`. None is inductive by itself. A pending
server is covered because a worker that inserts is at its send; a task that has
removed its own server may be at the recheck. The flag needs the reset's two
steps. The region needs that a job past selection holds a candidate of its own
region. The events chain needs that the region the job started from is still the
current one, which holds because only the task moves it, and that the last event
named it. `RouteImplemented` is the refinement of `RelayRoute`: the same facts show
that each step of the task decides, moves, announces or is not seen.

`UdpRelayProofs` (from `TimingAssumption`): type correctness, `NoSwitchGap`,
`GraceEnds`, from `SwitchInv`: no recorded time is in the future; at each point of a
switch what has been stored; how long ago a relay was left compared with the stored
switch time; and what an arriving datagram's relay was. `OnlyUsedHeard` needs that
what is stored or loaded as previous is or was in use (`PreviousUsed`). The
assumption `Grace <= MinInterval` is where the two files depend on each other.

`VpnConnectionProofs` (from `ConnectionAssumption`): type correctness,
`IdleHoldsNothing`, `TunnelBacked`, `PinsCurrent`, `BanNeverDirect`,
`OnlyBanLeavesPins`, `OnlyBanLeavesFile`, `MonitorsTold`, and
`LifecycleImplemented`, the refinement of `TunnelLifecycle`. The invariant `ConnInv`
says where in the call each state can be (`Flow`), what cleanup has already released
at each point (`Released`), what connect has acquired (`Acquired`), whose pins are
held (`PinsOwn`), that a ban is routed (`BanRouted`), that only a ban session asks
the relay for names (`Leftover`), and that the flag stays set through a cleanup
(`Told`).

`AuthProofs` (from `AuthAssumption`): type correctness and all seven properties of
`Auth`, `OwnAnswer` and `TokenValid` as action properties. The invariant `AuthInv`
says which program counters go with which purpose and state (`Flow`); that the
keyring and the file are never older than what was durably stored (`CopyOrder`);
what a sign-out has removed at each of its steps (`Forgotten`); that the session
about to become the state's is already in the file unless a write failed
(`FileFirst`); that the flow awaited is the one wanted (`Awaited`); and which calls
a login is under way in (`Settled`). `StoredSurvives` needs `CopyOrder` because
sessions are issued in increasing order and a store overwrites the file before the
keyring.

`ProcessCacheProofs` (from `CacheAssumption`): type correctness with the bound of a
worker's cache, and `VersionIdentifies`, `CacheJustified`, `FreshWhenQuiet`. The
first needs that no snapshot in anyone's hands has a version yet to be counted
(`VersionsCounted`); then a step makes no snapshot but under the version it
counts. `CacheJustified` follows because a worker that keeps its cache keeps, by
the first, its very snapshot. The last needs what the refresher has so far at each
of its steps (`TruthSoFar`).

`SplitTunnelProofs` (from `SplitTunnelAssumption`): type correctness,
`AdapterRestored`, `OursGone`, `InterceptionHolds`, `CapturedIsRead`,
`JoinedWereStopped`. `AdapterInv` says at which steps the flags that restore the
settings are set although they are turned off twice; `FilterInv` that filters of
ours are on the list or stranded; `ReaderInv` that a reader of a session that is
over was given up; `SessionInv` and `ModeInv` say which reader the adapter's mode is
owed to at each step of a start and a close; `WatcherInv` that a trace stopped under
a prompt watcher is never started again.

`RelayTrafficProofs` (from `TrafficAssumption`): type correctness, `HandshakeSound`,
`FlowInOrder`, `OneWayOut`, `OnlyPacketsInjected` and `BatchesCollected`.
`HandshakeInv`: an acceptance in the network means that the relay accepted.
`SlotInv`: an answer in time stays in its slot until another covers it. `FlowInv`: a
connection's packets are in one queue, in order, numbered beyond what was relayed of
it and below what comes next (`Ordered`); and what was relayed went where its
connection's packets go now, unless the tunnel is closing and these go to the
gameplay relay (`RelayedAtExit`). `OutsideApart`: what left outside was
read, and is neither queued nor relayed; for a packet the bypass takes out of a queue
this needs `FlowInv`, by which no other one is like it. `TunnelImplemented`, the
refinement of `LossyTunnel`, rests on `FlowInv`: the first packet of a connection in
its only queue is the least that is inside. That a pool picked from the list is as
`TypeOK` says is `PoolIsSetUp`.

`RoutePins` needs no assumption on its constants: for any overrides, an address is
shared between a relayed and a direct host only if the relayed host has no other
(`SharingIsForced`); a direct host's own address stays direct
(`OwnAddressStaysDirect`, and after either pass of the resolution
`LaunchCriticalIsGuarded`); no host is dropped (`EveryHostIsKept`); and the hosts
file sends nobody the wrong way (`WrittenAgrees`).

Model-checked only: `PendingReleased`, `MonitorsEnd`, `TrafficFreed` and
`CloseReturns`, liveness under fairness, which is out of the prover's reach. What
each rests on is proved as an invariant: `PendingHasLookup`, `MonitorsTold`,
`CapturedIsRead` and `JoinedWereStopped`.

## 7. Not modelled

- **Server list** (`vpn/servers.rs`): a download with a file cache and constants to
  fall back on, behind one call; one writer, and the caller takes what it gets.
- **GoodbyeDPI helper** (`roblox_proxy/goodbyedpi.rs`): `VpnConnection` has it held
  or not. Its search tries modes in turn, each a child process and a probe.
- **TLS SNI parser**, **URL exclusions and asset routes**, **URL log**, **names and
  configuration**: stateless parsing, string matching over sets that are filled
  before a session and cleared after it (whether asset hosts are set is modelled),
  diagnostics, constants.
- Of the modelled components: what the process monitor publishes into the state,
  the choice of the network adapter and the WinpkFilter bindings, checksums,
  statistics, keepalives, ping measurements, DNS-over-HTTPS and the reachability
  probe, the text of the hosts block, the parsing of ETW events, JSON at the C
  interface and its last error, HTTP and the encryption of the stored session,
  whether the PC is diskless.
