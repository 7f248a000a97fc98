--------------------------- MODULE MCVpnConnection ---------------------------
(* The requests that take different paths through connect_ex. *)
EXTENDS VpnConnection

Ask(apps, api, ban, partial, assets) ==
  [apps |-> apps, api |-> api, ban |-> ban, partial |-> partial, assets |-> assets]

MCRequests ==
  { Ask("game", FALSE, FALSE, FALSE, TRUE),     \* game traffic, with asset relays
    Ask("game", TRUE, FALSE, FALSE, FALSE),     \* Route Assist
    Ask("game", FALSE, TRUE, FALSE, FALSE),     \* full country-ban bypass
    Ask("studio", FALSE, FALSE, TRUE, FALSE),   \* partial bypass: Studio is relayed
    Ask("studio", TRUE, FALSE, FALSE, FALSE) }  \* Studio alone: nothing to tunnel

\* The pins of a session, computed from every way in which four hosts can share three
\* addresses, hold what RoutePins proves of them.
Pins == INSTANCE RoutePins WITH
  Hosts <- {"gamejoin", "games", "clientsettings", "chat"}, Ips <- 1 .. 3,
  Direct <- {"clientsettings", "chat"},
  PinnedDirect <- {"clientsettings"}, LaunchCritical <- {"clientsettings"}

ASSUME PinsAreAllocated ==
  \A overrides \in SUBSET Pins!Overrides :
    /\ Pins!SharedOnlyIfForced(overrides)
    /\ Pins!OwnAddressIsDirect(overrides)
    /\ Pins!NoHostDropped(overrides)
    /\ Pins!WrittenGoesItsWay(overrides)
=============================================================================
