SPECIFICATION Spec
CONSTANTS
  Requests <- MCRequests
  MaxSessions = 2
  MaxCrashes = 1
  HostsFaults = TRUE
INVARIANTS TunnelBacked PinsCurrent BanNeverDirect OnlyBanLeavesPins
PROPERTIES MonitorsEnd ImplementsLifecycle
