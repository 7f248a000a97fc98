SPECIFICATION Spec
CONSTANTS
  Requests <- MCRequests
  MaxSessions = 2
  MaxCrashes = 0
  HostsFaults = FALSE
INVARIANTS NothingLeftInHosts
