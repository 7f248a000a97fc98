SPECIFICATION Spec
CONSTANTS
  MaxSessions = 2
  Ours = {f}
  Foreign = {g}
  Capacity = 1
  CallsBack = FALSE
  Stalls = TRUE
  PromptWatcher = TRUE
  MaxCrashes = 1
  None = None
INVARIANTS AdapterRestored InterceptionHolds OursGone CapturedIsRead JoinedWereStopped
PROPERTIES TrafficFreed CloseReturns
CHECK_DEADLOCK FALSE
