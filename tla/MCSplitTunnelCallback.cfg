SPECIFICATION Spec
CONSTANTS
  MaxSessions = 1
  Ours = {f}
  Foreign = {g}
  Capacity = 1
  CallsBack = TRUE
  Stalls = TRUE
  PromptWatcher = TRUE
  MaxCrashes = 0
  None = None
PROPERTIES NoDeadlockWithCallbacks
CHECK_DEADLOCK FALSE
