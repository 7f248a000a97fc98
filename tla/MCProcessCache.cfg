SPECIFICATION Spec
CONSTANTS
  Pids = {p1}
  Keys <- MCKeys
  Dsts <- MCDsts
  Packets <- MCPackets
  InRange <- MCInRange
  Excluded <- MCExcluded
  Active <- MCActive
  DirectOnly <- MCExcluded
  Workers = {w1}
  api = TRUE
  udp = TRUE
  MaxEvents = 1
  CacheLimit = 1
  CheckEvery = 2
  ScanEvery = 2
  MaxChanges = 2
  MaxVersion = 3
  None = None
INVARIANTS
  TypeOK
  VersionIdentifies
  CacheJustified
  FreshWhenQuiet
CHECK_DEADLOCK FALSE
