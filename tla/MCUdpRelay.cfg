SPECIFICATION Spec
CONSTANTS
  a = a
  b = b
  c = c
  None = None
  Relays = {a, b, c}
  FirstRelay = a
  Grace = 2
  MinInterval = 3
  MaxStall = 1
  MaxTime = 9
PROPERTIES NoSwitchGap GraceEnds OnlyUsedHeard
CHECK_DEADLOCK FALSE
