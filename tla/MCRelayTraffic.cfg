SPECIFICATION Spec
CONSTANTS
  Servers = {p, s, t}
  Primary = p
  Listed = {p, s, t}
  Far = {s}
  PoolSize = 2
  Budget = 6
  Delay = 2
  Attempts = 4
  NumWorkers = 2
  QueueSize = 1
  Ports = {1}
  Assets = {1}
  MaxPackets = 2
  Batches = 2
  None = None
INVARIANTS TypeOK HandshakeSound OnlyPacketsInjected
PROPERTIES BatchesCollected ImplementsTunnel
CHECK_DEADLOCK FALSE
