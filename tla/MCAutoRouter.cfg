SPECIFICATION Spec
CONSTANTS
  w1 = w1
  w2 = w2
  g1 = g1
  g2 = g2
  us = us
  sg = sg
  jp = jp
  None = None
  Workers = {w1, w2}
  GameServers <- MCGameServers
  GameRegions <- MCGameRegions
  RegionOf <- MovingRegions
  RegionNames <- MCRegionNames
  Family <- MCFamily
  BestFamily <- MCBestFamily
  Available <- MCAvailable
  Addrs <- MCAddrs
  AddrOf <- MCAddrOf
  Whitelisted = {}
  InitialRegion = "america"
  InitialAddr = "a1"
  MaxSwitches = 1
  MaxQueue = 1
SYMMETRY Symmetry
INVARIANTS TypeOK PendingHasLookup NoOrphanBlock RegionServesGame RelaysAgree
PROPERTIES ImplementsRoute
CHECK_DEADLOCK FALSE
