SPECIFICATION Spec
CONSTANTS
  w1 = w1
  w2 = w2
  g1 = g1
  g2 = g2
  us = us
  sg = sg
  jp = jp
  None = None
  Workers = {w1}
  GameServers <- MCGameServers
  GameRegions <- MCGameRegions
  RegionOf <- MovingRegions
  RegionNames <- MCRegionNames
  Family <- MCFamily
  BestFamily <- MCBestFamily
  Available <- MCAvailable
  Addrs <- MCAddrs
  AddrOf <- MCAddrOf
  Whitelisted = {}
  InitialRegion = "america"
  InitialAddr = "a1"
  MaxSwitches = 2
  MaxQueue = 2
PROPERTIES RejoinReevaluates
CHECK_DEADLOCK FALSE
