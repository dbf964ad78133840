SPECIFICATION LookupSpec
CONSTANTS
  Links <- TwoLinks
  Stations <- Asks
  Routers <- LocalRouters
INVARIANTS NextHopIsTheRouter
CHECK_DEADLOCK FALSE
