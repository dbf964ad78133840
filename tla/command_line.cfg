SPECIFICATION CommandSpec
CONSTANTS
  Links <- TwoLinks
  Targets <- Written
  NameAnswers <- LookedUp
  Times = 2
  Stations <- Asks
  Routers <- LocalRouters
  Macs = {"m1", "m2"}
  NewMac = "m1"
  MaxOthers = 2
  AskedPorts = {22, 80}
  OtherPorts = {443}
  Concurrency = 1
  MaxPackets = 3
  GrabTimeout = 2
  Cap = 2
  MaxBytes = 4
  Smallest = 3
  Largest = 10
  MaxChanges = 1
  Networks <- Nets
  AttachedLists <- Lists
  Holdings <- Holders
  Budget = 5
  MaxCacheChanges = 1
INVARIANTS ProbesGoWhereAsked EchoAnswersAreTrue SetMeansHeld RemovalIsTruthful LookupTellsWhoseAddress ScanKeepsFirstAnswers GreetingIsTheFirstLine MtuIsWhereThePathEnds SweepStaysInBudget NotFoundMeansLookedEverywhere ExitTellsTheOutcome
CHECK_DEADLOCK FALSE
