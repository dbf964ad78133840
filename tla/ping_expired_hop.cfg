SPECIFICATION EchoSpec
CONSTANTS
  Links <- TwoLinks
  Targets <- Written
  NameAnswers <- LookedUp
  Times = 2
INVARIANTS ReachedMeansReply
CHECK_DEADLOCK FALSE
