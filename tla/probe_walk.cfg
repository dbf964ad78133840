SPECIFICATION Spec
CONSTANTS
  Last = 2
  Probes <- NumberedProbes
  Sequence <- NumberedSequence
  Ttl <- WalkTtl
  SystemTtl = 64
  Raw = TRUE
  ErrorQueue = TRUE
  NoToken = NoToken  Foreign = Foreign  Stranger = Stranger
  MaxArrivals = 2  QueueCap = 2
  Nothing = Nothing  Unanswered = Unanswered  Nobody = Nobody
INVARIANTS TypeOK OwnOutcomes NeverPastTheTarget WaitEndsForItsOwnReason
PROPERTIES ImplementsContract RunEnds
CHECK_DEADLOCK FALSE
