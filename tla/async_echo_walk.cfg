SPECIFICATION Spec
CONSTANTS
  p1 = p1  p2 = p2
  Probes <- TwoProbes
  Sequence <- WalkSequence
  Ttl <- WalkTtl
  SystemTtl = 64
  Raw = FALSE
  ErrorQueue = TRUE
  NoToken = NoToken  Foreign = Foreign  Stranger = Stranger
  MaxArrivals = 2  QueueCap = 2
  Pending = Pending  Unanswered = Unanswered
  Reader = Reader  Nobody = Nobody

INVARIANTS HopLimitIsOwn
PROPERTIES ImplementsContract ErrorsGetRead
CHECK_DEADLOCK FALSE
