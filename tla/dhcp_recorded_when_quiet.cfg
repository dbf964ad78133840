SPECIFICATION Spec
CONSTANTS
  a1 = a1  a2 = a2  c1 = c1  c2 = c2  s1 = s1
  Addresses <- TwoAddresses
  Callers <- OneCaller
  Streams <- OneStream
  NoOffer = NoOffer
  Window = 2  SettleTime = 1  JoinTimeout = 1  Horizon = 3
  MaxOffers = 2  MaxCalls = 1  MaxStops = 1
  Unseen = Unseen  Unasked = Unasked  Raised = Raised
PROPERTIES RecordedWhenQuiet
CHECK_DEADLOCK FALSE
