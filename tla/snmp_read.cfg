SPECIFICATION Spec
CONSTANTS
  System <- ThreeValues
  Numeric <- NumericValues
  Ids = {1, 2, 3}
  Stray = 0
  Timeout = 2
  MaxQueue = 1
INVARIANTS TypeOK ReportsWhatTheAgentHas
PROPERTIES ReadEnds
CHECK_DEADLOCK FALSE
