CONSTANTS
  DL_TRANS_REPEAT = 1
  MaxCommands = 2
  MaxFaults = 4
SPECIFICATION Spec
INVARIANTS
  ReportsAreTrue
  RunsOnce
PROPERTY
  EachExchangeEnds
CHECK_DEADLOCK FALSE
