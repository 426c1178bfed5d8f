SPECIFICATION Spec
CONSTANTS
  W = 12
  Period = 4
  MaxSlip = 1
INVARIANTS
  TypeOK
  SleepsInTime
PROPERTY
  DecidesOnlyIdle
