SPECIFICATION Spec
CONSTANTS
  DETENT = 2
  SCREENS = 2
  MaxEdges = 5
  MaxReadings = 2
  MaxFailures = 1
INVARIANTS
  TypeOK
  TurnNotForgotten
  ScreenCurrent
PROPERTY
  ScreenSettles
