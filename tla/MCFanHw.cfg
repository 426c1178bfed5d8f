SPECIFICATION HwSpec
CONSTANTS
  BTN_CNT = 4
  BtnVal <- MCBtnVal
  QLEN = 3
  Wraps = TRUE
INVARIANTS
  HwTypeOK
  AtMostOneEnergised
  EnergisedIsActive
PROPERTIES
  BreakBeforeMake
  ImplementsInterlock
