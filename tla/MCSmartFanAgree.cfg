SPECIFICATION Spec
CONSTANTS
  BTN_CNT = 3
  BtnVal <- MCBtnVal
  QLEN = 3
  Wraps = FALSE
  t1 = t1
  t2 = t2
  Tasks = {t1}
  Levels <- MCLevels
  MAX_RETRY = 0
  MaxPresses = 2
  MaxRequests = 1
  MaxDrops = 0
  MaxRestarts = 0
  Lossy = FALSE
CHECK_DEADLOCK FALSE
INVARIANTS
  QuietMeansAgreed
PROPERTIES
  ComesToRest
  SettlesInAgreement
  ReportEnds
  RequestsCarriedOut
  VersionNeverBack
