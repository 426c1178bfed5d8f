SPECIFICATION Safety
CONSTANTS
  BTN_CNT = 3
  BtnVal <- MCBtnVal
  QLEN = 1
  Wraps = FALSE
  t1 = t1
  t2 = t2
  Tasks = {t1, t2}
  Levels <- MCLevels
  MAX_RETRY = 1
  MaxPresses = 1
  MaxRequests = 1
  MaxDrops = 1
  MaxRestarts = 1
  Lossy = TRUE
CHECK_DEADLOCK FALSE
SYMMETRY Symmetry
INVARIANTS
  TypeOK
  GuardMatchesHolder
  BusyClientHasOwner
  CallbackUnderGuard
  DispatchMeansSubscribed
  VersionsOfShadow

  
