SPECIFICATION Safety
CONSTANTS
  BTN_CNT = 3
  BtnVal <- MCBtnVal
  QLEN = 3
  Wraps = FALSE
  t1 = t1
  t2 = t2
  Tasks = {t1}
  Levels <- MCLevels
  MAX_RETRY = 0
  MaxPresses = 2
  MaxRequests = 0
  MaxDrops = 0
  MaxRestarts = 0
  Lossy = FALSE
INVARIANT OffButtonTurnsOff
CHECK_DEADLOCK FALSE
