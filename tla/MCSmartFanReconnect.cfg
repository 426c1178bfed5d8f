SPECIFICATION Spec
CONSTANTS
  BTN_CNT = 3
  BtnVal <- MCBtnVal
  QLEN = 3
  Wraps = FALSE
  t1 = t1
  t2 = t2
  Tasks = {t1}
  Levels <- MCLevels
  MAX_RETRY = 0
  MaxPresses = 0
  MaxRequests = 0
  MaxDrops = 1
  MaxRestarts = 0
  Lossy = FALSE
PROPERTY Reconnects
CHECK_DEADLOCK FALSE
