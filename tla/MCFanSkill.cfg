SPECIFICATION SkillSpec
CONSTANTS
  BTN_CNT = 4
  BtnVal <- MCBtnVal
  QLEN = 3
  Wraps = FALSE
  t1 = t1
  c1 = c1
  c2 = c2
  Tasks = {t1}
  Levels <- MCLevels
  Calls = {c1, c2}
  Asked <- MCAsked
  Changes <- MCChanges
  MAX_RETRY = 0
  MaxPresses = 1
  MaxRequests = 2
  MaxDrops = 0
  MaxRestarts = 0
  Lossy = FALSE
CHECK_DEADLOCK FALSE
SYMMETRY CallSymmetry
INVARIANTS
  AnswerCarriedOut
  RoundsAsFirmware
