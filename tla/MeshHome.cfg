CONSTANTS
  MAX_RETRY = 1
  MaxAir = 2
  MaxPosts = 1
  MaxFaults = 2
SPECIFICATION Spec
INVARIANTS
  TypeOK
  RelayFollowsLight
PROPERTY
  RepairedByNextChange
