CONSTANTS
  QUEUE_SIZE = 2
  MAX_RETRY = 1
  MaxAddresses = 2
  MaxReadings = 5
SPECIFICATION Spec
INVARIANT
  QueueIsFresh
PROPERTY
  KeepsPromise
CHECK_DEADLOCK FALSE
