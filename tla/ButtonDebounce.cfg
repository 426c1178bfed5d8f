SPECIFICATION Spec
CONSTANTS
  PERIOD = 32
  WINDOW = 4
INVARIANTS
  TypeOK
  DeadOnlyAfterWrap
PROPERTIES
  BouncesFiltered
  FilterOfFanHw
  OpensAgain
