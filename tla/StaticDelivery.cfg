SPECIFICATION Spec
CONSTANTS
  Sizes = {0, 1, 2, 4, 7}
  Numbers = {0, 1, 2, 3, 6, 7, 9}
  Block = 3
INVARIANTS
  TypeOK
  RangeIsWanted
  BodyIsPromised
CHECK_DEADLOCK FALSE
