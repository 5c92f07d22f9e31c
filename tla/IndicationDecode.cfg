SPECIFICATION Spec
CONSTANTS
  MaxPdus = 3
  MaxItems = 2
  Sizes = {0, 1, 3}
  NoTb = NoTb
INVARIANTS ReadInPlace NothingWholeIsLost BlockOfItsOwnPdu BlocksInsideData
CHECK_DEADLOCK FALSE
