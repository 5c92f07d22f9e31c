SPECIFICATION Spec
CONSTANTS
  BufLen = 12
  Align = 4
  TlvMod = 8
  TbLens = {0, 1, 3, 4, 5, 8, 11, 12, 13}
  MaxPdus = 4
CHECK_DEADLOCK FALSE
INVARIANTS TlvLengthIsTbSize
