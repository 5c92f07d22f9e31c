SPECIFICATION Spec
CONSTANTS
  Buffers = {b1, b2}
  IdsSent = {"RX_DATA_INDICATION"}
  MaxSem = 1
  NoMsg = NoMsg
PROPERTY SetBeforeStart
CHECK_DEADLOCK FALSE
