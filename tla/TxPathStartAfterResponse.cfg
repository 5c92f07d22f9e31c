SPECIFICATION Spec
CONSTANTS
  MsgBufs = 2
  DataBufs = 1
  MaxSlots = 1
  P7Used = {"DL_TTI", "TX_DATA"}
  ConfigWithinSleep = FALSE
  NoCall = NoCall
CHECK_DEADLOCK FALSE
PROPERTIES StartFollowsConfigResponse
