SPECIFICATION FairSpec
CONSTANTS
  MsgBufs = 2
  DataBufs = 1
  MaxSlots = 2
  P7Used = {"DL_TTI", "TX_DATA"}
  ConfigWithinSleep = TRUE
  NoCall = NoCall
INVARIANTS TypeOK MsgPoolConserved DataPoolConserved
PROPERTIES NothingAfterPost EverySlotIsPosted ExhaustionEnds StartTakesEffect
CHECK_DEADLOCK FALSE
