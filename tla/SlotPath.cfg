SPECIFICATION PathSpec
CONSTANTS
  N = 6
  H = 3
  MaxStep = 3
  MaxLead = 3
  NoSlot = NoSlot
  None = None
  Frames = 3
  Base = 1
  MaxNum = 2
  Num = 1
  L1Nums = {0, 1, 2}
  MaxMove = 2
  MaxSilence = 7
INVARIANTS FollowsL1 NeverBehindL1 MixedOnlyWithFasterL1 SilenceCostsWholeCycles
PROPERTIES AlwaysForward ImplementsExtender
CHECK_DEADLOCK FALSE
