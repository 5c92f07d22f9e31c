SPECIFICATION Spec
CONSTANTS
  MaxPdus = 4
  CountMod = 4
  DciBits = {39, 40, 41}
  TtiBuf = 362
INVARIANTS WalkFindsEveryPdu PuschBlocksInPlace PdschIndexIsRank FitsBuffer
CHECK_DEADLOCK FALSE
