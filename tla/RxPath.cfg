\* Two buffers, one id a notifier takes and one nobody takes.  No symmetry:
\* temporal properties.
SPECIFICATION FairSpec
CONSTANTS
  Buffers = {b1, b2}
  IdsSent = {"RX_DATA_INDICATION", "UNKNOWN"}
  MaxSem = 2
  NoMsg = NoMsg
INVARIANTS TypeOK Lifecycle Conservation NoLostWakeup FaultOnlyAfterTeardown
PROPERTIES NoDrainAfterStop ImplementsChannel PostedHandled PoolRefills TeardownEnds
CHECK_DEADLOCK FALSE
