SPECIFICATION Spec
CONSTANTS
  Counters = {"crc_total", "crc_ok", "crc_fail", "ul_pusch_pdus"}
  Events = {"PUSCH", "CRC_OK", "CRC_FAIL"}
  MaxEvents = 4
  MaxSessions = 2
  None = None
INVARIANTS CountsTheSession SummaryAddsUp CrcsFollowPuschs
CHECK_DEADLOCK FALSE
