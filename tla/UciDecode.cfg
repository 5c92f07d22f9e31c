SPECIFICATION Spec
CONSTANTS
  MaxPdus = 2
  Rooms = {24, 45}
  Payloads = {1, 3}
  MaxPayload = 2
  Missing = {0, 1, 2, 4, 7, 16}
  NoPdu = NoPdu
INVARIANTS TypeOK ReadInPlace DeliveredIsComplete
CHECK_DEADLOCK FALSE
