SPECIFICATION Spec
CONSTANTS
  Addr = {h, j}
  Faithful = {h}
  FULL_PING_TIMER = 12
  SEND_REPEATS = 2
  UINT16_MAX = 15
  MaxDelay = 2
  QueueCap = 3
  MaxEntries = 2
PROPERTIES
  FaithfulClientsStay
