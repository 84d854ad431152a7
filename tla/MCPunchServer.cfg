SPECIFICATION Spec
CONSTANTS
  Addr = {h, j}
  Faithful = {}
  FULL_PING_TIMER = 7
  SEND_REPEATS = 2
  UINT16_MAX = 15
  MaxDelay = 1
  QueueCap = 1
  MaxEntries = 3
INVARIANTS
  TypeOK
PROPERTIES
  DroppedOnlyUnanswered
  RegistryPromise
  SilentClientsAreDropped
