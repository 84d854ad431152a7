SPECIFICATION Spec
CONSTANTS
  MaxCalls = 1
\* The chat stops when the host's program is terminated and no call is left.
CHECK_DEADLOCK FALSE
INVARIANTS
  TypeOK
  CrashNeedsEscape
  NoStopIsLost
  GoodbyeIsUnderWay
PROPERTIES
  HostReturns
  ChatEnds
  NobodyStaysAlone
