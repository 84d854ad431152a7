SPECIFICATION Spec
CONSTANTS
  RECORDS = 5
  SIZE = 3
  TEXT = 2
  receive_buffer_size = 7
INVARIANTS
  TypeOK
  CopyFits
  NothingLeftBehind
PROPERTIES
  ChannelPromise
  CallsEnd
  MessagesArrive
