SPECIFICATION Spec
CONSTANTS
  Conn = {c1, c2, c3}
  Nick = {n1}
  Room = {r1}
  Fd = {f1, f2}
  Port = {p1}
  Slow = {}
  NoConn = NoConn
  NoNick = NoNick
  InvalidRoom = InvalidRoom
  NoFd = NoFd
  NoPort = NoPort
  CountLimit = 8
  PortIters = 1
  MaxMsgs = 1
SYMMETRY Symmetry
INVARIANTS
  SessionOwnsItsName
  NothingLeaks
