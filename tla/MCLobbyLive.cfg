SPECIFICATION Spec
CONSTANTS
  Conn = {c1, c2}
  Nick = {n1}
  Room = {r1}
  Fd = {f1}
  Port = {p1}
  Slow = {c1}
  NoConn = NoConn
  NoNick = NoNick
  InvalidRoom = InvalidRoom
  NoFd = NoFd
  NoPort = NoPort
  CountLimit = 8
  PortIters = 2
  MaxMsgs = 2
PROPERTIES
  MatchPortIsReported
  SessionsAreReleased
  AcceptsForever
