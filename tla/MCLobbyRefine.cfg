SPECIFICATION Spec
CONSTANTS
  Conn = {c1, c2}
  Nick = {n1}
  Room = {r1, r2}
  Fd = {f1, f2}
  Port = {p1}
  Slow = {}
  NoConn = NoConn
  NoNick = NoNick
  InvalidRoom = InvalidRoom
  NoFd = NoFd
  NoPort = NoPort
  CountLimit = 8
  PortIters = 1
  MaxMsgs = 1
PROPERTIES
  LobbyPromise
