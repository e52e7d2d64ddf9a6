SPECIFICATION Spec
CONSTANTS
  App = App
  Handler = Handler
  None = None
  Socks = {s1, s2, s3}
  Receivers = {r1, r2, r3}
  Observers = {}
  PacketHandlers = {}
  DisconnectHandlers = {}
  Calls = {"close", "reconnect"}
  ConnectResults = {"connected"}
  Signals = {App, r1, r2, r3}
  MaxSent = 0
  MsgSize = 2
  MaxPacket = 1
  SizeMod = 8
SYMMETRY SocketSymmetry
CHECK_DEADLOCK FALSE
INVARIANTS
  SocketOutlivesThread
  NoDeadlock
