SPECIFICATION Spec
CONSTANTS
  App = App
  Handler = Handler
  None = None
  Socks = {s1}
  Receivers = {r1}
  Observers = {o1}
  PacketHandlers = {o1}
  DisconnectHandlers = {o1}
  Calls = {"close"}
  ConnectResults = {"connected"}
  Signals = {}
  MaxSent = 1
  MsgSize = 2
  MaxPacket = 1
  SizeMod = 8
CHECK_DEADLOCK FALSE
INVARIANTS
  ConnectedReceives
