SPECIFICATION Spec
CONSTANTS
  c1 = c1
  c2 = c2
  o1 = o1
  o2 = o2
  a1 = a1
  Owner = Owner
  None = None
  AnyIp = AnyIp
  Conn = {c1, c2}
  Removers = {r1, r2}
  Observers = {o1}
  Ip = {a1}
  IpOf <- OneIp
  WantedIP <- O1Wants
  PacketHandlers = {o1}
  DisconnectHandlers = {o1}
  Calls = {"timedAccept", "sendToAll", "sendToClient", "close"}
  AutoRemove = {TRUE, FALSE}
  StartResults = {"listening", "unbound"}
  FdsBit = FALSE
  MaxStarts = 2
  MaxSent <- NoneSent
  Backlog = 2
  MsgSize = 2
  MaxPacket = 4
  SizeMod = 8
SYMMETRY Symmetric
CHECK_DEADLOCK FALSE
INVARIANTS
  NoDoubleClose
  ListMatchesObjects
  ShortSendReported
