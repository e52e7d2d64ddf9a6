SPECIFICATION FairSpec
CONSTANTS
  c1 = c1
  c2 = c2
  o1 = o1
  o2 = o2
  a1 = a1
  Owner = Owner
  None = None
  AnyIp = AnyIp
  Conn = {c1, c2}
  Removers = {r1}
  Observers = {o1}
  Ip = {a1}
  IpOf <- OneIp
  WantedIP <- O1Wants
  PacketHandlers = {o1}
  DisconnectHandlers = {o1}
  Calls = {"close"}
  AutoRemove = {TRUE}
  StartResults = {"listening"}
  FdsBit = FALSE
  MaxStarts = 1
  MaxSent <- OneSender
  Backlog = 2
  MsgSize = 2
  MaxPacket = 4
  SizeMod = 8
CHECK_DEADLOCK FALSE
PROPERTIES
  DeadClientReleased
  CloseReturnsWhenPeersLeave
  ImplementsLifecycle
