SPECIFICATION Spec
CONSTANTS
  c1 = c1
  c2 = c2
  o1 = o1
  o2 = o2
  a1 = a1
  Owner = Owner
  None = None
  AnyIp = AnyIp
  Conn = {c1, c2}
  Removers = {r1}
  Observers = {o1, o2}
  Ip = {a1}
  IpOf <- OneIp
  WantedIP <- O1Wants
  PacketHandlers = {o1, o2}
  DisconnectHandlers = {o1}
  Calls = {"subscribe", "close"}
  AutoRemove = {TRUE}
  StartResults = {"listening", "unbound", "invalid"}
  FdsBit = FALSE
  MaxStarts = 1
  MaxSent <- FirstSends
  Backlog = 2
  MsgSize = 2
  MaxPacket = 2
  SizeMod = 8
CHECK_DEADLOCK FALSE
INVARIANTS
  TypeOK
  NoDeadlock
  OutlivesReceiver
  CloseReleases
  MessagesBeforeDisconnect
  ToldBeforeRelease
