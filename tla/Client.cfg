SPECIFICATION FairSpec
CONSTANTS
  App = App
  Handler = Handler
  None = None
  Socks = {s1, s2}
  Receivers = {r1, r2}
  Observers = {o1, o2}
  PacketHandlers = {o1}
  DisconnectHandlers = {o2}
  Calls = {"subscribeLate", "send", "close"}
  ConnectResults = {"connected", "refused", "unresolved", "nosocket"}
  Signals = {}
  MaxSent = 1
  MsgSize = 2
  MaxPacket = 1
  SizeMod = 8
CHECK_DEADLOCK FALSE
INVARIANTS
  TypeOK
  NoDeadlock
  CloseQuiesces
  MessagesBeforeDisconnect
  OnlyFailedLeaks
  ShortSendReported
PROPERTIES
  CloseReturns
  EndReported
  ImplementsSession
