----------------------------- MODULE TcpClient -----------------------------
(***************************************************************************)
(* The client half of the library: one TcpClient object                    *)
(* (src/tcp_client.cpp) in a process like tests/client_example.cpp.        *)
(*                                                                         *)
(* The threads are                                                         *)
(*   App        calls the public functions,                                *)
(*   Receivers  the threads that connectTo creates to run receiveTask,     *)
(*   Handler    stands for sig_exit, which SIGINT starts in the thread     *)
(*              host; that thread does nothing more, for sig_exit exits.   *)
(***************************************************************************)
EXTENDS Integers, FiniteSets

CONSTANTS
  App, Receivers, Handler,
  Socks,         \* sockets that socket() can return; a closed one is not reused
  None,          \* no thread, no mutex holder, no socket of this client
  Observers,
  PacketHandlers, DisconnectHandlers,  \* the observers with a handler for each event
  Calls,         \* the optional things App does
  ConnectResults,\* what connectTo meets: "connected", "refused", "unresolved" (the
                 \* name of the server), "nosocket"
  Signals,       \* threads in which SIGINT can be handled
  MaxSent,       \* bound: bytes the server sends on a connection
  MsgSize,       \* size of the messages that App sends
  MaxPacket,     \* MAX_PACKET_SIZE
  SizeMod        \* 2^w, w the width of size_t

ASSUME ClientThreadsAssumption ==
  /\ App # Handler /\ App \notin Receivers /\ Handler \notin Receivers
  /\ None \notin Receivers \cup {App, Handler} \cup Socks
  /\ Signals \subseteq Receivers \cup {App}
  /\ PacketHandlers \subseteq Observers /\ DisconnectHandlers \subseteq Observers

ASSUME ClientBoundsAssumption ==
  /\ MaxSent \in Nat /\ MsgSize \in Nat \ {0} /\ MaxPacket \in Nat \ {0}
  /\ SizeMod \in Nat /\ SizeMod > MsgSize + 1 /\ SizeMod > MaxSent + 1

VARIABLES
  pc,              \* where each thread is
  host,            \* the thread that sig_exit interrupted, or None
  outcome,         \* of the process: "running", "exited", "aborted"
  subscribersMtx,  \* _subscribersMtx
  calls,           \* observers that its holder has yet to call
  subscribers,     \* _subscibers
  isConnected,     \* _isConnected
  isClosed,        \* _isClosed
  receiveTask,     \* _receiveTask
  joins,           \* the thread that a closer joins, or None
  sockfd,          \* _sockfd
  ret,             \* what the last call returned
  sendFailed,      \* history: the send() of the last call fell short
  nrecv,           \* receiveTask's local numOfBytesReceived
  sock,            \* sockets: "unused", "open", "closed"
  server,          \* the other end: "none", "up", "fin" (closed), "rst" (reset)
  sockErr,         \* an error is pending on the socket
  inbox,           \* bytes that arrived and were not received
  sent,            \* history: bytes the server sent on each socket
  sockOf,          \* history: the socket each receive thread was made for
  handed,          \* history: bytes each receive thread has published, counted
                   \* until they are more than a server sends
  overtaken        \* history: App connected between join and close of sig_exit

procVars   == <<host, outcome, joins, overtaken>>
obsVars    == <<subscribersMtx, calls, subscribers>>
clientVars == <<isConnected, isClosed, receiveTask, sockfd>>
callVars   == <<ret, sendFailed>>
netVars    == <<sock, server, sockErr, inbox, sent>>
recvVars   == <<nrecv, sockOf, handed>>
vars == <<pc, procVars, obsVars, clientVars, callVars, netVars, recvVars>>

Closers == {App, Handler}
Threads == Closers \cup Receivers

ReceiverLabels == {"none", "check", "wait", "recv", "lockMsg", "inMsg", "lockDisc", "inDisc",
                   "exit"}
CloserLabels   == {"off", "idle", "connect", "setConnected", "subscribe", "subscribing",
                   "join", "closeFd", "exit"}

TypeOK ==
  /\ pc \in [Threads -> ReceiverLabels \cup CloserLabels]
  /\ \A r \in Receivers : pc[r] \in ReceiverLabels
  /\ \A k \in Closers : pc[k] \in CloserLabels
  /\ host \in Signals \cup {None} /\ outcome \in {"running", "exited", "aborted"}
  /\ subscribersMtx \in Receivers \cup {App, None}
  /\ calls \subseteq Observers /\ subscribers \subseteq Observers
  /\ isConnected \in BOOLEAN /\ isClosed \in BOOLEAN
  /\ receiveTask \in Receivers \cup {None}
  /\ joins \in [Closers -> Receivers \cup {None}] /\ overtaken \in BOOLEAN
  /\ sockfd \in Socks \cup {None}
  /\ ret \in {"none", "connectOk", "connectFail", "sendOk", "sendFail", "closeOk", "closeFail"}
  /\ sendFailed \in BOOLEAN
  /\ nrecv \in [Receivers -> Nat] /\ handed \in [Receivers -> Nat]
  /\ sockOf \in [Receivers -> Socks \cup {None}]
  /\ sock \in [Socks -> {"unused", "open", "closed"}]
  /\ server \in [Socks -> {"none", "up", "fin", "rst"}]
  /\ sockErr \in [Socks -> BOOLEAN]
  /\ inbox \in [Socks -> Nat] /\ sent \in [Socks -> 0..MaxSent]

Init ==
  /\ pc = [t \in Threads |-> IF t = App THEN "idle" ELSE IF t = Handler THEN "off" ELSE "none"]
  /\ host = None /\ outcome = "running"
  /\ joins = [k \in Closers |-> None] /\ overtaken = FALSE
  /\ subscribersMtx = None /\ calls = {} /\ subscribers = {}
  /\ isConnected = FALSE /\ isClosed = TRUE
  /\ receiveTask = None /\ sockfd = None
  /\ ret = "none" /\ sendFailed = FALSE
  /\ nrecv = [r \in Receivers |-> 0] /\ handed = [r \in Receivers |-> 0]
  /\ sockOf = [r \in Receivers |-> None]
  /\ sock = [s \in Socks |-> "unused"]
  /\ server = [s \in Socks |-> "none"]
  /\ sockErr = [s \in Socks |-> FALSE]
  /\ inbox = [s \in Socks |-> 0] /\ sent = [s \in Socks |-> 0]

Runs(t) == outcome = "running" /\ host # t
Goto(t, from, to) == Runs(t) /\ pc[t] = from /\ pc' = [pc EXCEPT ![t] = to]

SizeT(n) == n % SizeMod
IsOpen(s) == s \in Socks /\ sock[s] = "open"

-----------------------------------------------------------------------------
(***************************************************************************)
(* connectTo, subscribe and sendMsg, called by App.                        *)
(***************************************************************************)
(* Nothing in connectTo asks whether the client is closed.                 *)
MayConnect == isClosed \/ "reconnect" \in Calls

(* initializeSocket overwrites _sockfd, whatever it was.                   *)
CreateSocket(s) ==
  /\ Goto(App, "idle", "connect")
  /\ MayConnect /\ sock[s] = "unused"
  /\ sock' = [sock EXCEPT ![s] = "open"]
  /\ sockfd' = s
  /\ ret' = "none"
  /\ sendFailed' = FALSE
  /\ UNCHANGED <<procVars, obsVars, isConnected, isClosed, receiveTask, server,
                 sockErr, inbox, sent, recvVars>>

SocketFails ==
  /\ "nosocket" \in ConnectResults
  /\ Runs(App) /\ pc[App] = "idle" /\ MayConnect
  /\ sockfd' = None
  /\ ret' = "connectFail"
  /\ sendFailed' = FALSE
  /\ UNCHANGED <<pc, procVars, obsVars, isConnected, isClosed, receiveTask,
                 netVars, recvVars>>

(* setAddress throws, for the name has no address: the socket stays open.  *)
AddressFails ==
  /\ "unresolved" \in ConnectResults
  /\ Goto(App, "connect", "idle")
  /\ ret' = "connectFail"
  /\ UNCHANGED <<procVars, obsVars, clientVars, sendFailed, netVars, recvVars>>

(* connect() fails: the socket stays open here too.                        *)
ConnectFails ==
  /\ "refused" \in ConnectResults \/ ~IsOpen(sockfd)
  /\ Goto(App, "connect", "idle")
  /\ ret' = "connectFail"
  /\ UNCHANGED <<procVars, obsVars, clientVars, sendFailed, netVars, recvVars>>

(* connect succeeds and the receive thread is created.                     *)
Connect(r) ==
  /\ "connected" \in ConnectResults
  /\ Runs(App) /\ pc[App] = "connect" /\ pc[r] = "none"
  /\ IsOpen(sockfd)
  /\ pc' = [pc EXCEPT ![App] = "setConnected", ![r] = "check"]
  /\ server' = [server EXCEPT ![sockfd] = "up"]
  /\ receiveTask' = r
  /\ sockOf' = [sockOf EXCEPT ![r] = sockfd]
  /\ overtaken' = (overtaken \/ pc[Handler] = "closeFd")
  /\ UNCHANGED <<host, outcome, joins, obsVars, isConnected, isClosed, sockfd, callVars, sock,
                 sockErr, inbox, sent, nrecv, handed>>

SetConnected ==
  /\ Goto(App, "setConnected", "idle")
  /\ isConnected' = TRUE
  /\ isClosed' = FALSE
  /\ ret' = "connectOk"
  /\ UNCHANGED <<procVars, obsVars, receiveTask, sockfd, sendFailed, netVars, recvVars>>

(* The example subscribes before it connects; the library does not ask it. *)
SubscribeCall ==
  /\ Goto(App, "idle", "subscribe")
  /\ subscribers # Observers
  /\ receiveTask = None \/ "subscribeLate" \in Calls
  /\ ret' = "none"
  /\ sendFailed' = FALSE
  /\ UNCHANGED <<procVars, obsVars, clientVars, netVars, recvVars>>

SubscribeLock ==
  /\ Goto(App, "subscribe", "subscribing")
  /\ subscribersMtx = None /\ subscribersMtx' = App
  /\ UNCHANGED <<procVars, calls, subscribers, clientVars, callVars, netVars, recvVars>>

Subscribe ==
  /\ Goto(App, "subscribing", "idle")
  /\ \E o \in Observers \ subscribers : subscribers' = subscribers \cup {o}
  /\ subscribersMtx' = None
  /\ UNCHANGED <<procVars, calls, clientVars, callVars, netVars, recvVars>>

(* What send() may return; a socket that is not connected refuses.         *)
SendResults ==
  IF ~IsOpen(sockfd) \/ server[sockfd] = "none" THEN {-1}
  ELSE IF server[sockfd] = "up" THEN 1..MsgSize ELSE {-1, MsgSize}

(* The count is tested as a size_t; the mutated form tests for an error    *)
(* only.                                                                   *)
SendReportsSuccess_ErrorOnly(n) == ~(SizeT(n) < 0)
SendReportsSuccess(n) == ~(SizeT(n) < 0) /\ ~(SizeT(n) < MsgSize)

SendMsg ==
  /\ "send" \in Calls
  /\ Runs(App) /\ pc[App] = "idle"
  /\ \E n \in SendResults :
       /\ ret' = IF SendReportsSuccess(n) THEN "sendOk" ELSE "sendFail"
       /\ sendFailed' = (n # MsgSize)
  /\ UNCHANGED <<pc, procVars, obsVars, clientVars, netVars, recvVars>>

-----------------------------------------------------------------------------
(***************************************************************************)
(* close(), called by App and by sig_exit.                                 *)
(***************************************************************************)
After(k) == IF k = App THEN "idle" ELSE "exit"

(* terminateReceiveThread clears the flag that receiveTask tests; in the   *)
(* mutated form it does not, like the one of the server's Client.          *)
RequestEnd_Missing == UNCHANGED isConnected
RequestEnd == isConnected' = FALSE

(* join() refuses the thread that calls it, and one that is being joined.  *)
JoinRefused(k) ==
  /\ receiveTask # None
  /\ \/ k = Handler /\ host = receiveTask
     \/ \E j \in Closers \ {k} : pc[j] = "join" /\ joins[j] = receiveTask

(* The mutated form of the call keeps the observers out until it has       *)
(* joined.                                                                 *)
CloseCall_Locked(k) ==
  /\ Runs(k) /\ pc[k] = "idle"
  /\ k = App => "close" \in Calls
  /\ ~isClosed /\ receiveTask # None /\ ~JoinRefused(k)
  /\ subscribersMtx = None /\ subscribersMtx' = k
  /\ pc' = [pc EXCEPT ![k] = "join"]
  /\ joins' = [joins EXCEPT ![k] = receiveTask]
  /\ ret' = "none"
  /\ RequestEnd
  /\ sendFailed' = FALSE
  /\ UNCHANGED <<host, outcome, overtaken, calls, subscribers, isClosed, receiveTask, sockfd,
                 netVars, recvVars>>

CloseCall(k) ==
  /\ Runs(k) /\ pc[k] = "idle"
  /\ k = App => "close" \in Calls
  /\ ~isClosed => ~JoinRefused(k)
  /\ IF isClosed
     THEN /\ pc' = [pc EXCEPT ![k] = After(k)]
          /\ ret' = "closeFail"
          /\ UNCHANGED <<isConnected, joins>>
     ELSE /\ pc' = [pc EXCEPT ![k] = IF receiveTask = None THEN "closeFd" ELSE "join"]
          /\ joins' = [joins EXCEPT ![k] = receiveTask]
          /\ ret' = "none"
          /\ RequestEnd
  /\ sendFailed' = FALSE
  /\ UNCHANGED <<host, outcome, overtaken, obsVars, isClosed, receiveTask, sockfd, netVars,
                 recvVars>>

(* The refused join() throws and nobody catches it.                        *)
JoinThrows(k) ==
  /\ Runs(k) /\ pc[k] = "idle"
  /\ k = App => "close" \in Calls
  /\ ~isClosed /\ JoinRefused(k)
  /\ RequestEnd
  /\ outcome' = "aborted"
  /\ UNCHANGED <<pc, host, joins, overtaken, obsVars, isClosed, receiveTask, sockfd, callVars,
                 netVars, recvVars>>

(* The mutated form does not wait for the thread.                          *)
ReceiverEnded_NoWait(k) == TRUE
ReceiverEnded(k) == pc[joins[k]] = "exit"

(* The joined thread's object is deleted, if it is the one that the member *)
(* still names or if the member is null by now.                            *)
JoinReceiver(k) ==
  /\ Goto(k, "join", "closeFd")
  /\ ReceiverEnded(k) /\ receiveTask \in {joins[k], None}
  /\ receiveTask' = None
  /\ joins' = [joins EXCEPT ![k] = None]
  /\ UNCHANGED <<host, outcome, overtaken, obsVars, isConnected, isClosed, sockfd, callVars,
                 netVars, recvVars>>

(* App has connected meanwhile: delete ends the process, for the thread of *)
(* the new connection has not been joined.                                 *)
DeleteUnjoined ==
  /\ Runs(Handler) /\ pc[Handler] = "join"
  /\ ReceiverEnded(Handler) /\ receiveTask \notin {joins[Handler], None}
  /\ outcome' = "aborted"
  /\ UNCHANGED <<pc, host, joins, overtaken, obsVars, clientVars, callVars, netVars, recvVars>>

(* The mutated form leaves the socket open.                                *)
Released_Not(s) == sock
Released(s) == [sock EXCEPT ![s] = "closed"]

CloseFd(k) ==
  /\ Goto(k, "closeFd", After(k))
  /\ IF IsOpen(sockfd)
     THEN /\ sock' = Released(sockfd)
          /\ isClosed' = TRUE
          /\ ret' = "closeOk"
     ELSE UNCHANGED <<sock, isClosed>> /\ ret' = "closeFail"
  /\ UNCHANGED <<procVars, obsVars, isConnected, receiveTask, sockfd, sendFailed, server,
                 sockErr, inbox, sent, recvVars>>

(* SIGINT: sig_exit begins in thread t, closes and exits.                  *)
Interrupt(t) ==
  /\ outcome = "running" /\ host = None
  /\ pc[t] \notin {"none", "exit"}
  /\ host' = t
  /\ pc' = [pc EXCEPT ![Handler] = "idle"]
  /\ UNCHANGED <<outcome, joins, overtaken, obsVars, clientVars, callVars, netVars, recvVars>>

Exit ==
  /\ Goto(Handler, "exit", "off")
  /\ outcome' = "exited"
  /\ UNCHANGED <<host, joins, overtaken, obsVars, clientVars, callVars, netVars, recvVars>>

-----------------------------------------------------------------------------
(***************************************************************************)
(* receiveTask(), run by the receive thread r.                             *)
(***************************************************************************)
ReceiverCheck(r) ==
  /\ Runs(r) /\ pc[r] = "check"
  /\ pc' = [pc EXCEPT ![r] = IF isConnected THEN "wait" ELSE "exit"]
  /\ UNCHANGED <<procVars, obsVars, clientVars, callVars, netVars, recvVars>>

(* select() finds a socket ready that has bytes, an end or no connection.  *)
Readable(s) == inbox[s] > 0 \/ server[s] \in {"none", "fin", "rst"}

WaitReady(r) ==
  /\ Goto(r, "wait", "recv")
  /\ IsOpen(sockfd) /\ Readable(sockfd)
  /\ UNCHANGED <<procVars, obsVars, clientVars, callVars, netVars, recvVars>>

WaitTimeout(r) ==
  /\ Goto(r, "wait", "check")
  /\ IsOpen(sockfd) => ~Readable(sockfd)
  /\ UNCHANGED <<procVars, obsVars, clientVars, callVars, netVars, recvVars>>

(* select() on a descriptor that is not open: the exception ends the       *)
(* process.                                                                *)
WaitFails(r) ==
  /\ Runs(r) /\ pc[r] = "wait"
  /\ ~IsOpen(sockfd)
  /\ outcome' = "aborted"
  /\ UNCHANGED <<pc, host, joins, overtaken, obsVars, clientVars, callVars, netVars, recvVars>>

(* recv() takes as many bytes as the buffer has room for; the mutated form *)
(* counts a full buffer every time.                                        *)
Taken_Full(s) == MaxPacket
Taken(s) == IF inbox[s] < MaxPacket THEN inbox[s] ELSE MaxPacket

RecvResult(s) ==
  IF ~IsOpen(s) \/ server[s] = "none" THEN -1
  ELSE IF inbox[s] > 0 THEN Taken(s)
  ELSE IF sockErr[s] THEN -1 ELSE 0

(* The test for a disconnection, one that is off by one and one that never *)
(* sees the end.                                                           *)
NothingReceived_Never(n) == n < 0
NothingReceived_OffByOne(n) == n <= 1
NothingReceived(n) == n < 1

Recv(r) ==
  /\ Runs(r) /\ pc[r] = "recv"
  /\ IsOpen(sockfd) => Readable(sockfd)
  /\ LET n == SizeT(RecvResult(sockfd))
     IN  IF NothingReceived(n)
         THEN /\ pc' = [pc EXCEPT ![r] = "lockDisc"]
              /\ isConnected' = FALSE
              /\ UNCHANGED nrecv
         ELSE /\ pc' = [pc EXCEPT ![r] = "lockMsg"]
              /\ nrecv' = [nrecv EXCEPT ![r] = n]
              /\ UNCHANGED isConnected
  /\ IF IsOpen(sockfd)
     THEN /\ inbox' = [inbox EXCEPT ![sockfd] = @ - Taken(sockfd)]
          /\ sockErr' = [sockErr EXCEPT ![sockfd] = @ /\ inbox[sockfd] > 0]
     ELSE UNCHANGED <<inbox, sockErr>>
  /\ UNCHANGED <<procVars, obsVars, isClosed, receiveTask, sockfd, callVars, sock, server,
                 sent, sockOf, handed>>

(* publishServerMsg and publishServerDisconnected: every observer that has *)
(* a handler.                                                              *)
Publish(r) ==
  /\ Goto(r, "lockMsg", "inMsg") \/ Goto(r, "lockDisc", "inDisc")
  /\ subscribersMtx = None /\ subscribersMtx' = r
  /\ calls' = subscribers \cap
       (IF pc[r] = "lockMsg" THEN PacketHandlers ELSE DisconnectHandlers)
  /\ UNCHANGED <<procVars, subscribers, clientVars, callVars, netVars, recvVars>>

Handle(r, o) ==
  /\ Runs(r) /\ pc[r] \in {"inMsg", "inDisc"} /\ o \in calls
  /\ calls' = calls \ {o}
  /\ UNCHANGED <<pc, procVars, subscribersMtx, subscribers, clientVars, callVars, netVars,
                 recvVars>>

PublishMsgReturn(r) ==
  /\ Goto(r, "inMsg", "check")
  /\ calls = {}
  /\ subscribersMtx' = None
  /\ handed' = [handed EXCEPT ![r] = IF @ > MaxSent THEN @ ELSE @ + nrecv[r]]
  /\ nrecv' = [nrecv EXCEPT ![r] = 0]
  /\ UNCHANGED <<procVars, calls, subscribers, clientVars, callVars, netVars, sockOf>>

PublishDiscReturn(r) ==
  /\ Goto(r, "inDisc", "exit")
  /\ calls = {}
  /\ subscribersMtx' = None
  /\ UNCHANGED <<procVars, calls, subscribers, clientVars, callVars, netVars, recvVars>>

-----------------------------------------------------------------------------
(***************************************************************************)
(* The server and the network, outside of this process.                    *)
(***************************************************************************)
ServerSend(s) ==
  /\ server[s] = "up" /\ sock[s] = "open" /\ sent[s] < MaxSent
  /\ sent' = [sent EXCEPT ![s] = @ + 1]
  /\ inbox' = [inbox EXCEPT ![s] = @ + 1]
  /\ UNCHANGED <<pc, procVars, obsVars, clientVars, callVars, sock, server, sockErr, recvVars>>

ServerClose(s) ==
  /\ server[s] = "up" /\ sock[s] = "open"
  /\ server' = [server EXCEPT ![s] = "fin"]
  /\ UNCHANGED <<pc, procVars, obsVars, clientVars, callVars, sock, sockErr, inbox, sent,
                 recvVars>>

(* A reset may take the bytes that are still on their way with it.         *)
ServerReset(s) ==
  /\ server[s] = "up" /\ sock[s] = "open"
  /\ server' = [server EXCEPT ![s] = "rst"]
  /\ sockErr' = [sockErr EXCEPT ![s] = TRUE]
  /\ \E n \in {0, inbox[s]} : inbox' = [inbox EXCEPT ![s] = n]
  /\ UNCHANGED <<pc, procVars, obsVars, clientVars, callVars, sock, sent, recvVars>>

-----------------------------------------------------------------------------
AppCalls ==
  \/ \E s \in Socks : CreateSocket(s)
  \/ SocketFails \/ SubscribeCall \/ SendMsg
  \/ CloseCall(App) \/ JoinThrows(App)

AppSteps ==
  \/ AddressFails \/ ConnectFails \/ \E r \in Receivers : Connect(r)
  \/ SetConnected \/ Subscribe
  \/ JoinReceiver(App) \/ CloseFd(App)

HandlerSteps ==
  \/ CloseCall(Handler) \/ JoinThrows(Handler)
  \/ JoinReceiver(Handler) \/ DeleteUnjoined \/ CloseFd(Handler) \/ Exit

ReceiverSteps(r) ==
  \/ ReceiverCheck(r) \/ WaitReady(r) \/ WaitTimeout(r) \/ WaitFails(r) \/ Recv(r)
  \/ \E o \in Observers : Handle(r, o)
  \/ PublishMsgReturn(r) \/ PublishDiscReturn(r)

ServerSteps(s) == ServerSend(s) \/ ServerClose(s) \/ ServerReset(s)

Next ==
  \/ AppCalls \/ SubscribeLock \/ AppSteps
  \/ \E t \in Signals : Interrupt(t)
  \/ HandlerSteps
  \/ \E r \in Receivers : Publish(r) \/ ReceiverSteps(r)
  \/ \E s \in Socks : ServerSteps(s)

Spec == Init /\ [][Next]_vars

(* A thread that can run does, a mutex that is free again and again is had *)
(* by each that waits for it, handlers return. App need not call, the      *)
(* server need not send and SIGINT need not come.                          *)
Fairness ==
  /\ SF_vars(SubscribeLock) /\ WF_vars(AppSteps) /\ WF_vars(HandlerSteps)
  /\ \A r \in Receivers : SF_vars(Publish(r)) /\ WF_vars(ReceiverSteps(r))

FairSpec == Spec /\ Fairness

-----------------------------------------------------------------------------
(***************************************************************************)
(* Properties.                                                             *)
(***************************************************************************)
WaitsFor(t) ==
  IF t = host THEN Handler
  ELSE IF t \in Receivers /\ pc[t] \in {"lockMsg", "lockDisc"} THEN subscribersMtx
  ELSE IF t = App /\ pc[t] = "subscribe" THEN subscribersMtx
  ELSE IF t \in Closers /\ pc[t] = "join" /\ pc[joins[t]] # "exit" THEN joins[t]
  ELSE None

(* No set of threads waits only for itself: close() joins a thread that    *)
(* may want _subscribersMtx. Only a SIGINT that stops the holder of the    *)
(* mutex can make sig_exit wait for what it has stopped.                   *)
NoDeadlock ==
  outcome = "running" /\ (host # None => host # subscribersMtx) =>
    \A S \in SUBSET Threads : S # {} => \E t \in S : WaitsFor(t) \notin S

(* A close() that succeeded leaves no receive thread that could call an    *)
(* observer or read the descriptor, and no open socket.                    *)
CloseQuiesces ==
  ret = "closeOk" =>
    sock[sockfd] = "closed" /\ \A r \in Receivers : pc[r] \in {"none", "exit"}

(* The socket that a receive thread was made for is closed only after that *)
(* thread has ended, whatever the calls and in whichever thread SIGINT is  *)
(* handled: as long as App has not connected between the join and the      *)
(* close of sig_exit, which then closes the number of the new connection.  *)
SocketOutlivesThread ==
  ~overtaken =>
    \A r \in Receivers : sockOf[r] # None /\ sock[sockOf[r]] = "closed" => pc[r] = "exit"

(* A connection is not lost sight of: every open socket that _sockfd no    *)
(* longer names is one that could not be connected (connectTo and close,   *)
(* which refuses to close a client that never was connected).              *)
OnlyFailedLeaks ==
  \A s \in Socks : sock[s] = "open" /\ s # sockfd => server[s] = "none"

(* Messages of an orderly connection are published before its end is.      *)
MessagesBeforeDisconnect ==
  \A r \in Receivers : pc[r] = "inDisc" /\ server[sockOf[r]] = "fin"
                         => handed[r] = sent[sockOf[r]]

(* A success of sendMsg is truthful as long as send() does not fail: a     *)
(* count that is too small is reported, -1 is not, for it is tested as a   *)
(* size_t.                                                                 *)
ShortSendReported ==
  ret = "sendOk" /\ sendFailed => ~IsOpen(sockfd) \/ server[sockfd] # "up"

Closing == pc[App] \in {"join", "closeFd"}

(* close() returns, even if the server never says anything: the receive    *)
(* thread wakes up every second to look at the flag.                       *)
CloseReturns == Closing ~> ~Closing

(* A receive thread that is at work when the server leaves reports it,     *)
(* unless the client is being closed.                                      *)
EndReported ==
  \A r \in Receivers :
    pc[r] = "wait" /\ server[sockfd] \in {"fin", "rst"} ~> pc[r] = "inDisc" \/ Closing

(***************************************************************************)
(* The abstract specification of the receive threads.                      *)
(***************************************************************************)
StageOf(label) ==
  CASE label = "none" -> "none" [] label = "exit" -> "ended"
    [] label \in {"lockDisc", "inDisc"} -> "lost" [] OTHER -> "serving"

Session == INSTANCE ClientSession
             WITH stage <- [r \in Receivers |-> StageOf(pc[r])], delivered <- handed

(* A thread publishes nothing after the end or after close(), and every    *)
(* end that it finds (receiveTask, terminateReceiveThread).                *)
ImplementsSession == Session!FairSpec

(***************************************************************************)
(* What comments say and the code does not do.                             *)
(***************************************************************************)
(* tcp_client.cpp:168: a connected client has a thread that receives.      *)
ConnectedReceives ==
  isConnected /\ pc[App] = "idle" => pc[receiveTask] # "exit"
=============================================================================
