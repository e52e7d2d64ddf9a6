----------------------------- MODULE TcpServer -----------------------------
(***************************************************************************)
(* The server half of the library: class TcpServer (src/tcp_server.cpp)    *)
(* with the Client objects it owns (src/client.cpp).                       *)
(*                                                                         *)
(* The threads of the process are                                          *)
(*   Owner      the thread that calls start, subscribe, acceptClient,      *)
(*              sendTo..., close (evenServer in tests/server_example.cpp), *)
(*   Removers   the threads that start() creates to run removeDeadClients, *)
(*   Conn       for every accepted connection, the receive thread of its   *)
(*              Client object; c \in Conn names the connection, the object *)
(*              and the thread.                                            *)
(*                                                                         *)
(* A step is what a thread does between two points where another thread    *)
(* can notice: taking a mutex, joining a thread, a socket call, a handler  *)
(* of an observer, an access to a variable that no mutex protects.         *)
(***************************************************************************)
EXTENDS Integers, Sequences, FiniteSets

CONSTANTS
  Conn,        \* connections that peers make to the server, each once
  Removers,    \* threads that start() can create, one per call
  Owner,       \* the thread that calls the public functions
  Observers,   \* the observers that Owner may subscribe
  None,        \* null: no holder of a mutex, no remover thread
  Ip,          \* client addresses
  AnyIp,       \* the empty wantedIP of an observer
  IpOf,        \* the address of each connection
  WantedIP,    \* the wantedIP of each observer
  PacketHandlers,     \* the observers whose incomingPacketHandler is set
  DisconnectHandlers, \* the observers whose disconnectionHandler is set
  Calls,       \* the optional public calls that Owner makes
  AutoRemove,  \* the values Owner passes for removeDeadClientsAutomatically
  StartResults,\* what start() makes of the listening socket
  FdsBit,      \* what FD_ISSET reads from the member _fds, which nothing sets
  MaxStarts,   \* bound: calls of start()
  MaxSent,     \* bound: bytes each peer sends
  Backlog,     \* maxNumOfClients, the length of the queue of listen()
  MsgSize,     \* size of the messages Owner sends
  MaxPacket,   \* MAX_PACKET_SIZE, the size of the receive buffer
  SizeMod      \* 2^w, w the width of size_t

ASSUME ThreadsAssumption ==
  /\ Owner \notin Conn \cup Removers
  /\ Conn \cap Removers = {}
  /\ None \notin Conn \cup Removers \cup {Owner}

ASSUME DataAssumption ==
  /\ AnyIp \notin Ip
  /\ IpOf \in [Conn -> Ip]
  /\ WantedIP \in [Observers -> Ip \cup {AnyIp}]
  /\ PacketHandlers \subseteq Observers /\ DisconnectHandlers \subseteq Observers
  /\ AutoRemove \subseteq BOOLEAN
  /\ StartResults \subseteq {"listening", "unbound", "invalid"}
  /\ FdsBit \in BOOLEAN

ASSUME BoundsAssumption ==
  /\ MaxStarts \in Nat /\ MaxSent \in [Conn -> Nat] /\ Backlog \in Nat
  /\ MsgSize \in Nat \ {0} /\ MaxPacket \in Nat \ {0}
  /\ SizeMod \in Nat /\ SizeMod > MsgSize + 1
  /\ \A c \in Conn : SizeMod > MaxSent[c] + 1

VARIABLES
  pc,              \* where each thread is
  clientsMtx,      \* _clientsMtx: the thread that holds it, or None
  subscribersMtx,  \* _subscribersMtx
  calls,           \* observers that the holder of _subscribersMtx has yet to call
  iter,            \* iterator into _clients of the holder of _clientsMtx
  clients,         \* _clients
  newClient,       \* acceptClient's local: the client not yet in _clients
  obj,             \* Client objects: "unborn", "open", "closed" (descriptor), "freed"
  isConnected,     \* Client::_isConnected
  numClients,      \* numClientsConnected
  reg,             \* value a thread read in ++ or -- of numClientsConnected
  subscribers,     \* _subscribers
  remover,         \* _clientsRemoverThread
  stop,            \* _stopRemoveClientsTask
  listenFd,        \* _sockfd of the server
  missed,          \* clients that the last send... was for and whose send() has not taken
                   \* the message whole
  ret,             \* what the last sendToAllClients or close returned
  starts,          \* calls of start() so far
  queue,           \* connections waiting to be accepted
  peer,            \* the other end: "idle", "up", "fin" (closed), "rst" (reset)
  sockErr,         \* an error is pending on the socket (ECONNRESET)
  inbox,           \* bytes that arrived and were not received
  sent,            \* history: bytes each peer has sent
  received,        \* history: bytes that recv() has returned
  packets,         \* history: calls of recv() that returned bytes or -1
  handed,          \* history: publications of such a call that have ended
  heard,           \* history: <<o, c>>, o was given a message of c
  told             \* history: <<o, c>>, o was told that c disconnected

ownerVars  == <<newClient, missed, ret, starts>>
listVars   == <<clients, iter>>
objVars    == <<obj, isConnected>>
countVars  == <<numClients, reg>>
remVars    == <<remover, stop>>
netVars    == <<listenFd, queue, peer, sockErr, inbox, sent>>
histVars   == <<received, packets, handed, heard, told>>
vars == <<pc, clientsMtx, subscribersMtx, calls, subscribers,
          ownerVars, listVars, objVars, countVars, remVars, netVars, histVars>>

Threads == Conn \cup Removers \cup {Owner}

ReceiverLabels == {"none", "receive", "lockMsg", "inMsg", "lockDisc", "inDisc",
                   "decRead", "decWrite", "exit"}
RemoverLabels  == {"none", "check", "lock", "scan", "join", "erase", "sleep", "exit"}
OwnerLabels    == {"idle", "subscribe", "push", "inc", "sendLock", "send", "sendToLock",
                   "joinRemover", "closeLock", "closeClient", "closeListener"}

PcTyped ==
  /\ pc \in [Threads -> ReceiverLabels \cup RemoverLabels \cup OwnerLabels]
  /\ \A c \in Conn : pc[c] \in ReceiverLabels
  /\ \A r \in Removers : pc[r] \in RemoverLabels
  /\ pc[Owner] \in OwnerLabels

LocksTyped ==
  /\ clientsMtx \in Threads \cup {None}
  /\ subscribersMtx \in Threads \cup {None}
  /\ calls \subseteq Observers
  /\ subscribers \subseteq Observers

OwnerTyped ==
  /\ newClient \in Conn \cup {None}
  /\ missed \subseteq Conn
  /\ ret \in {"none", "acceptFail", "sendOk", "sendFail", "closeOk", "closeFail"}
  /\ starts \in 0..MaxStarts

ListTyped == clients \in Seq(Conn) /\ iter \in Nat \ {0}

ObjTyped ==
  /\ obj \in [Conn -> {"unborn", "open", "closed", "freed"}]
  /\ isConnected \in [Conn -> BOOLEAN]

CountTyped == numClients \in Int /\ reg \in [Conn \cup {Owner} -> Int]

RemTyped == remover \in Removers \cup {None} /\ stop \in BOOLEAN

NetTyped ==
  /\ listenFd \in {"zero", "invalid", "unbound", "listening", "closed"}
  /\ queue \in Seq(Conn)
  /\ peer \in [Conn -> {"idle", "up", "fin", "rst"}]
  /\ sockErr \in [Conn -> BOOLEAN]
  /\ inbox \in [Conn -> Nat]
  /\ sent \in [Conn -> Nat] /\ \A c \in Conn : sent[c] <= MaxSent[c]

HistTyped ==
  /\ received \in [Conn -> Nat] /\ packets \in [Conn -> Nat] /\ handed \in [Conn -> Nat]
  /\ heard \subseteq Observers \X Conn
  /\ told \subseteq Observers \X Conn

TypeOK ==
  /\ PcTyped /\ LocksTyped /\ OwnerTyped /\ ListTyped /\ ObjTyped
  /\ CountTyped /\ RemTyped /\ NetTyped /\ HistTyped

Init ==
  /\ pc = [t \in Threads |-> IF t = Owner THEN "idle" ELSE "none"]
  /\ clientsMtx = None /\ subscribersMtx = None
  /\ calls = {} /\ subscribers = {}
  /\ iter = 1 /\ clients = <<>> /\ newClient = None
  /\ obj = [c \in Conn |-> "unborn"]
  /\ isConnected = [c \in Conn |-> FALSE]
  /\ numClients = 0 /\ reg = [t \in Conn \cup {Owner} |-> 0]
  /\ remover = None /\ stop = FALSE
  /\ listenFd = "zero"
  /\ missed = {} /\ ret = "none" /\ starts = 0
  /\ queue = <<>>
  /\ peer = [c \in Conn |-> "idle"]
  /\ sockErr = [c \in Conn |-> FALSE]
  /\ inbox = [c \in Conn |-> 0]
  /\ sent = [c \in Conn |-> 0]
  /\ received = [c \in Conn |-> 0]
  /\ packets = [c \in Conn |-> 0] /\ handed = [c \in Conn |-> 0]
  /\ heard = {} /\ told = {}

Goto(t, from, to) == pc[t] = from /\ pc' = [pc EXCEPT ![t] = to]

(* The conversion of the ssize_t of send() and recv() to a const size_t. *)
SizeT(n) == n % SizeMod

-----------------------------------------------------------------------------
(***************************************************************************)
(* Public functions, called by Owner.                                      *)
(***************************************************************************)

(* start(): the remover thread is created before anything can fail. A      *)
(* failure of socket() leaves -1 in _sockfd, one of bind() or listen() a   *)
(* socket that does not listen; either leaves the remover running.         *)
StartRemover(auto) ==
  IF auto
  THEN \E r \in Removers : /\ pc[r] = "none"
                           /\ pc' = [pc EXCEPT ![r] = "check"]
                           /\ remover' = r
  ELSE UNCHANGED <<pc, remover>>

Start(auto, fd) ==
  /\ pc[Owner] = "idle"
  /\ starts < MaxStarts /\ starts' = starts + 1
  /\ listenFd # "listening"
  /\ StartRemover(auto)
  /\ listenFd' = fd
  /\ ret' = "none"
  /\ UNCHANGED <<clientsMtx, subscribersMtx, calls, subscribers, newClient, missed,
                 listVars, objVars, countVars, stop, queue, peer, sockErr, inbox, sent,
                 histVars>>

SubscribeCall ==
  /\ "subscribe" \in Calls /\ subscribers # Observers
  /\ Goto(Owner, "idle", "subscribe")
  /\ UNCHANGED <<clientsMtx, subscribersMtx, calls, subscribers, ownerVars, listVars,
                 objVars, countVars, remVars, netVars, histVars>>

Subscribe ==
  /\ Goto(Owner, "subscribe", "idle")
  /\ subscribersMtx = None
  /\ \E o \in Observers \ subscribers : subscribers' = subscribers \cup {o}
  /\ UNCHANGED <<clientsMtx, subscribersMtx, calls, ownerVars, listVars,
                 objVars, countVars, remVars, netVars, histVars>>

(* waitForClient(timeout): with a timeout the readiness that select        *)
(* reported is thrown away and a bit of the member _fds is tested instead. *)
WaitSucceeds(timeout) == timeout = 0 \/ (queue # <<>> /\ FdsBit)

(* acceptClient up to startListen(): the receive thread runs from here on, *)
(* before the client is in _clients.                                       *)
Accept(timeout) ==
  /\ pc[Owner] = "idle"
  /\ listenFd = "listening" /\ queue # <<>> /\ WaitSucceeds(timeout)
  /\ newClient' = Head(queue)
  /\ queue' = Tail(queue)
  /\ obj' = [obj EXCEPT ![Head(queue)] = "open"]
  /\ isConnected' = [isConnected EXCEPT ![Head(queue)] = TRUE]
  /\ pc' = [pc EXCEPT ![Owner] = "push", ![Head(queue)] = "receive"]
  /\ ret' = "none"
  /\ UNCHANGED <<clientsMtx, subscribersMtx, calls, subscribers, missed, starts,
                 listVars, countVars, remVars, listenFd, peer, sockErr, inbox, sent, histVars>>

(* acceptClient throws: the wait reports no client, or accept() fails, on  *)
(* a socket that does not listen, for want of a descriptor, or with a      *)
(* connection that its peer has reset. Without a timeout and without a     *)
(* connection accept() waits.                                              *)
AcceptFails(timeout) ==
  /\ pc[Owner] = "idle"
  /\ ~(listenFd = "listening" /\ timeout = 0 /\ queue = <<>>)
  /\ \/ UNCHANGED queue
     \/ /\ listenFd = "listening" /\ queue # <<>> /\ WaitSucceeds(timeout)
        /\ peer[Head(queue)] = "rst"
        /\ queue' = Tail(queue)
  /\ ret' = "acceptFail"
  /\ UNCHANGED <<pc, clientsMtx, subscribersMtx, calls, subscribers, newClient, missed,
                 starts, listVars, objVars, countVars, remVars, listenFd, peer, sockErr,
                 inbox, sent, histVars>>

(* The end of acceptClient: push_back and ++ while holding _clientsMtx.    *)
(* The mutated form gives the pointer up before it stores it.              *)
PushClient_Moved ==
  /\ Goto(Owner, "push", "inc")
  /\ clientsMtx = None /\ clientsMtx' = Owner
  /\ newClient' = None
  /\ clients' = Append(clients, newClient')
  /\ reg' = [reg EXCEPT ![Owner] = numClients]
  /\ UNCHANGED <<subscribersMtx, calls, subscribers, missed, ret, starts, iter,
                 objVars, numClients, remVars, netVars, histVars>>

PushClient ==
  /\ Goto(Owner, "push", "inc")
  /\ clientsMtx = None /\ clientsMtx' = Owner
  /\ clients' = Append(clients, newClient)
  /\ newClient' = None
  /\ reg' = [reg EXCEPT ![Owner] = numClients]
  /\ UNCHANGED <<subscribersMtx, calls, subscribers, missed, ret, starts, iter,
                 objVars, numClients, remVars, netVars, histVars>>

CountClient ==
  /\ Goto(Owner, "inc", "idle")
  /\ numClients' = reg[Owner] + 1
  /\ reg' = [reg EXCEPT ![Owner] = 0]
  /\ clientsMtx' = None
  /\ UNCHANGED <<subscribersMtx, calls, subscribers, ownerVars, listVars, objVars,
                 remVars, netVars, histVars>>

(* What send() may return: a message can be cut short by a signal, and a   *)
(* connection the peer has left takes it or fails with -1.                 *)
SendResults(c) == IF peer[c] = "up" THEN 1..MsgSize ELSE {-1, MsgSize}

(* Client::send and sendToClient(Client): the count is tested as a size_t; *)
(* the mutated form tests for an error only.                               *)
SendReportsSuccess_ErrorOnly(n) == ~(SizeT(n) < 0)
SendReportsSuccess(n) == ~(SizeT(n) < 0) /\ ~(SizeT(n) < MsgSize)

SendToAllCall ==
  /\ "sendToAll" \in Calls
  /\ Goto(Owner, "idle", "sendLock")
  /\ UNCHANGED <<clientsMtx, subscribersMtx, calls, subscribers, ownerVars, listVars,
                 objVars, countVars, remVars, netVars, histVars>>

SendToAllLock ==
  /\ Goto(Owner, "sendLock", "send")
  /\ clientsMtx = None /\ clientsMtx' = Owner
  /\ iter' = 1
  /\ missed' = {clients[i] : i \in DOMAIN clients} /\ ret' = "none"
  /\ UNCHANGED <<subscribersMtx, calls, subscribers, newClient, starts, clients,
                 objVars, countVars, remVars, netVars, histVars>>

(* One round of the loop; the first failure that is noticed ends it.       *)
SendToNext(n) ==
  /\ pc[Owner] = "send" /\ iter <= Len(clients)
  /\ n \in SendResults(clients[iter])
  /\ missed' = IF n = MsgSize THEN missed \ {clients[iter]} ELSE missed
  /\ IF SendReportsSuccess(n)
     THEN iter' = iter + 1 /\ UNCHANGED <<pc, clientsMtx, ret>>
     ELSE /\ pc' = [pc EXCEPT ![Owner] = "idle"]
          /\ clientsMtx' = None
          /\ iter' = 1
          /\ ret' = "sendFail"
  /\ UNCHANGED <<subscribersMtx, calls, subscribers, newClient, starts, clients,
                 objVars, countVars, remVars, netVars, histVars>>

SendToAllReturn ==
  /\ Goto(Owner, "send", "idle")
  /\ iter > Len(clients)
  /\ clientsMtx' = None /\ iter' = 1
  /\ ret' = "sendOk"
  /\ UNCHANGED <<subscribersMtx, calls, subscribers, newClient, missed, starts, clients,
                 objVars, countVars, remVars, netVars, histVars>>

SendToClientCall ==
  /\ "sendToClient" \in Calls
  /\ Goto(Owner, "idle", "sendToLock")
  /\ ret' = "none"
  /\ UNCHANGED <<clientsMtx, subscribersMtx, calls, subscribers, newClient, missed, starts,
                 listVars, objVars, countVars, remVars, netVars, histVars>>

(* sendToClient(ip): the first client with that address gets the message.  *)
SendToClient(ip) ==
  /\ Goto(Owner, "sendToLock", "idle")
  /\ clientsMtx = None
  /\ LET found == {i \in DOMAIN clients : IpOf[clients[i]] = ip}
     IN  IF found = {}
         THEN missed' = {} /\ ret' = "sendFail"
         ELSE \E i \in found : \E n \in SendResults(clients[i]) :
                /\ \A j \in found : i <= j
                /\ missed' = IF n = MsgSize THEN {} ELSE {clients[i]}
                /\ ret' = IF SendReportsSuccess(n) THEN "sendOk" ELSE "sendFail"
  /\ UNCHANGED <<clientsMtx, subscribersMtx, calls, subscribers, newClient, starts,
                 listVars, objVars, countVars, remVars, netVars, histVars>>

(* close() begins with terminateDeadClientsRemover(). In the mutated form  *)
(* close() takes _clientsMtx before it stops the remover.                  *)
TerminateRemover_LockFirst ==
  /\ "close" \in Calls /\ pc[Owner] = "idle"
  /\ remover # None /\ clientsMtx = None
  /\ pc' = [pc EXCEPT ![Owner] = "joinRemover"]
  /\ stop' = TRUE
  /\ clientsMtx' = Owner
  /\ ret' = "none"
  /\ UNCHANGED <<subscribersMtx, calls, subscribers, newClient, missed, starts,
                 listVars, objVars, countVars, remover, netVars, histVars>>

RequestStop_Missing == UNCHANGED stop
RequestStop == stop' = TRUE

TerminateRemover ==
  /\ "close" \in Calls /\ pc[Owner] = "idle"
  /\ IF remover = None
     THEN pc' = [pc EXCEPT ![Owner] = "closeLock"] /\ UNCHANGED stop
     ELSE pc' = [pc EXCEPT ![Owner] = "joinRemover"] /\ RequestStop
  /\ ret' = "none"
  /\ UNCHANGED <<clientsMtx, subscribersMtx, calls, subscribers, newClient, missed, starts,
                 listVars, objVars, countVars, remover, netVars, histVars>>

JoinRemover ==
  /\ Goto(Owner, "joinRemover", "closeLock")
  /\ pc[remover] = "exit"
  /\ remover' = None
  /\ UNCHANGED <<clientsMtx, subscribersMtx, calls, subscribers, ownerVars, listVars,
                 objVars, countVars, stop, netVars, histVars>>

CloseLock ==
  /\ Goto(Owner, "closeLock", "closeClient")
  /\ clientsMtx = None /\ clientsMtx' = Owner
  /\ iter' = 1
  /\ UNCHANGED <<subscribersMtx, calls, subscribers, ownerVars, clients, objVars,
                 countVars, remVars, netVars, histVars>>

(* Client::terminateReceiveThread() waits for a receive thread that        *)
(* nothing asks to stop. In the mutated form it does not wait.             *)
ReceiverJoined_NoWait(c) == TRUE
ReceiverJoined(c) == pc[c] = "exit"

(* Client::close(): join, then close the descriptor. The object is not     *)
(* deleted here.                                                           *)
CloseClient ==
  /\ pc[Owner] = "closeClient" /\ iter <= Len(clients)
  /\ ReceiverJoined(clients[iter])
  /\ obj' = [obj EXCEPT ![clients[iter]] = "closed"]
  /\ iter' = iter + 1
  /\ UNCHANGED <<pc, clientsMtx, subscribersMtx, calls, subscribers, ownerVars, clients,
                 isConnected, countVars, remVars, netVars, histVars>>

(* The mutated form lacks the _clients.clear().                            *)
ClearClients_NoClear ==
  /\ Goto(Owner, "closeClient", "closeListener")
  /\ iter > Len(clients) /\ iter' = 1
  /\ clientsMtx' = None
  /\ UNCHANGED <<subscribersMtx, calls, subscribers, ownerVars, clients, objVars, countVars,
                 remVars, netVars, histVars>>

ClearClients ==
  /\ Goto(Owner, "closeClient", "closeListener")
  /\ iter > Len(clients)
  /\ clients' = <<>> /\ iter' = 1
  /\ clientsMtx' = None
  /\ UNCHANGED <<subscribersMtx, calls, subscribers, ownerVars, objVars, countVars,
                 remVars, netVars, histVars>>

(* ::close(_sockfd): connections that were not accepted are reset.         *)
CloseListener ==
  /\ Goto(Owner, "closeListener", "idle")
  /\ listenFd' = IF listenFd = "invalid" THEN "invalid" ELSE "closed"
  /\ ret' = IF listenFd \in {"invalid", "closed"} THEN "closeFail" ELSE "closeOk"
  /\ peer' = [c \in Conn |-> IF \E i \in DOMAIN queue : queue[i] = c THEN "rst" ELSE peer[c]]
  /\ queue' = <<>>
  /\ UNCHANGED <<clientsMtx, subscribersMtx, calls, subscribers, newClient, missed, starts,
                 listVars, objVars, countVars, remVars, sockErr, inbox, sent, histVars>>

-----------------------------------------------------------------------------
(***************************************************************************)
(* removeDeadClients(), run by the threads that start() creates.           *)
(***************************************************************************)
RemoverCheck(r) ==
  /\ pc[r] = "check"
  /\ pc' = [pc EXCEPT ![r] = IF stop THEN "exit" ELSE "lock"]
  /\ UNCHANGED <<clientsMtx, subscribersMtx, calls, subscribers, ownerVars, listVars,
                 objVars, countVars, remVars, netVars, histVars>>

RemoverLock(r) ==
  /\ Goto(r, "lock", "scan")
  /\ clientsMtx = None /\ clientsMtx' = r
  /\ iter' = 1
  /\ UNCHANGED <<subscribersMtx, calls, subscribers, ownerVars, clients, objVars,
                 countVars, remVars, netVars, histVars>>

(* find_if reads one flag at a time.                                       *)
RemoverScan(r) ==
  /\ pc[r] = "scan" /\ iter <= Len(clients)
  /\ IF isConnected[clients[iter]]
     THEN iter' = iter + 1 /\ UNCHANGED pc
     ELSE pc' = [pc EXCEPT ![r] = "join"] /\ UNCHANGED iter
  /\ UNCHANGED <<clientsMtx, subscribersMtx, calls, subscribers, ownerVars, clients,
                 objVars, countVars, remVars, netVars, histVars>>

RemoverUnlock(r) ==
  /\ Goto(r, "scan", "sleep")
  /\ iter > Len(clients)
  /\ clientsMtx' = None /\ iter' = 1
  /\ UNCHANGED <<subscribersMtx, calls, subscribers, ownerVars, clients, objVars,
                 countVars, remVars, netVars, histVars>>

(* Client::close() joins the receive thread and closes the descriptor,     *)
(* then the object is deleted; its pointer is still in _clients.           *)
DeleteClient(r) ==
  /\ Goto(r, "join", "erase")
  /\ ReceiverJoined(clients[iter])
  /\ obj' = [obj EXCEPT ![clients[iter]] = "freed"]
  /\ UNCHANGED <<clientsMtx, subscribersMtx, calls, subscribers, ownerVars, listVars,
                 isConnected, countVars, remVars, netVars, histVars>>

(* The mutated form of the erase takes the element after the dead client.  *)
WithoutCurrent_Next == SubSeq(clients, 1, iter) \o SubSeq(clients, iter + 2, Len(clients))
WithoutCurrent == SubSeq(clients, 1, iter - 1) \o SubSeq(clients, iter + 1, Len(clients))

(* The loop ends when the iterator equals end(). The one that was erased   *)
(* does, if it was the last: end() has moved to where it points.           *)
EraseClient(r) ==
  /\ pc[r] = "erase"
  /\ IF iter = Len(clients)
     THEN pc' = [pc EXCEPT ![r] = "sleep"] /\ clientsMtx' = None
     ELSE pc' = [pc EXCEPT ![r] = "scan"] /\ UNCHANGED clientsMtx
  /\ clients' = WithoutCurrent
  /\ iter' = 1
  /\ UNCHANGED <<subscribersMtx, calls, subscribers, ownerVars, objVars,
                 countVars, remVars, netVars, histVars>>

(* The mutated form makes one pass only: an if where the code has a while. *)
RemoverWake_Once(r) ==
  /\ Goto(r, "sleep", "exit")
  /\ UNCHANGED <<clientsMtx, subscribersMtx, calls, subscribers, ownerVars, listVars,
                 objVars, countVars, remVars, netVars, histVars>>

RemoverWake(r) ==
  /\ Goto(r, "sleep", "check")
  /\ UNCHANGED <<clientsMtx, subscribersMtx, calls, subscribers, ownerVars, listVars,
                 objVars, countVars, remVars, netVars, histVars>>

-----------------------------------------------------------------------------
(***************************************************************************)
(* Client::receiveTask(), run by the receive thread of c.                  *)
(***************************************************************************)
(* What recv() returns: bytes that arrived come first, as many as the      *)
(* buffer takes, then a pending error, then 0 for the end of the stream.   *)
Taken(c) == IF inbox[c] < MaxPacket THEN inbox[c] ELSE MaxPacket
RecvResult(c) == IF inbox[c] > 0 THEN Taken(c) ELSE IF sockErr[c] THEN -1 ELSE 0

(* The test for a disconnection, and one that is off by one.               *)
NothingReceived_OffByOne(n) == n <= 1
NothingReceived(n) == n < 1

Receive(c) ==
  /\ pc[c] = "receive"
  /\ inbox[c] > 0 \/ peer[c] \in {"fin", "rst"}
  /\ LET n == SizeT(RecvResult(c))
     IN  IF NothingReceived(n)
         THEN /\ pc' = [pc EXCEPT ![c] = "lockDisc"]
              /\ isConnected' = [isConnected EXCEPT ![c] = FALSE]
         ELSE pc' = [pc EXCEPT ![c] = "lockMsg"] /\ UNCHANGED isConnected
  /\ sockErr' = [sockErr EXCEPT ![c] = @ /\ inbox[c] > 0]
  /\ inbox' = [inbox EXCEPT ![c] = @ - Taken(c)]
  /\ received' = [received EXCEPT ![c] = @ + Taken(c)]
  /\ packets' = IF RecvResult(c) = 0 THEN packets ELSE [packets EXCEPT ![c] = @ + 1]
  /\ UNCHANGED <<clientsMtx, subscribersMtx, calls, subscribers, ownerVars, listVars, obj,
                 countVars, remVars, listenFd, queue, peer, sent, handed, heard, told>>

(* The tests of publishClientMsg and of publishClientDisconnected: only    *)
(* the first lets an observer with an empty wantedIP pass, and both skip   *)
(* one without a handler.                                                  *)
WantsMsg(o, c) ==
  (WantedIP[o] = IpOf[c] \/ WantedIP[o] = AnyIp) /\ o \in PacketHandlers
WantsDisc(o, c) == WantedIP[o] = IpOf[c] /\ o \in DisconnectHandlers

PublishMsg(c) ==
  /\ Goto(c, "lockMsg", "inMsg")
  /\ subscribersMtx = None /\ subscribersMtx' = c
  /\ calls' = {o \in subscribers : WantsMsg(o, c)}
  /\ UNCHANGED <<clientsMtx, subscribers, ownerVars, listVars, objVars, countVars,
                 remVars, netVars, histVars>>

(* incomingPacketHandler of o runs and returns.                            *)
HandleMsg(c, o) ==
  /\ pc[c] = "inMsg" /\ o \in calls
  /\ calls' = calls \ {o}
  /\ heard' = heard \cup {<<o, c>>}
  /\ UNCHANGED <<pc, clientsMtx, subscribersMtx, subscribers, ownerVars, listVars, objVars,
                 countVars, remVars, netVars, received, packets, handed, told>>

(* The loop over the subscribers ends. What the handlers were given is not *)
(* what arrived: Client::receiveTask drops the size and passes the         *)
(* unterminated buffer on as a C string. The text is not modelled here but *)
(* in NumberService; here a publication only counts.                       *)
PublishMsgReturn(c) ==
  /\ Goto(c, "inMsg", "receive")
  /\ calls = {}
  /\ subscribersMtx' = None
  /\ handed' = [handed EXCEPT ![c] = @ + 1]
  /\ UNCHANGED <<clientsMtx, calls, subscribers, ownerVars, listVars, objVars,
                 countVars, remVars, netVars, received, packets, heard, told>>

PublishDisc(c) ==
  /\ Goto(c, "lockDisc", "inDisc")
  /\ subscribersMtx = None /\ subscribersMtx' = c
  /\ calls' = {o \in subscribers : WantsDisc(o, c)}
  /\ UNCHANGED <<clientsMtx, subscribers, ownerVars, listVars, objVars, countVars,
                 remVars, netVars, histVars>>

HandleDisc(c, o) ==
  /\ pc[c] = "inDisc" /\ o \in calls
  /\ calls' = calls \ {o}
  /\ told' = told \cup {<<o, c>>}
  /\ UNCHANGED <<pc, clientsMtx, subscribersMtx, subscribers, ownerVars, listVars, objVars,
                 countVars, remVars, netVars, received, packets, handed, heard>>

PublishDiscReturn(c) ==
  /\ Goto(c, "inDisc", "decRead")
  /\ calls = {}
  /\ subscribersMtx' = None
  /\ UNCHANGED <<clientsMtx, calls, subscribers, ownerVars, listVars, objVars,
                 countVars, remVars, netVars, histVars>>

(* numClientsConnected-- in clientEventHandler, outside of any mutex: a    *)
(* read and a write of a plain int.                                        *)
DecRead(c) ==
  /\ Goto(c, "decRead", "decWrite")
  /\ reg' = [reg EXCEPT ![c] = numClients]
  /\ UNCHANGED <<clientsMtx, subscribersMtx, calls, subscribers, ownerVars, listVars, objVars,
                 numClients, remVars, netVars, histVars>>

DecWrite(c) ==
  /\ Goto(c, "decWrite", "exit")
  /\ numClients' = reg[c] - 1
  /\ reg' = [reg EXCEPT ![c] = 0]
  /\ UNCHANGED <<clientsMtx, subscribersMtx, calls, subscribers, ownerVars, listVars, objVars,
                 remVars, netVars, histVars>>

-----------------------------------------------------------------------------
(***************************************************************************)
(* The peers and the network, outside of this process.                     *)
(***************************************************************************)
PeerConnect(c) ==
  /\ peer[c] = "idle" /\ listenFd = "listening" /\ Len(queue) < Backlog
  /\ peer' = [peer EXCEPT ![c] = "up"]
  /\ queue' = Append(queue, c)
  /\ UNCHANGED <<pc, clientsMtx, subscribersMtx, calls, subscribers, ownerVars, listVars,
                 objVars, countVars, remVars, listenFd, sockErr, inbox, sent, histVars>>

PeerSend(c) ==
  /\ peer[c] = "up" /\ sent[c] < MaxSent[c]
  /\ sent' = [sent EXCEPT ![c] = @ + 1]
  /\ inbox' = [inbox EXCEPT ![c] = @ + 1]
  /\ UNCHANGED <<pc, clientsMtx, subscribersMtx, calls, subscribers, ownerVars, listVars,
                 objVars, countVars, remVars, listenFd, queue, peer, sockErr, histVars>>

PeerClose(c) ==
  /\ peer[c] = "up"
  /\ peer' = [peer EXCEPT ![c] = "fin"]
  /\ UNCHANGED <<pc, clientsMtx, subscribersMtx, calls, subscribers, ownerVars, listVars,
                 objVars, countVars, remVars, listenFd, queue, sockErr, inbox, sent, histVars>>

(* A reset may take the bytes that are still on their way with it.         *)
PeerReset(c) ==
  /\ peer[c] = "up"
  /\ peer' = [peer EXCEPT ![c] = "rst"]
  /\ sockErr' = [sockErr EXCEPT ![c] = TRUE]
  /\ \E n \in {0, inbox[c]} : inbox' = [inbox EXCEPT ![c] = n]
  /\ UNCHANGED <<pc, clientsMtx, subscribersMtx, calls, subscribers, ownerVars, listVars,
                 objVars, countVars, remVars, listenFd, queue, sent, histVars>>

-----------------------------------------------------------------------------
Timeouts == IF "timedAccept" \in Calls THEN {0, 1} ELSE {0}

OwnerCalls ==
  \/ \E auto \in AutoRemove, fd \in StartResults : Start(auto, fd)
  \/ SubscribeCall
  \/ \E timeout \in Timeouts : Accept(timeout) \/ AcceptFails(timeout)
  \/ SendToAllCall \/ SendToClientCall
  \/ TerminateRemover

OwnerLocks ==
  \/ Subscribe \/ PushClient \/ SendToAllLock \/ CloseLock
  \/ \E ip \in Ip : SendToClient(ip)

OwnerSteps ==
  \/ CountClient
  \/ \E n \in -1..MsgSize : SendToNext(n)
  \/ SendToAllReturn
  \/ JoinRemover \/ CloseClient \/ ClearClients \/ CloseListener

RemoverSteps(r) ==
  \/ RemoverCheck(r) \/ RemoverScan(r) \/ RemoverUnlock(r)
  \/ DeleteClient(r) \/ EraseClient(r) \/ RemoverWake(r)

ReceiverLocks(c) == PublishMsg(c) \/ PublishDisc(c)

ReceiverSteps(c) ==
  \/ Receive(c)
  \/ \E o \in Observers : HandleMsg(c, o) \/ HandleDisc(c, o)
  \/ PublishMsgReturn(c) \/ PublishDiscReturn(c)
  \/ DecRead(c) \/ DecWrite(c)

PeerSteps(c) == PeerConnect(c) \/ PeerSend(c) \/ PeerClose(c) \/ PeerReset(c)

Next ==
  \/ OwnerCalls \/ OwnerLocks \/ OwnerSteps
  \/ \E r \in Removers : RemoverLock(r) \/ RemoverSteps(r)
  \/ \E c \in Conn : ReceiverLocks(c) \/ ReceiverSteps(c) \/ PeerSteps(c)

Spec == Init /\ [][Next]_vars

(***************************************************************************)
(* A thread that can run does; one that waits for a mutex that is free     *)
(* again and again gets it; handlers return. Nothing makes Owner begin a   *)
(* call and nothing makes a peer connect, send or leave.                   *)
(***************************************************************************)
Fairness ==
  /\ SF_vars(OwnerLocks) /\ WF_vars(OwnerSteps)
  /\ \A r \in Removers : SF_vars(RemoverLock(r)) /\ WF_vars(RemoverSteps(r))
  /\ \A c \in Conn : SF_vars(ReceiverLocks(c)) /\ WF_vars(ReceiverSteps(c))

FairSpec == Spec /\ Fairness

-----------------------------------------------------------------------------
(***************************************************************************)
(* Safety.                                                                 *)
(***************************************************************************)
Listed(c) == \E i \in DOMAIN clients : clients[i] = c
Reported(c) == pc[c] \in {"decRead", "decWrite", "exit"}

(* The thread that t waits for: the holder of the mutex it wants, or the   *)
(* thread it joins.                                                        *)
WaitsFor(t) ==
  CASE t \in Conn /\ pc[t] \in {"lockMsg", "lockDisc"} -> subscribersMtx
    [] t \in Removers /\ pc[t] = "lock" -> clientsMtx
    [] t \in Removers /\ pc[t] = "join" /\ pc[clients[iter]] # "exit" -> clients[iter]
    [] t = Owner /\ pc[t] = "subscribe" -> subscribersMtx
    [] t = Owner /\ pc[t] \in {"push", "sendLock", "sendToLock", "closeLock"} -> clientsMtx
    [] t = Owner /\ pc[t] = "joinRemover" /\ pc[remover] # "exit" -> remover
    [] t = Owner /\ pc[t] = "closeClient" /\ iter <= Len(clients)
         /\ pc[clients[iter]] # "exit" -> clients[iter]
    [] OTHER -> None

(* No set of threads waits only for itself: the remover joins a receive    *)
(* thread while it holds _clientsMtx, that thread waits for                *)
(* _subscribersMtx, close() joins the remover and then the receive threads,*)
(* and still some thread of any group can run (removeDeadClients, close,   *)
(* publishClientMsg, publishClientDisconnected).                           *)
NoDeadlock ==
  \A S \in SUBSET Threads : S # {} => \E t \in S : WaitsFor(t) \notin S

(* The descriptor and the object of a client outlive its receive thread,   *)
(* though delete and ::close are done by other threads (Client::close,     *)
(* removeDeadClients, TcpServer::close).                                   *)
OutlivesReceiver ==
  \A c \in Conn : obj[c] \in {"closed", "freed"} => pc[c] = "exit"

(* ::close is called once for the descriptor of a client: when the remover *)
(* or close() comes to a client, no other pass has closed it.              *)
NoDoubleClose ==
  /\ \A r \in Removers : pc[r] = "join" => obj[clients[iter]] = "open"
  /\ pc[Owner] = "closeClient" /\ iter <= Len(clients) => obj[clients[iter]] = "open"

(* When no thread is inside of a critical section of _clientsMtx, _clients *)
(* has every accepted client that nobody has closed, once, and no other.   *)
ListMatchesObjects ==
  clientsMtx = None =>
    /\ \A c \in Conn : Listed(c) <=> obj[c] = "open" /\ c # newClient
    /\ \A i, j \in DOMAIN clients : clients[i] = clients[j] => i = j

(* When the disconnection of a peer that closed its end in order is        *)
(* published, recv() has returned every byte that the peer sent, and every *)
(* packet that recv() returned has been published (Client::receiveTask).   *)
(* It is not about the text that was published: see PublishMsgReturn.      *)
MessagesBeforeDisconnect ==
  \A c \in Conn : peer[c] = "fin" /\ (pc[c] = "inDisc" \/ Reported(c)) =>
                  received[c] = sent[c] /\ handed[c] = packets[c]

(* An observer that asks for the address of a client, has a handler for    *)
(* disconnections and was given a message of the client is told of its     *)
(* disconnection before the client's object is released.                   *)
ToldBeforeRelease ==
  \A c \in Conn, o \in Observers :
    /\ obj[c] \in {"closed", "freed"}
    /\ <<o, c>> \in heard /\ WantsDisc(o, c)
    => <<o, c>> \in told

(* When close() is past the list of clients, every receive thread has      *)
(* ended and every client's descriptor is closed.                          *)
CloseReleases ==
  pc[Owner] = "closeListener" =>
    \A c \in Conn : obj[c] # "unborn" => pc[c] = "exit" /\ obj[c] # "open"

(* After a success of sendToClient or sendToAllClients the only clients    *)
(* that the message was meant for and that did not take it whole, skipped  *)
(* ones included, are those whose own peer has left: a count that is too   *)
(* small is reported, -1 is not, for it is tested as a size_t.             *)
ShortSendReported ==
  ret = "sendOk" => \A c \in missed : peer[c] \in {"fin", "rst"}

-----------------------------------------------------------------------------
(***************************************************************************)
(* The abstract specification of a client's life that FairSpec implements. *)
(***************************************************************************)
StageOf(o, connected, label) ==
  IF o = "unborn" THEN "absent"
  ELSE IF o # "open" THEN "released"
  ELSE IF connected THEN "served"
  ELSE IF label \in {"decRead", "decWrite", "exit"} THEN "reported" ELSE "dead"

stage == [c \in Conn |-> StageOf(obj[c], isConnected[c], pc[c])]

Lifecycle == INSTANCE ClientLifecycle WITH busy <- subscribersMtx

(* The events of a client come one at a time, in the order of its life,    *)
(* each disconnection is reported, and no client is released before that.  *)
ImplementsLifecycle == Lifecycle!FairSpec

-----------------------------------------------------------------------------
(***************************************************************************)
(* Liveness, of FairSpec.                                                  *)
(***************************************************************************)
Closing == pc[Owner] \in {"joinRemover", "closeLock", "closeClient", "closeListener"}

(* README.md:15: the resources of dead clients are removed automatically,  *)
(* here as long as close() is not called.                                  *)
DeadClientReleased ==
  \A c \in Conn : Listed(c) /\ ~isConnected[c] ~> obj[c] \in {"closed", "freed"} \/ Closing

(* close() returns if every peer leaves.                                   *)
CloseReturnsWhenPeersLeave ==
  (\A c \in Conn : <>[](peer[c] # "up")) => (Closing ~> ~Closing)

-----------------------------------------------------------------------------
(***************************************************************************)
(* What comments and documents say and the code does not do.               *)
(***************************************************************************)
(* tcp_server.h:61: numClientsConnected is the number of clients that the  *)
(* server is connected to; compared while no thread is changing it.        *)
CountAccurate ==
  (pc[Owner] = "idle" /\ \A c \in Conn : ~isConnected[c] => pc[c] \in {"none", "exit"})
    => numClients = Cardinality({c \in Conn : isConnected[c]})
=============================================================================
