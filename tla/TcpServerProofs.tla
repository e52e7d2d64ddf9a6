-------------------------- MODULE TcpServerProofs --------------------------
(***************************************************************************)
(* The inductive invariant of TcpServer, for any number of connections,    *)
(* removers, observers and starts, and what follows from it: the types, no *)
(* deadlock between the two mutexes and the joins, and that no object is   *)
(* released under its receive thread.                                      *)
(***************************************************************************)
EXTENDS TcpServer, SequenceTheorems, TLAPS

(* The labels at which a thread is inside of a critical section of         *)
(* _clientsMtx, and of _subscribersMtx.                                    *)
HoldsClients(t) ==
  \/ t = Owner /\ pc[t] \in {"inc", "send", "closeClient"}
  \/ t \in Removers /\ pc[t] \in {"scan", "join", "erase"}

HoldsSubscribers(t) == t \in Conn /\ pc[t] \in {"inMsg", "inDisc"}

(* A mutex is held by the thread that is inside of its critical section.   *)
LocksInv ==
  /\ \A t \in Threads : clientsMtx = t <=> HoldsClients(t)
  /\ \A t \in Threads : subscribersMtx = t <=> HoldsSubscribers(t)

(* A connection waits to be accepted at most once and has no receive       *)
(* thread yet.                                                             *)
FreshInv ==
  /\ \A i, j \in DOMAIN queue : queue[i] = queue[j] => i = j
  /\ \A i \in DOMAIN queue : pc[queue[i]] = "none" /\ peer[queue[i]] # "idle"
  /\ \A c \in Conn : peer[c] = "idle" => pc[c] = "none"

(* A remover that found a dead client still has a valid iterator;          *)
(* newClient is set only inside of acceptClient; close() joins a thread    *)
(* that exists.                                                            *)
LocalInv ==
  /\ \A r \in Removers : pc[r] \in {"join", "erase"} => iter <= Len(clients)
  /\ newClient # None <=> pc[Owner] = "push"
  /\ pc[Owner] = "joinRemover" => remover \in Removers

(* What the conversion to size_t gives.                                    *)
LEMMA SizeTNat ==
  ASSUME NEW n \in Int
  PROVE  SizeT(n) \in Nat /\ SizeT(n) < SizeMod
  BY BoundsAssumption DEF SizeT

(* The actions that write the locals of Owner.                             *)
LEMMA OwnerFrame ==
  ASSUME [Next]_vars
  PROVE  \/ UNCHANGED ownerVars
         \/ \E auto \in AutoRemove, fd \in StartResults : Start(auto, fd)
         \/ \E timeout \in Timeouts : Accept(timeout) \/ AcceptFails(timeout)
         \/ PushClient \/ SendToAllCall \/ SendToAllLock \/ SendToAllReturn \/
            SendToClientCall \/ TerminateRemover \/ CloseListener
         \/ \E n \in -1..MsgSize : SendToNext(n)
         \/ \E ip \in Ip : SendToClient(ip)
  BY SMTT(30) DEF vars, ownerVars, listVars, objVars, countVars, remVars, netVars,
      histVars, Next, OwnerCalls, OwnerLocks, OwnerSteps, RemoverSteps, ReceiverLocks,
      ReceiverSteps, PeerSteps, SubscribeCall, Subscribe, CountClient, JoinRemover,
      CloseLock, CloseClient, ClearClients, RemoverCheck, RemoverLock, RemoverScan,
      RemoverUnlock, DeleteClient, EraseClient, RemoverWake, Receive, PublishMsg,
      HandleMsg, PublishMsgReturn, PublishDisc, HandleDisc, PublishDiscReturn, DecRead,
      DecWrite, PeerConnect, PeerSend, PeerClose, PeerReset

(* The actions that write _clients or the iterator into it.                *)
LEMMA ListFrame ==
  ASSUME [Next]_vars
  PROVE  \/ UNCHANGED listVars
         \/ PushClient \/ SendToAllLock \/ SendToAllReturn \/ CloseLock \/ CloseClient
            \/ ClearClients
         \/ \E n \in -1..MsgSize : SendToNext(n)
         \/ \E r \in Removers : RemoverLock(r) \/ RemoverScan(r) \/ RemoverUnlock(r) \/
            EraseClient(r)
  BY SMTT(30) DEF vars, ownerVars, listVars, objVars, countVars, remVars, netVars,
      histVars, Next, OwnerCalls, OwnerLocks, OwnerSteps, RemoverSteps, ReceiverLocks,
      ReceiverSteps, PeerSteps, Start, SubscribeCall, Subscribe, Accept, AcceptFails,
      CountClient, SendToAllCall, SendToClientCall, SendToClient, TerminateRemover,
      JoinRemover, CloseListener, RemoverCheck, DeleteClient, RemoverWake, Receive,
      PublishMsg, HandleMsg, PublishMsgReturn, PublishDisc, HandleDisc,
      PublishDiscReturn, DecRead, DecWrite, PeerConnect, PeerSend, PeerClose, PeerReset

(* The actions that write a Client object.                                 *)
LEMMA ObjFrame ==
  ASSUME [Next]_vars
  PROVE  \/ UNCHANGED objVars
         \/ \E timeout \in Timeouts : Accept(timeout)
         \/ CloseClient
         \/ \E r \in Removers : DeleteClient(r)
         \/ \E c \in Conn : Receive(c) \/ PublishMsgReturn(c)
  BY SMTT(30) DEF vars, ownerVars, listVars, objVars, countVars, remVars, netVars,
      histVars, Next, OwnerCalls, OwnerLocks, OwnerSteps, RemoverSteps, ReceiverLocks,
      ReceiverSteps, PeerSteps, Start, SubscribeCall, Subscribe, AcceptFails,
      PushClient, CountClient, SendToAllCall, SendToAllLock, SendToNext,
      SendToAllReturn, SendToClientCall, SendToClient, TerminateRemover, JoinRemover,
      CloseLock, ClearClients, CloseListener, RemoverCheck, RemoverLock, RemoverScan,
      RemoverUnlock, EraseClient, RemoverWake, PublishMsg, HandleMsg, PublishDisc,
      HandleDisc, PublishDiscReturn, DecRead, DecWrite, PeerConnect, PeerSend,
      PeerClose, PeerReset

(* The actions of ++ and -- of numClientsConnected.                        *)
LEMMA CountFrame ==
  ASSUME [Next]_vars
  PROVE  \/ UNCHANGED countVars
         \/ PushClient \/ CountClient
         \/ \E c \in Conn : DecRead(c) \/ DecWrite(c)
  BY SMTT(30) DEF vars, ownerVars, listVars, objVars, countVars, remVars, netVars,
      histVars, Next, OwnerCalls, OwnerLocks, OwnerSteps, RemoverSteps, ReceiverLocks,
      ReceiverSteps, PeerSteps, Start, SubscribeCall, Subscribe, Accept, AcceptFails,
      SendToAllCall, SendToAllLock, SendToNext, SendToAllReturn, SendToClientCall,
      SendToClient, TerminateRemover, JoinRemover, CloseLock, CloseClient, ClearClients,
      CloseListener, RemoverCheck, RemoverLock, RemoverScan, RemoverUnlock,
      DeleteClient, EraseClient, RemoverWake, Receive, PublishMsg, HandleMsg,
      PublishMsgReturn, PublishDisc, HandleDisc, PublishDiscReturn, PeerConnect,
      PeerSend, PeerClose, PeerReset

(* The actions that write the remover's thread pointer or its stop flag.   *)
LEMMA RemFrame ==
  ASSUME [Next]_vars
  PROVE  \/ UNCHANGED remVars
         \/ \E auto \in AutoRemove, fd \in StartResults : Start(auto, fd)
         \/ TerminateRemover \/ JoinRemover
  BY SMTT(30) DEF vars, ownerVars, listVars, objVars, countVars, remVars, netVars,
      histVars, Next, OwnerCalls, OwnerLocks, OwnerSteps, RemoverSteps, ReceiverLocks,
      ReceiverSteps, PeerSteps, SubscribeCall, Subscribe, Accept, AcceptFails,
      PushClient, CountClient, SendToAllCall, SendToAllLock, SendToNext,
      SendToAllReturn, SendToClientCall, SendToClient, CloseLock, CloseClient,
      ClearClients, CloseListener, RemoverCheck, RemoverLock, RemoverScan,
      RemoverUnlock, DeleteClient, EraseClient, RemoverWake, Receive, PublishMsg,
      HandleMsg, PublishMsgReturn, PublishDisc, HandleDisc, PublishDiscReturn, DecRead,
      DecWrite, PeerConnect, PeerSend, PeerClose, PeerReset

(* The actions that change a socket.                                       *)
LEMMA NetFrame ==
  ASSUME [Next]_vars
  PROVE  \/ UNCHANGED netVars
         \/ \E auto \in AutoRemove, fd \in StartResults : Start(auto, fd)
         \/ \E timeout \in Timeouts : Accept(timeout) \/ AcceptFails(timeout)
         \/ CloseListener
         \/ \E c \in Conn : Receive(c) \/ PeerConnect(c) \/ PeerSend(c) \/ PeerClose(c)
            \/ PeerReset(c)
  BY SMTT(30) DEF vars, ownerVars, listVars, objVars, countVars, remVars, netVars,
      histVars, Next, OwnerCalls, OwnerLocks, OwnerSteps, RemoverSteps, ReceiverLocks,
      ReceiverSteps, PeerSteps, SubscribeCall, Subscribe, PushClient,
      CountClient, SendToAllCall, SendToAllLock, SendToNext, SendToAllReturn,
      SendToClientCall, SendToClient, TerminateRemover, JoinRemover, CloseLock,
      CloseClient, ClearClients, RemoverCheck, RemoverLock, RemoverScan, RemoverUnlock,
      DeleteClient, EraseClient, RemoverWake, PublishMsg, HandleMsg, PublishMsgReturn,
      PublishDisc, HandleDisc, PublishDiscReturn, DecRead, DecWrite

(* The actions of the handlers.                                            *)
LEMMA HistFrame ==
  ASSUME [Next]_vars
  PROVE  \/ UNCHANGED histVars
         \/ \E c \in Conn, o \in Observers : HandleMsg(c, o) \/ HandleDisc(c, o)
         \/ \E c \in Conn : Receive(c) \/ PublishMsgReturn(c)
  BY SMTT(30) DEF vars, ownerVars, listVars, objVars, countVars, remVars, netVars,
      histVars, Next, OwnerCalls, OwnerLocks, OwnerSteps, RemoverSteps, ReceiverLocks,
      ReceiverSteps, PeerSteps, Start, SubscribeCall, Subscribe, Accept, AcceptFails,
      PushClient, CountClient, SendToAllCall, SendToAllLock, SendToNext,
      SendToAllReturn, SendToClientCall, SendToClient, TerminateRemover, JoinRemover,
      CloseLock, CloseClient, ClearClients, CloseListener, RemoverCheck, RemoverLock,
      RemoverScan, RemoverUnlock, DeleteClient, EraseClient, RemoverWake, PublishMsg,
      PublishDisc, PublishDiscReturn, DecRead, DecWrite, PeerConnect,
      PeerSend, PeerClose, PeerReset

(* The actions that take or release a mutex or write what
   _subscribersMtx protects.                                               *)
LEMMA LocksFrame ==
  ASSUME [Next]_vars
  PROVE  \/ UNCHANGED <<clientsMtx, subscribersMtx, calls, subscribers>>
         \/ Subscribe \/ PushClient \/ CountClient \/ SendToAllLock \/ SendToAllReturn
            \/ CloseLock \/ ClearClients
         \/ \E n \in -1..MsgSize : SendToNext(n)
         \/ \E r \in Removers : RemoverLock(r) \/ RemoverUnlock(r) \/ EraseClient(r)
         \/ \E c \in Conn : PublishMsg(c) \/ PublishMsgReturn(c) \/ PublishDisc(c) \/
            PublishDiscReturn(c)
         \/ \E c \in Conn, o \in Observers : HandleMsg(c, o) \/ HandleDisc(c, o)
  BY SMTT(30) DEF vars, ownerVars, listVars, objVars, countVars, remVars, netVars,
      histVars, Next, OwnerCalls, OwnerLocks, OwnerSteps, RemoverSteps, ReceiverLocks,
      ReceiverSteps, PeerSteps, Start, SubscribeCall, Accept, AcceptFails,
      SendToAllCall, SendToClientCall, SendToClient, TerminateRemover, JoinRemover,
      CloseClient, CloseListener, RemoverCheck, RemoverScan, DeleteClient,
      RemoverWake, Receive, DecRead, DecWrite, PeerConnect, PeerSend, PeerClose,
      PeerReset

(* Every step keeps the type of the locals of Owner.                       *)
LEMMA OwnerTypedStep ==
  ASSUME OwnerTyped, ListTyped, NetTyped, [Next]_vars
  PROVE  OwnerTyped'
<1>1. ASSUME NEW auto \in AutoRemove, NEW fd \in StartResults, Start(auto, fd)
      PROVE  OwnerTyped'
  BY <1>1, ThreadsAssumption, BoundsAssumption DEF Start, OwnerTyped, NetTyped,
      ownerVars
<1>2. ASSUME NEW timeout \in Timeouts, Accept(timeout)
      PROVE  OwnerTyped'
  BY <1>2, ThreadsAssumption, BoundsAssumption DEF Accept, OwnerTyped, NetTyped,
      ownerVars
<1>3. ASSUME NEW timeout \in Timeouts, AcceptFails(timeout)
      PROVE  OwnerTyped'
  BY <1>3, ThreadsAssumption, BoundsAssumption DEF AcceptFails, OwnerTyped, NetTyped,
      ownerVars
<1>4. CASE PushClient
  BY <1>4, ThreadsAssumption, BoundsAssumption DEF PushClient, OwnerTyped, NetTyped,
      ownerVars
<1>5. CASE SendToAllCall
  BY <1>5, ThreadsAssumption, BoundsAssumption DEF SendToAllCall, OwnerTyped, NetTyped,
      ownerVars
<1>6. CASE SendToAllLock
  BY <1>6, ThreadsAssumption, BoundsAssumption DEF SendToAllLock, OwnerTyped, ListTyped
<1>7. ASSUME NEW n \in -1..MsgSize, SendToNext(n)
      PROVE  OwnerTyped'
  BY <1>7, ThreadsAssumption, BoundsAssumption DEF SendToNext, OwnerTyped, NetTyped,
      ownerVars
<1>8. CASE SendToAllReturn
  BY <1>8, ThreadsAssumption, BoundsAssumption DEF SendToAllReturn, OwnerTyped,
      NetTyped, ownerVars
<1>9. CASE SendToClientCall
  BY <1>9, ThreadsAssumption, BoundsAssumption DEF SendToClientCall, OwnerTyped,
      NetTyped, ownerVars
<1>10. ASSUME NEW ip \in Ip, SendToClient(ip)
      PROVE  OwnerTyped'
  <2>1. missed' \subseteq Conn /\ ret' \in {"sendOk", "sendFail"}
    BY <1>10 DEF SendToClient, ListTyped
  <2>2. QED
    BY <1>10, <2>1 DEF SendToClient, OwnerTyped
<1>11. CASE TerminateRemover
  BY <1>11, ThreadsAssumption, BoundsAssumption DEF TerminateRemover, OwnerTyped,
      NetTyped, ownerVars
<1>12. CASE CloseListener
  <2>1. ret' \in {"closeOk", "closeFail"}
    BY <1>12 DEF CloseListener
  <2>2. UNCHANGED <<newClient, missed, starts>>
    BY <1>12 DEF CloseListener
  <2>3. QED
    BY <2>1, <2>2 DEF OwnerTyped
<1>13. CASE UNCHANGED ownerVars
  BY <1>13 DEF OwnerTyped, NetTyped, ownerVars
<1>14. QED
  BY <1>1, <1>2, <1>3, <1>4, <1>5, <1>6, <1>7, <1>8, <1>9, <1>10, <1>11, <1>12, <1>13,
      OwnerFrame

(* Every step keeps the type of _clients and of the iterator: iter is      *)
(* never before the beginning, and the erase leaves a sequence of clients. *)
LEMMA ListTypedStep ==
  ASSUME ListTyped, OwnerTyped, LocalInv, [Next]_vars
  PROVE  ListTyped'
<1>1. CASE PushClient
  BY <1>1 DEF PushClient, ListTyped, OwnerTyped, LocalInv, Goto, listVars
<1>2. CASE SendToAllLock
  BY <1>2 DEF SendToAllLock, ListTyped, OwnerTyped, LocalInv, Goto, listVars
<1>3. ASSUME NEW n \in -1..MsgSize, SendToNext(n)
      PROVE  ListTyped'
  BY <1>3 DEF SendToNext, ListTyped, OwnerTyped, LocalInv, Goto, listVars
<1>4. CASE SendToAllReturn
  BY <1>4 DEF SendToAllReturn, ListTyped, OwnerTyped, LocalInv, Goto, listVars
<1>5. CASE CloseLock
  BY <1>5 DEF CloseLock, ListTyped, OwnerTyped, LocalInv, Goto, listVars
<1>6. CASE CloseClient
  BY <1>6 DEF CloseClient, ListTyped, OwnerTyped, LocalInv, Goto, listVars
<1>7. CASE ClearClients
  BY <1>7 DEF ClearClients, ListTyped, OwnerTyped, LocalInv, Goto, listVars
<1>8. ASSUME NEW r \in Removers, RemoverLock(r)
      PROVE  ListTyped'
  BY <1>8 DEF RemoverLock, ListTyped, OwnerTyped, LocalInv, Goto, listVars
<1>9. ASSUME NEW r \in Removers, RemoverScan(r)
      PROVE  ListTyped'
  BY <1>9 DEF RemoverScan, ListTyped, OwnerTyped, LocalInv, Goto, listVars
<1>10. ASSUME NEW r \in Removers, RemoverUnlock(r)
      PROVE  ListTyped'
  BY <1>10 DEF RemoverUnlock, ListTyped, OwnerTyped, LocalInv, Goto, listVars
<1>11. ASSUME NEW r \in Removers, EraseClient(r)
      PROVE  ListTyped'
  BY <1>11 DEF EraseClient, WithoutCurrent, ListTyped, OwnerTyped, LocalInv, Goto,
      listVars
<1>12. CASE UNCHANGED listVars
  BY <1>12 DEF ListTyped, OwnerTyped, LocalInv, Goto, listVars
<1>13. QED
  BY <1>1, <1>2, <1>3, <1>4, <1>5, <1>6, <1>7, <1>8, <1>9, <1>10, <1>11, <1>12,
      ListFrame

(* Every step keeps the type of the Client objects.                        *)
LEMMA ObjTypedStep ==
  ASSUME ObjTyped, ListTyped, NetTyped, HistTyped, LocalInv, [Next]_vars
  PROVE  ObjTyped'
<1>1. ASSUME NEW timeout \in Timeouts, Accept(timeout)
      PROVE  ObjTyped'
  BY <1>1, BoundsAssumption DEF Accept, ObjTyped, NetTyped, ListTyped, Goto, objVars
<1>2. CASE CloseClient
  BY <1>2, BoundsAssumption DEF CloseClient, ObjTyped, NetTyped, ListTyped, Goto,
      objVars
<1>3. ASSUME NEW r \in Removers, DeleteClient(r)
      PROVE  ObjTyped'
  BY <1>3, BoundsAssumption DEF DeleteClient, LocalInv, ObjTyped, NetTyped, ListTyped,
      Goto, objVars
<1>4. ASSUME NEW c \in Conn, Receive(c)
      PROVE  ObjTyped'
  <2>1. RecvResult(c) \in Int
    BY BoundsAssumption DEF RecvResult, Taken, NetTyped
  <2>2. SizeT(RecvResult(c)) \in Nat
    BY <2>1, SizeTNat
  <2>3. QED
    BY <1>4, <2>2 DEF Receive, ObjTyped
<1>5. ASSUME NEW c \in Conn, PublishMsgReturn(c)
      PROVE  ObjTyped'
  BY <1>5, BoundsAssumption DEF PublishMsgReturn, ObjTyped, NetTyped, ListTyped, Goto,
      objVars
<1>6. CASE UNCHANGED objVars
  BY <1>6 DEF ObjTyped, NetTyped, ListTyped, Goto, objVars
<1>7. QED
  BY <1>1, <1>2, <1>3, <1>4, <1>5, <1>6, ObjFrame

(* Every step keeps the type of the counter. It may be negative: the       *)
(* decrement can come before the increment.                                *)
LEMMA CountTypedStep ==
  ASSUME CountTyped, [Next]_vars
  PROVE  CountTyped'
<1>1. CASE PushClient
  BY <1>1 DEF PushClient, CountTyped, countVars, Goto
<1>2. CASE CountClient
  BY <1>2 DEF CountClient, CountTyped, countVars, Goto
<1>3. ASSUME NEW c \in Conn, DecRead(c)
      PROVE  CountTyped'
  BY <1>3 DEF DecRead, CountTyped, countVars, Goto
<1>4. ASSUME NEW c \in Conn, DecWrite(c)
      PROVE  CountTyped'
  BY <1>4 DEF DecWrite, CountTyped, countVars, Goto
<1>5. CASE UNCHANGED countVars
  BY <1>5 DEF CountTyped, countVars, Goto
<1>6. QED
  BY <1>1, <1>2, <1>3, <1>4, <1>5, CountFrame

(* Every step keeps the type of the remover thread variables.              *)
LEMMA RemTypedStep ==
  ASSUME RemTyped, [Next]_vars
  PROVE  RemTyped'
<1>1. ASSUME NEW auto \in AutoRemove, NEW fd \in StartResults, Start(auto, fd)
      PROVE  RemTyped'
  BY <1>1 DEF Start, StartRemover, RemTyped, remVars
<1>2. CASE TerminateRemover
  BY <1>2 DEF TerminateRemover, RequestStop, RemTyped, remVars
<1>3. CASE JoinRemover
  BY <1>3 DEF JoinRemover, RemTyped, remVars
<1>4. CASE UNCHANGED remVars
  BY <1>4 DEF RemTyped, remVars
<1>5. QED
  BY <1>1, <1>2, <1>3, <1>4, RemFrame

(* Every step keeps the type of the sockets; no peer sends more than its   *)
(* bound.                                                                  *)
LEMMA NetTypedStep ==
  ASSUME NetTyped, [Next]_vars
  PROVE  NetTyped'
<1>1. ASSUME NEW auto \in AutoRemove, NEW fd \in StartResults, Start(auto, fd)
      PROVE  NetTyped'
  BY <1>1, DataAssumption, BoundsAssumption DEF Start, NetTyped, netVars
<1>2. ASSUME NEW timeout \in Timeouts, Accept(timeout)
      PROVE  NetTyped'
  BY <1>2, DataAssumption, BoundsAssumption DEF Accept, NetTyped, netVars
<1>2a. ASSUME NEW timeout \in Timeouts, AcceptFails(timeout)
      PROVE  NetTyped'
  <2>1. queue \in Seq(Conn) /\ (queue # <<>> => Tail(queue) \in Seq(Conn))
    BY DEF NetTyped
  <2>1a. queue' \in Seq(Conn)
    BY <1>2a, <2>1 DEF AcceptFails
  <2>2. QED
    BY <1>2a, <2>1a DEF AcceptFails, NetTyped
<1>3. CASE CloseListener
  BY <1>3, DataAssumption, BoundsAssumption DEF CloseListener, NetTyped, netVars
<1>4. ASSUME NEW c \in Conn, Receive(c)
      PROVE  NetTyped'
  BY <1>4, DataAssumption, BoundsAssumption DEF Receive, Taken, NetTyped, netVars
<1>5. ASSUME NEW c \in Conn, PeerConnect(c)
      PROVE  NetTyped'
  BY <1>5, DataAssumption, BoundsAssumption DEF PeerConnect, NetTyped, netVars
<1>6. ASSUME NEW c \in Conn, PeerSend(c)
      PROVE  NetTyped'
  <2>1. sent[c] \in Nat /\ MaxSent[c] \in Nat
    BY BoundsAssumption DEF NetTyped
  <2>2. sent' \in [Conn -> Nat] /\ inbox' \in [Conn -> Nat]
    BY <1>6, <2>1 DEF PeerSend, NetTyped
  <2>3. \A d \in Conn : sent'[d] <= MaxSent[d]
    BY <1>6, <2>1, <2>2 DEF PeerSend, NetTyped
  <2>4. QED
    BY <1>6, <2>2, <2>3 DEF PeerSend, NetTyped
<1>7. ASSUME NEW c \in Conn, PeerClose(c)
      PROVE  NetTyped'
  BY <1>7, DataAssumption, BoundsAssumption DEF PeerClose, NetTyped, netVars
<1>8. ASSUME NEW c \in Conn, PeerReset(c)
      PROVE  NetTyped'
  BY <1>8, DataAssumption, BoundsAssumption DEF PeerReset, NetTyped, netVars
<1>9. CASE UNCHANGED netVars
  BY <1>9 DEF NetTyped, netVars
<1>10. QED
  BY <1>1, <1>2, <1>2a, <1>3, <1>4, <1>5, <1>6, <1>7, <1>8, <1>9, NetFrame

(* Every step keeps the type of the history variables.                     *)
LEMMA HistTypedStep ==
  ASSUME HistTyped, NetTyped, ObjTyped, LocksTyped, [Next]_vars
  PROVE  HistTyped'
<1>1. ASSUME NEW c \in Conn, NEW o \in Observers, HandleMsg(c, o)
      PROVE  HistTyped'
  BY <1>1 DEF HandleMsg, LocksTyped, HistTyped, ObjTyped, histVars
<1>2. ASSUME NEW c \in Conn, PublishMsgReturn(c)
      PROVE  HistTyped'
  BY <1>2 DEF PublishMsgReturn, HistTyped, ObjTyped, histVars
<1>3. ASSUME NEW c \in Conn, NEW o \in Observers, HandleDisc(c, o)
      PROVE  HistTyped'
  BY <1>3 DEF HandleDisc, LocksTyped, HistTyped, ObjTyped, histVars
<1>3a. ASSUME NEW c \in Conn, Receive(c)
      PROVE  HistTyped'
  <2>1. Taken(c) \in Nat
    BY BoundsAssumption DEF Taken, NetTyped
  <2>2. QED
    BY <1>3a, <2>1 DEF Receive, HistTyped
<1>4. CASE UNCHANGED histVars
  BY <1>4 DEF HistTyped, ObjTyped, histVars
<1>5. QED
  BY <1>1, <1>2, <1>3, <1>3a, <1>4, HistFrame

(* Every step keeps the type of the mutexes and of the observers.          *)
LEMMA LocksTypedStep ==
  ASSUME LocksTyped, [Next]_vars
  PROVE  LocksTyped'
<1>1. CASE Subscribe
  BY <1>1, ThreadsAssumption DEF Subscribe, LocksTyped, Threads, Goto
<1>2. CASE PushClient
  BY <1>2, ThreadsAssumption DEF PushClient, LocksTyped, Threads, Goto
<1>3. CASE CountClient
  BY <1>3, ThreadsAssumption DEF CountClient, LocksTyped, Threads, Goto
<1>4. CASE SendToAllLock
  BY <1>4, ThreadsAssumption DEF SendToAllLock, LocksTyped, Threads, Goto
<1>5. ASSUME NEW n \in -1..MsgSize, SendToNext(n)
      PROVE  LocksTyped'
  BY <1>5, ThreadsAssumption DEF SendToNext, LocksTyped, Threads, Goto
<1>6. CASE SendToAllReturn
  BY <1>6, ThreadsAssumption DEF SendToAllReturn, LocksTyped, Threads, Goto
<1>7. CASE CloseLock
  BY <1>7, ThreadsAssumption DEF CloseLock, LocksTyped, Threads, Goto
<1>8. CASE ClearClients
  BY <1>8, ThreadsAssumption DEF ClearClients, LocksTyped, Threads, Goto
<1>9. ASSUME NEW r \in Removers, RemoverLock(r)
      PROVE  LocksTyped'
  BY <1>9, ThreadsAssumption DEF RemoverLock, LocksTyped, Threads, Goto
<1>10. ASSUME NEW r \in Removers, RemoverUnlock(r)
      PROVE  LocksTyped'
  BY <1>10, ThreadsAssumption DEF RemoverUnlock, LocksTyped, Threads, Goto
<1>11. ASSUME NEW c \in Conn, PublishMsg(c)
      PROVE  LocksTyped'
  BY <1>11, ThreadsAssumption DEF PublishMsg, LocksTyped, Threads, Goto
<1>12. ASSUME NEW c \in Conn, NEW o \in Observers, HandleMsg(c, o)
      PROVE  LocksTyped'
  BY <1>12, ThreadsAssumption DEF HandleMsg, LocksTyped, Threads, Goto
<1>13. ASSUME NEW c \in Conn, PublishMsgReturn(c)
      PROVE  LocksTyped'
  BY <1>13, ThreadsAssumption DEF PublishMsgReturn, LocksTyped, Threads, Goto
<1>14. ASSUME NEW c \in Conn, PublishDisc(c)
      PROVE  LocksTyped'
  BY <1>14, ThreadsAssumption DEF PublishDisc, LocksTyped, Threads, Goto
<1>15. ASSUME NEW c \in Conn, NEW o \in Observers, HandleDisc(c, o)
      PROVE  LocksTyped'
  BY <1>15, ThreadsAssumption DEF HandleDisc, LocksTyped, Threads, Goto
<1>16. ASSUME NEW c \in Conn, PublishDiscReturn(c)
      PROVE  LocksTyped'
  BY <1>16, ThreadsAssumption DEF PublishDiscReturn, LocksTyped, Threads, Goto
<1>16a. ASSUME NEW r \in Removers, EraseClient(r)
      PROVE  LocksTyped'
  BY <1>16a, ThreadsAssumption DEF EraseClient, LocksTyped, Threads, Goto
<1>17. CASE UNCHANGED <<clientsMtx, subscribersMtx, calls, subscribers>>
  BY <1>17 DEF LocksTyped, Threads, Goto
<1>18. QED
  BY <1>1, <1>2, <1>3, <1>4, <1>5, <1>6, <1>7, <1>8, <1>9, <1>10, <1>11, <1>12, <1>13,
      <1>14, <1>15, <1>16, <1>16a, <1>17, LocksFrame

(* The actions that move a thread.                                         *)
LEMMA PcFrame ==
  ASSUME [Next]_vars
  PROVE  \/ UNCHANGED pc
         \/ \E auto \in AutoRemove, fd \in StartResults : Start(auto, fd)
         \/ SubscribeCall \/ Subscribe \/ PushClient \/ CountClient \/ SendToAllCall \/
            SendToAllLock \/ SendToAllReturn \/ SendToClientCall \/ TerminateRemover \/
            JoinRemover \/ CloseLock \/ ClearClients \/ CloseListener
         \/ \E timeout \in Timeouts : Accept(timeout)
         \/ \E n \in -1..MsgSize : SendToNext(n)
         \/ \E ip \in Ip : SendToClient(ip)
         \/ \E r \in Removers : RemoverCheck(r) \/ RemoverLock(r) \/ RemoverScan(r) \/
            RemoverUnlock(r) \/ DeleteClient(r) \/ EraseClient(r) \/ RemoverWake(r)
         \/ \E c \in Conn : Receive(c) \/ PublishMsg(c) \/ PublishMsgReturn(c) \/
            PublishDisc(c) \/ PublishDiscReturn(c) \/ DecRead(c) \/ DecWrite(c)
  BY SMTT(30) DEF vars, ownerVars, listVars, objVars, countVars, remVars, netVars,
      histVars, Next, OwnerCalls, OwnerLocks, OwnerSteps, RemoverSteps, ReceiverLocks,
      ReceiverSteps, PeerSteps, AcceptFails, CloseClient, HandleMsg, HandleDisc,
      PeerConnect, PeerSend, PeerClose, PeerReset

(* The same actions are those that take or release a mutex.                *)
LEMMA LocksPcFrame ==
  ASSUME [Next]_vars
  PROVE  \/ UNCHANGED <<pc, clientsMtx, subscribersMtx>>
         \/ \E auto \in AutoRemove, fd \in StartResults : Start(auto, fd)
         \/ SubscribeCall \/ Subscribe \/ PushClient \/ CountClient \/ SendToAllCall \/
            SendToAllLock \/ SendToAllReturn \/ SendToClientCall \/ TerminateRemover \/
            JoinRemover \/ CloseLock \/ ClearClients \/ CloseListener
         \/ \E timeout \in Timeouts : Accept(timeout)
         \/ \E n \in -1..MsgSize : SendToNext(n)
         \/ \E ip \in Ip : SendToClient(ip)
         \/ \E r \in Removers : RemoverCheck(r) \/ RemoverLock(r) \/ RemoverScan(r) \/
            RemoverUnlock(r) \/ DeleteClient(r) \/ EraseClient(r) \/ RemoverWake(r)
         \/ \E c \in Conn : Receive(c) \/ PublishMsg(c) \/ PublishMsgReturn(c) \/
            PublishDisc(c) \/ PublishDiscReturn(c) \/ DecRead(c) \/ DecWrite(c)
  BY SMTT(30) DEF vars, ownerVars, listVars, objVars, countVars, remVars, netVars,
      histVars, Next, OwnerCalls, OwnerLocks, OwnerSteps, RemoverSteps, ReceiverLocks,
      ReceiverSteps, PeerSteps, AcceptFails, CloseClient, HandleMsg, HandleDisc,
      PeerConnect, PeerSend, PeerClose, PeerReset


(* The steps that read through the iterator or move newClient.             *)
LEMMA LocalFrame ==
  ASSUME [Next]_vars
  PROVE  \/ UNCHANGED <<pc, listVars, newClient, remover>>
         \/ \E auto \in AutoRemove, fd \in StartResults : Start(auto, fd)
         \/ SubscribeCall \/ Subscribe \/ PushClient \/ CountClient \/ SendToAllCall \/
            SendToAllLock \/ SendToAllReturn \/ SendToClientCall \/ TerminateRemover \/
            JoinRemover \/ CloseLock \/ CloseClient \/ ClearClients \/ CloseListener
         \/ \E timeout \in Timeouts : Accept(timeout)
         \/ \E n \in -1..MsgSize : SendToNext(n)
         \/ \E ip \in Ip : SendToClient(ip)
         \/ \E r \in Removers : RemoverCheck(r) \/ RemoverLock(r) \/ RemoverScan(r) \/
            RemoverUnlock(r) \/ DeleteClient(r) \/ EraseClient(r) \/ RemoverWake(r)
         \/ \E c \in Conn : Receive(c) \/ PublishMsg(c) \/ PublishMsgReturn(c) \/
            PublishDisc(c) \/ PublishDiscReturn(c) \/ DecRead(c) \/ DecWrite(c)
  BY SMTT(30) DEF vars, ownerVars, listVars, objVars, countVars, remVars, netVars,
      histVars, Next, OwnerCalls, OwnerLocks, OwnerSteps, RemoverSteps, ReceiverLocks,
      ReceiverSteps, PeerSteps, AcceptFails, HandleMsg, HandleDisc, PeerConnect,
      PeerSend, PeerClose, PeerReset

(* Every thread stays among its own labels.                                *)
LEMMA PcTypedStep ==
  ASSUME PcTyped, NetTyped, [Next]_vars
  PROVE  PcTyped'
<1>1. ASSUME NEW auto \in AutoRemove, NEW fd \in StartResults, Start(auto, fd)
      PROVE  PcTyped'
  BY <1>1, ThreadsAssumption DEF Start, StartRemover, PcTyped, Threads, Goto,
      ReceiverLabels, RemoverLabels, OwnerLabels
<1>2. CASE SubscribeCall
  BY <1>2, ThreadsAssumption DEF SubscribeCall, PcTyped, Threads, Goto, ReceiverLabels,
      RemoverLabels, OwnerLabels
<1>3. CASE Subscribe
  BY <1>3, ThreadsAssumption DEF Subscribe, PcTyped, Threads, Goto, ReceiverLabels,
      RemoverLabels, OwnerLabels
<1>4. ASSUME NEW timeout \in Timeouts, Accept(timeout)
      PROVE  PcTyped'
  <2>1. Head(queue) \in Conn
    BY <1>4 DEF Accept, NetTyped
  <2>2. QED
    BY <1>4, <2>1, ThreadsAssumption
    DEF Accept, PcTyped, Threads, ReceiverLabels, RemoverLabels, OwnerLabels
<1>5. CASE PushClient
  BY <1>5, ThreadsAssumption DEF PushClient, PcTyped, Threads, Goto, ReceiverLabels,
      RemoverLabels, OwnerLabels
<1>6. CASE CountClient
  BY <1>6, ThreadsAssumption DEF CountClient, PcTyped, Threads, Goto, ReceiverLabels,
      RemoverLabels, OwnerLabels
<1>7. CASE SendToAllCall
  BY <1>7, ThreadsAssumption DEF SendToAllCall, PcTyped, Threads, Goto, ReceiverLabels,
      RemoverLabels, OwnerLabels
<1>8. CASE SendToAllLock
  BY <1>8, ThreadsAssumption DEF SendToAllLock, PcTyped, Threads, Goto, ReceiverLabels,
      RemoverLabels, OwnerLabels
<1>9. ASSUME NEW n \in -1..MsgSize, SendToNext(n)
      PROVE  PcTyped'
  BY <1>9, ThreadsAssumption DEF SendToNext, PcTyped, Threads, Goto, ReceiverLabels,
      RemoverLabels, OwnerLabels
<1>10. CASE SendToAllReturn
  BY <1>10, ThreadsAssumption DEF SendToAllReturn, PcTyped, Threads, Goto,
      ReceiverLabels, RemoverLabels, OwnerLabels
<1>11. CASE SendToClientCall
  BY <1>11, ThreadsAssumption DEF SendToClientCall, PcTyped, Threads, Goto,
      ReceiverLabels, RemoverLabels, OwnerLabels
<1>12. ASSUME NEW ip \in Ip, SendToClient(ip)
      PROVE  PcTyped'
  BY <1>12, ThreadsAssumption DEF SendToClient, PcTyped, Threads, Goto, ReceiverLabels,
      RemoverLabels, OwnerLabels
<1>13. CASE TerminateRemover
  BY <1>13, ThreadsAssumption DEF TerminateRemover, PcTyped, Threads, Goto,
      ReceiverLabels, RemoverLabels, OwnerLabels
<1>14. CASE JoinRemover
  BY <1>14, ThreadsAssumption DEF JoinRemover, PcTyped, Threads, Goto, ReceiverLabels,
      RemoverLabels, OwnerLabels
<1>15. CASE CloseLock
  BY <1>15, ThreadsAssumption DEF CloseLock, PcTyped, Threads, Goto, ReceiverLabels,
      RemoverLabels, OwnerLabels
<1>16. CASE ClearClients
  BY <1>16, ThreadsAssumption DEF ClearClients, PcTyped, Threads, Goto, ReceiverLabels,
      RemoverLabels, OwnerLabels
<1>17. CASE CloseListener
  BY <1>17, ThreadsAssumption DEF CloseListener, PcTyped, Threads, Goto, ReceiverLabels,
      RemoverLabels, OwnerLabels
<1>18. ASSUME NEW r \in Removers, RemoverCheck(r)
      PROVE  PcTyped'
  BY <1>18, ThreadsAssumption DEF RemoverCheck, PcTyped, Threads, Goto, ReceiverLabels,
      RemoverLabels, OwnerLabels
<1>19. ASSUME NEW r \in Removers, RemoverLock(r)
      PROVE  PcTyped'
  BY <1>19, ThreadsAssumption DEF RemoverLock, PcTyped, Threads, Goto, ReceiverLabels,
      RemoverLabels, OwnerLabels
<1>20. ASSUME NEW r \in Removers, RemoverScan(r)
      PROVE  PcTyped'
  BY <1>20, ThreadsAssumption DEF RemoverScan, PcTyped, Threads, Goto, ReceiverLabels,
      RemoverLabels, OwnerLabels
<1>21. ASSUME NEW r \in Removers, RemoverUnlock(r)
      PROVE  PcTyped'
  BY <1>21, ThreadsAssumption DEF RemoverUnlock, PcTyped, Threads, Goto, ReceiverLabels,
      RemoverLabels, OwnerLabels
<1>22. ASSUME NEW r \in Removers, DeleteClient(r)
      PROVE  PcTyped'
  BY <1>22, ThreadsAssumption DEF DeleteClient, PcTyped, Threads, Goto, ReceiverLabels,
      RemoverLabels, OwnerLabels
<1>23. ASSUME NEW r \in Removers, EraseClient(r)
      PROVE  PcTyped'
  BY <1>23, ThreadsAssumption DEF EraseClient, PcTyped, Threads, Goto, ReceiverLabels,
      RemoverLabels, OwnerLabels
<1>24. ASSUME NEW r \in Removers, RemoverWake(r)
      PROVE  PcTyped'
  BY <1>24, ThreadsAssumption DEF RemoverWake, PcTyped, Threads, Goto, ReceiverLabels,
      RemoverLabels, OwnerLabels
<1>25. ASSUME NEW c \in Conn, Receive(c)
      PROVE  PcTyped'
  BY <1>25, ThreadsAssumption DEF Receive, PcTyped, Threads, Goto, ReceiverLabels,
      RemoverLabels, OwnerLabels
<1>26. ASSUME NEW c \in Conn, PublishMsg(c)
      PROVE  PcTyped'
  BY <1>26, ThreadsAssumption DEF PublishMsg, PcTyped, Threads, Goto, ReceiverLabels,
      RemoverLabels, OwnerLabels
<1>27. ASSUME NEW c \in Conn, PublishMsgReturn(c)
      PROVE  PcTyped'
  BY <1>27, ThreadsAssumption DEF PublishMsgReturn, PcTyped, Threads, Goto,
      ReceiverLabels, RemoverLabels, OwnerLabels
<1>28. ASSUME NEW c \in Conn, PublishDisc(c)
      PROVE  PcTyped'
  BY <1>28, ThreadsAssumption DEF PublishDisc, PcTyped, Threads, Goto, ReceiverLabels,
      RemoverLabels, OwnerLabels
<1>29. ASSUME NEW c \in Conn, PublishDiscReturn(c)
      PROVE  PcTyped'
  BY <1>29, ThreadsAssumption DEF PublishDiscReturn, PcTyped, Threads, Goto,
      ReceiverLabels, RemoverLabels, OwnerLabels
<1>30. ASSUME NEW c \in Conn, DecRead(c)
      PROVE  PcTyped'
  BY <1>30, ThreadsAssumption DEF DecRead, PcTyped, Threads, Goto, ReceiverLabels,
      RemoverLabels, OwnerLabels
<1>31. ASSUME NEW c \in Conn, DecWrite(c)
      PROVE  PcTyped'
  BY <1>31, ThreadsAssumption DEF DecWrite, PcTyped, Threads, Goto, ReceiverLabels,
      RemoverLabels, OwnerLabels
<1>32. CASE UNCHANGED pc
  BY <1>32 DEF PcTyped, Threads, Goto, ReceiverLabels, RemoverLabels, OwnerLabels
<1>33. QED
  BY <1>1, <1>2, <1>3, <1>4, <1>5, <1>6, <1>7, <1>8, <1>9, <1>10, <1>11, <1>12, <1>13,
      <1>14, <1>15, <1>16, <1>17, <1>18, <1>19, <1>20, <1>21, <1>22, <1>23, <1>24,
      <1>25, <1>26, <1>27, <1>28, <1>29, <1>30, <1>31, <1>32, PcFrame


(* The steps that touch the queue of connections, or a peer that has not   *)
(* connected yet.                                                          *)
LEMMA FreshFrame ==
  ASSUME [Next]_vars
  PROVE  \/ UNCHANGED <<pc, queue, peer>>
         \/ \E auto \in AutoRemove, fd \in StartResults : Start(auto, fd)
         \/ SubscribeCall \/ Subscribe \/ PushClient \/ CountClient \/ SendToAllCall \/
            SendToAllLock \/ SendToAllReturn \/ SendToClientCall \/ TerminateRemover \/
            JoinRemover \/ CloseLock \/ ClearClients \/ CloseListener
         \/ \E timeout \in Timeouts : Accept(timeout) \/ AcceptFails(timeout)
         \/ \E n \in -1..MsgSize : SendToNext(n)
         \/ \E ip \in Ip : SendToClient(ip)
         \/ \E r \in Removers : RemoverCheck(r) \/ RemoverLock(r) \/ RemoverScan(r) \/
            RemoverUnlock(r) \/ DeleteClient(r) \/ EraseClient(r) \/ RemoverWake(r)
         \/ \E c \in Conn : Receive(c) \/ PublishMsg(c) \/ PublishMsgReturn(c) \/
            PublishDisc(c) \/ PublishDiscReturn(c) \/ DecRead(c) \/ DecWrite(c) \/
            PeerConnect(c) \/ PeerSend(c) \/ PeerClose(c) \/ PeerReset(c)
  BY SMTT(30) DEF vars, ownerVars, listVars, objVars, countVars, remVars, netVars,
      histVars, Next, OwnerCalls, OwnerLocks, OwnerSteps, RemoverSteps, ReceiverLocks,
      ReceiverSteps, PeerSteps, CloseClient, HandleMsg, HandleDisc

(* Every step keeps FreshInv.                                              *)
LEMMA FreshInvStep ==
  ASSUME PcTyped, NetTyped, FreshInv, [Next]_vars
  PROVE  FreshInv'
<1> USE ThreadsAssumption
<1>1. ASSUME NEW auto \in AutoRemove, NEW fd \in StartResults, Start(auto, fd)
      PROVE  FreshInv'
  BY <1>1 DEF Start, StartRemover, FreshInv, PcTyped, NetTyped, Threads, Goto, netVars
<1>2. CASE SubscribeCall
  BY <1>2 DEF SubscribeCall, FreshInv, PcTyped, NetTyped, Threads, Goto, netVars
<1>3. CASE Subscribe
  BY <1>3 DEF Subscribe, FreshInv, PcTyped, NetTyped, Threads, Goto, netVars
<1>4. ASSUME NEW timeout \in Timeouts, Accept(timeout)
      PROVE  FreshInv'
  <2> DEFINE q == queue[1]
  <2>1. queue \in Seq(Conn) /\ Len(queue) \in Nat /\ Len(queue) > 0 /\ q \in Conn
    BY <1>4 DEF Accept, NetTyped
  <2>2. /\ DOMAIN queue' = 1..(Len(queue) - 1)
        /\ \A i \in DOMAIN queue' : i + 1 \in DOMAIN queue /\ queue'[i] = queue[i + 1]
    BY <1>4, <2>1 DEF Accept
  <2>3. \A i \in DOMAIN queue' : queue'[i] # q /\ queue'[i] \in Conn
    BY <2>1, <2>2 DEF FreshInv
  <2>4. \A c \in Conn : c # q => pc'[c] = pc[c]
    BY <1>4, <2>1 DEF Accept, PcTyped, Threads
  <2>5. peer' = peer /\ peer[q] # "idle"
    BY <1>4, <2>1 DEF Accept, FreshInv
  <2>6. \A i, j \in DOMAIN queue' : queue'[i] = queue'[j] => i = j
    BY <2>1, <2>2 DEF FreshInv
  <2>7. QED
    BY <2>1, <2>2, <2>3, <2>4, <2>5, <2>6 DEF FreshInv
<1>4a. ASSUME NEW timeout \in Timeouts, AcceptFails(timeout)
      PROVE  FreshInv'
  <2>1. UNCHANGED <<pc, peer>>
    BY <1>4a DEF AcceptFails
  <2>2. CASE UNCHANGED queue
    BY <2>1, <2>2 DEF FreshInv
  <2>3. CASE queue # <<>> /\ queue' = Tail(queue)
    <3>1. /\ DOMAIN queue' = 1..(Len(queue) - 1)
          /\ \A i \in DOMAIN queue' : i + 1 \in DOMAIN queue /\ queue'[i] = queue[i + 1]
      BY <2>3 DEF NetTyped
    <3>2. QED
      BY <2>1, <3>1 DEF FreshInv
  <2>4. QED
    BY <1>4a, <2>2, <2>3 DEF AcceptFails
<1>5. CASE PushClient
  BY <1>5 DEF PushClient, FreshInv, PcTyped, NetTyped, Threads, Goto, netVars
<1>6. CASE CountClient
  BY <1>6 DEF CountClient, FreshInv, PcTyped, NetTyped, Threads, Goto, netVars
<1>7. CASE SendToAllCall
  BY <1>7 DEF SendToAllCall, FreshInv, PcTyped, NetTyped, Threads, Goto, netVars
<1>8. CASE SendToAllLock
  BY <1>8 DEF SendToAllLock, FreshInv, PcTyped, NetTyped, Threads, Goto, netVars
<1>9. ASSUME NEW n \in -1..MsgSize, SendToNext(n)
      PROVE  FreshInv'
  BY <1>9 DEF SendToNext, FreshInv, PcTyped, NetTyped, Threads, Goto, netVars
<1>10. CASE SendToAllReturn
  BY <1>10 DEF SendToAllReturn, FreshInv, PcTyped, NetTyped, Threads, Goto, netVars
<1>11. CASE SendToClientCall
  BY <1>11 DEF SendToClientCall, FreshInv, PcTyped, NetTyped, Threads, Goto, netVars
<1>12. ASSUME NEW ip \in Ip, SendToClient(ip)
      PROVE  FreshInv'
  BY <1>12 DEF SendToClient, FreshInv, PcTyped, NetTyped, Threads, Goto, netVars
<1>13. CASE TerminateRemover
  BY <1>13 DEF TerminateRemover, FreshInv, PcTyped, NetTyped, Threads, Goto, netVars
<1>14. CASE JoinRemover
  BY <1>14 DEF JoinRemover, FreshInv, PcTyped, NetTyped, Threads, Goto, netVars
<1>15. CASE CloseLock
  BY <1>15 DEF CloseLock, FreshInv, PcTyped, NetTyped, Threads, Goto, netVars
<1>16. CASE ClearClients
  BY <1>16 DEF ClearClients, FreshInv, PcTyped, NetTyped, Threads, Goto, netVars
<1>17. CASE CloseListener
  BY <1>17 DEF CloseListener, FreshInv, PcTyped, NetTyped, Threads, Goto, netVars
<1>18. ASSUME NEW r \in Removers, RemoverCheck(r)
      PROVE  FreshInv'
  BY <1>18 DEF RemoverCheck, FreshInv, PcTyped, NetTyped, Threads, Goto, netVars
<1>19. ASSUME NEW r \in Removers, RemoverLock(r)
      PROVE  FreshInv'
  BY <1>19 DEF RemoverLock, FreshInv, PcTyped, NetTyped, Threads, Goto, netVars
<1>20. ASSUME NEW r \in Removers, RemoverScan(r)
      PROVE  FreshInv'
  BY <1>20 DEF RemoverScan, FreshInv, PcTyped, NetTyped, Threads, Goto, netVars
<1>21. ASSUME NEW r \in Removers, RemoverUnlock(r)
      PROVE  FreshInv'
  BY <1>21 DEF RemoverUnlock, FreshInv, PcTyped, NetTyped, Threads, Goto, netVars
<1>22. ASSUME NEW r \in Removers, DeleteClient(r)
      PROVE  FreshInv'
  BY <1>22 DEF DeleteClient, FreshInv, PcTyped, NetTyped, Threads, Goto, netVars
<1>23. ASSUME NEW r \in Removers, EraseClient(r)
      PROVE  FreshInv'
  BY <1>23 DEF EraseClient, FreshInv, PcTyped, NetTyped, Threads, Goto, netVars
<1>24. ASSUME NEW r \in Removers, RemoverWake(r)
      PROVE  FreshInv'
  BY <1>24 DEF RemoverWake, FreshInv, PcTyped, NetTyped, Threads, Goto, netVars
<1>25. ASSUME NEW c \in Conn, Receive(c)
      PROVE  FreshInv'
  BY <1>25 DEF Receive, FreshInv, PcTyped, NetTyped, Threads, Goto, netVars
<1>26. ASSUME NEW c \in Conn, PublishMsg(c)
      PROVE  FreshInv'
  BY <1>26 DEF PublishMsg, FreshInv, PcTyped, NetTyped, Threads, Goto, netVars
<1>27. ASSUME NEW c \in Conn, PublishMsgReturn(c)
      PROVE  FreshInv'
  BY <1>27 DEF PublishMsgReturn, FreshInv, PcTyped, NetTyped, Threads, Goto, netVars
<1>28. ASSUME NEW c \in Conn, PublishDisc(c)
      PROVE  FreshInv'
  BY <1>28 DEF PublishDisc, FreshInv, PcTyped, NetTyped, Threads, Goto, netVars
<1>29. ASSUME NEW c \in Conn, PublishDiscReturn(c)
      PROVE  FreshInv'
  BY <1>29 DEF PublishDiscReturn, FreshInv, PcTyped, NetTyped, Threads, Goto, netVars
<1>30. ASSUME NEW c \in Conn, DecRead(c)
      PROVE  FreshInv'
  BY <1>30 DEF DecRead, FreshInv, PcTyped, NetTyped, Threads, Goto, netVars
<1>31. ASSUME NEW c \in Conn, DecWrite(c)
      PROVE  FreshInv'
  BY <1>31 DEF DecWrite, FreshInv, PcTyped, NetTyped, Threads, Goto, netVars
<1>32. ASSUME NEW c \in Conn, PeerConnect(c)
      PROVE  FreshInv'
  BY <1>32 DEF PeerConnect, FreshInv, PcTyped, NetTyped, Threads, Goto, netVars
<1>33. ASSUME NEW c \in Conn, PeerSend(c)
      PROVE  FreshInv'
  BY <1>33 DEF PeerSend, FreshInv, PcTyped, NetTyped, Threads, Goto, netVars
<1>34. ASSUME NEW c \in Conn, PeerClose(c)
      PROVE  FreshInv'
  BY <1>34 DEF PeerClose, FreshInv, PcTyped, NetTyped, Threads, Goto, netVars
<1>35. ASSUME NEW c \in Conn, PeerReset(c)
      PROVE  FreshInv'
  BY <1>35 DEF PeerReset, FreshInv, PcTyped, NetTyped, Threads, Goto, netVars
<1>36. CASE UNCHANGED <<pc, queue, peer>>
  BY <1>36 DEF FreshInv, PcTyped, NetTyped, Threads, Goto, netVars
<1>37. QED
  BY <1>1, <1>2, <1>3, <1>4, <1>4a, <1>5, <1>6, <1>7, <1>8, <1>9, <1>10, <1>11, <1>12, <1>13,
      <1>14, <1>15, <1>16, <1>17, <1>18, <1>19, <1>20, <1>21, <1>22, <1>23, <1>24,
      <1>25, <1>26, <1>27, <1>28, <1>29, <1>30, <1>31, <1>32, <1>33, <1>34, <1>35,
      <1>36, FreshFrame

(* Every step keeps LocksInv: a mutex is taken only when it is free, and   *)
(* only its holder releases it.                                            *)
LEMMA LocksInvStep ==
  ASSUME PcTyped, LocksTyped, NetTyped, FreshInv, LocksInv, [Next]_vars
  PROVE  LocksInv'
<1> USE ThreadsAssumption
<1>1. ASSUME NEW auto \in AutoRemove, NEW fd \in StartResults, Start(auto, fd)
      PROVE  LocksInv'
  BY <1>1 DEF Start, StartRemover, LocksInv, HoldsClients, HoldsSubscribers, PcTyped,
      LocksTyped, Threads, Goto
<1>2. CASE SubscribeCall
  BY <1>2 DEF SubscribeCall, LocksInv, HoldsClients, HoldsSubscribers, PcTyped,
      LocksTyped, Threads, Goto
<1>3. CASE Subscribe
  BY <1>3 DEF Subscribe, LocksInv, HoldsClients, HoldsSubscribers, PcTyped, LocksTyped,
      Threads, Goto
<1>4. ASSUME NEW timeout \in Timeouts, Accept(timeout)
      PROVE  LocksInv'
  <2>1. Head(queue) \in Conn /\ pc[Head(queue)] = "none"
    BY <1>4 DEF Accept, NetTyped, FreshInv
  <2>2. QED
    BY <1>4, <2>1 DEF Accept, LocksInv, HoldsClients, HoldsSubscribers, PcTyped, Threads
<1>5. CASE PushClient
  BY <1>5 DEF PushClient, LocksInv, HoldsClients, HoldsSubscribers, PcTyped, LocksTyped,
      Threads, Goto
<1>6. CASE CountClient
  BY <1>6 DEF CountClient, LocksInv, HoldsClients, HoldsSubscribers, PcTyped,
      LocksTyped, Threads, Goto
<1>7. CASE SendToAllCall
  BY <1>7 DEF SendToAllCall, LocksInv, HoldsClients, HoldsSubscribers, PcTyped,
      LocksTyped, Threads, Goto
<1>8. CASE SendToAllLock
  BY <1>8 DEF SendToAllLock, LocksInv, HoldsClients, HoldsSubscribers, PcTyped,
      LocksTyped, Threads, Goto
<1>9. ASSUME NEW n \in -1..MsgSize, SendToNext(n)
      PROVE  LocksInv'
  BY <1>9 DEF SendToNext, LocksInv, HoldsClients, HoldsSubscribers, PcTyped, LocksTyped,
      Threads, Goto
<1>10. CASE SendToAllReturn
  BY <1>10 DEF SendToAllReturn, LocksInv, HoldsClients, HoldsSubscribers, PcTyped,
      LocksTyped, Threads, Goto
<1>11. CASE SendToClientCall
  BY <1>11 DEF SendToClientCall, LocksInv, HoldsClients, HoldsSubscribers, PcTyped,
      LocksTyped, Threads, Goto
<1>12. ASSUME NEW ip \in Ip, SendToClient(ip)
      PROVE  LocksInv'
  BY <1>12 DEF SendToClient, LocksInv, HoldsClients, HoldsSubscribers, PcTyped,
      LocksTyped, Threads, Goto
<1>13. CASE TerminateRemover
  BY <1>13 DEF TerminateRemover, LocksInv, HoldsClients, HoldsSubscribers, PcTyped,
      LocksTyped, Threads, Goto
<1>14. CASE JoinRemover
  BY <1>14 DEF JoinRemover, LocksInv, HoldsClients, HoldsSubscribers, PcTyped,
      LocksTyped, Threads, Goto
<1>15. CASE CloseLock
  BY <1>15 DEF CloseLock, LocksInv, HoldsClients, HoldsSubscribers, PcTyped, LocksTyped,
      Threads, Goto
<1>16. CASE ClearClients
  BY <1>16 DEF ClearClients, LocksInv, HoldsClients, HoldsSubscribers, PcTyped,
      LocksTyped, Threads, Goto
<1>17. CASE CloseListener
  BY <1>17 DEF CloseListener, LocksInv, HoldsClients, HoldsSubscribers, PcTyped,
      LocksTyped, Threads, Goto
<1>18. ASSUME NEW r \in Removers, RemoverCheck(r)
      PROVE  LocksInv'
  BY <1>18 DEF RemoverCheck, LocksInv, HoldsClients, HoldsSubscribers, PcTyped,
      LocksTyped, Threads, Goto
<1>19. ASSUME NEW r \in Removers, RemoverLock(r)
      PROVE  LocksInv'
  BY <1>19 DEF RemoverLock, LocksInv, HoldsClients, HoldsSubscribers, PcTyped,
      LocksTyped, Threads, Goto
<1>20. ASSUME NEW r \in Removers, RemoverScan(r)
      PROVE  LocksInv'
  BY <1>20 DEF RemoverScan, LocksInv, HoldsClients, HoldsSubscribers, PcTyped,
      LocksTyped, Threads, Goto
<1>21. ASSUME NEW r \in Removers, RemoverUnlock(r)
      PROVE  LocksInv'
  BY <1>21 DEF RemoverUnlock, LocksInv, HoldsClients, HoldsSubscribers, PcTyped,
      LocksTyped, Threads, Goto
<1>22. ASSUME NEW r \in Removers, DeleteClient(r)
      PROVE  LocksInv'
  BY <1>22 DEF DeleteClient, LocksInv, HoldsClients, HoldsSubscribers, PcTyped,
      LocksTyped, Threads, Goto
<1>23. ASSUME NEW r \in Removers, EraseClient(r)
      PROVE  LocksInv'
  BY <1>23 DEF EraseClient, LocksInv, HoldsClients, HoldsSubscribers, PcTyped,
      LocksTyped, Threads, Goto
<1>24. ASSUME NEW r \in Removers, RemoverWake(r)
      PROVE  LocksInv'
  BY <1>24 DEF RemoverWake, LocksInv, HoldsClients, HoldsSubscribers, PcTyped,
      LocksTyped, Threads, Goto
<1>25. ASSUME NEW c \in Conn, Receive(c)
      PROVE  LocksInv'
  BY <1>25 DEF Receive, LocksInv, HoldsClients, HoldsSubscribers, PcTyped, LocksTyped,
      Threads, Goto
<1>26. ASSUME NEW c \in Conn, PublishMsg(c)
      PROVE  LocksInv'
  BY <1>26 DEF PublishMsg, LocksInv, HoldsClients, HoldsSubscribers, PcTyped,
      LocksTyped, Threads, Goto
<1>27. ASSUME NEW c \in Conn, PublishMsgReturn(c)
      PROVE  LocksInv'
  BY <1>27 DEF PublishMsgReturn, LocksInv, HoldsClients, HoldsSubscribers, PcTyped,
      LocksTyped, Threads, Goto
<1>28. ASSUME NEW c \in Conn, PublishDisc(c)
      PROVE  LocksInv'
  BY <1>28 DEF PublishDisc, LocksInv, HoldsClients, HoldsSubscribers, PcTyped,
      LocksTyped, Threads, Goto
<1>29. ASSUME NEW c \in Conn, PublishDiscReturn(c)
      PROVE  LocksInv'
  BY <1>29 DEF PublishDiscReturn, LocksInv, HoldsClients, HoldsSubscribers, PcTyped,
      LocksTyped, Threads, Goto
<1>30. ASSUME NEW c \in Conn, DecRead(c)
      PROVE  LocksInv'
  BY <1>30 DEF DecRead, LocksInv, HoldsClients, HoldsSubscribers, PcTyped, LocksTyped,
      Threads, Goto
<1>31. ASSUME NEW c \in Conn, DecWrite(c)
      PROVE  LocksInv'
  BY <1>31 DEF DecWrite, LocksInv, HoldsClients, HoldsSubscribers, PcTyped, LocksTyped,
      Threads, Goto
<1>32. CASE UNCHANGED <<pc, clientsMtx, subscribersMtx>>
  BY <1>32 DEF LocksInv, HoldsClients, HoldsSubscribers, PcTyped, LocksTyped, Threads,
      Goto
<1>33. QED
  BY <1>1, <1>2, <1>3, <1>4, <1>5, <1>6, <1>7, <1>8, <1>9, <1>10, <1>11, <1>12, <1>13,
      <1>14, <1>15, <1>16, <1>17, <1>18, <1>19, <1>20, <1>21, <1>22, <1>23, <1>24,
      <1>25, <1>26, <1>27, <1>28, <1>29, <1>30, <1>31, <1>32, LocksPcFrame

(* Every step keeps LocalInv.                                              *)
LEMMA LocalInvStep ==
  ASSUME PcTyped, ListTyped, OwnerTyped, RemTyped, NetTyped, LocksInv, LocalInv, [Next]_vars
  PROVE  LocalInv'
<1> USE ThreadsAssumption
<1>1. ASSUME NEW auto \in AutoRemove, NEW fd \in StartResults, Start(auto, fd)
      PROVE  LocalInv'
  BY <1>1 DEF Start, StartRemover, LocalInv, LocksInv, HoldsClients, PcTyped, ListTyped,
      OwnerTyped, RemTyped, Threads, Goto, listVars, ownerVars, remVars
<1>2. CASE SubscribeCall
  BY <1>2 DEF SubscribeCall, LocalInv, LocksInv, HoldsClients, PcTyped, ListTyped,
      OwnerTyped, RemTyped, Threads, Goto, listVars, ownerVars, remVars
<1>3. CASE Subscribe
  BY <1>3 DEF Subscribe, LocalInv, LocksInv, HoldsClients, PcTyped, ListTyped,
      OwnerTyped, RemTyped, Threads, Goto, listVars, ownerVars, remVars
<1>4. ASSUME NEW timeout \in Timeouts, Accept(timeout)
      PROVE  LocalInv'
  BY <1>4 DEF Accept, NetTyped, LocalInv, LocksInv, HoldsClients, PcTyped, ListTyped,
      OwnerTyped, RemTyped, Threads, Goto, listVars, ownerVars, remVars
<1>5. CASE PushClient
  BY <1>5 DEF PushClient, LocalInv, LocksInv, HoldsClients, PcTyped, ListTyped,
      OwnerTyped, RemTyped, Threads, Goto, listVars, ownerVars, remVars
<1>6. CASE CountClient
  BY <1>6 DEF CountClient, LocalInv, LocksInv, HoldsClients, PcTyped, ListTyped,
      OwnerTyped, RemTyped, Threads, Goto, listVars, ownerVars, remVars
<1>7. CASE SendToAllCall
  BY <1>7 DEF SendToAllCall, LocalInv, LocksInv, HoldsClients, PcTyped, ListTyped,
      OwnerTyped, RemTyped, Threads, Goto, listVars, ownerVars, remVars
<1>8. CASE SendToAllLock
  BY <1>8 DEF SendToAllLock, LocalInv, LocksInv, HoldsClients, PcTyped, ListTyped,
      OwnerTyped, RemTyped, Threads, Goto, listVars, ownerVars, remVars
<1>9. ASSUME NEW n \in -1..MsgSize, SendToNext(n)
      PROVE  LocalInv'
  BY <1>9 DEF SendToNext, LocalInv, LocksInv, HoldsClients, PcTyped, ListTyped,
      OwnerTyped, RemTyped, Threads, Goto, listVars, ownerVars, remVars
<1>10. CASE SendToAllReturn
  BY <1>10 DEF SendToAllReturn, LocalInv, LocksInv, HoldsClients, PcTyped, ListTyped,
      OwnerTyped, RemTyped, Threads, Goto, listVars, ownerVars, remVars
<1>11. CASE SendToClientCall
  BY <1>11 DEF SendToClientCall, LocalInv, LocksInv, HoldsClients, PcTyped, ListTyped,
      OwnerTyped, RemTyped, Threads, Goto, listVars, ownerVars, remVars
<1>12. ASSUME NEW ip \in Ip, SendToClient(ip)
      PROVE  LocalInv'
  BY <1>12 DEF SendToClient, LocalInv, LocksInv, HoldsClients, PcTyped, ListTyped,
      OwnerTyped, RemTyped, Threads, Goto, listVars, ownerVars, remVars
<1>13. CASE TerminateRemover
  BY <1>13 DEF TerminateRemover, LocalInv, LocksInv, HoldsClients, PcTyped, ListTyped,
      OwnerTyped, RemTyped, Threads, Goto, listVars, ownerVars, remVars
<1>14. CASE JoinRemover
  BY <1>14 DEF JoinRemover, LocalInv, LocksInv, HoldsClients, PcTyped, ListTyped,
      OwnerTyped, RemTyped, Threads, Goto, listVars, ownerVars, remVars
<1>15. CASE CloseLock
  BY <1>15 DEF CloseLock, LocalInv, LocksInv, HoldsClients, PcTyped, ListTyped,
      OwnerTyped, RemTyped, Threads, Goto, listVars, ownerVars, remVars
<1>16. CASE CloseClient
  BY <1>16 DEF CloseClient, LocalInv, LocksInv, HoldsClients, PcTyped, ListTyped,
      OwnerTyped, RemTyped, Threads, Goto, listVars, ownerVars, remVars
<1>17. CASE ClearClients
  BY <1>17 DEF ClearClients, LocalInv, LocksInv, HoldsClients, PcTyped, ListTyped,
      OwnerTyped, RemTyped, Threads, Goto, listVars, ownerVars, remVars
<1>18. CASE CloseListener
  BY <1>18 DEF CloseListener, LocalInv, LocksInv, HoldsClients, PcTyped, ListTyped,
      OwnerTyped, RemTyped, Threads, Goto, listVars, ownerVars, remVars
<1>19. ASSUME NEW r \in Removers, RemoverCheck(r)
      PROVE  LocalInv'
  BY <1>19 DEF RemoverCheck, LocalInv, LocksInv, HoldsClients, PcTyped, ListTyped,
      OwnerTyped, RemTyped, Threads, Goto, listVars, ownerVars, remVars
<1>20. ASSUME NEW r \in Removers, RemoverLock(r)
      PROVE  LocalInv'
  BY <1>20 DEF RemoverLock, LocalInv, LocksInv, HoldsClients, PcTyped, ListTyped,
      OwnerTyped, RemTyped, Threads, Goto, listVars, ownerVars, remVars
<1>21. ASSUME NEW r \in Removers, RemoverScan(r)
      PROVE  LocalInv'
  BY <1>21 DEF RemoverScan, LocalInv, LocksInv, HoldsClients, PcTyped, ListTyped,
      OwnerTyped, RemTyped, Threads, Goto, listVars, ownerVars, remVars
<1>22. ASSUME NEW r \in Removers, RemoverUnlock(r)
      PROVE  LocalInv'
  BY <1>22 DEF RemoverUnlock, LocalInv, LocksInv, HoldsClients, PcTyped, ListTyped,
      OwnerTyped, RemTyped, Threads, Goto, listVars, ownerVars, remVars
<1>23. ASSUME NEW r \in Removers, DeleteClient(r)
      PROVE  LocalInv'
  BY <1>23 DEF DeleteClient, LocalInv, LocksInv, HoldsClients, PcTyped, ListTyped,
      OwnerTyped, RemTyped, Threads, Goto, listVars, ownerVars, remVars
<1>24. ASSUME NEW r \in Removers, EraseClient(r)
      PROVE  LocalInv'
  BY <1>24 DEF EraseClient, LocalInv, LocksInv, HoldsClients, PcTyped, ListTyped,
      OwnerTyped, RemTyped, Threads, Goto, listVars, ownerVars, remVars
<1>25. ASSUME NEW r \in Removers, RemoverWake(r)
      PROVE  LocalInv'
  BY <1>25 DEF RemoverWake, LocalInv, LocksInv, HoldsClients, PcTyped, ListTyped,
      OwnerTyped, RemTyped, Threads, Goto, listVars, ownerVars, remVars
<1>26. ASSUME NEW c \in Conn, Receive(c)
      PROVE  LocalInv'
  BY <1>26 DEF Receive, LocalInv, LocksInv, HoldsClients, PcTyped, ListTyped,
      OwnerTyped, RemTyped, Threads, Goto, listVars, ownerVars, remVars
<1>27. ASSUME NEW c \in Conn, PublishMsg(c)
      PROVE  LocalInv'
  BY <1>27 DEF PublishMsg, LocalInv, LocksInv, HoldsClients, PcTyped, ListTyped,
      OwnerTyped, RemTyped, Threads, Goto, listVars, ownerVars, remVars
<1>28. ASSUME NEW c \in Conn, PublishMsgReturn(c)
      PROVE  LocalInv'
  BY <1>28 DEF PublishMsgReturn, LocalInv, LocksInv, HoldsClients, PcTyped, ListTyped,
      OwnerTyped, RemTyped, Threads, Goto, listVars, ownerVars, remVars
<1>29. ASSUME NEW c \in Conn, PublishDisc(c)
      PROVE  LocalInv'
  BY <1>29 DEF PublishDisc, LocalInv, LocksInv, HoldsClients, PcTyped, ListTyped,
      OwnerTyped, RemTyped, Threads, Goto, listVars, ownerVars, remVars
<1>30. ASSUME NEW c \in Conn, PublishDiscReturn(c)
      PROVE  LocalInv'
  BY <1>30 DEF PublishDiscReturn, LocalInv, LocksInv, HoldsClients, PcTyped, ListTyped,
      OwnerTyped, RemTyped, Threads, Goto, listVars, ownerVars, remVars
<1>31. ASSUME NEW c \in Conn, DecRead(c)
      PROVE  LocalInv'
  BY <1>31 DEF DecRead, LocalInv, LocksInv, HoldsClients, PcTyped, ListTyped,
      OwnerTyped, RemTyped, Threads, Goto, listVars, ownerVars, remVars
<1>32. ASSUME NEW c \in Conn, DecWrite(c)
      PROVE  LocalInv'
  BY <1>32 DEF DecWrite, LocalInv, LocksInv, HoldsClients, PcTyped, ListTyped,
      OwnerTyped, RemTyped, Threads, Goto, listVars, ownerVars, remVars
<1>33. CASE UNCHANGED <<pc, listVars, newClient, remover>>
  BY <1>33 DEF LocalInv, LocksInv, HoldsClients, PcTyped, ListTyped, OwnerTyped,
      RemTyped, Threads, Goto, listVars, ownerVars, remVars
<1>34. QED
  BY <1>1, <1>2, <1>3, <1>4, <1>5, <1>6, <1>7, <1>8, <1>9, <1>10, <1>11, <1>12, <1>13,
      <1>14, <1>15, <1>16, <1>17, <1>18, <1>19, <1>20, <1>21, <1>22, <1>23, <1>24,
      <1>25, <1>26, <1>27, <1>28, <1>29, <1>30, <1>31, <1>32, <1>33, LocalFrame

(* The actions that move a thread or write the state of an object.         *)
LEMMA OutlivesFrame ==
  ASSUME [Next]_vars
  PROVE  \/ UNCHANGED <<pc, obj>>
         \/ \E auto \in AutoRemove, fd \in StartResults : Start(auto, fd)
         \/ SubscribeCall \/ Subscribe \/ PushClient \/ CountClient \/ SendToAllCall \/
            SendToAllLock \/ SendToAllReturn \/ SendToClientCall \/ TerminateRemover \/
            JoinRemover \/ CloseLock \/ ClearClients \/ CloseListener \/ CloseClient
         \/ \E timeout \in Timeouts : Accept(timeout)
         \/ \E n \in -1..MsgSize : SendToNext(n)
         \/ \E ip \in Ip : SendToClient(ip)
         \/ \E r \in Removers : RemoverCheck(r) \/ RemoverLock(r) \/ RemoverScan(r) \/
            RemoverUnlock(r) \/ DeleteClient(r) \/ EraseClient(r) \/ RemoverWake(r)
         \/ \E c \in Conn : Receive(c) \/ PublishMsg(c) \/ PublishMsgReturn(c) \/
            PublishDisc(c) \/ PublishDiscReturn(c) \/ DecRead(c) \/ DecWrite(c)
  BY SMTT(30) DEF vars, ownerVars, listVars, objVars, countVars, remVars, netVars,
      histVars, Next, OwnerCalls, OwnerLocks, OwnerSteps, RemoverSteps, ReceiverLocks,
      ReceiverSteps, PeerSteps, AcceptFails, HandleMsg, HandleDisc, PeerConnect,
      PeerSend, PeerClose, PeerReset

(* Every step keeps OutlivesReceiver: the only steps that close or delete  *)
(* join the receive thread first, and no object is accepted twice.         *)
LEMMA OutlivesStep ==
  ASSUME TypeOK, LocalInv, OutlivesReceiver, [Next]_vars
  PROVE  OutlivesReceiver'
<1> USE ThreadsAssumption
<1> PcTyped /\ ObjTyped /\ ListTyped /\ NetTyped
  BY DEF TypeOK
<1>1. ASSUME NEW auto \in AutoRemove, NEW fd \in StartResults, Start(auto, fd)
      PROVE  OutlivesReceiver'
  BY <1>1 DEF Start, StartRemover, OutlivesReceiver, PcTyped, ObjTyped, Threads, Goto,
      objVars
<1>2. CASE SubscribeCall
  BY <1>2 DEF SubscribeCall, OutlivesReceiver, PcTyped, ObjTyped, Threads, Goto, objVars
<1>3. CASE Subscribe
  BY <1>3 DEF Subscribe, OutlivesReceiver, PcTyped, ObjTyped, Threads, Goto, objVars
<1>4. ASSUME NEW timeout \in Timeouts, Accept(timeout)
      PROVE  OutlivesReceiver'
  BY <1>4 DEF Accept, NetTyped, OutlivesReceiver, PcTyped, ObjTyped, Threads, Goto,
      objVars
<1>5. CASE PushClient
  BY <1>5 DEF PushClient, OutlivesReceiver, PcTyped, ObjTyped, Threads, Goto, objVars
<1>6. CASE CountClient
  BY <1>6 DEF CountClient, OutlivesReceiver, PcTyped, ObjTyped, Threads, Goto, objVars
<1>7. CASE SendToAllCall
  BY <1>7 DEF SendToAllCall, OutlivesReceiver, PcTyped, ObjTyped, Threads, Goto, objVars
<1>8. CASE SendToAllLock
  BY <1>8 DEF SendToAllLock, OutlivesReceiver, PcTyped, ObjTyped, Threads, Goto, objVars
<1>9. ASSUME NEW n \in -1..MsgSize, SendToNext(n)
      PROVE  OutlivesReceiver'
  BY <1>9 DEF SendToNext, OutlivesReceiver, PcTyped, ObjTyped, Threads, Goto, objVars
<1>10. CASE SendToAllReturn
  BY <1>10 DEF SendToAllReturn, OutlivesReceiver, PcTyped, ObjTyped, Threads, Goto,
      objVars
<1>11. CASE SendToClientCall
  BY <1>11 DEF SendToClientCall, OutlivesReceiver, PcTyped, ObjTyped, Threads, Goto,
      objVars
<1>12. ASSUME NEW ip \in Ip, SendToClient(ip)
      PROVE  OutlivesReceiver'
  BY <1>12 DEF SendToClient, OutlivesReceiver, PcTyped, ObjTyped, Threads, Goto, objVars
<1>13. CASE TerminateRemover
  BY <1>13 DEF TerminateRemover, OutlivesReceiver, PcTyped, ObjTyped, Threads, Goto,
      objVars
<1>14. CASE JoinRemover
  BY <1>14 DEF JoinRemover, OutlivesReceiver, PcTyped, ObjTyped, Threads, Goto, objVars
<1>15. CASE CloseLock
  BY <1>15 DEF CloseLock, OutlivesReceiver, PcTyped, ObjTyped, Threads, Goto, objVars
<1>16. CASE ClearClients
  BY <1>16 DEF ClearClients, OutlivesReceiver, PcTyped, ObjTyped, Threads, Goto, objVars
<1>17. CASE CloseListener
  BY <1>17 DEF CloseListener, OutlivesReceiver, PcTyped, ObjTyped, Threads, Goto,
      objVars
<1>18. ASSUME NEW r \in Removers, RemoverCheck(r)
      PROVE  OutlivesReceiver'
  BY <1>18 DEF RemoverCheck, OutlivesReceiver, PcTyped, ObjTyped, Threads, Goto, objVars
<1>19. ASSUME NEW r \in Removers, RemoverLock(r)
      PROVE  OutlivesReceiver'
  BY <1>19 DEF RemoverLock, OutlivesReceiver, PcTyped, ObjTyped, Threads, Goto, objVars
<1>20. ASSUME NEW r \in Removers, RemoverScan(r)
      PROVE  OutlivesReceiver'
  BY <1>20 DEF RemoverScan, OutlivesReceiver, PcTyped, ObjTyped, Threads, Goto, objVars
<1>21. ASSUME NEW r \in Removers, RemoverUnlock(r)
      PROVE  OutlivesReceiver'
  BY <1>21 DEF RemoverUnlock, OutlivesReceiver, PcTyped, ObjTyped, Threads, Goto,
      objVars
<1>22. ASSUME NEW r \in Removers, DeleteClient(r)
      PROVE  OutlivesReceiver'
  BY <1>22 DEF DeleteClient, ListTyped, LocalInv, ReceiverJoined, OutlivesReceiver,
      PcTyped, ObjTyped, Threads, Goto, objVars
<1>23. ASSUME NEW r \in Removers, EraseClient(r)
      PROVE  OutlivesReceiver'
  BY <1>23 DEF EraseClient, OutlivesReceiver, PcTyped, ObjTyped, Threads, Goto, objVars
<1>24. ASSUME NEW r \in Removers, RemoverWake(r)
      PROVE  OutlivesReceiver'
  BY <1>24 DEF RemoverWake, OutlivesReceiver, PcTyped, ObjTyped, Threads, Goto, objVars
<1>25. ASSUME NEW c \in Conn, Receive(c)
      PROVE  OutlivesReceiver'
  BY <1>25 DEF Receive, OutlivesReceiver, PcTyped, ObjTyped, Threads, Goto, objVars
<1>26. ASSUME NEW c \in Conn, PublishMsg(c)
      PROVE  OutlivesReceiver'
  BY <1>26 DEF PublishMsg, OutlivesReceiver, PcTyped, ObjTyped, Threads, Goto, objVars
<1>27. ASSUME NEW c \in Conn, PublishMsgReturn(c)
      PROVE  OutlivesReceiver'
  BY <1>27 DEF PublishMsgReturn, OutlivesReceiver, PcTyped, ObjTyped, Threads, Goto,
      objVars
<1>28. ASSUME NEW c \in Conn, PublishDisc(c)
      PROVE  OutlivesReceiver'
  BY <1>28 DEF PublishDisc, OutlivesReceiver, PcTyped, ObjTyped, Threads, Goto, objVars
<1>29. ASSUME NEW c \in Conn, PublishDiscReturn(c)
      PROVE  OutlivesReceiver'
  BY <1>29 DEF PublishDiscReturn, OutlivesReceiver, PcTyped, ObjTyped, Threads, Goto,
      objVars
<1>30. ASSUME NEW c \in Conn, DecRead(c)
      PROVE  OutlivesReceiver'
  BY <1>30 DEF DecRead, OutlivesReceiver, PcTyped, ObjTyped, Threads, Goto, objVars
<1>31. ASSUME NEW c \in Conn, DecWrite(c)
      PROVE  OutlivesReceiver'
  BY <1>31 DEF DecWrite, OutlivesReceiver, PcTyped, ObjTyped, Threads, Goto, objVars
<1>32. CASE CloseClient
  BY <1>32 DEF CloseClient, ListTyped, ReceiverJoined, OutlivesReceiver, PcTyped,
      ObjTyped, Threads, Goto, objVars
<1>33. CASE UNCHANGED <<pc, obj>>
  BY <1>33 DEF OutlivesReceiver, PcTyped, ObjTyped, Threads, Goto, objVars
<1>34. QED
  BY <1>1, <1>2, <1>3, <1>4, <1>5, <1>6, <1>7, <1>8, <1>9, <1>10, <1>11, <1>12, <1>13,
      <1>14, <1>15, <1>16, <1>17, <1>18, <1>19, <1>20, <1>21, <1>22, <1>23, <1>24,
      <1>25, <1>26, <1>27, <1>28, <1>29, <1>30, <1>31, <1>32, <1>33, OutlivesFrame

(***************************************************************************)
(* The inductive invariant of the mutexes and what follows from it.        *)
(***************************************************************************)
CoreInv == TypeOK /\ FreshInv /\ LocksInv /\ LocalInv

(* The inductive invariant holds initially.                                *)
LEMMA CoreInit == Init => CoreInv
<1> SUFFICES ASSUME Init PROVE CoreInv
  OBVIOUS
<1> USE ThreadsAssumption, BoundsAssumption
<1>1. PcTyped
  BY DEF Init, PcTyped, Threads, ReceiverLabels, RemoverLabels, OwnerLabels
<1>2. LocksTyped /\ RemTyped
  BY DEF Init, LocksTyped, RemTyped
<1>3. OwnerTyped
  <2>1. newClient = None /\ missed = {} /\ ret = "none" /\ starts = 0
    BY DEF Init
  <2>2. 0 \in 0..MaxStarts
    BY BoundsAssumption
  <2>3. QED
    BY <2>1, <2>2, Zenon DEF OwnerTyped
<1>4. ListTyped
  BY DEF Init, ListTyped
<1>5. ObjTyped /\ CountTyped /\ HistTyped
  BY DEF Init, ObjTyped, CountTyped, HistTyped
<1>6. NetTyped
  BY DEF Init, NetTyped
<1>7. LocksInv
  BY DEF Init, LocksInv, HoldsClients, HoldsSubscribers, Threads
<1>8. FreshInv /\ LocalInv
  BY DEF Init, FreshInv, LocalInv, Threads
<1>9. QED
  BY <1>1, <1>2, <1>3, <1>4, <1>5, <1>6, <1>7, <1>8 DEF CoreInv, TypeOK

(* The inductive invariant is kept by every step.                          *)
LEMMA CoreStep == CoreInv /\ [Next]_vars => CoreInv'
<1> SUFFICES ASSUME CoreInv, [Next]_vars PROVE CoreInv'
  OBVIOUS
<1>1. /\ PcTyped /\ LocksTyped /\ OwnerTyped /\ ListTyped /\ ObjTyped
      /\ CountTyped /\ RemTyped /\ NetTyped /\ HistTyped
      /\ FreshInv /\ LocksInv /\ LocalInv
  BY DEF CoreInv, TypeOK
<1>2. PcTyped' /\ LocksTyped' /\ OwnerTyped' /\ ListTyped' /\ ObjTyped'
  BY <1>1, PcTypedStep, LocksTypedStep, OwnerTypedStep, ListTypedStep, ObjTypedStep
<1>3. CountTyped' /\ RemTyped' /\ NetTyped' /\ HistTyped'
  BY <1>1, CountTypedStep, RemTypedStep, NetTypedStep, HistTypedStep
<1>4. FreshInv' /\ LocksInv' /\ LocalInv'
  BY <1>1, FreshInvStep, LocksInvStep, LocalInvStep
<1>5. QED
  BY <1>2, <1>3, <1>4 DEF CoreInv, TypeOK

(* The inductive invariant that every other proof starts from: types, the  *)
(* owners of the two mutexes, connections accepted once, and the locals    *)
(* that survive a lock or a join.                                          *)
THEOREM CoreInvariant == Spec => []CoreInv
  BY CoreInit, CoreStep, PTL DEF Spec

(* Every variable of the server keeps its type, whatever the number of     *)
(* connections, removers and starts.                                       *)
THEOREM Typing == Spec => []TypeOK
<1>1. CoreInv => TypeOK
  BY DEF CoreInv
<1>2. QED
  BY <1>1, CoreInvariant, PTL

(* A receive thread waits for nothing but _subscribersMtx.                 *)
LEMMA ReceiverWaits ==
  ASSUME CoreInv, NEW c \in Conn
  PROVE  WaitsFor(c) \in {None, subscribersMtx}
  BY ThreadsAssumption DEF WaitsFor

(* The thread that holds _subscribersMtx is a receive thread that waits    *)
(* for nothing.                                                            *)
LEMMA SubscribersHolder ==
  ASSUME CoreInv, subscribersMtx # None
  PROVE  subscribersMtx \in Conn /\ WaitsFor(subscribersMtx) = None
<1>1. subscribersMtx \in Threads /\ HoldsSubscribers(subscribersMtx)
  BY DEF CoreInv, TypeOK, LocksTyped, LocksInv
<1>2. QED
  BY <1>1, ThreadsAssumption DEF HoldsSubscribers, WaitsFor

(* The thread that holds _clientsMtx waits for nothing or for a receive    *)
(* thread.                                                                 *)
LEMMA ClientsHolder ==
  ASSUME CoreInv, clientsMtx # None
  PROVE  /\ clientsMtx \in Removers \cup {Owner}
         /\ WaitsFor(clientsMtx) \in Conn \cup {None}
<1> USE ThreadsAssumption
<1>1. clientsMtx \in Threads /\ HoldsClients(clientsMtx)
  BY DEF CoreInv, TypeOK, LocksTyped, LocksInv
<1>2. iter \in Nat \ {0} /\ clients \in Seq(Conn)
  BY DEF CoreInv, TypeOK, ListTyped
<1>3. ASSUME iter <= Len(clients) PROVE clients[iter] \in Conn
  BY <1>2, <1>3
<1>4. CASE clientsMtx = Owner
  BY <1>1, <1>3, <1>4 DEF HoldsClients, WaitsFor
<1>5. CASE clientsMtx \in Removers
  <2>1. pc[clientsMtx] \in {"scan", "join", "erase"}
    BY <1>1, <1>5 DEF HoldsClients
  <2>2. pc[clientsMtx] = "join" => iter <= Len(clients)
    BY <1>5 DEF CoreInv, LocalInv
  <2>3. QED
    BY <1>3, <1>5, <2>1, <2>2 DEF WaitsFor
<1>6. QED
  BY <1>1, <1>4, <1>5 DEF HoldsClients

(* A remover waits for the holder of _clientsMtx or for a receive thread.  *)
LEMMA RemoverWaits ==
  ASSUME CoreInv, NEW r \in Removers
  PROVE  WaitsFor(r) \in Conn \cup {None, clientsMtx}
<1> USE ThreadsAssumption
<1>1. iter \in Nat \ {0} /\ clients \in Seq(Conn)
  BY DEF CoreInv, TypeOK, ListTyped
<1>2. pc[r] = "join" => clients[iter] \in Conn
  BY <1>1 DEF CoreInv, LocalInv
<1>3. QED
  BY <1>2 DEF WaitsFor

(* Owner never waits for itself.                                           *)
LEMMA OwnerWaits ==
  ASSUME CoreInv
  PROVE  WaitsFor(Owner) # Owner
<1> USE ThreadsAssumption
<1>1. iter \in Nat \ {0} /\ clients \in Seq(Conn) /\ remover \in Removers \cup {None}
  BY DEF CoreInv, TypeOK, ListTyped, RemTyped
<1>2. iter <= Len(clients) => clients[iter] \in Conn
  BY <1>1
<1>3. Owner \in Threads /\ subscribersMtx # Owner
  BY DEF Threads, CoreInv, LocksInv, HoldsSubscribers
<1>4. clientsMtx = Owner => pc[Owner] \in {"inc", "send", "closeClient"}
  BY <1>3 DEF CoreInv, LocksInv, HoldsClients
<1>5. QED
  BY <1>1, <1>2, <1>3, <1>4 DEF WaitsFor

(* No set of threads waits only for itself: a receive thread waits for     *)
(* another one that is in a handler, who holds _clientsMtx waits for a     *)
(* receive thread at most, and close() waits for all of these but holds    *)
(* nothing while it waits for the remover.                                 *)
THEOREM DeadlockFreedom == Spec => []NoDeadlock
<1>1. CoreInv => NoDeadlock
  <2> SUFFICES ASSUME CoreInv, NEW S \in SUBSET Threads, S # {}
               PROVE  \E t \in S : WaitsFor(t) \notin S
    BY DEF NoDeadlock
  <2> USE ThreadsAssumption DEF Threads
  <2>1. None \notin S
    OBVIOUS
  <2>2. ASSUME NEW c \in S, c \in Conn PROVE \E t \in S : WaitsFor(t) \notin S
    BY <2>1, <2>2, ReceiverWaits, SubscribersHolder
  <2>3. ASSUME S \cap Conn = {}, NEW r \in S, r \in Removers
        PROVE  \E t \in S : WaitsFor(t) \notin S
    <3>1. WaitsFor(r) \in Conn \cup {None, clientsMtx}
      BY <2>3, RemoverWaits
    <3>2. CASE clientsMtx \in S
      BY <2>1, <2>3, <3>2, ClientsHolder
    <3>3. CASE clientsMtx \notin S
      BY <2>1, <2>3, <3>1, <3>3
    <3>4. QED
      BY <3>2, <3>3
  <2>4. CASE S = {Owner}
    BY <2>4, OwnerWaits
  <2>5. QED
    BY <2>2, <2>3, <2>4
<1>2. QED
  BY <1>1, CoreInvariant, PTL

(* The descriptor and the object of a client go away only after its        *)
(* receive thread has ended: Client::close() joins it first.               *)
THEOREM ReceiverOutlived == Spec => []OutlivesReceiver
<1>1. Init => OutlivesReceiver
  BY DEF Init, OutlivesReceiver
<1>2. CoreInv /\ OutlivesReceiver /\ [Next]_vars => OutlivesReceiver'
  BY OutlivesStep DEF CoreInv
<1>3. QED
  BY <1>1, <1>2, CoreInvariant, PTL DEF Spec
=============================================================================
