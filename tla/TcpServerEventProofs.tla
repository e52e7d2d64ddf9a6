------------------------ MODULE TcpServerEventProofs -----------------------
(***************************************************************************)
(* Proofs about the events of a client: what is published, in which order, *)
(* and that the server implements ClientLifecycle.                         *)
(***************************************************************************)
EXTENDS TcpServerListProofs

(* A client counts as connected until its receive thread has seen the end. *)
ConnectedInv ==
  \A c \in Conn : isConnected[c] <=> pc[c] \in {"receive", "lockMsg", "inMsg"}

(* The receive thread has seen the end of the connection.                  *)
Over(c) == pc[c] \in {"lockDisc", "inDisc", "decRead", "decWrite", "exit"}

(* Where the bytes of a peer are while its connection is not reset, and    *)
(* which packet is still to be published.                                  *)
ByteInv ==
  \A c \in Conn :
    /\ peer[c] # "rst" => sent[c] = inbox[c] + received[c] /\ ~sockErr[c]
    /\ packets[c] = handed[c] + (IF pc[c] \in {"lockMsg", "inMsg"} THEN 1 ELSE 0)
    /\ inbox[c] <= sent[c]
    /\ Over(c) => inbox[c] = 0 /\ peer[c] \in {"fin", "rst"}

(* Who has yet to be told about c while its disconnection is published.    *)
ToldInv ==
  /\ calls \subseteq subscribers
  /\ \A c \in Conn, o \in Observers : <<o, c>> \in heard =>
       /\ o \in subscribers
       /\ pc[c] = "inDisc" /\ WantsDisc(o, c) => o \in calls \/ <<o, c>> \in told
       /\ Reported(c) /\ WantsDisc(o, c) => <<o, c>> \in told

(* Only accepting a client and its receive thread move that thread.        *)
LEMMA ReceiverFrame ==
  ASSUME PcTyped, [Next]_vars
  PROVE  \/ \A d \in Conn : pc'[d] = pc[d]
         \/ \E timeout \in Timeouts : Accept(timeout)
         \/ \E c \in Conn : Receive(c) \/ PublishMsg(c) \/ PublishMsgReturn(c) \/ PublishDisc(c)
              \/ PublishDiscReturn(c) \/ DecRead(c) \/ DecWrite(c)
<1> USE ThreadsAssumption
<1>1. ASSUME NEW auto \in AutoRemove, NEW fd \in StartResults, Start(auto, fd)
      PROVE  \A d \in Conn : pc'[d] = pc[d]
  BY <1>1 DEF Start, StartRemover, PcTyped, Threads, Goto
<1>2. CASE SubscribeCall
  BY <1>2 DEF SubscribeCall, PcTyped, Threads, Goto
<1>3. CASE Subscribe
  BY <1>3 DEF Subscribe, PcTyped, Threads, Goto
<1>4. CASE PushClient
  BY <1>4 DEF PushClient, PcTyped, Threads, Goto
<1>5. CASE CountClient
  BY <1>5 DEF CountClient, PcTyped, Threads, Goto
<1>6. CASE SendToAllCall
  BY <1>6 DEF SendToAllCall, PcTyped, Threads, Goto
<1>7. CASE SendToAllLock
  BY <1>7 DEF SendToAllLock, PcTyped, Threads, Goto
<1>8. ASSUME NEW n \in -1..MsgSize, SendToNext(n)
      PROVE  \A d \in Conn : pc'[d] = pc[d]
  BY <1>8 DEF SendToNext, PcTyped, Threads, Goto
<1>9. CASE SendToAllReturn
  BY <1>9 DEF SendToAllReturn, PcTyped, Threads, Goto
<1>10. CASE SendToClientCall
  BY <1>10 DEF SendToClientCall, PcTyped, Threads, Goto
<1>11. ASSUME NEW ip \in Ip, SendToClient(ip)
      PROVE  \A d \in Conn : pc'[d] = pc[d]
  BY <1>11 DEF SendToClient, PcTyped, Threads, Goto
<1>12. CASE TerminateRemover
  BY <1>12 DEF TerminateRemover, PcTyped, Threads, Goto
<1>13. CASE JoinRemover
  BY <1>13 DEF JoinRemover, PcTyped, Threads, Goto
<1>14. CASE CloseLock
  BY <1>14 DEF CloseLock, PcTyped, Threads, Goto
<1>15. CASE ClearClients
  BY <1>15 DEF ClearClients, PcTyped, Threads, Goto
<1>16. CASE CloseListener
  BY <1>16 DEF CloseListener, PcTyped, Threads, Goto
<1>17. ASSUME NEW r \in Removers, RemoverCheck(r)
      PROVE  \A d \in Conn : pc'[d] = pc[d]
  BY <1>17 DEF RemoverCheck, PcTyped, Threads, Goto
<1>18. ASSUME NEW r \in Removers, RemoverLock(r)
      PROVE  \A d \in Conn : pc'[d] = pc[d]
  BY <1>18 DEF RemoverLock, PcTyped, Threads, Goto
<1>19. ASSUME NEW r \in Removers, RemoverScan(r)
      PROVE  \A d \in Conn : pc'[d] = pc[d]
  BY <1>19 DEF RemoverScan, PcTyped, Threads, Goto
<1>20. ASSUME NEW r \in Removers, RemoverUnlock(r)
      PROVE  \A d \in Conn : pc'[d] = pc[d]
  BY <1>20 DEF RemoverUnlock, PcTyped, Threads, Goto
<1>21. ASSUME NEW r \in Removers, DeleteClient(r)
      PROVE  \A d \in Conn : pc'[d] = pc[d]
  BY <1>21 DEF DeleteClient, PcTyped, Threads, Goto
<1>22. ASSUME NEW r \in Removers, EraseClient(r)
      PROVE  \A d \in Conn : pc'[d] = pc[d]
  BY <1>22 DEF EraseClient, PcTyped, Threads, Goto
<1>23. ASSUME NEW r \in Removers, RemoverWake(r)
      PROVE  \A d \in Conn : pc'[d] = pc[d]
  BY <1>23 DEF RemoverWake, PcTyped, Threads, Goto
<1>24. CASE UNCHANGED pc
  BY <1>24 DEF PcTyped, Threads, Goto
<1>25. QED
  BY <1>1, <1>2, <1>3, <1>4, <1>5, <1>6, <1>7, <1>8, <1>9, <1>10, <1>11, <1>12, <1>13,
      <1>14, <1>15, <1>16, <1>17, <1>18, <1>19, <1>20, <1>21, <1>22, <1>23, <1>24,
      PcFrame

(* The conversion to size_t keeps the counts that the receive thread       *)
(* meets.                                                                  *)
LEMMA SizeTSmall ==
  ASSUME NEW n \in Nat, n < SizeMod
  PROVE  SizeT(n) = n
  BY BoundsAssumption, SMTT(30) DEF SizeT

(* The conversion to size_t turns -1 into the largest value, which is not  *)
(* less than 1.                                                            *)
LEMMA SizeTError == SizeT(-1) = SizeMod - 1
  BY BoundsAssumption, SMTT(30) DEF SizeT


(* The actions that write Client::_isConnected.                             *)
LEMMA FlagFrame ==
  ASSUME [Next]_vars
  PROVE  \/ UNCHANGED isConnected
         \/ \E timeout \in Timeouts : Accept(timeout)
         \/ \E c \in Conn : Receive(c)
  BY SMTT(30) DEF vars, ownerVars, listVars, objVars, countVars, remVars, netVars,
      histVars, Next, OwnerCalls, OwnerLocks, OwnerSteps, RemoverSteps, ReceiverLocks,
      ReceiverSteps, PeerSteps, Start, SubscribeCall, Subscribe, AcceptFails,
      PushClient, CountClient, SendToAllCall, SendToAllLock, SendToNext,
      SendToAllReturn, SendToClientCall, SendToClient, TerminateRemover, JoinRemover,
      CloseLock, CloseClient, ClearClients, CloseListener, RemoverCheck, RemoverLock,
      RemoverScan, RemoverUnlock, DeleteClient, EraseClient, RemoverWake, PublishMsg,
      HandleMsg, PublishMsgReturn, PublishDisc, HandleDisc, PublishDiscReturn, DecRead,
      DecWrite, PeerConnect, PeerSend, PeerClose, PeerReset

(* The actions that move bytes.                                            *)
LEMMA ByteFrame ==
  ASSUME [Next]_vars
  PROVE  \/ UNCHANGED <<peer, sockErr, inbox, sent, received, packets, handed>>
         \/ \E c \in Conn : Receive(c) \/ PublishMsgReturn(c) \/ PeerConnect(c) \/
            PeerSend(c) \/ PeerClose(c) \/ PeerReset(c)
         \/ CloseListener
  BY SMTT(30) DEF vars, ownerVars, listVars, objVars, countVars, remVars, netVars,
      histVars, Next, OwnerCalls, OwnerLocks, OwnerSteps, RemoverSteps, ReceiverLocks,
      ReceiverSteps, PeerSteps, Start, SubscribeCall, Subscribe, Accept, AcceptFails,
      PushClient, CountClient, SendToAllCall, SendToAllLock, SendToNext,
      SendToAllReturn, SendToClientCall, SendToClient, TerminateRemover, JoinRemover,
      CloseLock, CloseClient, ClearClients, RemoverCheck, RemoverLock, RemoverScan,
      RemoverUnlock, DeleteClient, EraseClient, RemoverWake, PublishMsg, HandleMsg,
      PublishDisc, HandleDisc, PublishDiscReturn, DecRead, DecWrite

(* The actions of the observers.                                           *)
LEMMA ToldFrame ==
  ASSUME [Next]_vars
  PROVE  \/ UNCHANGED <<calls, subscribers, heard, told>>
         \/ Subscribe
         \/ \E c \in Conn : PublishMsg(c) \/ PublishDisc(c)
         \/ \E c \in Conn, o \in Observers : HandleMsg(c, o) \/ HandleDisc(c, o)
  BY SMTT(30) DEF vars, ownerVars, listVars, objVars, countVars, remVars, netVars,
      histVars, Next, OwnerCalls, OwnerLocks, OwnerSteps, RemoverSteps, ReceiverLocks,
      ReceiverSteps, PeerSteps, Start, SubscribeCall, Accept, AcceptFails, PushClient,
      CountClient, SendToAllCall, SendToAllLock, SendToNext, SendToAllReturn,
      SendToClientCall, SendToClient, TerminateRemover, JoinRemover, CloseLock,
      CloseClient, ClearClients, CloseListener, RemoverCheck, RemoverLock, RemoverScan,
      RemoverUnlock, DeleteClient, EraseClient, RemoverWake, Receive, PublishMsgReturn,
      PublishDiscReturn, DecRead, DecWrite, PeerConnect, PeerSend, PeerClose, PeerReset

(* The actions that write the state of a Client object.                    *)
LEMMA ObjStateFrame ==
  ASSUME [Next]_vars
  PROVE  \/ UNCHANGED obj
         \/ \E timeout \in Timeouts : Accept(timeout)
         \/ CloseClient
         \/ \E r \in Removers : DeleteClient(r)
  BY SMTT(30) DEF vars, ownerVars, listVars, objVars, countVars, remVars, netVars,
      histVars, Next, OwnerCalls, OwnerLocks, OwnerSteps, RemoverSteps, ReceiverLocks,
      ReceiverSteps, PeerSteps, Start, SubscribeCall, Subscribe, AcceptFails,
      PushClient, CountClient, SendToAllCall, SendToAllLock, SendToNext,
      SendToAllReturn, SendToClientCall, SendToClient, TerminateRemover, JoinRemover,
      CloseLock, ClearClients, CloseListener, RemoverCheck, RemoverLock, RemoverScan,
      RemoverUnlock, EraseClient, RemoverWake, Receive, PublishMsg, HandleMsg,
      PublishMsgReturn, PublishDisc, HandleDisc, PublishDiscReturn, DecRead, DecWrite,
      PeerConnect, PeerSend, PeerClose, PeerReset

(* The actions that take or release _subscribersMtx for good.              *)
LEMMA SubscribersFrame ==
  ASSUME [Next]_vars
  PROVE  \/ UNCHANGED subscribersMtx
         \/ \E c \in Conn : PublishMsg(c) \/ PublishMsgReturn(c) \/ PublishDisc(c) \/
            PublishDiscReturn(c)
  BY SMTT(30) DEF vars, ownerVars, listVars, objVars, countVars, remVars, netVars,
      histVars, Next, OwnerCalls, OwnerLocks, OwnerSteps, RemoverSteps, ReceiverLocks,
      ReceiverSteps, PeerSteps, Start, SubscribeCall, Subscribe, Accept, AcceptFails,
      PushClient, CountClient, SendToAllCall, SendToAllLock, SendToNext,
      SendToAllReturn, SendToClientCall, SendToClient, TerminateRemover, JoinRemover,
      CloseLock, CloseClient, ClearClients, CloseListener, RemoverCheck, RemoverLock,
      RemoverScan, RemoverUnlock, DeleteClient, EraseClient, RemoverWake, Receive,
      HandleMsg, HandleDisc, DecRead, DecWrite, PeerConnect, PeerSend, PeerClose,
      PeerReset

(* Every step keeps ConnectedInv.                                          *)
LEMMA ConnectedStep ==
  ASSUME CoreInv, ConnectedInv, [Next]_vars
  PROVE  ConnectedInv'
<1> USE ThreadsAssumption
<1> PcTyped /\ ObjTyped /\ NetTyped
  BY DEF CoreInv, TypeOK
<1>1. ASSUME NEW timeout \in Timeouts, Accept(timeout)
      PROVE  ConnectedInv'
  BY <1>1 DEF Accept, ConnectedInv, PcTyped, ObjTyped, NetTyped, Threads, Goto, objVars
<1>2. ASSUME NEW c \in Conn, Receive(c)
      PROVE  ConnectedInv'
  BY <1>2 DEF Receive, ConnectedInv, PcTyped, ObjTyped, NetTyped, Threads, Goto, objVars
<1>3. ASSUME NEW c \in Conn, PublishMsg(c)
      PROVE  ConnectedInv'
  BY <1>3 DEF PublishMsg, ConnectedInv, PcTyped, ObjTyped, NetTyped, Threads, Goto,
      objVars
<1>4. ASSUME NEW c \in Conn, PublishMsgReturn(c)
      PROVE  ConnectedInv'
  BY <1>4 DEF PublishMsgReturn, ConnectedInv, PcTyped, ObjTyped, NetTyped, Threads,
      Goto, objVars
<1>5. ASSUME NEW c \in Conn, PublishDisc(c)
      PROVE  ConnectedInv'
  BY <1>5 DEF PublishDisc, ConnectedInv, PcTyped, ObjTyped, NetTyped, Threads, Goto,
      objVars
<1>6. ASSUME NEW c \in Conn, PublishDiscReturn(c)
      PROVE  ConnectedInv'
  BY <1>6 DEF PublishDiscReturn, ConnectedInv, PcTyped, ObjTyped, NetTyped, Threads,
      Goto, objVars
<1>7. ASSUME NEW c \in Conn, DecRead(c)
      PROVE  ConnectedInv'
  BY <1>7 DEF DecRead, ConnectedInv, PcTyped, ObjTyped, NetTyped, Threads, Goto, objVars
<1>8. ASSUME NEW c \in Conn, DecWrite(c)
      PROVE  ConnectedInv'
  BY <1>8 DEF DecWrite, ConnectedInv, PcTyped, ObjTyped, NetTyped, Threads, Goto,
      objVars
<1>9. CASE (\A d \in Conn : pc'[d] = pc[d]) /\ isConnected' = isConnected
  BY <1>9 DEF ConnectedInv
<1>10. QED
  BY <1>1, <1>2, <1>3, <1>4, <1>5, <1>6, <1>7, <1>8, <1>9, ReceiverFrame, FlagFrame

(* Every step keeps ByteInv.                                               *)
LEMMA ByteStep ==
  ASSUME CoreInv, ByteInv, [Next]_vars
  PROVE  ByteInv'
<1> USE ThreadsAssumption, BoundsAssumption
<1> PcTyped /\ ObjTyped /\ NetTyped /\ HistTyped /\ FreshInv
  BY DEF CoreInv, TypeOK
<1>1. ASSUME NEW timeout \in Timeouts, Accept(timeout)
      PROVE  ByteInv'
  <2> DEFINE q == queue[1]
  <2>1. q \in Conn /\ pc[q] = "none"
    BY <1>1 DEF Accept, NetTyped, FreshInv
  <2>2. pc'[q] = "receive" /\ \A d \in Conn : d # q => pc'[d] = pc[d]
    BY <1>1, <2>1 DEF Accept, NetTyped, PcTyped, Threads
  <2>3. UNCHANGED <<peer, sockErr, inbox, sent, received, packets, handed>>
    BY <1>1 DEF Accept, histVars
  <2>4. QED
    BY <2>1, <2>2, <2>3 DEF ByteInv, Over
<1>2. ASSUME NEW c \in Conn, Receive(c)
      PROVE  ByteInv'
  <2> DEFINE n == SizeT(RecvResult(c))
  <2>1. /\ pc[c] = "receive" /\ packets[c] = handed[c]
        /\ inbox[c] <= sent[c] /\ inbox[c] < SizeMod
        /\ inbox[c] \in Nat /\ sent[c] \in Nat /\ received[c] \in Nat /\ handed[c] \in Nat
    <3>1. /\ sent[c] <= MaxSent[c] /\ MaxSent[c] \in Nat /\ SizeMod > MaxSent[c] + 1
          /\ inbox[c] \in Nat /\ sent[c] \in Nat /\ received[c] \in Nat /\ handed[c] \in Nat
      BY DEF NetTyped, HistTyped
    <3>2. /\ pc[c] = "receive" /\ inbox[c] <= sent[c]
          /\ packets[c] = handed[c] + (IF pc[c] \in {"lockMsg", "inMsg"} THEN 1 ELSE 0)
      BY <1>2 DEF Receive, ByteInv
    <3>3. QED
      BY <3>1, <3>2
  <2>2. /\ inbox' = [inbox EXCEPT ![c] = @ - Taken(c)]
        /\ received' = [received EXCEPT ![c] = @ + Taken(c)]
        /\ packets' = IF RecvResult(c) = 0 THEN packets ELSE [packets EXCEPT ![c] = @ + 1]
        /\ Taken(c) \in Nat /\ Taken(c) <= inbox[c]
        /\ UNCHANGED <<peer, sent, handed>>
    BY <1>2, <2>1 DEF Receive, Taken, histVars
  <2>3. sockErr' = [sockErr EXCEPT ![c] = @ /\ inbox[c] > 0]
    BY <1>2 DEF Receive
  <2>4. \A d \in Conn : ~sockErr[d] => ~sockErr'[d]
    BY <2>3 DEF NetTyped
  <2>5. \A d \in Conn : d # c => pc'[d] = pc[d] /\ inbox'[d] = inbox[d]
                              /\ received'[d] = received[d] /\ packets'[d] = packets[d]
    BY <1>2, <2>2 DEF Receive, PcTyped, NetTyped, HistTyped, Threads
  <2>6. ASSUME NEW d \in Conn, d # c
        PROVE  /\ peer'[d] # "rst" => sent'[d] = inbox'[d] + received'[d] /\ ~sockErr'[d]
               /\ packets'[d] = handed'[d] + (IF pc'[d] \in {"lockMsg", "inMsg"} THEN 1 ELSE 0)
               /\ inbox'[d] <= sent'[d]
               /\ Over(d)' => inbox'[d] = 0 /\ peer'[d] \in {"fin", "rst"}
    BY <2>2, <2>4, <2>5, <2>6 DEF ByteInv, Over
  <2>7. CASE inbox[c] > 0
    <3>1. n = Taken(c) /\ ~NothingReceived(n) /\ RecvResult(c) # 0
      BY <2>1, <2>2, <2>7, SizeTSmall DEF RecvResult, Taken, NothingReceived
    <3>2. /\ pc'[c] = "lockMsg" /\ inbox'[c] = inbox[c] - Taken(c)
          /\ received'[c] = received[c] + Taken(c) /\ packets'[c] = packets[c] + 1
      BY <1>2, <2>2, <3>1 DEF Receive, PcTyped, NetTyped, HistTyped, Threads
    <3>3. QED
      BY <2>1, <2>2, <2>4, <2>5, <3>2 DEF ByteInv, Over
  <2>8. CASE inbox[c] = 0 /\ sockErr[c]
    <3>1. n = SizeMod - 1 /\ ~NothingReceived(n) /\ RecvResult(c) # 0
      BY <2>8, SizeTError DEF RecvResult, NothingReceived
    <3>2. pc'[c] = "lockMsg" /\ inbox'[c] = 0 /\ packets'[c] = packets[c] + 1
      BY <1>2, <2>1, <2>2, <2>8, <3>1 DEF Receive, PcTyped, NetTyped, HistTyped, Threads
    <3>3. peer[c] = "rst"
      BY <2>8 DEF ByteInv, NetTyped
    <3>4. /\ peer'[c] = "rst" /\ ~Over(c)' /\ inbox'[c] <= sent'[c]
          /\ packets'[c] = handed'[c] + 1
      BY <2>1, <2>2, <3>2, <3>3 DEF Over
    <3>5. QED
      BY <2>6, <3>2, <3>4 DEF ByteInv
  <2>9. CASE inbox[c] = 0 /\ ~sockErr[c]
    <3>1. n = 0 /\ NothingReceived(n) /\ RecvResult(c) = 0
      BY <2>9, SizeTSmall DEF RecvResult, NothingReceived
    <3>2. /\ pc'[c] = "lockDisc" /\ packets' = packets /\ inbox'[c] = 0
          /\ received'[c] = received[c]
      BY <1>2, <2>1, <2>2, <2>9, <3>1 DEF Receive, PcTyped, NetTyped, HistTyped, Threads
    <3>3. peer[c] \in {"fin", "rst"}
      BY <1>2, <2>9 DEF Receive
    <3>4. /\ peer'[c] # "rst" => sent'[c] = inbox'[c] + received'[c] /\ ~sockErr'[c]
          /\ packets'[c] = handed'[c] /\ inbox'[c] <= sent'[c] /\ peer'[c] \in {"fin", "rst"}
      BY <2>1, <2>2, <2>4, <2>9, <3>2, <3>3 DEF ByteInv
    <3>5. packets'[c] = handed'[c] + (IF pc'[c] \in {"lockMsg", "inMsg"} THEN 1 ELSE 0)
      BY <2>1, <2>2, <3>2, <3>4
    <3>6. QED
      BY <2>6, <3>2, <3>4, <3>5 DEF ByteInv
  <2>10. QED
    BY <2>1, <2>7, <2>8, <2>9
<1>3. ASSUME NEW c \in Conn, PublishMsg(c)
      PROVE  ByteInv'
  BY <1>3 DEF PublishMsg, ByteInv, Over, PcTyped, ObjTyped, NetTyped, HistTyped,
      Threads, Goto, objVars, netVars, histVars
<1>4. ASSUME NEW c \in Conn, PublishMsgReturn(c)
      PROVE  ByteInv'
  BY <1>4 DEF PublishMsgReturn, ByteInv, Over, PcTyped, ObjTyped, NetTyped, HistTyped,
      Threads, Goto, objVars, netVars, histVars
<1>5. ASSUME NEW c \in Conn, PublishDisc(c)
      PROVE  ByteInv'
  BY <1>5 DEF PublishDisc, ByteInv, Over, PcTyped, ObjTyped, NetTyped, HistTyped,
      Threads, Goto, objVars, netVars, histVars
<1>6. ASSUME NEW c \in Conn, PublishDiscReturn(c)
      PROVE  ByteInv'
  BY <1>6 DEF PublishDiscReturn, ByteInv, Over, PcTyped, ObjTyped, NetTyped, HistTyped,
      Threads, Goto, objVars, netVars, histVars
<1>7. ASSUME NEW c \in Conn, DecRead(c)
      PROVE  ByteInv'
  BY <1>7 DEF DecRead, ByteInv, Over, PcTyped, ObjTyped, NetTyped, HistTyped, Threads,
      Goto, objVars, netVars, histVars
<1>8. ASSUME NEW c \in Conn, DecWrite(c)
      PROVE  ByteInv'
  BY <1>8 DEF DecWrite, ByteInv, Over, PcTyped, ObjTyped, NetTyped, HistTyped, Threads,
      Goto, objVars, netVars, histVars
<1>9. CASE CloseListener
  BY <1>9 DEF CloseListener, ByteInv, Over, PcTyped, ObjTyped, NetTyped, HistTyped,
      Threads, Goto, objVars, netVars, histVars
<1>10. ASSUME NEW c \in Conn, PeerConnect(c)
      PROVE  ByteInv'
  BY <1>10 DEF PeerConnect, ByteInv, Over, PcTyped, ObjTyped, NetTyped, HistTyped,
      Threads, Goto, objVars, netVars, histVars, FreshInv
<1>11. ASSUME NEW c \in Conn, PeerSend(c)
      PROVE  ByteInv'
  <2>1. /\ sent[c] \in Nat /\ inbox[c] \in Nat /\ received[c] \in Nat
        /\ peer[c] = "up"
    BY <1>11 DEF PeerSend, ObjTyped, NetTyped, HistTyped
  <2>2. /\ sent'[c] = sent[c] + 1 /\ inbox'[c] = inbox[c] + 1
        /\ \A d \in Conn : d # c => sent'[d] = sent[d] /\ inbox'[d] = inbox[d]
    BY <1>11 DEF PeerSend, NetTyped
  <2>3. UNCHANGED <<pc, peer, sockErr, received, packets, handed>>
    BY <1>11 DEF PeerSend, objVars, histVars
  <2>4. ~Over(c)
    BY <2>1 DEF ByteInv
  <2>5. QED
    BY <2>1, <2>2, <2>3, <2>4 DEF ByteInv, Over
<1>12. ASSUME NEW c \in Conn, PeerClose(c)
      PROVE  ByteInv'
  BY <1>12 DEF PeerClose, ByteInv, Over, PcTyped, ObjTyped, NetTyped, HistTyped,
      Threads, Goto, objVars, netVars, histVars
<1>13. ASSUME NEW c \in Conn, PeerReset(c)
      PROVE  ByteInv'
  BY <1>13 DEF PeerReset, ByteInv, Over, PcTyped, ObjTyped, NetTyped, HistTyped,
      Threads, Goto, objVars, netVars, histVars
<1>14. CASE /\ \A d \in Conn : pc'[d] = pc[d]
            /\ UNCHANGED <<peer, sockErr, inbox, sent, received, packets, handed>>
  BY <1>14 DEF ByteInv, Over
<1>15. QED
  BY <1>1, <1>2, <1>3, <1>4, <1>5, <1>6, <1>7, <1>8, <1>9, <1>10, <1>11, <1>12, <1>13, <1>14,
     ReceiverFrame, ByteFrame

(* Every step keeps ToldInv.                                               *)
LEMMA ToldStep ==
  ASSUME CoreInv, ToldInv, [Next]_vars
  PROVE  ToldInv'
<1> USE ThreadsAssumption
<1> PcTyped /\ LocksTyped /\ NetTyped /\ HistTyped /\ LocksInv
  BY DEF CoreInv, TypeOK
<1>1. ASSUME NEW timeout \in Timeouts, Accept(timeout)
      PROVE  ToldInv'
  BY <1>1 DEF Accept, ToldInv, Reported, WantsDisc, PcTyped, LocksTyped, NetTyped,
      HistTyped, LocksInv, HoldsSubscribers, Threads, Goto, histVars
<1>2. ASSUME NEW c \in Conn, Receive(c)
      PROVE  ToldInv'
  BY <1>2 DEF Receive, ToldInv, Reported, WantsDisc, PcTyped, LocksTyped, NetTyped,
      HistTyped, LocksInv, HoldsSubscribers, Threads, Goto, histVars
<1>3. ASSUME NEW c \in Conn, PublishMsg(c)
      PROVE  ToldInv'
  BY <1>3 DEF PublishMsg, ToldInv, Reported, WantsDisc, WantsMsg, PcTyped, LocksTyped,
      NetTyped, HistTyped, LocksInv, HoldsSubscribers, Threads, Goto, histVars
<1>4. ASSUME NEW c \in Conn, PublishMsgReturn(c)
      PROVE  ToldInv'
  BY <1>4 DEF PublishMsgReturn, ToldInv, Reported, WantsDisc, PcTyped, LocksTyped,
      NetTyped, HistTyped, LocksInv, HoldsSubscribers, Threads, Goto, histVars
<1>5. ASSUME NEW c \in Conn, PublishDisc(c)
      PROVE  ToldInv'
  BY <1>5 DEF PublishDisc, ToldInv, Reported, WantsDisc, PcTyped, LocksTyped, NetTyped,
      HistTyped, LocksInv, HoldsSubscribers, Threads, Goto, histVars
<1>6. ASSUME NEW c \in Conn, PublishDiscReturn(c)
      PROVE  ToldInv'
  BY <1>6 DEF PublishDiscReturn, ToldInv, Reported, WantsDisc, PcTyped, LocksTyped,
      NetTyped, HistTyped, LocksInv, HoldsSubscribers, Threads, Goto, histVars
<1>7. ASSUME NEW c \in Conn, DecRead(c)
      PROVE  ToldInv'
  BY <1>7 DEF DecRead, ToldInv, Reported, WantsDisc, PcTyped, LocksTyped, NetTyped,
      HistTyped, LocksInv, HoldsSubscribers, Threads, Goto, histVars
<1>8. ASSUME NEW c \in Conn, DecWrite(c)
      PROVE  ToldInv'
  BY <1>8 DEF DecWrite, ToldInv, Reported, WantsDisc, PcTyped, LocksTyped, NetTyped,
      HistTyped, LocksInv, HoldsSubscribers, Threads, Goto, histVars
<1>9. CASE Subscribe
  BY <1>9 DEF Subscribe, ToldInv, Reported, WantsDisc, PcTyped, LocksTyped, NetTyped,
      HistTyped, LocksInv, HoldsSubscribers, Threads, Goto, histVars
<1>10. ASSUME NEW c \in Conn, NEW o \in Observers, HandleMsg(c, o)
      PROVE  ToldInv'
  BY <1>10 DEF HandleMsg, ToldInv, Reported, WantsDisc, PcTyped, LocksTyped, NetTyped,
      HistTyped, LocksInv, HoldsSubscribers, Threads, Goto, histVars
<1>11. ASSUME NEW c \in Conn, NEW o \in Observers, HandleDisc(c, o)
      PROVE  ToldInv'
  BY <1>11 DEF HandleDisc, ToldInv, Reported, WantsDisc, PcTyped, LocksTyped, NetTyped,
      HistTyped, LocksInv, HoldsSubscribers, Threads, Goto, histVars
<1>12. CASE /\ \A d \in Conn : pc'[d] = pc[d]
            /\ UNCHANGED <<calls, subscribers, heard, told>>
  BY <1>12 DEF ToldInv, Reported, WantsDisc
<1>13. QED
  BY <1>1, <1>2, <1>3, <1>4, <1>5, <1>6, <1>7, <1>8, <1>9, <1>10, <1>11, <1>12,
     ReceiverFrame, ToldFrame
(* The inductive invariant of this module, alone and with those below it.  *)
EventInv == ConnectedInv /\ ByteInv /\ ToldInv

AllInv == ListsInv /\ OutlivesReceiver /\ EventInv

(* EventInv holds initially.                                               *)
LEMMA EventInit == Init => EventInv
<1> SUFFICES ASSUME Init PROVE EventInv
  OBVIOUS
<1>1. pc = [t \in Threads |-> IF t = Owner THEN "idle" ELSE "none"]
  BY DEF Init
<1>2. \A c \in Conn : pc[c] = "none"
  BY <1>1, ThreadsAssumption DEF Threads
<1>3. ConnectedInv
  BY <1>2 DEF Init, ConnectedInv
<1>4. ByteInv
  BY <1>2 DEF Init, ByteInv, Over
<1>5. ToldInv
  BY <1>2 DEF Init, ToldInv
<1>6. QED
  BY <1>3, <1>4, <1>5 DEF EventInv

(* The invariants of the three proof modules together are kept by every    *)
(* step.                                                                   *)
LEMMA AllStep == AllInv /\ [Next]_vars => AllInv'
<1> SUFFICES ASSUME AllInv, [Next]_vars PROVE AllInv'
  OBVIOUS
<1>1. CoreInv /\ BornInv /\ ListInv /\ OutlivesReceiver /\ EventInv /\ TypeOK /\ LocalInv
  BY DEF AllInv, ListsInv, CoreInv
<1>2. CoreInv' /\ BornInv' /\ ListInv' /\ OutlivesReceiver'
  BY <1>1, CoreStep, BornStep, ListStep, OutlivesStep
<1>3. ConnectedInv' /\ ByteInv' /\ ToldInv'
  BY <1>1, ConnectedStep, ByteStep, ToldStep DEF EventInv
<1>4. QED
  BY <1>2, <1>3 DEF AllInv, ListsInv, EventInv

(* What has been published about a client, in every reachable state.       *)
THEOREM EventInvariant == Spec => []AllInv
<1>1. Init => AllInv
  BY CoreInit, ListInit, EventInit DEF AllInv, ListsInv, Init, OutlivesReceiver
<1>2. QED
  BY <1>1, AllStep, PTL DEF Spec

(* When the disconnection of a peer that closed in order is published,     *)
(* recv() has returned all that it sent and each packet was published,     *)
(* however the bytes were cut into packets (Client::receiveTask).          *)
THEOREM MessagesFirst == Spec => []MessagesBeforeDisconnect
<1>1. AllInv => MessagesBeforeDisconnect
  <2> SUFFICES ASSUME AllInv, NEW c \in Conn, peer[c] = "fin", pc[c] = "inDisc" \/ Reported(c)
               PROVE  received[c] = sent[c] /\ handed[c] = packets[c]
    BY DEF MessagesBeforeDisconnect
  <2>1. sent[c] \in Nat /\ received[c] \in Nat /\ handed[c] \in Nat
    BY DEF AllInv, ListsInv, CoreInv, TypeOK, NetTyped, HistTyped
  <2>2. inbox[c] = 0 /\ packets[c] = handed[c] + 0 /\ sent[c] = inbox[c] + received[c]
    BY DEF AllInv, EventInv, ByteInv, Over, Reported
  <2>3. QED
    BY <2>1, <2>2
<1>2. QED
  BY <1>1, EventInvariant, PTL

(* Nobody who was given a message of a client, and asks for its address,   *)
(* misses the disconnection: the object is released only after that.       *)
THEOREM ToldFirst == Spec => []ToldBeforeRelease
<1>1. AllInv => ToldBeforeRelease
  BY DEF AllInv, EventInv, ToldInv, OutlivesReceiver, ToldBeforeRelease, Reported, WantsDisc
<1>2. QED
  BY <1>1, EventInvariant, PTL

-----------------------------------------------------------------------------
(***************************************************************************)
(* What a success of sendToAllClients and sendToClient means.              *)
(***************************************************************************)
Left(c) == peer[c] \in {"fin", "rst"}

(* While the loop of sendToAllClients runs, a client that did not take the *)
(* message whole has left or is still to come in the list; after a success *)
(* it has left.                                                            *)
SendInv ==
  /\ pc[Owner] = "send" =>
       \A c \in missed : Left(c) \/ \E i \in DOMAIN clients : iter <= i /\ clients[i] = c
  /\ ret = "sendOk" => \A c \in missed : Left(c)

(* A count between 1 and the size of the message is found to be too small: *)
(* what passes the test is all of it, or -1 for a peer that has left.      *)
LEMMA UnnoticedFailure ==
  ASSUME NEW c \in Conn, NEW n \in SendResults(c), SendReportsSuccess(n), n # MsgSize
  PROVE  peer[c] # "up"
<1> SUFFICES ASSUME peer[c] = "up" PROVE FALSE
  OBVIOUS
<1>1. n \in 1..MsgSize
  BY DEF SendResults
<1>2. SizeT(n) = n
  BY <1>1, BoundsAssumption, SizeTSmall
<1> QED
  BY <1>1, <1>2, BoundsAssumption DEF SendReportsSuccess

(* A peer that has left stays away.                                        *)
LEMMA LeftStays ==
  ASSUME NetTyped, NEW d \in Conn, Left(d), [Next]_vars
  PROVE  Left(d)'
<1>1. CASE CloseListener
  BY <1>1 DEF CloseListener, Left, NetTyped
<1>2. ASSUME NEW c \in Conn, PeerConnect(c) \/ PeerClose(c) \/ PeerReset(c) PROVE Left(d)'
  BY <1>2 DEF PeerConnect, PeerClose, PeerReset, Left, NetTyped
<1>3. ASSUME NEW c \in Conn, Receive(c) \/ PublishMsgReturn(c) \/ PeerSend(c)
      PROVE  Left(d)'
  BY <1>3 DEF Receive, PublishMsgReturn, PeerSend, Left, netVars
<1>4. CASE UNCHANGED peer
  BY <1>4 DEF Left
<1> QED
  BY <1>1, <1>2, <1>3, <1>4, ByteFrame

(* Only SendToAllLock enters the loop of sendToAllClients.                 *)
LEMMA EnterSend ==
  ASSUME PcTyped, [Next]_vars, pc'[Owner] = "send"
  PROVE  pc[Owner] = "send" \/ SendToAllLock
<1> USE ThreadsAssumption DEF PcTyped, Threads, Goto
<1>1. ASSUME NEW auto \in AutoRemove, NEW fd \in StartResults, Start(auto, fd)
      PROVE  pc[Owner] = "send"
  BY <1>1 DEF Start, StartRemover
<1>2. CASE \/ SubscribeCall \/ Subscribe \/ PushClient \/ CountClient \/ SendToAllCall
           \/ SendToAllReturn \/ SendToClientCall
  BY <1>2 DEF SubscribeCall, Subscribe, PushClient, CountClient, SendToAllCall,
     SendToAllReturn, SendToClientCall
<1>3. CASE TerminateRemover \/ JoinRemover \/ CloseLock \/ ClearClients \/ CloseListener
  BY <1>3 DEF TerminateRemover, JoinRemover, CloseLock, ClearClients, CloseListener
<1>4. ASSUME NEW timeout \in Timeouts, Accept(timeout)
      PROVE  pc[Owner] = "send"
  <2>1. pc' = [pc EXCEPT ![Owner] = "push", ![Head(queue)] = "receive"]
    BY <1>4 DEF Accept
  <2> QED
    BY <2>1
<1>5. ASSUME NEW n \in -1..MsgSize, SendToNext(n)
      PROVE  pc[Owner] = "send"
  BY <1>5 DEF SendToNext
<1>6. ASSUME NEW ip \in Ip, SendToClient(ip)
      PROVE  pc[Owner] = "send"
  BY <1>6 DEF SendToClient
<1>7. ASSUME NEW r \in Removers,
             \/ RemoverCheck(r) \/ RemoverLock(r) \/ RemoverScan(r) \/ RemoverUnlock(r)
             \/ DeleteClient(r) \/ EraseClient(r) \/ RemoverWake(r)
      PROVE  pc[Owner] = "send"
  BY <1>7 DEF RemoverCheck, RemoverLock, RemoverScan, RemoverUnlock, DeleteClient,
     EraseClient, RemoverWake
<1>8. ASSUME NEW c \in Conn,
             \/ Receive(c) \/ PublishMsg(c) \/ PublishMsgReturn(c) \/ PublishDisc(c)
             \/ PublishDiscReturn(c) \/ DecRead(c) \/ DecWrite(c)
      PROVE  pc[Owner] = "send"
  BY <1>8 DEF Receive, PublishMsg, PublishMsgReturn, PublishDisc, PublishDiscReturn,
     DecRead, DecWrite
<1>9. CASE UNCHANGED pc
  BY <1>9
<1> QED
  BY <1>1, <1>2, <1>3, <1>4, <1>5, <1>6, <1>7, <1>8, <1>9, PcFrame

(* While sendToAllClients holds _clientsMtx nobody else moves the iterator *)
(* or writes _clients.                                                     *)
LEMMA ListHeld ==
  ASSUME ListsInv, pc[Owner] = "send", [Next]_vars
  PROVE  \/ UNCHANGED <<clients, iter>>
         \/ SendToAllReturn \/ \E n \in -1..MsgSize : SendToNext(n)
<1> /\ clientsMtx = Owner /\ Owner # None
    /\ \A r \in Removers : pc[r] \notin {"scan", "join", "erase"}
  BY Exclusive DEF ListsInv
<1>1. ~(PushClient \/ SendToAllLock \/ CloseLock \/ CloseClient \/ ClearClients)
  BY DEF PushClient, SendToAllLock, CloseLock, CloseClient, ClearClients, Goto
<1>2. ASSUME NEW r \in Removers
      PROVE  ~(RemoverLock(r) \/ RemoverScan(r) \/ RemoverUnlock(r)
               \/ DeleteClient(r) \/ EraseClient(r))
  BY <1>2 DEF RemoverLock, RemoverScan, RemoverUnlock, DeleteClient, EraseClient, Goto
<1>3. ASSUME NEW timeout \in Timeouts, Accept(timeout) PROVE FALSE
  BY <1>3 DEF Accept
<1> QED
  BY <1>1, <1>2, <1>3, ListObjFrame

(* Every step keeps SendInv.                                               *)
LEMMA SendStep ==
  ASSUME ListsInv, SendInv, [Next]_vars
  PROVE  SendInv'
<1> USE ThreadsAssumption
<1> PcTyped /\ OwnerTyped /\ ListTyped /\ NetTyped
  BY DEF ListsInv, CoreInv, TypeOK
<1> DEFINE Ahead(c) == \E i \in DOMAIN clients : iter <= i /\ clients[i] = c
           Goal == /\ pc'[Owner] = "send" => \A c \in missed' : Left(c)' \/ Ahead(c)'
                   /\ ret' = "sendOk" => \A c \in missed' : Left(c)'
<1> SUFFICES Goal
  BY DEF SendInv
<1>a. \A c \in missed : Left(c) => Left(c)'
  BY LeftStays DEF OwnerTyped
<1>b. ASSUME NEW c \in Conn, Listed(c), NEW n \in SendResults(c), SendReportsSuccess(n), n # MsgSize
      PROVE  Left(c)
  <2>1. obj[c] # "unborn"
    BY <1>b DEF Listed, ListsInv, ListInv, ObjOf
  <2>2. peer[c] # "idle"
    BY <2>1 DEF ListsInv, BornInv, CoreInv, FreshInv
  <2>3. peer[c] # "up"
    BY <1>b, UnnoticedFailure
  <2> QED
    BY <2>2, <2>3 DEF Left, NetTyped
<1>c. pc'[Owner] = "send" => pc[Owner] = "send" \/ SendToAllLock
  BY EnterSend
<1>1. CASE SendToAllLock
  <2>1. /\ iter' = 1 /\ clients' = clients /\ ret' = "none"
        /\ missed' = {clients[i] : i \in DOMAIN clients}
    BY <1>1 DEF SendToAllLock
  <2>2. \A c \in missed' : Ahead(c)'
    BY <2>1 DEF ListTyped
  <2> QED
    BY <2>1, <2>2
<1>2. ASSUME NEW n \in -1..MsgSize, SendToNext(n) PROVE Goal
  <2> DEFINE d == clients[iter]
  <2>1. /\ pc[Owner] = "send" /\ d \in Conn /\ Listed(d) /\ n \in SendResults(d)
        /\ clients' = clients /\ iter \in Nat /\ missed' \subseteq missed
        /\ (n = MsgSize => d \notin missed')
    BY <1>2 DEF SendToNext, ListTyped, Listed
  <2>2. CASE ~SendReportsSuccess(n)
    <3>1. pc' = [pc EXCEPT ![Owner] = "idle"] /\ ret' = "sendFail"
      BY <1>2, <2>2 DEF SendToNext
    <3> QED
      BY <3>1 DEF PcTyped, Threads
  <2>3. CASE SendReportsSuccess(n)
    <3>1. iter' = iter + 1 /\ ret' = ret
      BY <1>2, <2>3 DEF SendToNext
    <3>2. ASSUME NEW c \in missed' PROVE Left(c)' \/ Ahead(c)'
      <4>1. CASE Left(c)
        BY <1>a, <2>1, <4>1
      <4>2. CASE Ahead(c)
        <5>1. PICK i \in DOMAIN clients : iter <= i /\ clients[i] = c
          BY <4>2
        <5>2. CASE i = iter
          <6>1. n # MsgSize
            BY <2>1, <3>2, <5>1, <5>2
          <6>2. Left(c)
            BY <1>b, <2>1, <2>3, <5>1, <5>2, <6>1
          <6> QED
            BY <1>a, <2>1, <6>2
        <5>3. CASE i # iter
          <6>1. iter' <= i
            BY <2>1, <3>1, <5>1, <5>3 DEF ListTyped
          <6> QED
            BY <2>1, <5>1, <6>1
        <5> QED
          BY <5>2, <5>3
      <4> QED
        BY <2>1, <3>2, <4>1, <4>2 DEF SendInv
    <3> QED
      BY <1>a, <2>1, <3>1, <3>2 DEF SendInv
  <2> QED
    BY <2>2, <2>3
<1>3. CASE SendToAllReturn
  <2>1. /\ pc[Owner] = "send" /\ pc'[Owner] # "send" /\ missed' = missed
        /\ iter > Len(clients) /\ iter \in Nat
    BY <1>3 DEF SendToAllReturn, Goto, PcTyped, Threads, ListTyped
  <2>2. \A c \in missed : ~Ahead(c)
    BY <2>1 DEF ListTyped
  <2>3. \A c \in missed : Left(c)
    BY <2>1, <2>2 DEF SendInv
  <2> QED
    BY <1>a, <2>1, <2>3
<1>4. ASSUME NEW ip \in Ip, SendToClient(ip) PROVE Goal
  <2>1. pc'[Owner] # "send"
    BY <1>4 DEF SendToClient, Goto, PcTyped, Threads
  <2>2. ASSUME ret' = "sendOk", NEW c \in missed' PROVE Left(c)'
    <3>0. PICK i \in DOMAIN clients : \E n \in SendResults(clients[i]) :
            /\ missed' = IF n = MsgSize THEN {} ELSE {clients[i]}
            /\ ret' = IF SendReportsSuccess(n) THEN "sendOk" ELSE "sendFail"
      BY <1>4, <2>2 DEF SendToClient
    <3>1. PICK n \in SendResults(clients[i]) :
            /\ missed' = IF n = MsgSize THEN {} ELSE {clients[i]}
            /\ ret' = IF SendReportsSuccess(n) THEN "sendOk" ELSE "sendFail"
      BY <3>0
    <3>2. n # MsgSize /\ c = clients[i] /\ SendReportsSuccess(n)
      BY <2>2, <3>1
    <3>3. c \in Conn /\ Listed(c)
      BY <3>2 DEF ListTyped, Listed
    <3>4. Left(c)
      BY <1>b, <3>2, <3>3
    <3> QED
      BY <3>3, <3>4, LeftStays
  <2> QED
    BY <2>1, <2>2
<1>5. CASE UNCHANGED <<missed, ret>> \/ (missed' = missed /\ ret' # "sendOk")
  <2>1. CASE SendToAllReturn \/ SendToAllLock \/ \E n \in -1..MsgSize : SendToNext(n)
    BY <1>1, <1>2, <1>3, <2>1
  <2>2. CASE ~(SendToAllReturn \/ SendToAllLock \/ \E n \in -1..MsgSize : SendToNext(n))
    <3>1. pc'[Owner] = "send" => pc[Owner] = "send" /\ UNCHANGED <<clients, iter>>
      BY <1>c, <2>2, ListHeld
    <3> QED
      BY <1>a, <1>5, <3>1 DEF SendInv
  <2> QED
    BY <2>1, <2>2
<1>6. ASSUME NEW auto \in AutoRemove, NEW fd \in StartResults, Start(auto, fd) PROVE Goal
  BY <1>5, <1>6 DEF Start
<1>7. ASSUME NEW timeout \in Timeouts, Accept(timeout) \/ AcceptFails(timeout) PROVE Goal
  BY <1>5, <1>7 DEF Accept, AcceptFails
<1>8. CASE PushClient \/ SendToAllCall \/ SendToClientCall \/ TerminateRemover \/ CloseListener
  BY <1>5, <1>8 DEF PushClient, SendToAllCall, SendToClientCall, TerminateRemover,
     CloseListener, ownerVars
<1>9. CASE UNCHANGED ownerVars
  BY <1>5, <1>9 DEF ownerVars
<1> QED
  BY <1>1, <1>2, <1>3, <1>4, <1>6, <1>7, <1>8, <1>9, OwnerFrame

(* After a success of sendToAllClients or sendToClient each client that    *)
(* the message was meant for took all of it, unless its own peer had left: *)
(* only the -1 of a failed send() passes the test as a size_t              *)
(* (sendToAllClients at tcp_server.cpp:280, Client::send at client.cpp:31).*)
THEOREM SuccessfulSends == Spec => []ShortSendReported
<1>1. Init => SendInv
  BY DEF Init, SendInv
<1>2. ListsInv /\ SendInv /\ [Next]_vars => SendInv'
  BY SendStep
<1>3. SendInv => ShortSendReported
  BY DEF SendInv, ShortSendReported, Left
<1> QED
  BY <1>1, <1>2, <1>3, ListInvariant, PTL DEF Spec

-----------------------------------------------------------------------------
(***************************************************************************)
(* The refinement of ClientLifecycle.                                      *)
(***************************************************************************)

(* Which stage a client is in follows from where its thread is, until its  *)
(* descriptor is closed.                                                   *)
StageFacts ==
  \A c \in Conn :
    /\ pc[c] = "none" => stage[c] = "absent"
    /\ pc[c] \in {"receive", "lockMsg", "inMsg"} => stage[c] = "served"
    /\ pc[c] \in {"lockDisc", "inDisc"} => stage[c] = "dead"
    /\ pc[c] \in {"decRead", "decWrite"} => stage[c] = "reported"
    /\ pc[c] = "exit" /\ obj[c] = "open" => stage[c] = "reported"
    /\ obj[c] \in {"closed", "freed"} => stage[c] = "released"

(* The stage of a client follows from where its receive thread is and from *)
(* the state of its object.                                                *)
LEMMA StageByLabel == AllInv => StageFacts
<1> SUFFICES ASSUME AllInv, NEW c \in Conn
             PROVE  /\ pc[c] = "none" => stage[c] = "absent"
                    /\ pc[c] \in {"receive", "lockMsg", "inMsg"} => stage[c] = "served"
                    /\ pc[c] \in {"lockDisc", "inDisc"} => stage[c] = "dead"
                    /\ pc[c] \in {"decRead", "decWrite"} => stage[c] = "reported"
                    /\ pc[c] = "exit" /\ obj[c] = "open" => stage[c] = "reported"
                    /\ obj[c] \in {"closed", "freed"} => stage[c] = "released"
  BY DEF StageFacts
<1>1. /\ obj[c] \in {"unborn", "open", "closed", "freed"}
      /\ obj[c] = "unborn" <=> pc[c] = "none"
      /\ isConnected[c] <=> pc[c] \in {"receive", "lockMsg", "inMsg"}
      /\ obj[c] \in {"closed", "freed"} => pc[c] = "exit"
  BY DEF AllInv, ListsInv, CoreInv, TypeOK, ObjTyped, BornInv, EventInv, ConnectedInv,
     OutlivesReceiver
<1>2. QED
  BY <1>1 DEF stage, StageOf

(* A client that no step touches stays in its stage.                       *)
LEMMA StageSame ==
  ASSUME AllInv, AllInv', NEW c \in Conn, pc'[c] = pc[c], obj'[c] = obj[c]
  PROVE  stage'[c] = stage[c]
<1>1. /\ isConnected[c] <=> pc[c] \in {"receive", "lockMsg", "inMsg"}
      /\ isConnected'[c] <=> pc'[c] \in {"receive", "lockMsg", "inMsg"}
  BY DEF AllInv, EventInv, ConnectedInv
<1>2. QED
  BY <1>1 DEF stage, StageOf

(* A step that touches one client moves that one in the abstract state.    *)
LEMMA StageMove ==
  ASSUME AllInv, AllInv', NEW c \in Conn,
         \A d \in Conn : d # c => pc'[d] = pc[d] /\ obj'[d] = obj[d]
  PROVE  Lifecycle!Move(c, stage[c], stage'[c])
<1>1. stage' = [stage EXCEPT ![c] = stage'[c]]
  BY StageSame DEF stage
<1>2. QED
  BY <1>1 DEF Lifecycle!Move

(* Two abstract states that agree on every client are equal.               *)
LEMMA StageEqual ==
  ASSUME \A c \in Conn : stage'[c] = stage[c]
  PROVE  stage' = stage
BY DEF stage

(* Every step of the server is a step of ClientLifecycle or leaves its     *)
(* variables alone; one case per kind of step that it can see.             *)
LEMMA StepRefines ==
  ASSUME AllInv, [Next]_vars
  PROVE  [Lifecycle!Next]_(Lifecycle!lifeVars)
<1> USE ThreadsAssumption DEF Goto
<1> /\ AllInv' /\ BornInv /\ ListInv /\ ListsInv /\ OutlivesReceiver
    /\ PcTyped /\ ObjTyped /\ NetTyped /\ ListTyped /\ LocksInv /\ LocalInv /\ FreshInv
  BY AllStep DEF AllInv, ListsInv, CoreInv, TypeOK
<1> StageFacts
  BY StageByLabel
<1> StageFacts'
  BY StageByLabel, PTL
<1>1. ASSUME NEW timeout \in Timeouts, Accept(timeout)
      PROVE  Lifecycle!Next
  <2> DEFINE q == queue[1]
  <2>1. q \in Conn /\ pc[q] = "none" /\ subscribersMtx' = subscribersMtx
    BY <1>1 DEF Accept, NetTyped, FreshInv
  <2>2. /\ pc'[q] = "receive"
        /\ \A d \in Conn : d # q => pc'[d] = pc[d] /\ obj'[d] = obj[d]
    BY <1>1, <2>1 DEF Accept, NetTyped, PcTyped, ObjTyped, Threads
  <2>3. stage[q] = "absent" /\ stage'[q] = "served"
    BY <2>1, <2>2 DEF StageFacts
  <2>4. Lifecycle!Serve(q)
    BY <2>1, <2>2, <2>3, StageMove DEF Lifecycle!Serve
  <2>5. QED
    BY <2>1, <2>4 DEF Lifecycle!Next
<1>2. ASSUME NEW c \in Conn, Receive(c)
      PROVE  [Lifecycle!Next]_(Lifecycle!lifeVars)
  <2>1. /\ pc[c] = "receive" /\ pc'[c] \in {"lockDisc", "lockMsg"}
        /\ \A d \in Conn : d # c => pc'[d] = pc[d] /\ obj'[d] = obj[d]
        /\ UNCHANGED <<obj, subscribersMtx>>
    BY <1>2 DEF Receive, PcTyped, Threads
  <2>2. subscribersMtx # c
    BY <2>1 DEF LocksInv, HoldsSubscribers, Threads
  <2>3. CASE pc'[c] = "lockDisc"
    <3>1. stage[c] = "served" /\ stage'[c] = "dead"
      BY <2>1, <2>3 DEF StageFacts
    <3>2. Lifecycle!Die(c)
      BY <2>1, <2>2, <3>1, StageMove DEF Lifecycle!Die
    <3>3. QED
      BY <3>2 DEF Lifecycle!Next
  <2>4. CASE pc'[c] = "lockMsg"
    <3>1. \A d \in Conn : stage'[d] = stage[d]
      BY <2>1, <2>4, StageSame DEF StageFacts
    <3>2. QED
      BY <2>1, <3>1, StageEqual DEF Lifecycle!lifeVars
  <2>5. QED
    BY <2>1, <2>3, <2>4
<1>3. ASSUME NEW c \in Conn, PublishMsg(c) \/ PublishMsgReturn(c) \/ PublishDisc(c)
      PROVE  Lifecycle!Next
  <2>1. /\ \A d \in Conn : d # c => pc'[d] = pc[d]
        /\ obj' = obj
        /\ \/ /\ pc[c] = "lockMsg" /\ pc'[c] = "inMsg"
              /\ subscribersMtx = None /\ subscribersMtx' = c
           \/ pc[c] = "inMsg" /\ pc'[c] = "receive" /\ subscribersMtx' = None
           \/ /\ pc[c] = "lockDisc" /\ pc'[c] = "inDisc"
              /\ subscribersMtx = None /\ subscribersMtx' = c
    BY <1>3 DEF PublishMsg, PublishMsgReturn, PublishDisc, objVars, PcTyped, Threads
  <2>2. stage'[c] = stage[c]
    BY <2>1 DEF StageFacts
  <2>3. \A d \in Conn : stage'[d] = stage[d]
    BY <2>1, <2>2, StageSame
  <2>4. pc[c] = "inMsg" => subscribersMtx = c
    BY DEF LocksInv, HoldsSubscribers, Threads
  <2>5. stage[c] = IF pc[c] = "lockDisc" THEN "dead" ELSE "served"
    BY <2>1 DEF StageFacts
  <2>6. Lifecycle!BeginMessage(c) \/ Lifecycle!EndMessage(c) \/ Lifecycle!BeginReport(c)
    BY <2>1, <2>3, <2>4, <2>5, StageEqual
    DEF Lifecycle!BeginMessage, Lifecycle!EndMessage, Lifecycle!BeginReport
  <2>7. QED
    BY <2>6 DEF Lifecycle!Next
<1>4. ASSUME NEW c \in Conn, PublishDiscReturn(c)
      PROVE  Lifecycle!Next
  <2>1. /\ pc[c] = "inDisc" /\ pc'[c] = "decRead" /\ subscribersMtx' = None
        /\ \A d \in Conn : d # c => pc'[d] = pc[d] /\ obj'[d] = obj[d]
    BY <1>4 DEF PublishDiscReturn, objVars, PcTyped, Threads
  <2>2. subscribersMtx = c
    BY <2>1 DEF LocksInv, HoldsSubscribers, Threads
  <2>3. stage[c] = "dead" /\ stage'[c] = "reported"
    BY <2>1 DEF StageFacts
  <2>4. Lifecycle!EndReport(c)
    BY <2>1, <2>2, <2>3, StageMove DEF Lifecycle!EndReport
  <2>5. QED
    BY <2>4 DEF Lifecycle!Next
<1>5. ASSUME NEW c \in Conn, DecRead(c) \/ DecWrite(c)
      PROVE  UNCHANGED Lifecycle!lifeVars
  <2>1. /\ pc[c] \in {"decRead", "decWrite"} /\ pc'[c] \in {"decWrite", "exit"}
        /\ \A d \in Conn : d # c => pc'[d] = pc[d]
        /\ UNCHANGED <<obj, subscribersMtx>>
    BY <1>5 DEF DecRead, DecWrite, objVars, PcTyped, Threads
  <2>2. obj[c] = "open"
    BY <2>1 DEF ObjTyped, BornInv, OutlivesReceiver
  <2>3. stage'[c] = stage[c]
    BY <2>1, <2>2 DEF StageFacts
  <2>4. \A d \in Conn : stage'[d] = stage[d]
    BY <2>1, <2>3, StageSame
  <2>5. QED
    BY <2>1, <2>4, StageEqual DEF Lifecycle!lifeVars
<1>6. ASSUME CloseClient \/ \E r \in Removers : DeleteClient(r)
      PROVE  Lifecycle!Next
  <2> DEFINE c == clients[iter]
  <2>1. iter \in DOMAIN clients /\ c \in Conn
    BY <1>6 DEF CloseClient, DeleteClient, LocalInv, ListTyped
  <2>2. obj[c] = "open"
    <3>1. CASE CloseClient
      BY <2>1, <3>1, ClosedOnceStep DEF CloseClient, NoDoubleClose
    <3>2. ASSUME NEW r \in Removers, DeleteClient(r) PROVE obj[c] = "open"
      BY <3>2, ClosedOnceStep DEF DeleteClient, NoDoubleClose
    <3>3. QED
      BY <1>6, <3>1, <3>2
  <2>3. /\ pc[c] = "exit" /\ obj'[c] \in {"closed", "freed"}
        /\ \A d \in Conn : d # c => pc'[d] = pc[d] /\ obj'[d] = obj[d]
        /\ UNCHANGED subscribersMtx
    BY <1>6, <2>1 DEF CloseClient, DeleteClient, ReceiverJoined, ObjTyped, PcTyped, Threads
  <2>4. stage[c] = "reported" /\ stage'[c] = "released"
    BY <2>1, <2>2, <2>3 DEF StageFacts
  <2>5. Lifecycle!Release(c)
    BY <2>1, <2>3, <2>4, StageMove DEF Lifecycle!Release
  <2>6. QED
    BY <2>1, <2>5 DEF Lifecycle!Next
<1>7. CASE (\A d \in Conn : pc'[d] = pc[d]) /\ UNCHANGED <<obj, subscribersMtx>>
  <2>1. \A d \in Conn : stage'[d] = stage[d]
    BY <1>7, StageSame
  <2>2. QED
    BY <1>7, <2>1, StageEqual DEF Lifecycle!lifeVars
<1>8. QED
  BY <1>1, <1>2, <1>3, <1>4, <1>5, <1>6, <1>7, ReceiverFrame, ObjStateFrame, SubscribersFrame

(* The events of a client come one at a time and in the order of its life, *)
(* and it is released once, after it was reported: the safety part of      *)
(* ImplementsLifecycle.                                                    *)
THEOREM Refinement == Spec => Lifecycle!Spec
<1>1. Init => Lifecycle!Init
  <2> SUFFICES ASSUME Init PROVE Lifecycle!Init
    OBVIOUS
  <2>1. \A c \in Conn : stage[c] = "absent"
    BY DEF Init, stage, StageOf
  <2>2. stage = [c \in Conn |-> "absent"]
    BY <2>1 DEF stage
  <2>3. QED
    BY <2>2 DEF Init, Lifecycle!Init
<1>2. AllInv /\ [Next]_vars => [Lifecycle!Next]_(Lifecycle!lifeVars)
  BY StepRefines
<1>3. QED
  BY <1>1, <1>2, EventInvariant, PTL DEF Spec, Lifecycle!Spec
=============================================================================
