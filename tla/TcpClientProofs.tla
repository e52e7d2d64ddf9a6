-------------------------- MODULE TcpClientProofs --------------------------
(***************************************************************************)
(* Proofs about TcpClient, for any number of receive threads, sockets and  *)
(* observers and any bounds.                                               *)
(***************************************************************************)
EXTENDS TcpClient, TLAPS

-----------------------------------------------------------------------------
(* What recv() takes and what the two conversions to size_t give.          *)
LEMMA RecvCount ==
  ASSUME TypeOK, NEW s \in Socks \cup {None}
  PROVE  /\ SizeT(RecvResult(s)) \in Nat
         /\ IsOpen(s) => Taken(s) \in 0..inbox[s] /\ (inbox[s] > 0 => Taken(s) > 0)
<1> USE ClientThreadsAssumption, ClientBoundsAssumption
<1>1. IsOpen(s) => inbox[s] \in Nat /\ s \in Socks
  BY DEF TypeOK, IsOpen
<1>2. IsOpen(s) => Taken(s) \in 0..inbox[s] /\ (inbox[s] > 0 => Taken(s) > 0)
  BY <1>1 DEF Taken
<1>3. RecvResult(s) \in Int
  BY <1>2 DEF RecvResult
<1> QED
  BY <1>2, <1>3 DEF SizeT

LEMMA SizeTSmall ==
  ASSUME NEW n \in Nat, n < SizeMod
  PROVE  SizeT(n) = n
BY ClientBoundsAssumption, SMTT(30) DEF SizeT

(* A success that is reported is one, or send() failed with -1.            *)
LEMMA Reported ==
  ASSUME NEW n \in SendResults, SendReportsSuccess(n), n # MsgSize
  PROVE  ~IsOpen(sockfd) \/ server[sockfd] # "up"
<1> SUFFICES ASSUME IsOpen(sockfd), server[sockfd] = "up"
             PROVE  FALSE
  OBVIOUS
<1>1. n \in 1..MsgSize
  BY DEF SendResults
<1>2. SizeT(n) = n
  BY <1>1, ClientBoundsAssumption, SizeTSmall
<1> QED
  BY <1>1, <1>2, ClientBoundsAssumption DEF SendReportsSuccess

(* The types.                                                              *)
LEMMA TypingStep ==
  ASSUME TypeOK, [Next]_vars
  PROVE  TypeOK'
<1> USE ClientThreadsAssumption, ClientBoundsAssumption
<1> USE DEF TypeOK, Threads, Closers, ReceiverLabels, CloserLabels, Goto, Runs,
            procVars, obsVars, clientVars, callVars, netVars, recvVars
<1>1. ASSUME NEW s \in Socks, CreateSocket(s) PROVE TypeOK'
  BY <1>1 DEF CreateSocket
<1>2. CASE SocketFails
  BY <1>2 DEF SocketFails
<1>3. CASE AddressFails
  BY <1>3 DEF AddressFails
<1>4. CASE ConnectFails
  BY <1>4 DEF ConnectFails
<1>5. ASSUME NEW r \in Receivers, Connect(r) PROVE TypeOK'
  BY <1>5 DEF Connect, IsOpen
<1>6. CASE SetConnected
  BY <1>6 DEF SetConnected
<1>7. CASE SubscribeCall
  BY <1>7 DEF SubscribeCall
<1>8. CASE SubscribeLock
  BY <1>8 DEF SubscribeLock
<1>9. CASE Subscribe
  BY <1>9 DEF Subscribe
<1>10. CASE SendMsg
  BY <1>10 DEF SendMsg
<1>11. ASSUME NEW k \in Closers, CloseCall(k) PROVE TypeOK'
  <2>1. PICK l \in {After(k), "closeFd", "join"} : pc' = [pc EXCEPT ![k] = l]
    BY <1>11 DEF CloseCall
  <2>2. l \in CloserLabels
    BY DEF After
  <2>3. /\ isConnected' \in BOOLEAN /\ ret' \in {"none", "closeFail"} /\ sendFailed' = FALSE
        /\ joins' = joins \/ joins' = [joins EXCEPT ![k] = receiveTask]
    BY <1>11 DEF CloseCall, RequestEnd
  <2>4. joins' \in [Closers -> Receivers \cup {None}]
    BY <2>3
  <2>5. /\ pc' \in [Threads -> ReceiverLabels \cup CloserLabels]
        /\ \A r \in Receivers : pc'[r] \in ReceiverLabels
        /\ \A j \in Closers : pc'[j] \in CloserLabels
    BY <2>1, <2>2
  <2>6. UNCHANGED <<host, outcome, overtaken, obsVars, isClosed, receiveTask, sockfd, netVars,
                    recvVars>>
    BY <1>11 DEF CloseCall
  <2>7. ret' \in {"none", "connectOk", "connectFail", "sendOk", "sendFail", "closeOk", "closeFail"}
    BY <2>3
  <2> QED
    BY <2>3, <2>6, <2>7, <2>4, <2>5
<1>12. ASSUME NEW k \in Closers, JoinReceiver(k) PROVE TypeOK'
  BY <1>12 DEF JoinReceiver
<1>13. ASSUME NEW k \in Closers, JoinThrows(k) PROVE TypeOK'
  BY <1>13 DEF JoinThrows, RequestEnd
<1>14. ASSUME NEW k \in Closers, CloseFd(k) PROVE TypeOK'
  BY <1>14 DEF CloseFd, After, Released, IsOpen
<1>15. ASSUME NEW t \in Signals, Interrupt(t) PROVE TypeOK'
  BY <1>15 DEF Interrupt
<1>16. CASE Exit
  BY <1>16 DEF Exit
<1>17. ASSUME NEW r \in Receivers, ReceiverCheck(r) PROVE TypeOK'
  BY <1>17 DEF ReceiverCheck
<1>18. ASSUME NEW r \in Receivers, WaitReady(r) PROVE TypeOK'
  BY <1>18 DEF WaitReady
<1>19. ASSUME NEW r \in Receivers, WaitTimeout(r) PROVE TypeOK'
  BY <1>19 DEF WaitTimeout
<1>20. ASSUME NEW r \in Receivers, WaitFails(r) PROVE TypeOK'
  BY <1>20 DEF WaitFails
<1>21. ASSUME NEW r \in Receivers, Recv(r) PROVE TypeOK'
  <2>1. SizeT(RecvResult(sockfd)) \in Nat
    BY RecvCount
  <2>2. IsOpen(sockfd) => Taken(sockfd) \in 0..inbox[sockfd] /\ sockfd \in Socks
    BY RecvCount DEF IsOpen
  <2>3. inbox' \in [Socks -> Nat] /\ sockErr' \in [Socks -> BOOLEAN]
    <3>1. CASE IsOpen(sockfd)
      <4>1. /\ inbox' = [inbox EXCEPT ![sockfd] = inbox[sockfd] - Taken(sockfd)]
            /\ sockErr' = [sockErr EXCEPT ![sockfd] = sockErr[sockfd] /\ inbox[sockfd] > 0]
        BY <1>21, <3>1 DEF Recv
      <4> QED
        BY <2>2, <3>1, <4>1
    <3>2. CASE ~IsOpen(sockfd)
      BY <1>21, <3>2 DEF Recv
    <3> QED
      BY <3>1, <3>2
  <2>4. nrecv' \in [Receivers -> Nat]
    BY <1>21, <2>1 DEF Recv
  <2>5. /\ pc' \in [Threads -> ReceiverLabels \cup CloserLabels] /\ isConnected' \in BOOLEAN
        /\ \A q \in Receivers : pc'[q] \in ReceiverLabels
        /\ \A k \in Closers : pc'[k] \in CloserLabels
    <3>1. PICK l \in {"lockDisc", "lockMsg"} : pc' = [pc EXCEPT ![r] = l]
      BY <1>21 DEF Recv
    <3>2. isConnected' \in {FALSE, isConnected}
      BY <1>21 DEF Recv
    <3> QED
      BY <3>1, <3>2
  <2> QED
    BY <1>21, <2>3, <2>4, <2>5 DEF Recv
<1>22. ASSUME NEW r \in Receivers, Publish(r) PROVE TypeOK'
  BY <1>22 DEF Publish
<1>23. ASSUME NEW r \in Receivers, NEW o \in Observers, Handle(r, o) PROVE TypeOK'
  BY <1>23 DEF Handle
<1>24. ASSUME NEW r \in Receivers, PublishMsgReturn(r) PROVE TypeOK'
  BY <1>24 DEF PublishMsgReturn
<1>25. ASSUME NEW r \in Receivers, PublishDiscReturn(r) PROVE TypeOK'
  BY <1>25 DEF PublishDiscReturn
<1>26. ASSUME NEW s \in Socks, ServerSend(s) PROVE TypeOK'
  BY <1>26 DEF ServerSend
<1>27. ASSUME NEW s \in Socks, ServerClose(s) PROVE TypeOK'
  BY <1>27 DEF ServerClose
<1>28. ASSUME NEW s \in Socks, ServerReset(s) PROVE TypeOK'
  BY <1>28 DEF ServerReset
<1>29. CASE UNCHANGED vars
  BY <1>29 DEF vars
<1>30. CASE DeleteUnjoined
  BY <1>30 DEF DeleteUnjoined
<1> QED
  BY <1>1, <1>2, <1>3, <1>4, <1>5, <1>6, <1>7, <1>8, <1>9, <1>10, <1>11, <1>12, <1>13, <1>14,
     <1>15, <1>16, <1>17, <1>18, <1>19, <1>20, <1>21, <1>22, <1>23, <1>24, <1>25, <1>26,
     <1>27, <1>28, <1>29, <1>30 DEF Next, AppCalls, AppSteps, HandlerSteps, ReceiverSteps,
     ServerSteps, Closers
-----------------------------------------------------------------------------
(***************************************************************************)
(* The inductive invariant for any use of the client.                      *)
(***************************************************************************)
(* The holder of the mutex is the one thread that is in its section.       *)
LockInv ==
  \A t \in Receivers \cup {App} :
    subscribersMtx = t <=> pc[t] \in {"inMsg", "inDisc", "subscribing"}

(* sig_exit runs only in a thread that it has stopped, and never waits for *)
(* that thread.                                                            *)
HandlerInv ==
  /\ pc[Handler] # "off" => host # None
  /\ pc[Handler] = "join" => joins[Handler] # host
  /\ host \in Receivers => pc[host] \notin {"none", "exit"}

(* A socket is made for one connection: a thread with the current one is   *)
(* the current thread, unless it has ended. So the thread has ended before *)
(* the number is closed, if App does not go on meanwhile.                  *)
MadeFor(r, s) == sockOf[r] = s /\ s # None
SocketInv ==
  /\ \A r \in Receivers :
       /\ pc[r] = "none" => sockOf[r] = None
       /\ sockOf[r] # None => sock[sockOf[r]] # "unused"
       /\ MadeFor(r, sockfd) => r = receiveTask \/ pc[r] = "exit"
       /\ pc[App] = "connect" => ~MadeFor(r, sockfd)
  /\ ~overtaken =>
       \A r \in Receivers :
         /\ \A k \in Closers : pc[k] = "closeFd" /\ MadeFor(r, sockfd) => pc[r] = "exit"
         /\ sockOf[r] # None /\ sock[sockOf[r]] = "closed" => pc[r] = "exit"

(* A success that is reported is the result of the last call.              *)
SendInv == ret = "sendOk" => pc[App] = "idle" /\ ShortSendReported

(* What is published is no empty message.                                  *)
MessageInv == \A r \in Receivers : pc[r] \in {"lockMsg", "inMsg"} => nrecv[r] > 0

AnyUseInv == TypeOK /\ LockInv /\ HandlerInv /\ SocketInv /\ SendInv /\ MessageInv

LEMMA LockStep ==
  ASSUME TypeOK, LockInv, [Next]_vars
  PROVE  LockInv'
<1> USE ClientThreadsAssumption
<1> USE DEF TypeOK, Threads, Closers, ReceiverLabels, CloserLabels, Goto, Runs,
            procVars, obsVars, clientVars, callVars, netVars, recvVars
<1> USE DEF LockInv
<1>1. ASSUME NEW s \in Socks, CreateSocket(s) PROVE LockInv'
  BY <1>1 DEF CreateSocket
<1>2. CASE SocketFails
  BY <1>2 DEF SocketFails
<1>3. CASE AddressFails
  BY <1>3 DEF AddressFails
<1>4. CASE ConnectFails
  BY <1>4 DEF ConnectFails
<1>5. ASSUME NEW r \in Receivers, Connect(r) PROVE LockInv'
  BY <1>5 DEF Connect
<1>6. CASE SetConnected
  BY <1>6 DEF SetConnected
<1>7. CASE SubscribeCall
  BY <1>7 DEF SubscribeCall
<1>8. CASE SubscribeLock
  BY <1>8 DEF SubscribeLock
<1>9. CASE Subscribe
  BY <1>9 DEF Subscribe
<1>10. CASE SendMsg
  BY <1>10 DEF SendMsg
<1>11. ASSUME NEW k \in Closers, CloseCall(k) PROVE LockInv'
  BY <1>11 DEF CloseCall, After
<1>12. ASSUME NEW k \in Closers, JoinReceiver(k) PROVE LockInv'
  BY <1>12 DEF JoinReceiver
<1>13. ASSUME NEW k \in Closers, JoinThrows(k) PROVE LockInv'
  BY <1>13 DEF JoinThrows, RequestEnd
<1>14. ASSUME NEW k \in Closers, CloseFd(k) PROVE LockInv'
  BY <1>14 DEF CloseFd, After
<1>15. ASSUME NEW t \in Signals, Interrupt(t) PROVE LockInv'
  BY <1>15 DEF Interrupt
<1>16. CASE Exit
  BY <1>16 DEF Exit
<1>17. ASSUME NEW r \in Receivers, ReceiverCheck(r) PROVE LockInv'
  BY <1>17 DEF ReceiverCheck
<1>18. ASSUME NEW r \in Receivers, WaitReady(r) PROVE LockInv'
  BY <1>18 DEF WaitReady
<1>19. ASSUME NEW r \in Receivers, WaitTimeout(r) PROVE LockInv'
  BY <1>19 DEF WaitTimeout
<1>20. ASSUME NEW r \in Receivers, WaitFails(r) PROVE LockInv'
  BY <1>20 DEF WaitFails
<1>21. ASSUME NEW r \in Receivers, Recv(r) PROVE LockInv'
  BY <1>21 DEF Recv
<1>22. ASSUME NEW r \in Receivers, Publish(r) PROVE LockInv'
  BY <1>22 DEF Publish
<1>23. ASSUME NEW r \in Receivers, NEW o \in Observers, Handle(r, o) PROVE LockInv'
  BY <1>23 DEF Handle
<1>24. ASSUME NEW r \in Receivers, PublishMsgReturn(r) PROVE LockInv'
  BY <1>24 DEF PublishMsgReturn
<1>25. ASSUME NEW r \in Receivers, PublishDiscReturn(r) PROVE LockInv'
  BY <1>25 DEF PublishDiscReturn
<1>26. ASSUME NEW s \in Socks, ServerSend(s) PROVE LockInv'
  BY <1>26 DEF ServerSend
<1>27. ASSUME NEW s \in Socks, ServerClose(s) PROVE LockInv'
  BY <1>27 DEF ServerClose
<1>28. ASSUME NEW s \in Socks, ServerReset(s) PROVE LockInv'
  BY <1>28 DEF ServerReset
<1>29. CASE UNCHANGED vars
  BY <1>29 DEF vars
<1>30. CASE DeleteUnjoined
  BY <1>30 DEF DeleteUnjoined
<1> QED
  BY <1>1, <1>2, <1>3, <1>4, <1>5, <1>6, <1>7, <1>8, <1>9, <1>10, <1>11, <1>12, <1>13, <1>14,
     <1>15, <1>16, <1>17, <1>18, <1>19, <1>20, <1>21, <1>22, <1>23, <1>24, <1>25, <1>26,
     <1>27, <1>28, <1>29, <1>30 DEF Next, AppCalls, AppSteps, HandlerSteps, ReceiverSteps,
     ServerSteps, Closers

LEMMA HandlerStep ==
  ASSUME TypeOK, HandlerInv, [Next]_vars
  PROVE  HandlerInv'
<1> USE ClientThreadsAssumption
<1> USE DEF TypeOK, Threads, Closers, ReceiverLabels, CloserLabels, Goto, Runs,
            procVars, obsVars, clientVars, callVars, netVars, recvVars
<1> USE DEF HandlerInv
<1>1. ASSUME NEW s \in Socks, CreateSocket(s) PROVE HandlerInv'
  BY <1>1 DEF CreateSocket
<1>2. CASE SocketFails
  BY <1>2 DEF SocketFails
<1>3. CASE AddressFails
  BY <1>3 DEF AddressFails
<1>4. CASE ConnectFails
  BY <1>4 DEF ConnectFails
<1>5. ASSUME NEW r \in Receivers, Connect(r) PROVE HandlerInv'
  BY <1>5 DEF Connect
<1>6. CASE SetConnected
  BY <1>6 DEF SetConnected
<1>7. CASE SubscribeCall
  BY <1>7 DEF SubscribeCall
<1>8. CASE SubscribeLock
  BY <1>8 DEF SubscribeLock
<1>9. CASE Subscribe
  BY <1>9 DEF Subscribe
<1>10. CASE SendMsg
  BY <1>10 DEF SendMsg
<1>11. ASSUME NEW k \in Closers, CloseCall(k) PROVE HandlerInv'
  <2>1. CASE k = Handler /\ pc'[Handler] = "join"
    <3>1. ~isClosed /\ joins' = [joins EXCEPT ![k] = receiveTask] /\ receiveTask # None
      BY <1>11, <2>1 DEF CloseCall, After
    <3>2. host' = host /\ host # receiveTask
      BY <1>11, <2>1, <3>1 DEF CloseCall, JoinRefused
    <3> QED
      BY <1>11, <2>1, <3>1, <3>2 DEF CloseCall
  <2>2. CASE k = Handler /\ pc'[Handler] # "join"
    BY <1>11, <2>2 DEF CloseCall, After
  <2>3. CASE k = App
    BY <1>11, <2>3 DEF CloseCall, After
  <2> QED
    BY <2>1, <2>2, <2>3
<1>12. ASSUME NEW k \in Closers, JoinReceiver(k) PROVE HandlerInv'
  BY <1>12 DEF JoinReceiver
<1>13. ASSUME NEW k \in Closers, JoinThrows(k) PROVE HandlerInv'
  BY <1>13 DEF JoinThrows, RequestEnd
<1>14. ASSUME NEW k \in Closers, CloseFd(k) PROVE HandlerInv'
  BY <1>14 DEF CloseFd, After
<1>15. ASSUME NEW t \in Signals, Interrupt(t) PROVE HandlerInv'
  BY <1>15 DEF Interrupt
<1>16. CASE Exit
  BY <1>16 DEF Exit
<1>17. ASSUME NEW r \in Receivers, ReceiverCheck(r) PROVE HandlerInv'
  BY <1>17 DEF ReceiverCheck
<1>18. ASSUME NEW r \in Receivers, WaitReady(r) PROVE HandlerInv'
  BY <1>18 DEF WaitReady
<1>19. ASSUME NEW r \in Receivers, WaitTimeout(r) PROVE HandlerInv'
  BY <1>19 DEF WaitTimeout
<1>20. ASSUME NEW r \in Receivers, WaitFails(r) PROVE HandlerInv'
  BY <1>20 DEF WaitFails
<1>21. ASSUME NEW r \in Receivers, Recv(r) PROVE HandlerInv'
  BY <1>21 DEF Recv
<1>22. ASSUME NEW r \in Receivers, Publish(r) PROVE HandlerInv'
  BY <1>22 DEF Publish
<1>23. ASSUME NEW r \in Receivers, NEW o \in Observers, Handle(r, o) PROVE HandlerInv'
  BY <1>23 DEF Handle
<1>24. ASSUME NEW r \in Receivers, PublishMsgReturn(r) PROVE HandlerInv'
  BY <1>24 DEF PublishMsgReturn
<1>25. ASSUME NEW r \in Receivers, PublishDiscReturn(r) PROVE HandlerInv'
  BY <1>25 DEF PublishDiscReturn
<1>26. ASSUME NEW s \in Socks, ServerSend(s) PROVE HandlerInv'
  BY <1>26 DEF ServerSend
<1>27. ASSUME NEW s \in Socks, ServerClose(s) PROVE HandlerInv'
  BY <1>27 DEF ServerClose
<1>28. ASSUME NEW s \in Socks, ServerReset(s) PROVE HandlerInv'
  BY <1>28 DEF ServerReset
<1>29. CASE UNCHANGED vars
  BY <1>29 DEF vars
<1>30. CASE DeleteUnjoined
  BY <1>30 DEF DeleteUnjoined
<1> QED
  BY <1>1, <1>2, <1>3, <1>4, <1>5, <1>6, <1>7, <1>8, <1>9, <1>10, <1>11, <1>12, <1>13, <1>14,
     <1>15, <1>16, <1>17, <1>18, <1>19, <1>20, <1>21, <1>22, <1>23, <1>24, <1>25, <1>26,
     <1>27, <1>28, <1>29, <1>30 DEF Next, AppCalls, AppSteps, HandlerSteps, ReceiverSteps,
     ServerSteps, Closers

LEMMA SocketStep ==
  ASSUME TypeOK, HandlerInv, SocketInv, [Next]_vars
  PROVE  SocketInv'
<1> USE ClientThreadsAssumption
<1> USE DEF TypeOK, Threads, Closers, ReceiverLabels, CloserLabels, Goto, Runs,
            procVars, obsVars, clientVars, callVars, netVars, recvVars
<1> USE DEF HandlerInv, SocketInv, MadeFor
<1>1. ASSUME NEW s \in Socks, CreateSocket(s) PROVE SocketInv'
  BY <1>1 DEF CreateSocket
<1>2. CASE SocketFails
  BY <1>2 DEF SocketFails
<1>3. CASE AddressFails
  BY <1>3 DEF AddressFails
<1>4. CASE ConnectFails
  BY <1>4 DEF ConnectFails
<1>5. ASSUME NEW r \in Receivers, Connect(r) PROVE SocketInv'
  BY <1>5 DEF Connect, IsOpen
<1>6. CASE SetConnected
  BY <1>6 DEF SetConnected
<1>7. CASE SubscribeCall
  BY <1>7 DEF SubscribeCall
<1>8. CASE SubscribeLock
  BY <1>8 DEF SubscribeLock
<1>9. CASE Subscribe
  BY <1>9 DEF Subscribe
<1>10. CASE SendMsg
  BY <1>10 DEF SendMsg
<1>11. ASSUME NEW k \in Closers, CloseCall(k) PROVE SocketInv'
  BY <1>11 DEF CloseCall, After
<1>12. ASSUME NEW k \in Closers, JoinReceiver(k) PROVE SocketInv'
  BY <1>12 DEF JoinReceiver, ReceiverEnded
<1>13. ASSUME NEW k \in Closers, JoinThrows(k) PROVE SocketInv'
  BY <1>13 DEF JoinThrows, RequestEnd
<1>14. ASSUME NEW k \in Closers, CloseFd(k) PROVE SocketInv'
  BY <1>14 DEF CloseFd, After, Released, IsOpen
<1>15. ASSUME NEW t \in Signals, Interrupt(t) PROVE SocketInv'
  BY <1>15 DEF Interrupt
<1>16. CASE Exit
  BY <1>16 DEF Exit
<1>17. ASSUME NEW r \in Receivers, ReceiverCheck(r) PROVE SocketInv'
  BY <1>17 DEF ReceiverCheck
<1>18. ASSUME NEW r \in Receivers, WaitReady(r) PROVE SocketInv'
  BY <1>18 DEF WaitReady
<1>19. ASSUME NEW r \in Receivers, WaitTimeout(r) PROVE SocketInv'
  BY <1>19 DEF WaitTimeout
<1>20. ASSUME NEW r \in Receivers, WaitFails(r) PROVE SocketInv'
  BY <1>20 DEF WaitFails
<1>21. ASSUME NEW r \in Receivers, Recv(r) PROVE SocketInv'
  BY <1>21 DEF Recv
<1>22. ASSUME NEW r \in Receivers, Publish(r) PROVE SocketInv'
  BY <1>22 DEF Publish
<1>23. ASSUME NEW r \in Receivers, NEW o \in Observers, Handle(r, o) PROVE SocketInv'
  BY <1>23 DEF Handle
<1>24. ASSUME NEW r \in Receivers, PublishMsgReturn(r) PROVE SocketInv'
  BY <1>24 DEF PublishMsgReturn
<1>25. ASSUME NEW r \in Receivers, PublishDiscReturn(r) PROVE SocketInv'
  BY <1>25 DEF PublishDiscReturn
<1>26. ASSUME NEW s \in Socks, ServerSend(s) PROVE SocketInv'
  BY <1>26 DEF ServerSend
<1>27. ASSUME NEW s \in Socks, ServerClose(s) PROVE SocketInv'
  BY <1>27 DEF ServerClose
<1>28. ASSUME NEW s \in Socks, ServerReset(s) PROVE SocketInv'
  BY <1>28 DEF ServerReset
<1>29. CASE UNCHANGED vars
  BY <1>29 DEF vars
<1>30. CASE DeleteUnjoined
  BY <1>30 DEF DeleteUnjoined
<1> QED
  BY <1>1, <1>2, <1>3, <1>4, <1>5, <1>6, <1>7, <1>8, <1>9, <1>10, <1>11, <1>12, <1>13, <1>14,
     <1>15, <1>16, <1>17, <1>18, <1>19, <1>20, <1>21, <1>22, <1>23, <1>24, <1>25, <1>26,
     <1>27, <1>28, <1>29, <1>30 DEF Next, AppCalls, AppSteps, HandlerSteps, ReceiverSteps,
     ServerSteps, Closers

LEMMA SendStep ==
  ASSUME TypeOK, SendInv, [Next]_vars
  PROVE  SendInv'
<1> USE ClientThreadsAssumption
<1> USE DEF TypeOK, Threads, Closers, ReceiverLabels, CloserLabels, Goto, Runs,
            procVars, obsVars, clientVars, callVars, netVars, recvVars
<1> USE ClientBoundsAssumption
<1> USE DEF SendInv, ShortSendReported, IsOpen
<1>1. ASSUME NEW s \in Socks, CreateSocket(s) PROVE SendInv'
  BY <1>1 DEF CreateSocket
<1>2. CASE SocketFails
  BY <1>2 DEF SocketFails
<1>3. CASE AddressFails
  BY <1>3 DEF AddressFails
<1>4. CASE ConnectFails
  BY <1>4 DEF ConnectFails
<1>5. ASSUME NEW r \in Receivers, Connect(r) PROVE SendInv'
  BY <1>5 DEF Connect
<1>6. CASE SetConnected
  BY <1>6 DEF SetConnected
<1>7. CASE SubscribeCall
  BY <1>7 DEF SubscribeCall
<1>8. CASE SubscribeLock
  BY <1>8 DEF SubscribeLock
<1>9. CASE Subscribe
  BY <1>9 DEF Subscribe
<1>10. CASE SendMsg
  <2>1. PICK n \in SendResults :
          /\ ret' = IF SendReportsSuccess(n) THEN "sendOk" ELSE "sendFail"
          /\ sendFailed' = (n # MsgSize)
    BY <1>10 DEF SendMsg
  <2>2. pc' = pc /\ pc[App] = "idle" /\ UNCHANGED <<sock, server, sockfd>>
    BY <1>10 DEF SendMsg
  <2> QED
    BY <2>1, <2>2, Reported
<1>11. ASSUME NEW k \in Closers, CloseCall(k) PROVE SendInv'
  BY <1>11 DEF CloseCall, After
<1>12. ASSUME NEW k \in Closers, JoinReceiver(k) PROVE SendInv'
  BY <1>12 DEF JoinReceiver
<1>13. ASSUME NEW k \in Closers, JoinThrows(k) PROVE SendInv'
  BY <1>13 DEF JoinThrows, RequestEnd
<1>14. ASSUME NEW k \in Closers, CloseFd(k) PROVE SendInv'
  BY <1>14 DEF CloseFd, After, Released
<1>15. ASSUME NEW t \in Signals, Interrupt(t) PROVE SendInv'
  BY <1>15 DEF Interrupt
<1>16. CASE Exit
  BY <1>16 DEF Exit
<1>17. ASSUME NEW r \in Receivers, ReceiverCheck(r) PROVE SendInv'
  BY <1>17 DEF ReceiverCheck
<1>18. ASSUME NEW r \in Receivers, WaitReady(r) PROVE SendInv'
  BY <1>18 DEF WaitReady
<1>19. ASSUME NEW r \in Receivers, WaitTimeout(r) PROVE SendInv'
  BY <1>19 DEF WaitTimeout
<1>20. ASSUME NEW r \in Receivers, WaitFails(r) PROVE SendInv'
  BY <1>20 DEF WaitFails
<1>21. ASSUME NEW r \in Receivers, Recv(r) PROVE SendInv'
  BY <1>21 DEF Recv
<1>22. ASSUME NEW r \in Receivers, Publish(r) PROVE SendInv'
  BY <1>22 DEF Publish
<1>23. ASSUME NEW r \in Receivers, NEW o \in Observers, Handle(r, o) PROVE SendInv'
  BY <1>23 DEF Handle
<1>24. ASSUME NEW r \in Receivers, PublishMsgReturn(r) PROVE SendInv'
  BY <1>24 DEF PublishMsgReturn
<1>25. ASSUME NEW r \in Receivers, PublishDiscReturn(r) PROVE SendInv'
  BY <1>25 DEF PublishDiscReturn
<1>26. ASSUME NEW s \in Socks, ServerSend(s) PROVE SendInv'
  BY <1>26 DEF ServerSend
<1>27. ASSUME NEW s \in Socks, ServerClose(s) PROVE SendInv'
  BY <1>27 DEF ServerClose
<1>28. ASSUME NEW s \in Socks, ServerReset(s) PROVE SendInv'
  BY <1>28 DEF ServerReset
<1>29. CASE UNCHANGED vars
  BY <1>29 DEF vars
<1>30. CASE DeleteUnjoined
  BY <1>30 DEF DeleteUnjoined
<1> QED
  BY <1>1, <1>2, <1>3, <1>4, <1>5, <1>6, <1>7, <1>8, <1>9, <1>10, <1>11, <1>12, <1>13, <1>14,
     <1>15, <1>16, <1>17, <1>18, <1>19, <1>20, <1>21, <1>22, <1>23, <1>24, <1>25, <1>26,
     <1>27, <1>28, <1>29, <1>30 DEF Next, AppCalls, AppSteps, HandlerSteps, ReceiverSteps,
     ServerSteps, Closers

LEMMA MessageStep ==
  ASSUME TypeOK, MessageInv, [Next]_vars
  PROVE  MessageInv'
<1> USE ClientThreadsAssumption
<1> USE DEF TypeOK, Threads, Closers, ReceiverLabels, CloserLabels, Goto, Runs,
            procVars, obsVars, clientVars, callVars, netVars, recvVars
<1> USE DEF MessageInv
<1>1. ASSUME NEW s \in Socks, CreateSocket(s) PROVE MessageInv'
  BY <1>1 DEF CreateSocket
<1>2. CASE SocketFails
  BY <1>2 DEF SocketFails
<1>3. CASE AddressFails
  BY <1>3 DEF AddressFails
<1>4. CASE ConnectFails
  BY <1>4 DEF ConnectFails
<1>5. ASSUME NEW r \in Receivers, Connect(r) PROVE MessageInv'
  BY <1>5 DEF Connect
<1>6. CASE SetConnected
  BY <1>6 DEF SetConnected
<1>7. CASE SubscribeCall
  BY <1>7 DEF SubscribeCall
<1>8. CASE SubscribeLock
  BY <1>8 DEF SubscribeLock
<1>9. CASE Subscribe
  BY <1>9 DEF Subscribe
<1>10. CASE SendMsg
  BY <1>10 DEF SendMsg
<1>11. ASSUME NEW k \in Closers, CloseCall(k) PROVE MessageInv'
  BY <1>11 DEF CloseCall, After
<1>12. ASSUME NEW k \in Closers, JoinReceiver(k) PROVE MessageInv'
  BY <1>12 DEF JoinReceiver
<1>13. ASSUME NEW k \in Closers, JoinThrows(k) PROVE MessageInv'
  BY <1>13 DEF JoinThrows, RequestEnd
<1>14. ASSUME NEW k \in Closers, CloseFd(k) PROVE MessageInv'
  BY <1>14 DEF CloseFd, After
<1>15. ASSUME NEW t \in Signals, Interrupt(t) PROVE MessageInv'
  BY <1>15 DEF Interrupt
<1>16. CASE Exit
  BY <1>16 DEF Exit
<1>17. ASSUME NEW r \in Receivers, ReceiverCheck(r) PROVE MessageInv'
  BY <1>17 DEF ReceiverCheck
<1>18. ASSUME NEW r \in Receivers, WaitReady(r) PROVE MessageInv'
  BY <1>18 DEF WaitReady
<1>19. ASSUME NEW r \in Receivers, WaitTimeout(r) PROVE MessageInv'
  BY <1>19 DEF WaitTimeout
<1>20. ASSUME NEW r \in Receivers, WaitFails(r) PROVE MessageInv'
  BY <1>20 DEF WaitFails
<1>21. ASSUME NEW r \in Receivers, Recv(r) PROVE MessageInv'
  <2>1. SizeT(RecvResult(sockfd)) \in Nat
    BY RecvCount
  <2> QED
    BY <1>21, <2>1 DEF Recv, NothingReceived
<1>22. ASSUME NEW r \in Receivers, Publish(r) PROVE MessageInv'
  BY <1>22 DEF Publish
<1>23. ASSUME NEW r \in Receivers, NEW o \in Observers, Handle(r, o) PROVE MessageInv'
  BY <1>23 DEF Handle
<1>24. ASSUME NEW r \in Receivers, PublishMsgReturn(r) PROVE MessageInv'
  BY <1>24 DEF PublishMsgReturn
<1>25. ASSUME NEW r \in Receivers, PublishDiscReturn(r) PROVE MessageInv'
  BY <1>25 DEF PublishDiscReturn
<1>26. ASSUME NEW s \in Socks, ServerSend(s) PROVE MessageInv'
  BY <1>26 DEF ServerSend
<1>27. ASSUME NEW s \in Socks, ServerClose(s) PROVE MessageInv'
  BY <1>27 DEF ServerClose
<1>28. ASSUME NEW s \in Socks, ServerReset(s) PROVE MessageInv'
  BY <1>28 DEF ServerReset
<1>29. CASE UNCHANGED vars
  BY <1>29 DEF vars
<1>30. CASE DeleteUnjoined
  BY <1>30 DEF DeleteUnjoined
<1> QED
  BY <1>1, <1>2, <1>3, <1>4, <1>5, <1>6, <1>7, <1>8, <1>9, <1>10, <1>11, <1>12, <1>13, <1>14,
     <1>15, <1>16, <1>17, <1>18, <1>19, <1>20, <1>21, <1>22, <1>23, <1>24, <1>25, <1>26,
     <1>27, <1>28, <1>29, <1>30 DEF Next, AppCalls, AppSteps, HandlerSteps, ReceiverSteps,
     ServerSteps, Closers

LEMMA AnyUseInit ==
  ASSUME Init
  PROVE  AnyUseInv
<1> USE ClientThreadsAssumption, ClientBoundsAssumption DEF Init, Threads, Closers
<1>1. TypeOK
  <2>1. /\ pc \in [Threads -> ReceiverLabels \cup CloserLabels]
        /\ \A r \in Receivers : pc[r] \in ReceiverLabels
        /\ \A k \in Closers : pc[k] \in CloserLabels
    BY DEF ReceiverLabels, CloserLabels
  <2>2. /\ nrecv \in [Receivers -> Nat] /\ handed \in [Receivers -> Nat]
        /\ sockOf \in [Receivers -> Socks \cup {None}]
    OBVIOUS
  <2>3. /\ sock \in [Socks -> {"unused", "open", "closed"}]
        /\ server \in [Socks -> {"none", "up", "fin", "rst"}]
        /\ sockErr \in [Socks -> BOOLEAN]
        /\ inbox \in [Socks -> Nat] /\ sent \in [Socks -> 0..MaxSent]
    OBVIOUS
  <2> QED
    BY <2>1, <2>2, <2>3 DEF TypeOK
<1>2. LockInv /\ HandlerInv
  BY DEF LockInv, HandlerInv
<1>3. SocketInv
  BY DEF SocketInv, MadeFor
<1>4. SendInv /\ MessageInv
  BY DEF SendInv, MessageInv
<1> QED
  BY <1>1, <1>2, <1>3, <1>4 DEF AnyUseInv

LEMMA AnyUseStep ==
  ASSUME AnyUseInv, [Next]_vars
  PROVE  AnyUseInv'
  BY TypingStep, LockStep, HandlerStep, SocketStep, SendStep, MessageStep DEF AnyUseInv

LEMMA AnyUse == Spec => []AnyUseInv
  BY AnyUseInit, AnyUseStep, PTL DEF Spec

(* The types of tcp_client.h and of the locals of receiveTask.             *)
THEOREM ClientTyping == Spec => []TypeOK
<1>1. AnyUseInv => TypeOK
  BY DEF AnyUseInv
<1> QED
  BY <1>1, AnyUse, PTL

(* tcp_client.cpp:114, sendMsg:with success a message was sent whole, or   *)
(* send() had failed with -1, which is for a connection that is gone.      *)
THEOREM SuccessIsTruthful == Spec => []ShortSendReported
<1>1. AnyUseInv => ShortSendReported
  BY DEF AnyUseInv, SendInv, ShortSendReported
<1> QED
  BY <1>1, AnyUse, PTL

(* tcp_client.cpp:203, terminateReceiveThread waits for a thread that may  *)
(* want _subscribersMtx: in no use does a set of threads wait only for     *)
(* itself, unless SIGINT stopped the mutex's holder.                       *)
(* A chain of waiting is stopped thread -> handler -> thread to join ->    *)
(* holder of the mutex, who waits for nobody.                              *)
THEOREM ClientDeadlockFreedom == Spec => []NoDeadlock
<1>1. ASSUME AnyUseInv, outcome = "running",
             host # None => host # subscribersMtx,
             NEW S \in SUBSET Threads, \A t \in S : WaitsFor(t) \in S
      PROVE  S = {}
  <2> USE ClientThreadsAssumption DEF Threads, Closers
  <2>1. /\ TypeOK /\ LockInv /\ HandlerInv
        /\ None \notin S /\ Receivers \cap Closers = {}
    BY <1>1 DEF AnyUseInv
  <2>2. subscribersMtx \notin S
    <3>1. CASE subscribersMtx = None
      BY <2>1, <3>1
    <3>2. CASE subscribersMtx \in Receivers \cup {App}
      <4>1. subscribersMtx # host
        BY <1>1, <3>2
      <4>2. pc[subscribersMtx] \in {"inMsg", "inDisc", "subscribing"}
        BY <2>1, <3>2 DEF LockInv
      <4>3. WaitsFor(subscribersMtx) = None
        BY <2>1, <3>2, <4>1, <4>2 DEF WaitsFor
      <4> QED
        BY <1>1, <2>1, <4>3
    <3> QED
      BY <2>1, <3>1, <3>2 DEF TypeOK
  <2>3. ASSUME NEW r \in Receivers, r # host PROVE r \notin S
    <3>1. WaitsFor(r) \in {None, subscribersMtx}
      BY <2>1, <2>3 DEF WaitsFor
    <3> QED
      BY <1>1, <2>1, <2>2, <3>1
  <2>4. \A k \in Closers : joins[k] \in Receivers \cup {None}
    BY <2>1 DEF TypeOK
  <2>5. Handler \notin S
    <3>1. host # Handler
      BY <2>1 DEF TypeOK
    <3>2. CASE pc[Handler] = "join"
      <4>1. WaitsFor(Handler) \in {None, joins[Handler]} /\ joins[Handler] # host
        BY <2>1, <3>1, <3>2 DEF WaitsFor, HandlerInv
      <4> QED
        BY <1>1, <2>1, <2>3, <2>4, <4>1
    <3>3. CASE pc[Handler] # "join"
      <4>1. WaitsFor(Handler) = None
        BY <2>1, <3>1, <3>3 DEF WaitsFor
      <4> QED
        BY <1>1, <2>1, <4>1
    <3> QED
      BY <3>2, <3>3
  <2>6. host # None => host \notin S
    <3>1. host # None => WaitsFor(host) = Handler
      BY DEF WaitsFor
    <3> QED
      BY <1>1, <2>5, <3>1
  <2>7. App \notin S
    <3>1. WaitsFor(App) \in {None, subscribersMtx, joins[App], Handler}
      BY <2>1 DEF WaitsFor
    <3>2. joins[App] \notin S
      BY <2>1, <2>3, <2>4, <2>6
    <3> QED
      BY <1>1, <2>1, <2>2, <2>5, <3>1, <3>2
  <2> QED
    BY <2>1, <2>3, <2>5, <2>6, <2>7
<1>2. AnyUseInv => NoDeadlock
  BY <1>1 DEF NoDeadlock
<1> QED
  BY <1>2, AnyUse, PTL

-----------------------------------------------------------------------------
(***************************************************************************)
(* The inductive invariant for the use in which connectTo is not called    *)
(* on a client that is not closed. SIGINT may come at any time.            *)
(***************************************************************************)
Works(r) == pc[r] \notin {"none", "exit"}

(* The current thread is there to be joined, and is gone before the        *)
(* number is closed; App cannot go on while sig_exit closes it.            *)
CallInv ==
  /\ \A k \in Closers :
       pc[k] = "join" => receiveTask # None /\ joins[k] = receiveTask /\ ~isClosed
  /\ ~(pc[App] = "join" /\ pc[Handler] = "join")
  /\ \A k \in Closers : pc[k] = "closeFd" => receiveTask = None
  /\ pc[App] \in {"connect", "setConnected"} => isClosed

(* One thread works at a time, for the current connection.                 *)
LiveInv ==
  \A r \in Receivers : Works(r) =>
    receiveTask = r /\ sockOf[r] = sockfd /\ IsOpen(sockfd) /\ server[sockfd] # "none"

(* A client that is closed has no thread and no connection.                *)
ClosedInv ==
  isClosed /\ pc[App] # "setConnected" =>
    /\ \A r \in Receivers : ~Works(r)
    /\ IsOpen(sockfd) => server[sockfd] = "none"

(* Threads and sockets begin with nothing.                                 *)
FreshInv ==
  /\ \A s \in Socks :
       /\ sock[s] = "unused" => server[s] = "none"
       /\ server[s] = "none" => inbox[s] = 0 /\ sent[s] = 0 /\ ~sockErr[s]
  /\ \A r \in Receivers : pc[r] = "none" => nrecv[r] = 0 /\ handed[r] = 0

(* Nothing happens after a close() that succeeded.                         *)
QuietInv ==
  ret = "closeOk" =>
    /\ sockfd \in Socks /\ sock[sockfd] = "closed"
    /\ \A r \in Receivers : ~Works(r)
    /\ pc[App] = "idle" \/ host = App

(* Every byte of an orderly connection is in the inbox, in the buffer or   *)
(* published; the thread leaves the loop when the first two are empty.     *)
ByteInv ==
  \A r \in Receivers : Works(r) =>
    /\ server[sockfd] # "rst" =>
         ~sockErr[sockfd] /\ inbox[sockfd] + nrecv[r] + handed[r] = sent[sockfd]
    /\ pc[r] \in {"check", "wait", "recv"} => nrecv[r] = 0
    /\ pc[r] = "recv" => Readable(sockfd)
    /\ pc[r] \in {"lockDisc", "inDisc"} =>
         /\ server[sockfd] \in {"fin", "rst"}
         /\ server[sockfd] = "fin" => inbox[sockfd] = 0 /\ nrecv[r] = 0

OnceInv ==
  /\ TypeOK /\ HandlerInv
  /\ CallInv /\ LiveInv /\ ClosedInv /\ FreshInv /\ QuietInv /\ ByteInv /\ OnlyFailedLeaks

LEMMA CallStep ==
  ASSUME "reconnect" \notin Calls, TypeOK, HandlerInv,
         CallInv, LiveInv, ClosedInv, [Next]_vars
  PROVE  CallInv'
<1> USE ClientThreadsAssumption
<1> USE DEF TypeOK, Threads, Closers, ReceiverLabels, CloserLabels, Goto, Runs,
            procVars, obsVars, clientVars, callVars, netVars, recvVars
<1> USE DEF HandlerInv, Works, IsOpen, MayConnect
<1> USE DEF CallInv, LiveInv, ClosedInv
<1>1. ASSUME NEW s \in Socks, CreateSocket(s) PROVE CallInv'
  BY <1>1 DEF CreateSocket
<1>2. CASE SocketFails
  BY <1>2 DEF SocketFails
<1>3. CASE AddressFails
  BY <1>3 DEF AddressFails
<1>4. CASE ConnectFails
  BY <1>4 DEF ConnectFails
<1>5. ASSUME NEW r \in Receivers, Connect(r) PROVE CallInv'
  BY <1>5 DEF Connect
<1>6. CASE SetConnected
  BY <1>6 DEF SetConnected
<1>7. CASE SubscribeCall
  BY <1>7 DEF SubscribeCall
<1>8. CASE SubscribeLock
  BY <1>8 DEF SubscribeLock
<1>9. CASE Subscribe
  BY <1>9 DEF Subscribe
<1>10. CASE SendMsg
  BY <1>10 DEF SendMsg
<1>11. ASSUME NEW k \in Closers, CloseCall(k) PROVE CallInv'
  <2>1. \A j \in Closers : pc[j] = "join" => pc'[k] # "join"
    <3>1. CASE isClosed
      BY <1>11, <3>1 DEF CloseCall, After
    <3>2. CASE ~isClosed /\ receiveTask # None
      BY <1>11, <3>2 DEF CloseCall, JoinRefused
    <3>3. CASE ~isClosed /\ receiveTask = None
      BY <1>11, <3>3 DEF CloseCall
    <3> QED
      BY <3>1, <3>2, <3>3
  <2> QED
    BY <1>11, <2>1 DEF CloseCall, After
<1>12. ASSUME NEW k \in Closers, JoinReceiver(k) PROVE CallInv'
  BY <1>12 DEF JoinReceiver, ReceiverEnded
<1>13. ASSUME NEW k \in Closers, JoinThrows(k) PROVE CallInv'
  BY <1>13 DEF JoinThrows, RequestEnd
<1>14. ASSUME NEW k \in Closers, CloseFd(k) PROVE CallInv'
  BY <1>14 DEF CloseFd, After, Released
<1>15. ASSUME NEW t \in Signals, Interrupt(t) PROVE CallInv'
  BY <1>15 DEF Interrupt
<1>16. CASE Exit
  BY <1>16 DEF Exit
<1>17. ASSUME NEW r \in Receivers, ReceiverCheck(r) PROVE CallInv'
  BY <1>17 DEF ReceiverCheck
<1>18. ASSUME NEW r \in Receivers, WaitReady(r) PROVE CallInv'
  BY <1>18 DEF WaitReady
<1>19. ASSUME NEW r \in Receivers, WaitTimeout(r) PROVE CallInv'
  BY <1>19 DEF WaitTimeout
<1>20. ASSUME NEW r \in Receivers, WaitFails(r) PROVE CallInv'
  BY <1>20 DEF WaitFails
<1>21. ASSUME NEW r \in Receivers, Recv(r) PROVE CallInv'
  BY <1>21 DEF Recv
<1>22. ASSUME NEW r \in Receivers, Publish(r) PROVE CallInv'
  BY <1>22 DEF Publish
<1>23. ASSUME NEW r \in Receivers, NEW o \in Observers, Handle(r, o) PROVE CallInv'
  BY <1>23 DEF Handle
<1>24. ASSUME NEW r \in Receivers, PublishMsgReturn(r) PROVE CallInv'
  BY <1>24 DEF PublishMsgReturn
<1>25. ASSUME NEW r \in Receivers, PublishDiscReturn(r) PROVE CallInv'
  BY <1>25 DEF PublishDiscReturn
<1>26. ASSUME NEW s \in Socks, ServerSend(s) PROVE CallInv'
  BY <1>26 DEF ServerSend
<1>27. ASSUME NEW s \in Socks, ServerClose(s) PROVE CallInv'
  BY <1>27 DEF ServerClose
<1>28. ASSUME NEW s \in Socks, ServerReset(s) PROVE CallInv'
  BY <1>28 DEF ServerReset
<1>29. CASE UNCHANGED vars
  BY <1>29 DEF vars
<1>30. CASE DeleteUnjoined
  BY <1>30 DEF DeleteUnjoined
<1> QED
  BY <1>1, <1>2, <1>3, <1>4, <1>5, <1>6, <1>7, <1>8, <1>9, <1>10, <1>11, <1>12, <1>13, <1>14,
     <1>15, <1>16, <1>17, <1>18, <1>19, <1>20, <1>21, <1>22, <1>23, <1>24, <1>25, <1>26,
     <1>27, <1>28, <1>29, <1>30 DEF Next, AppCalls, AppSteps, HandlerSteps, ReceiverSteps,
     ServerSteps, Closers

LEMMA LiveStep ==
  ASSUME "reconnect" \notin Calls, TypeOK, HandlerInv,
         CallInv, LiveInv, ClosedInv, FreshInv, [Next]_vars
  PROVE  LiveInv'
<1> USE ClientThreadsAssumption
<1> USE DEF TypeOK, Threads, Closers, ReceiverLabels, CloserLabels, Goto, Runs,
            procVars, obsVars, clientVars, callVars, netVars, recvVars
<1> USE DEF HandlerInv, Works, IsOpen, MayConnect
<1> USE DEF CallInv, LiveInv, ClosedInv, FreshInv
<1>1. ASSUME NEW s \in Socks, CreateSocket(s) PROVE LiveInv'
  BY <1>1 DEF CreateSocket
<1>2. CASE SocketFails
  BY <1>2 DEF SocketFails
<1>3. CASE AddressFails
  BY <1>3 DEF AddressFails
<1>4. CASE ConnectFails
  BY <1>4 DEF ConnectFails
<1>5. ASSUME NEW r \in Receivers, Connect(r) PROVE LiveInv'
  BY <1>5 DEF Connect
<1>6. CASE SetConnected
  BY <1>6 DEF SetConnected
<1>7. CASE SubscribeCall
  BY <1>7 DEF SubscribeCall
<1>8. CASE SubscribeLock
  BY <1>8 DEF SubscribeLock
<1>9. CASE Subscribe
  BY <1>9 DEF Subscribe
<1>10. CASE SendMsg
  BY <1>10 DEF SendMsg
<1>11. ASSUME NEW k \in Closers, CloseCall(k) PROVE LiveInv'
  BY <1>11 DEF CloseCall, After
<1>12. ASSUME NEW k \in Closers, JoinReceiver(k) PROVE LiveInv'
  BY <1>12 DEF JoinReceiver, ReceiverEnded
<1>13. ASSUME NEW k \in Closers, JoinThrows(k) PROVE LiveInv'
  BY <1>13 DEF JoinThrows, RequestEnd
<1>14. ASSUME NEW k \in Closers, CloseFd(k) PROVE LiveInv'
  BY <1>14 DEF CloseFd, After, Released
<1>15. ASSUME NEW t \in Signals, Interrupt(t) PROVE LiveInv'
  BY <1>15 DEF Interrupt
<1>16. CASE Exit
  BY <1>16 DEF Exit
<1>17. ASSUME NEW r \in Receivers, ReceiverCheck(r) PROVE LiveInv'
  BY <1>17 DEF ReceiverCheck
<1>18. ASSUME NEW r \in Receivers, WaitReady(r) PROVE LiveInv'
  BY <1>18 DEF WaitReady
<1>19. ASSUME NEW r \in Receivers, WaitTimeout(r) PROVE LiveInv'
  BY <1>19 DEF WaitTimeout
<1>20. ASSUME NEW r \in Receivers, WaitFails(r) PROVE LiveInv'
  BY <1>20 DEF WaitFails
<1>21. ASSUME NEW r \in Receivers, Recv(r) PROVE LiveInv'
  BY <1>21 DEF Recv
<1>22. ASSUME NEW r \in Receivers, Publish(r) PROVE LiveInv'
  BY <1>22 DEF Publish
<1>23. ASSUME NEW r \in Receivers, NEW o \in Observers, Handle(r, o) PROVE LiveInv'
  BY <1>23 DEF Handle
<1>24. ASSUME NEW r \in Receivers, PublishMsgReturn(r) PROVE LiveInv'
  BY <1>24 DEF PublishMsgReturn
<1>25. ASSUME NEW r \in Receivers, PublishDiscReturn(r) PROVE LiveInv'
  BY <1>25 DEF PublishDiscReturn
<1>26. ASSUME NEW s \in Socks, ServerSend(s) PROVE LiveInv'
  BY <1>26 DEF ServerSend
<1>27. ASSUME NEW s \in Socks, ServerClose(s) PROVE LiveInv'
  BY <1>27 DEF ServerClose
<1>28. ASSUME NEW s \in Socks, ServerReset(s) PROVE LiveInv'
  BY <1>28 DEF ServerReset
<1>29. CASE UNCHANGED vars
  BY <1>29 DEF vars
<1>30. CASE DeleteUnjoined
  BY <1>30 DEF DeleteUnjoined
<1> QED
  BY <1>1, <1>2, <1>3, <1>4, <1>5, <1>6, <1>7, <1>8, <1>9, <1>10, <1>11, <1>12, <1>13, <1>14,
     <1>15, <1>16, <1>17, <1>18, <1>19, <1>20, <1>21, <1>22, <1>23, <1>24, <1>25, <1>26,
     <1>27, <1>28, <1>29, <1>30 DEF Next, AppCalls, AppSteps, HandlerSteps, ReceiverSteps,
     ServerSteps, Closers

LEMMA ClosedStep ==
  ASSUME "reconnect" \notin Calls, TypeOK, HandlerInv,
         CallInv, LiveInv, ClosedInv, FreshInv, [Next]_vars
  PROVE  ClosedInv'
<1> USE ClientThreadsAssumption
<1> USE DEF TypeOK, Threads, Closers, ReceiverLabels, CloserLabels, Goto, Runs,
            procVars, obsVars, clientVars, callVars, netVars, recvVars
<1> USE DEF HandlerInv, Works, IsOpen, MayConnect
<1> USE DEF CallInv, LiveInv, ClosedInv, FreshInv
<1>1. ASSUME NEW s \in Socks, CreateSocket(s) PROVE ClosedInv'
  BY <1>1 DEF CreateSocket
<1>2. CASE SocketFails
  BY <1>2 DEF SocketFails
<1>3. CASE AddressFails
  BY <1>3 DEF AddressFails
<1>4. CASE ConnectFails
  BY <1>4 DEF ConnectFails
<1>5. ASSUME NEW r \in Receivers, Connect(r) PROVE ClosedInv'
  BY <1>5 DEF Connect
<1>6. CASE SetConnected
  BY <1>6 DEF SetConnected
<1>7. CASE SubscribeCall
  BY <1>7 DEF SubscribeCall
<1>8. CASE SubscribeLock
  BY <1>8 DEF SubscribeLock
<1>9. CASE Subscribe
  BY <1>9 DEF Subscribe
<1>10. CASE SendMsg
  BY <1>10 DEF SendMsg
<1>11. ASSUME NEW k \in Closers, CloseCall(k) PROVE ClosedInv'
  BY <1>11 DEF CloseCall, After
<1>12. ASSUME NEW k \in Closers, JoinReceiver(k) PROVE ClosedInv'
  BY <1>12 DEF JoinReceiver, ReceiverEnded
<1>13. ASSUME NEW k \in Closers, JoinThrows(k) PROVE ClosedInv'
  BY <1>13 DEF JoinThrows, RequestEnd
<1>14. ASSUME NEW k \in Closers, CloseFd(k) PROVE ClosedInv'
  <2>1. \A r \in Receivers : ~Works(r)
    BY <1>14 DEF CloseFd
  <2>2. pc' = [pc EXCEPT ![k] = After(k)] /\ (IsOpen(sockfd)' => sock' = sock)
    BY <1>14 DEF CloseFd, Released
  <2>3. UNCHANGED <<sockfd, server>> /\ (sock' = sock => isClosed' = isClosed \/ ~IsOpen(sockfd))
    BY <1>14 DEF CloseFd, Released
  <2>4. \A r \in Receivers : pc'[r] = pc[r]
    BY <2>2
  <2> QED
    BY <1>14, <2>1, <2>2, <2>3, <2>4 DEF CloseFd, After, Released
<1>15. ASSUME NEW t \in Signals, Interrupt(t) PROVE ClosedInv'
  BY <1>15 DEF Interrupt
<1>16. CASE Exit
  BY <1>16 DEF Exit
<1>17. ASSUME NEW r \in Receivers, ReceiverCheck(r) PROVE ClosedInv'
  BY <1>17 DEF ReceiverCheck
<1>18. ASSUME NEW r \in Receivers, WaitReady(r) PROVE ClosedInv'
  BY <1>18 DEF WaitReady
<1>19. ASSUME NEW r \in Receivers, WaitTimeout(r) PROVE ClosedInv'
  BY <1>19 DEF WaitTimeout
<1>20. ASSUME NEW r \in Receivers, WaitFails(r) PROVE ClosedInv'
  BY <1>20 DEF WaitFails
<1>21. ASSUME NEW r \in Receivers, Recv(r) PROVE ClosedInv'
  BY <1>21 DEF Recv
<1>22. ASSUME NEW r \in Receivers, Publish(r) PROVE ClosedInv'
  BY <1>22 DEF Publish
<1>23. ASSUME NEW r \in Receivers, NEW o \in Observers, Handle(r, o) PROVE ClosedInv'
  BY <1>23 DEF Handle
<1>24. ASSUME NEW r \in Receivers, PublishMsgReturn(r) PROVE ClosedInv'
  BY <1>24 DEF PublishMsgReturn
<1>25. ASSUME NEW r \in Receivers, PublishDiscReturn(r) PROVE ClosedInv'
  BY <1>25 DEF PublishDiscReturn
<1>26. ASSUME NEW s \in Socks, ServerSend(s) PROVE ClosedInv'
  BY <1>26 DEF ServerSend
<1>27. ASSUME NEW s \in Socks, ServerClose(s) PROVE ClosedInv'
  BY <1>27 DEF ServerClose
<1>28. ASSUME NEW s \in Socks, ServerReset(s) PROVE ClosedInv'
  BY <1>28 DEF ServerReset
<1>29. CASE UNCHANGED vars
  BY <1>29 DEF vars
<1>30. CASE DeleteUnjoined
  BY <1>30 DEF DeleteUnjoined
<1> QED
  BY <1>1, <1>2, <1>3, <1>4, <1>5, <1>6, <1>7, <1>8, <1>9, <1>10, <1>11, <1>12, <1>13, <1>14,
     <1>15, <1>16, <1>17, <1>18, <1>19, <1>20, <1>21, <1>22, <1>23, <1>24, <1>25, <1>26,
     <1>27, <1>28, <1>29, <1>30 DEF Next, AppCalls, AppSteps, HandlerSteps, ReceiverSteps,
     ServerSteps, Closers

LEMMA FreshStep ==
  ASSUME "reconnect" \notin Calls, TypeOK, HandlerInv,
         LiveInv, FreshInv, [Next]_vars
  PROVE  FreshInv'
<1> USE ClientThreadsAssumption
<1> USE DEF TypeOK, Threads, Closers, ReceiverLabels, CloserLabels, Goto, Runs,
            procVars, obsVars, clientVars, callVars, netVars, recvVars
<1> USE DEF HandlerInv, Works, IsOpen, MayConnect
<1> USE DEF LiveInv, FreshInv
<1>1. ASSUME NEW s \in Socks, CreateSocket(s) PROVE FreshInv'
  BY <1>1 DEF CreateSocket
<1>2. CASE SocketFails
  BY <1>2 DEF SocketFails
<1>3. CASE AddressFails
  BY <1>3 DEF AddressFails
<1>4. CASE ConnectFails
  BY <1>4 DEF ConnectFails
<1>5. ASSUME NEW r \in Receivers, Connect(r) PROVE FreshInv'
  BY <1>5 DEF Connect
<1>6. CASE SetConnected
  BY <1>6 DEF SetConnected
<1>7. CASE SubscribeCall
  BY <1>7 DEF SubscribeCall
<1>8. CASE SubscribeLock
  BY <1>8 DEF SubscribeLock
<1>9. CASE Subscribe
  BY <1>9 DEF Subscribe
<1>10. CASE SendMsg
  BY <1>10 DEF SendMsg
<1>11. ASSUME NEW k \in Closers, CloseCall(k) PROVE FreshInv'
  BY <1>11 DEF CloseCall, After
<1>12. ASSUME NEW k \in Closers, JoinReceiver(k) PROVE FreshInv'
  BY <1>12 DEF JoinReceiver, ReceiverEnded
<1>13. ASSUME NEW k \in Closers, JoinThrows(k) PROVE FreshInv'
  BY <1>13 DEF JoinThrows, RequestEnd
<1>14. ASSUME NEW k \in Closers, CloseFd(k) PROVE FreshInv'
  BY <1>14 DEF CloseFd, After, Released
<1>15. ASSUME NEW t \in Signals, Interrupt(t) PROVE FreshInv'
  BY <1>15 DEF Interrupt
<1>16. CASE Exit
  BY <1>16 DEF Exit
<1>17. ASSUME NEW r \in Receivers, ReceiverCheck(r) PROVE FreshInv'
  BY <1>17 DEF ReceiverCheck
<1>18. ASSUME NEW r \in Receivers, WaitReady(r) PROVE FreshInv'
  BY <1>18 DEF WaitReady
<1>19. ASSUME NEW r \in Receivers, WaitTimeout(r) PROVE FreshInv'
  BY <1>19 DEF WaitTimeout
<1>20. ASSUME NEW r \in Receivers, WaitFails(r) PROVE FreshInv'
  BY <1>20 DEF WaitFails
<1>21. ASSUME NEW r \in Receivers, Recv(r) PROVE FreshInv'
  BY <1>21 DEF Recv
<1>22. ASSUME NEW r \in Receivers, Publish(r) PROVE FreshInv'
  BY <1>22 DEF Publish
<1>23. ASSUME NEW r \in Receivers, NEW o \in Observers, Handle(r, o) PROVE FreshInv'
  BY <1>23 DEF Handle
<1>24. ASSUME NEW r \in Receivers, PublishMsgReturn(r) PROVE FreshInv'
  BY <1>24 DEF PublishMsgReturn
<1>25. ASSUME NEW r \in Receivers, PublishDiscReturn(r) PROVE FreshInv'
  BY <1>25 DEF PublishDiscReturn
<1>26. ASSUME NEW s \in Socks, ServerSend(s) PROVE FreshInv'
  BY <1>26 DEF ServerSend
<1>27. ASSUME NEW s \in Socks, ServerClose(s) PROVE FreshInv'
  BY <1>27 DEF ServerClose
<1>28. ASSUME NEW s \in Socks, ServerReset(s) PROVE FreshInv'
  BY <1>28 DEF ServerReset
<1>29. CASE UNCHANGED vars
  BY <1>29 DEF vars
<1>30. CASE DeleteUnjoined
  BY <1>30 DEF DeleteUnjoined
<1> QED
  BY <1>1, <1>2, <1>3, <1>4, <1>5, <1>6, <1>7, <1>8, <1>9, <1>10, <1>11, <1>12, <1>13, <1>14,
     <1>15, <1>16, <1>17, <1>18, <1>19, <1>20, <1>21, <1>22, <1>23, <1>24, <1>25, <1>26,
     <1>27, <1>28, <1>29, <1>30 DEF Next, AppCalls, AppSteps, HandlerSteps, ReceiverSteps,
     ServerSteps, Closers

LEMMA QuietStep ==
  ASSUME "reconnect" \notin Calls, TypeOK, HandlerInv,
         CallInv, LiveInv, QuietInv, [Next]_vars
  PROVE  QuietInv'
<1> USE ClientThreadsAssumption
<1> USE DEF TypeOK, Threads, Closers, ReceiverLabels, CloserLabels, Goto, Runs,
            procVars, obsVars, clientVars, callVars, netVars, recvVars
<1> USE DEF HandlerInv, Works, IsOpen, MayConnect
<1> USE DEF CallInv, LiveInv, QuietInv
<1>1. ASSUME NEW s \in Socks, CreateSocket(s) PROVE QuietInv'
  BY <1>1 DEF CreateSocket
<1>2. CASE SocketFails
  BY <1>2 DEF SocketFails
<1>3. CASE AddressFails
  BY <1>3 DEF AddressFails
<1>4. CASE ConnectFails
  BY <1>4 DEF ConnectFails
<1>5. ASSUME NEW r \in Receivers, Connect(r) PROVE QuietInv'
  BY <1>5 DEF Connect
<1>6. CASE SetConnected
  BY <1>6 DEF SetConnected
<1>7. CASE SubscribeCall
  BY <1>7 DEF SubscribeCall
<1>8. CASE SubscribeLock
  BY <1>8 DEF SubscribeLock
<1>9. CASE Subscribe
  BY <1>9 DEF Subscribe
<1>10. CASE SendMsg
  BY <1>10 DEF SendMsg
<1>11. ASSUME NEW k \in Closers, CloseCall(k) PROVE QuietInv'
  BY <1>11 DEF CloseCall, After
<1>12. ASSUME NEW k \in Closers, JoinReceiver(k) PROVE QuietInv'
  BY <1>12 DEF JoinReceiver, ReceiverEnded
<1>13. ASSUME NEW k \in Closers, JoinThrows(k) PROVE QuietInv'
  BY <1>13 DEF JoinThrows, RequestEnd
<1>14. ASSUME NEW k \in Closers, CloseFd(k) PROVE QuietInv'
  BY <1>14 DEF CloseFd, After, Released
<1>15. ASSUME NEW t \in Signals, Interrupt(t) PROVE QuietInv'
  BY <1>15 DEF Interrupt
<1>16. CASE Exit
  BY <1>16 DEF Exit
<1>17. ASSUME NEW r \in Receivers, ReceiverCheck(r) PROVE QuietInv'
  BY <1>17 DEF ReceiverCheck
<1>18. ASSUME NEW r \in Receivers, WaitReady(r) PROVE QuietInv'
  BY <1>18 DEF WaitReady
<1>19. ASSUME NEW r \in Receivers, WaitTimeout(r) PROVE QuietInv'
  BY <1>19 DEF WaitTimeout
<1>20. ASSUME NEW r \in Receivers, WaitFails(r) PROVE QuietInv'
  BY <1>20 DEF WaitFails
<1>21. ASSUME NEW r \in Receivers, Recv(r) PROVE QuietInv'
  BY <1>21 DEF Recv
<1>22. ASSUME NEW r \in Receivers, Publish(r) PROVE QuietInv'
  BY <1>22 DEF Publish
<1>23. ASSUME NEW r \in Receivers, NEW o \in Observers, Handle(r, o) PROVE QuietInv'
  BY <1>23 DEF Handle
<1>24. ASSUME NEW r \in Receivers, PublishMsgReturn(r) PROVE QuietInv'
  BY <1>24 DEF PublishMsgReturn
<1>25. ASSUME NEW r \in Receivers, PublishDiscReturn(r) PROVE QuietInv'
  BY <1>25 DEF PublishDiscReturn
<1>26. ASSUME NEW s \in Socks, ServerSend(s) PROVE QuietInv'
  BY <1>26 DEF ServerSend
<1>27. ASSUME NEW s \in Socks, ServerClose(s) PROVE QuietInv'
  BY <1>27 DEF ServerClose
<1>28. ASSUME NEW s \in Socks, ServerReset(s) PROVE QuietInv'
  BY <1>28 DEF ServerReset
<1>29. CASE UNCHANGED vars
  BY <1>29 DEF vars
<1>30. CASE DeleteUnjoined
  BY <1>30 DEF DeleteUnjoined
<1> QED
  BY <1>1, <1>2, <1>3, <1>4, <1>5, <1>6, <1>7, <1>8, <1>9, <1>10, <1>11, <1>12, <1>13, <1>14,
     <1>15, <1>16, <1>17, <1>18, <1>19, <1>20, <1>21, <1>22, <1>23, <1>24, <1>25, <1>26,
     <1>27, <1>28, <1>29, <1>30 DEF Next, AppCalls, AppSteps, HandlerSteps, ReceiverSteps,
     ServerSteps, Closers

LEMMA LeakStep ==
  ASSUME "reconnect" \notin Calls, TypeOK, HandlerInv,
         CallInv, LiveInv, ClosedInv, FreshInv, OnlyFailedLeaks, [Next]_vars
  PROVE  OnlyFailedLeaks'
<1> USE ClientThreadsAssumption
<1> USE DEF TypeOK, Threads, Closers, ReceiverLabels, CloserLabels, Goto, Runs,
            procVars, obsVars, clientVars, callVars, netVars, recvVars
<1> USE DEF HandlerInv, Works, IsOpen, MayConnect
<1> USE DEF CallInv, LiveInv, ClosedInv, FreshInv, OnlyFailedLeaks
<1>1. ASSUME NEW s \in Socks, CreateSocket(s) PROVE OnlyFailedLeaks'
  BY <1>1 DEF CreateSocket
<1>2. CASE SocketFails
  BY <1>2 DEF SocketFails
<1>3. CASE AddressFails
  BY <1>3 DEF AddressFails
<1>4. CASE ConnectFails
  BY <1>4 DEF ConnectFails
<1>5. ASSUME NEW r \in Receivers, Connect(r) PROVE OnlyFailedLeaks'
  BY <1>5 DEF Connect
<1>6. CASE SetConnected
  BY <1>6 DEF SetConnected
<1>7. CASE SubscribeCall
  BY <1>7 DEF SubscribeCall
<1>8. CASE SubscribeLock
  BY <1>8 DEF SubscribeLock
<1>9. CASE Subscribe
  BY <1>9 DEF Subscribe
<1>10. CASE SendMsg
  BY <1>10 DEF SendMsg
<1>11. ASSUME NEW k \in Closers, CloseCall(k) PROVE OnlyFailedLeaks'
  BY <1>11 DEF CloseCall, After
<1>12. ASSUME NEW k \in Closers, JoinReceiver(k) PROVE OnlyFailedLeaks'
  BY <1>12 DEF JoinReceiver, ReceiverEnded
<1>13. ASSUME NEW k \in Closers, JoinThrows(k) PROVE OnlyFailedLeaks'
  BY <1>13 DEF JoinThrows, RequestEnd
<1>14. ASSUME NEW k \in Closers, CloseFd(k) PROVE OnlyFailedLeaks'
  BY <1>14 DEF CloseFd, After, Released
<1>15. ASSUME NEW t \in Signals, Interrupt(t) PROVE OnlyFailedLeaks'
  BY <1>15 DEF Interrupt
<1>16. CASE Exit
  BY <1>16 DEF Exit
<1>17. ASSUME NEW r \in Receivers, ReceiverCheck(r) PROVE OnlyFailedLeaks'
  BY <1>17 DEF ReceiverCheck
<1>18. ASSUME NEW r \in Receivers, WaitReady(r) PROVE OnlyFailedLeaks'
  BY <1>18 DEF WaitReady
<1>19. ASSUME NEW r \in Receivers, WaitTimeout(r) PROVE OnlyFailedLeaks'
  BY <1>19 DEF WaitTimeout
<1>20. ASSUME NEW r \in Receivers, WaitFails(r) PROVE OnlyFailedLeaks'
  BY <1>20 DEF WaitFails
<1>21. ASSUME NEW r \in Receivers, Recv(r) PROVE OnlyFailedLeaks'
  BY <1>21 DEF Recv
<1>22. ASSUME NEW r \in Receivers, Publish(r) PROVE OnlyFailedLeaks'
  BY <1>22 DEF Publish
<1>23. ASSUME NEW r \in Receivers, NEW o \in Observers, Handle(r, o) PROVE OnlyFailedLeaks'
  BY <1>23 DEF Handle
<1>24. ASSUME NEW r \in Receivers, PublishMsgReturn(r) PROVE OnlyFailedLeaks'
  BY <1>24 DEF PublishMsgReturn
<1>25. ASSUME NEW r \in Receivers, PublishDiscReturn(r) PROVE OnlyFailedLeaks'
  BY <1>25 DEF PublishDiscReturn
<1>26. ASSUME NEW s \in Socks, ServerSend(s) PROVE OnlyFailedLeaks'
  BY <1>26 DEF ServerSend
<1>27. ASSUME NEW s \in Socks, ServerClose(s) PROVE OnlyFailedLeaks'
  BY <1>27 DEF ServerClose
<1>28. ASSUME NEW s \in Socks, ServerReset(s) PROVE OnlyFailedLeaks'
  BY <1>28 DEF ServerReset
<1>29. CASE UNCHANGED vars
  BY <1>29 DEF vars
<1>30. CASE DeleteUnjoined
  BY <1>30 DEF DeleteUnjoined
<1> QED
  BY <1>1, <1>2, <1>3, <1>4, <1>5, <1>6, <1>7, <1>8, <1>9, <1>10, <1>11, <1>12, <1>13, <1>14,
     <1>15, <1>16, <1>17, <1>18, <1>19, <1>20, <1>21, <1>22, <1>23, <1>24, <1>25, <1>26,
     <1>27, <1>28, <1>29, <1>30 DEF Next, AppCalls, AppSteps, HandlerSteps, ReceiverSteps,
     ServerSteps, Closers

LEMMA ByteStep ==
  ASSUME "reconnect" \notin Calls, TypeOK, HandlerInv,
         LiveInv, ClosedInv, CallInv, FreshInv, ByteInv, [Next]_vars
  PROVE  ByteInv'
<1> USE ClientThreadsAssumption
<1> USE DEF TypeOK, Threads, Closers, ReceiverLabels, CloserLabels, Goto, Runs,
            procVars, obsVars, clientVars, callVars, netVars, recvVars
<1> USE DEF HandlerInv, Works, IsOpen, MayConnect
<1> USE DEF CallInv, LiveInv, ClosedInv, FreshInv, ByteInv, Readable
<1>1. ASSUME NEW s \in Socks, CreateSocket(s) PROVE ByteInv'
  BY <1>1 DEF CreateSocket
<1>2. CASE SocketFails
  BY <1>2 DEF SocketFails
<1>3. CASE AddressFails
  BY <1>3 DEF AddressFails
<1>4. CASE ConnectFails
  BY <1>4 DEF ConnectFails
<1>5. ASSUME NEW r \in Receivers, Connect(r) PROVE ByteInv'
  BY <1>5 DEF Connect
<1>6. CASE SetConnected
  BY <1>6 DEF SetConnected
<1>7. CASE SubscribeCall
  BY <1>7 DEF SubscribeCall
<1>8. CASE SubscribeLock
  BY <1>8 DEF SubscribeLock
<1>9. CASE Subscribe
  BY <1>9 DEF Subscribe
<1>10. CASE SendMsg
  BY <1>10 DEF SendMsg
<1>11. ASSUME NEW k \in Closers, CloseCall(k) PROVE ByteInv'
  BY <1>11 DEF CloseCall, After
<1>12. ASSUME NEW k \in Closers, JoinReceiver(k) PROVE ByteInv'
  BY <1>12 DEF JoinReceiver, ReceiverEnded
<1>13. ASSUME NEW k \in Closers, JoinThrows(k) PROVE ByteInv'
  BY <1>13 DEF JoinThrows, RequestEnd
<1>14. ASSUME NEW k \in Closers, CloseFd(k) PROVE ByteInv'
  BY <1>14 DEF CloseFd, After, Released
<1>15. ASSUME NEW t \in Signals, Interrupt(t) PROVE ByteInv'
  BY <1>15 DEF Interrupt
<1>16. CASE Exit
  BY <1>16 DEF Exit
<1>17. ASSUME NEW r \in Receivers, ReceiverCheck(r) PROVE ByteInv'
  BY <1>17 DEF ReceiverCheck
<1>18. ASSUME NEW r \in Receivers, WaitReady(r) PROVE ByteInv'
  BY <1>18 DEF WaitReady
<1>19. ASSUME NEW r \in Receivers, WaitTimeout(r) PROVE ByteInv'
  BY <1>19 DEF WaitTimeout
<1>20. ASSUME NEW r \in Receivers, WaitFails(r) PROVE ByteInv'
  BY <1>20 DEF WaitFails
<1>21. ASSUME NEW r \in Receivers, Recv(r) PROVE ByteInv'
  <2> DEFINE n == SizeT(RecvResult(sockfd))
  <2>1. /\ sockfd \in Socks /\ sock[sockfd] = "open" /\ server[sockfd] # "none"
        /\ nrecv[r] = 0 /\ Readable(sockfd) /\ \A q \in Receivers : Works(q) => q = r
    BY <1>21 DEF Recv
  <2>2. inbox' = [inbox EXCEPT ![sockfd] = inbox[sockfd] - Taken(sockfd)]
    BY <1>21, <2>1 DEF Recv
  <2>3. sockErr' = [sockErr EXCEPT ![sockfd] = sockErr[sockfd] /\ inbox[sockfd] > 0]
    BY <1>21, <2>1 DEF Recv
  <2>4. /\ UNCHANGED <<server, sockfd, sent, sock, handed>>
        /\ Taken(sockfd) \in 0..inbox[sockfd] /\ (inbox[sockfd] > 0 => Taken(sockfd) > 0)
    BY <1>21, <2>1, RecvCount DEF Recv
  <2>5. \/ NothingReceived(n) /\ pc' = [pc EXCEPT ![r] = "lockDisc"] /\ nrecv' = nrecv
        \/ /\ ~NothingReceived(n) /\ pc' = [pc EXCEPT ![r] = "lockMsg"]
           /\ nrecv' = [nrecv EXCEPT ![r] = n]
    BY <1>21 DEF Recv
  <2>6. CASE server[sockfd] = "rst"
    BY <2>1, <2>4, <2>5, <2>6
  <2>7. CASE server[sockfd] # "rst"
    <3>1. /\ ~sockErr[sockfd] /\ inbox[sockfd] <= sent[sockfd] /\ sent[sockfd] < SizeMod
          /\ inbox[sockfd] + handed[r] = sent[sockfd]
      BY <1>21, <2>1, <2>7, ClientBoundsAssumption DEF Recv
    <3>2. CASE inbox[sockfd] > 0
      <4>1. n = Taken(sockfd) /\ ~NothingReceived(n)
        <5>1. RecvResult(sockfd) = Taken(sockfd)
          BY <2>1, <3>2 DEF RecvResult
        <5>2. Taken(sockfd) \in Nat /\ Taken(sockfd) > 0 /\ Taken(sockfd) < SizeMod
          <6>1. inbox[sockfd] \in Nat /\ sent[sockfd] \in Nat /\ SizeMod \in Nat
            BY <2>1, ClientBoundsAssumption
          <6> QED
            BY <2>4, <3>1, <3>2, <6>1
        <5> QED
          BY <5>1, <5>2, SizeTSmall DEF NothingReceived
      <4>2. pc' = [pc EXCEPT ![r] = "lockMsg"] /\ nrecv' = [nrecv EXCEPT ![r] = Taken(sockfd)]
        BY <2>5, <4>1
      <4> QED
        BY <2>1, <2>2, <2>3, <2>4, <3>1, <4>2
    <3>3. CASE inbox[sockfd] = 0
      <4>1. n = 0 /\ NothingReceived(n)
        BY <2>1, <3>1, <3>3, SizeTSmall, ClientBoundsAssumption DEF RecvResult, NothingReceived
      <4>2. pc' = [pc EXCEPT ![r] = "lockDisc"] /\ nrecv' = nrecv
        BY <2>5, <4>1
      <4>3. server[sockfd] = "fin"
        BY <2>1, <2>7, <3>3
      <4> QED
        BY <2>1, <2>2, <2>3, <2>4, <3>1, <3>3, <4>2, <4>3
    <3> QED
      BY <2>1, <3>2, <3>3
  <2> QED
    BY <2>6, <2>7
<1>22. ASSUME NEW r \in Receivers, Publish(r) PROVE ByteInv'
  BY <1>22 DEF Publish
<1>23. ASSUME NEW r \in Receivers, NEW o \in Observers, Handle(r, o) PROVE ByteInv'
  BY <1>23 DEF Handle
<1>24. ASSUME NEW r \in Receivers, PublishMsgReturn(r) PROVE ByteInv'
  <2>1. /\ sockfd \in Socks /\ UNCHANGED <<server, sockfd, sent, inbox, sock, sockErr>>
        /\ \A q \in Receivers : Works(q) => q = r
        /\ pc' = [pc EXCEPT ![r] = "check"] /\ nrecv' = [nrecv EXCEPT ![r] = 0]
    BY <1>24 DEF PublishMsgReturn
  <2>2. CASE server[sockfd] = "rst"
    BY <2>1, <2>2
  <2>3. CASE server[sockfd] # "rst"
    <3>1. /\ inbox[sockfd] + nrecv[r] + handed[r] = sent[sockfd] /\ ~sockErr[sockfd]
          /\ sent[sockfd] \in 0..MaxSent /\ MaxSent \in Nat
      BY <1>24, <2>1, <2>3, ClientBoundsAssumption DEF PublishMsgReturn
    <3>2. ~(handed[r] > MaxSent)
      BY <2>1, <3>1
    <3>3. handed' = [handed EXCEPT ![r] = handed[r] + nrecv[r]]
      BY <1>24, <3>1, <3>2 DEF PublishMsgReturn
    <3> QED
      BY <2>1, <2>3, <3>1, <3>3
  <2> QED
    BY <2>2, <2>3
<1>25. ASSUME NEW r \in Receivers, PublishDiscReturn(r) PROVE ByteInv'
  BY <1>25 DEF PublishDiscReturn
<1>26. ASSUME NEW s \in Socks, ServerSend(s) PROVE ByteInv'
  BY <1>26 DEF ServerSend
<1>27. ASSUME NEW s \in Socks, ServerClose(s) PROVE ByteInv'
  BY <1>27 DEF ServerClose
<1>28. ASSUME NEW s \in Socks, ServerReset(s) PROVE ByteInv'
  BY <1>28 DEF ServerReset
<1>29. CASE UNCHANGED vars
  BY <1>29 DEF vars
<1>30. CASE DeleteUnjoined
  BY <1>30 DEF DeleteUnjoined
<1> QED
  BY <1>1, <1>2, <1>3, <1>4, <1>5, <1>6, <1>7, <1>8, <1>9, <1>10, <1>11, <1>12, <1>13, <1>14,
     <1>15, <1>16, <1>17, <1>18, <1>19, <1>20, <1>21, <1>22, <1>23, <1>24, <1>25, <1>26,
     <1>27, <1>28, <1>29, <1>30 DEF Next, AppCalls, AppSteps, HandlerSteps, ReceiverSteps,
     ServerSteps, Closers

LEMMA OnceInit ==
  ASSUME Init
  PROVE  OnceInv
<1> USE ClientThreadsAssumption DEF Init, Threads, Closers, Works
<1>1. TypeOK /\ HandlerInv
  BY AnyUseInit DEF AnyUseInv
<1>2. CallInv /\ LiveInv /\ ClosedInv /\ QuietInv
  BY DEF CallInv, LiveInv, ClosedInv, QuietInv, IsOpen
<1>3. FreshInv /\ ByteInv /\ OnlyFailedLeaks
  BY DEF FreshInv, ByteInv, OnlyFailedLeaks
<1> QED
  BY <1>1, <1>2, <1>3 DEF OnceInv

ClientInv == AnyUseInv /\ ("reconnect" \notin Calls => OnceInv)

LEMMA ClientInvAlways == Spec => []ClientInv
<1>1. Init => ClientInv
  BY AnyUseInit, OnceInit DEF ClientInv
<1>2. ClientInv /\ [Next]_vars => ClientInv'
  <2> SUFFICES ASSUME ClientInv, [Next]_vars PROVE ClientInv'
    OBVIOUS
  <2>1. AnyUseInv'
    BY AnyUseStep DEF ClientInv
  <2>2. ASSUME "reconnect" \notin Calls PROVE OnceInv'
    <3>1. TypeOK /\ HandlerInv /\ CallInv /\ LiveInv /\ ClosedInv /\ FreshInv /\ QuietInv /\ ByteInv
          /\ OnlyFailedLeaks
      BY <2>2 DEF ClientInv, OnceInv
    <3>2. TypeOK' /\ HandlerInv'
      BY <2>1 DEF AnyUseInv
    <3>3. CallInv' /\ LiveInv' /\ ClosedInv'
      BY <2>2, <3>1, CallStep, LiveStep, ClosedStep
    <3>4. FreshInv' /\ QuietInv' /\ ByteInv' /\ OnlyFailedLeaks'
      BY <2>2, <3>1, FreshStep, QuietStep, ByteStep, LeakStep
    <3> QED
      BY <3>2, <3>3, <3>4 DEF OnceInv
  <2> QED
    BY <2>1, <2>2 DEF ClientInv
<1> QED
  BY <1>1, <1>2, PTL DEF Spec

(* tcp_client.cpp:213, close() joins before it closes: whatever the calls  *)
(* and wherever SIGINT is handled, as long as App has not connected        *)
(* between the join and the close of sig_exit.                             *)
THEOREM ThreadOutlived == Spec => []SocketOutlivesThread
<1>1. AnyUseInv => SocketOutlivesThread
  BY DEF AnyUseInv, SocketInv, SocketOutlivesThread
<1> QED
  BY <1>1, AnyUse, PTL

(* tcp_client.cpp:220: once close() has returned with success no thread    *)
(* can call an observer or read the number, in App or in sig_exit.         *)
THEOREM QuietAfterClose ==
  ASSUME "reconnect" \notin Calls
  PROVE  Spec => []CloseQuiesces
<1>1. ClientInv => CloseQuiesces
  BY DEF ClientInv, OnceInv, QuietInv, Works, CloseQuiesces
<1> QED
  BY <1>1, ClientInvAlways, PTL

(* tcp_client.cpp:57: the only open sockets that _sockfd no longer names   *)
(* are those that could not be connected.                                  *)
THEOREM ConnectionsKept ==
  ASSUME "reconnect" \notin Calls
  PROVE  Spec => []OnlyFailedLeaks
<1>1. ClientInv => OnlyFailedLeaks
  BY DEF ClientInv, OnceInv
<1> QED
  BY <1>1, ClientInvAlways, PTL

(* tcp_client.cpp:170, receiveTask: when the end of an orderly connection  *)
(* is published, every byte that the server sent has been.                 *)
THEOREM AllMessagesBefore ==
  ASSUME "reconnect" \notin Calls
  PROVE  Spec => []MessagesBeforeDisconnect
<1>1. ASSUME ClientInv, NEW r \in Receivers, pc[r] = "inDisc", server[sockOf[r]] = "fin"
      PROVE  handed[r] = sent[sockOf[r]]
  <2>1. TypeOK /\ LiveInv /\ ByteInv /\ Works(r)
    BY <1>1 DEF ClientInv, OnceInv, Works
  <2>2. sockOf[r] = sockfd /\ sockfd \in Socks
    BY <2>1 DEF LiveInv, IsOpen
  <2>3. /\ inbox[sockfd] + nrecv[r] + handed[r] = sent[sockfd]
        /\ inbox[sockfd] = 0 /\ nrecv[r] = 0
    BY <1>1, <2>1, <2>2 DEF ByteInv
  <2> QED
    BY <2>1, <2>2, <2>3 DEF TypeOK
<1>2. ClientInv => MessagesBeforeDisconnect
  BY <1>1 DEF MessagesBeforeDisconnect
<1> QED
  BY <1>2, ClientInvAlways, PTL

-----------------------------------------------------------------------------
(***************************************************************************)
(* The client implements ClientSession (its safety part, for any use).     *)
(***************************************************************************)
StageMap == [r \in Receivers |-> StageOf(pc[r])]

(* A step of one thread that takes it from a stage to another.             *)
LEMMA StageMove ==
  ASSUME TypeOK, NEW r \in Receivers, NEW l, pc' = [pc EXCEPT ![r] = l]
  PROVE  StageMap' = [StageMap EXCEPT ![r] = StageOf(l)]
<1>1. \A q \in Receivers : pc'[q] = IF q = r THEN l ELSE pc[q]
  BY DEF TypeOK, Threads
<1>2. \A q \in Receivers : StageOf(pc'[q]) = IF q = r THEN StageOf(l) ELSE StageOf(pc[q])
  BY <1>1
<1> QED
  BY <1>2 DEF StageMap

LEMMA SessionStep ==
  ASSUME TypeOK, TypeOK', MessageInv, [Next]_vars
  PROVE  [Session!Next]_<<StageMap, handed>>
<1> USE ClientThreadsAssumption DEF TypeOK, Threads, Closers, Goto, Runs,
            procVars, obsVars, clientVars, callVars, netVars, recvVars
<1>1. ASSUME NEW s \in Socks, CreateSocket(s) PROVE [Session!Next]_<<StageMap, handed>>
  BY <1>1 DEF CreateSocket, StageMap, StageOf
<1>2. CASE SocketFails
  BY <1>2 DEF SocketFails, StageMap, StageOf
<1>3. CASE AddressFails
  BY <1>3 DEF AddressFails, StageMap, StageOf
<1>4. CASE ConnectFails
  BY <1>4 DEF ConnectFails, StageMap, StageOf
<1>5. ASSUME NEW r \in Receivers, Connect(r) PROVE [Session!Next]_<<StageMap, handed>>
  <2>1. /\ StageMap[r] = "none" /\ handed' = handed
        /\ StageMap' = [StageMap EXCEPT ![r] = "serving"]
    <3>1. \A q \in Receivers : pc'[q] = IF q = r THEN "check" ELSE pc[q]
      BY <1>5 DEF Connect
    <3>2. \A q \in Receivers : StageOf(pc'[q]) = IF q = r THEN "serving" ELSE StageOf(pc[q])
      BY <3>1 DEF StageOf
    <3>3. StageMap' = [StageMap EXCEPT ![r] = "serving"]
      BY <3>2 DEF StageMap
    <3>4. StageMap[r] = "none" /\ handed' = handed
      BY <1>5 DEF Connect, StageMap, StageOf
    <3> QED
      BY <3>3, <3>4
  <2>2. Session!Begin(r)
    BY <2>1 DEF Session!Begin, Session!Move, StageMap
  <2> QED
    BY <2>2 DEF Session!Next
<1>6. CASE SetConnected
  BY <1>6 DEF SetConnected, StageMap, StageOf
<1>7. CASE SubscribeCall
  BY <1>7 DEF SubscribeCall, StageMap, StageOf
<1>8. CASE SubscribeLock
  BY <1>8 DEF SubscribeLock, StageMap, StageOf
<1>9. CASE Subscribe
  BY <1>9 DEF Subscribe, StageMap, StageOf
<1>10. CASE SendMsg
  BY <1>10 DEF SendMsg, StageMap, StageOf
<1>11. ASSUME NEW k \in Closers, CloseCall(k) PROVE [Session!Next]_<<StageMap, handed>>
  BY <1>11 DEF CloseCall, StageMap, StageOf, After
<1>12. ASSUME NEW k \in Closers, JoinReceiver(k) PROVE [Session!Next]_<<StageMap, handed>>
  BY <1>12 DEF JoinReceiver, StageMap, StageOf
<1>13. ASSUME NEW k \in Closers, JoinThrows(k) PROVE [Session!Next]_<<StageMap, handed>>
  BY <1>13 DEF JoinThrows, RequestEnd, StageMap, StageOf
<1>14. ASSUME NEW k \in Closers, CloseFd(k) PROVE [Session!Next]_<<StageMap, handed>>
  BY <1>14 DEF CloseFd, StageMap, StageOf, After
<1>15. ASSUME NEW t \in Signals, Interrupt(t) PROVE [Session!Next]_<<StageMap, handed>>
  BY <1>15 DEF Interrupt, StageMap, StageOf
<1>16. CASE Exit
  BY <1>16 DEF Exit, StageMap, StageOf
<1>17. ASSUME NEW r \in Receivers, ReceiverCheck(r) PROVE [Session!Next]_<<StageMap, handed>>
  <2>1. StageMap[r] = "serving" /\ handed' = handed
    BY <1>17 DEF ReceiverCheck, StageMap, StageOf, recvVars
  <2>2. CASE isConnected
    <3>1. StageMap' = StageMap
      BY <1>17, <2>2 DEF ReceiverCheck, StageMap, StageOf
    <3> QED
      BY <2>1, <3>1
  <2>3. CASE ~isConnected
    <3>1. StageMap' = [StageMap EXCEPT ![r] = "ended"]
      BY <1>17, <2>3, StageMove DEF ReceiverCheck, StageOf
    <3>2. Session!Quit(r)
      BY <2>1, <3>1 DEF Session!Quit, Session!Move, StageMap
    <3> QED
      BY <3>2 DEF Session!Next
  <2> QED
    BY <2>2, <2>3
<1>18. ASSUME NEW r \in Receivers, WaitReady(r) PROVE [Session!Next]_<<StageMap, handed>>
  BY <1>18 DEF WaitReady, StageMap, StageOf
<1>19. ASSUME NEW r \in Receivers, WaitTimeout(r) PROVE [Session!Next]_<<StageMap, handed>>
  BY <1>19 DEF WaitTimeout, StageMap, StageOf
<1>20. ASSUME NEW r \in Receivers, WaitFails(r) PROVE [Session!Next]_<<StageMap, handed>>
  BY <1>20 DEF WaitFails, StageMap, StageOf
<1>21. ASSUME NEW r \in Receivers, Recv(r) PROVE [Session!Next]_<<StageMap, handed>>
  <2>1. StageMap[r] = "serving" /\ handed' = handed
    BY <1>21 DEF Recv, StageMap, StageOf
  <2>2. CASE pc' = [pc EXCEPT ![r] = "lockMsg"]
    <3>1. StageMap' = StageMap
      BY <1>21, <2>2 DEF Recv, StageMap, StageOf
    <3> QED
      BY <2>1, <3>1
  <2>3. CASE pc' = [pc EXCEPT ![r] = "lockDisc"]
    <3>1. StageMap' = [StageMap EXCEPT ![r] = "lost"]
      BY <2>3, StageMove DEF StageOf
    <3>2. Session!Lose(r)
      BY <2>1, <3>1 DEF Session!Lose, Session!Move, StageMap
    <3> QED
      BY <3>2 DEF Session!Next
  <2> QED
    BY <1>21, <2>2, <2>3 DEF Recv
<1>22. ASSUME NEW r \in Receivers, Publish(r) PROVE [Session!Next]_<<StageMap, handed>>
  BY <1>22 DEF Publish, StageMap, StageOf
<1>23. ASSUME NEW r \in Receivers, NEW o \in Observers, Handle(r, o)
       PROVE  [Session!Next]_<<StageMap, handed>>
  BY <1>23 DEF Handle, StageMap, StageOf
<1>24. ASSUME NEW r \in Receivers, PublishMsgReturn(r) PROVE [Session!Next]_<<StageMap, handed>>
  <2>1. StageMap[r] = "serving" /\ StageMap' = StageMap
    BY <1>24 DEF PublishMsgReturn, StageMap, StageOf
  <2>2. nrecv[r] > 0
    BY <1>24 DEF PublishMsgReturn, MessageInv
  <2>3. CASE handed' = handed
    BY <2>1, <2>3
  <2>4. CASE handed' = [handed EXCEPT ![r] = handed[r] + nrecv[r]]
    <3>1. handed'[r] > handed[r] /\ handed' = [handed EXCEPT ![r] = handed'[r]]
      BY <2>2, <2>4
    <3>2. Session!Deliver(r)
      BY <2>1, <3>1 DEF Session!Deliver, StageMap
    <3> QED
      BY <3>2 DEF Session!Next
  <2>5. handed' = handed \/ handed' = [handed EXCEPT ![r] = handed[r] + nrecv[r]]
    BY <1>24 DEF PublishMsgReturn
  <2> QED
    BY <2>3, <2>4, <2>5
<1>25. ASSUME NEW r \in Receivers, PublishDiscReturn(r) PROVE [Session!Next]_<<StageMap, handed>>
  <2>1. StageMap[r] = "lost" /\ handed' = handed
    BY <1>25 DEF PublishDiscReturn, StageMap, StageOf
  <2>2. StageMap' = [StageMap EXCEPT ![r] = "ended"]
    BY <1>25, StageMove DEF PublishDiscReturn, StageOf
  <2>3. Session!Report(r)
    BY <2>1, <2>2 DEF Session!Report, Session!Move, StageMap
  <2> QED
    BY <2>3 DEF Session!Next
<1>26. ASSUME NEW s \in Socks, ServerSend(s) PROVE [Session!Next]_<<StageMap, handed>>
  BY <1>26 DEF ServerSend, StageMap, StageOf
<1>27. ASSUME NEW s \in Socks, ServerClose(s) PROVE [Session!Next]_<<StageMap, handed>>
  BY <1>27 DEF ServerClose, StageMap, StageOf
<1>28. ASSUME NEW s \in Socks, ServerReset(s) PROVE [Session!Next]_<<StageMap, handed>>
  BY <1>28 DEF ServerReset, StageMap, StageOf
<1>29. CASE UNCHANGED vars
  BY <1>29 DEF vars, StageMap, StageOf
<1>30. CASE DeleteUnjoined
  BY <1>30 DEF DeleteUnjoined, StageMap, StageOf
<1> QED
  BY <1>1, <1>2, <1>3, <1>4, <1>5, <1>6, <1>7, <1>8, <1>9, <1>10, <1>11, <1>12, <1>13, <1>14,
     <1>15, <1>16, <1>17, <1>18, <1>19, <1>20, <1>21, <1>22, <1>23, <1>24, <1>25, <1>26,
     <1>27, <1>28, <1>29, <1>30 DEF Next, AppCalls, AppSteps, HandlerSteps, ReceiverSteps,
     ServerSteps, Closers

(* tcp_client.cpp:167, receiveTask: each thread works once, publishes only *)
(* messages that are not empty while it serves, the end after them, and    *)
(* nothing once it has ended; for any use and wherever SIGINT is handled.  *)
THEOREM SessionRefinement == Spec => Session!Spec
<1>1. Init => Session!Init
  BY ClientThreadsAssumption DEF Init, Session!Init, StageOf, Threads, Closers
<1>2. TypeOK /\ TypeOK' /\ MessageInv /\ [Next]_vars => [Session!Next]_Session!sessionVars
  BY SessionStep DEF StageMap, Session!sessionVars
<1>3. ClientInv => TypeOK /\ MessageInv
  BY DEF ClientInv, AnyUseInv
<1> QED
  BY <1>1, <1>2, <1>3, ClientInvAlways, PTL DEF Spec, Session!Spec

=============================================================================
