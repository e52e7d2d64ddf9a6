------------------------ MODULE TcpServerListProofs ------------------------
(***************************************************************************)
(* Proofs about _clients and the Client objects, for any number of         *)
(* connections, removers and starts.                                       *)
(***************************************************************************)
EXTENDS TcpServerProofs

(* A Client object exists from the moment its receive thread does.         *)
BornInv == \A c \in Conn : obj[c] = "unborn" <=> pc[c] = "none"

(* The two passes that leave a released client in _clients for a while.    *)
ClosingList == pc[Owner] = "closeClient"
Erasing == \E r \in Removers : pc[r] = "erase"

(* What has become of the i-th object of _clients: close() has closed the  *)
(* ones before its iterator, a remover has deleted the one at its own.     *)
ObjOf(i) ==
  IF ClosingList /\ i < iter THEN "closed"
  ELSE IF Erasing /\ i = iter THEN "freed"
  ELSE "open"

(* _clients has no client twice, each in the state that ObjOf says, and    *)
(* every open client but newClient is in it.                               *)
ListInv ==
  /\ \A i, j \in DOMAIN clients : clients[i] = clients[j] => i = j
  /\ \A i \in DOMAIN clients : obj[clients[i]] = ObjOf(i)
  /\ newClient # None => obj[newClient] = "open" /\ ~Listed(newClient)
  /\ \A c \in Conn : obj[c] = "open" => Listed(c) \/ c = newClient

(* Every step keeps BornInv.                                               *)
LEMMA BornStep ==
  ASSUME CoreInv, BornInv, [Next]_vars
  PROVE  BornInv'
<1> USE ThreadsAssumption
<1> PcTyped /\ ObjTyped /\ ListTyped /\ NetTyped /\ LocalInv
  BY DEF CoreInv, TypeOK
<1>1. ASSUME NEW auto \in AutoRemove, NEW fd \in StartResults, Start(auto, fd)
      PROVE  BornInv'
  BY <1>1 DEF Start, StartRemover, BornInv, PcTyped, ObjTyped, Threads, Goto, objVars
<1>2. CASE SubscribeCall
  BY <1>2 DEF SubscribeCall, BornInv, PcTyped, ObjTyped, Threads, Goto, objVars
<1>3. CASE Subscribe
  BY <1>3 DEF Subscribe, BornInv, PcTyped, ObjTyped, Threads, Goto, objVars
<1>4. ASSUME NEW timeout \in Timeouts, Accept(timeout)
      PROVE  BornInv'
  BY <1>4 DEF Accept, NetTyped, BornInv, PcTyped, ObjTyped, Threads, Goto, objVars
<1>5. CASE PushClient
  BY <1>5 DEF PushClient, BornInv, PcTyped, ObjTyped, Threads, Goto, objVars
<1>6. CASE CountClient
  BY <1>6 DEF CountClient, BornInv, PcTyped, ObjTyped, Threads, Goto, objVars
<1>7. CASE SendToAllCall
  BY <1>7 DEF SendToAllCall, BornInv, PcTyped, ObjTyped, Threads, Goto, objVars
<1>8. CASE SendToAllLock
  BY <1>8 DEF SendToAllLock, BornInv, PcTyped, ObjTyped, Threads, Goto, objVars
<1>9. ASSUME NEW n \in -1..MsgSize, SendToNext(n)
      PROVE  BornInv'
  BY <1>9 DEF SendToNext, BornInv, PcTyped, ObjTyped, Threads, Goto, objVars
<1>10. CASE SendToAllReturn
  BY <1>10 DEF SendToAllReturn, BornInv, PcTyped, ObjTyped, Threads, Goto, objVars
<1>11. CASE SendToClientCall
  BY <1>11 DEF SendToClientCall, BornInv, PcTyped, ObjTyped, Threads, Goto, objVars
<1>12. ASSUME NEW ip \in Ip, SendToClient(ip)
      PROVE  BornInv'
  BY <1>12 DEF SendToClient, BornInv, PcTyped, ObjTyped, Threads, Goto, objVars
<1>13. CASE TerminateRemover
  BY <1>13 DEF TerminateRemover, BornInv, PcTyped, ObjTyped, Threads, Goto, objVars
<1>14. CASE JoinRemover
  BY <1>14 DEF JoinRemover, BornInv, PcTyped, ObjTyped, Threads, Goto, objVars
<1>15. CASE CloseLock
  BY <1>15 DEF CloseLock, BornInv, PcTyped, ObjTyped, Threads, Goto, objVars
<1>16. CASE ClearClients
  BY <1>16 DEF ClearClients, BornInv, PcTyped, ObjTyped, Threads, Goto, objVars
<1>17. CASE CloseListener
  BY <1>17 DEF CloseListener, BornInv, PcTyped, ObjTyped, Threads, Goto, objVars
<1>18. ASSUME NEW r \in Removers, RemoverCheck(r)
      PROVE  BornInv'
  BY <1>18 DEF RemoverCheck, BornInv, PcTyped, ObjTyped, Threads, Goto, objVars
<1>19. ASSUME NEW r \in Removers, RemoverLock(r)
      PROVE  BornInv'
  BY <1>19 DEF RemoverLock, BornInv, PcTyped, ObjTyped, Threads, Goto, objVars
<1>20. ASSUME NEW r \in Removers, RemoverScan(r)
      PROVE  BornInv'
  BY <1>20 DEF RemoverScan, BornInv, PcTyped, ObjTyped, Threads, Goto, objVars
<1>21. ASSUME NEW r \in Removers, RemoverUnlock(r)
      PROVE  BornInv'
  BY <1>21 DEF RemoverUnlock, BornInv, PcTyped, ObjTyped, Threads, Goto, objVars
<1>22. ASSUME NEW r \in Removers, DeleteClient(r)
      PROVE  BornInv'
  BY <1>22 DEF DeleteClient, ListTyped, LocalInv, ReceiverJoined, BornInv, PcTyped,
      ObjTyped, Threads, Goto, objVars
<1>23. ASSUME NEW r \in Removers, EraseClient(r)
      PROVE  BornInv'
  BY <1>23 DEF EraseClient, BornInv, PcTyped, ObjTyped, Threads, Goto, objVars
<1>24. ASSUME NEW r \in Removers, RemoverWake(r)
      PROVE  BornInv'
  BY <1>24 DEF RemoverWake, BornInv, PcTyped, ObjTyped, Threads, Goto, objVars
<1>25. ASSUME NEW c \in Conn, Receive(c)
      PROVE  BornInv'
  BY <1>25 DEF Receive, BornInv, PcTyped, ObjTyped, Threads, Goto, objVars
<1>26. ASSUME NEW c \in Conn, PublishMsg(c)
      PROVE  BornInv'
  BY <1>26 DEF PublishMsg, BornInv, PcTyped, ObjTyped, Threads, Goto, objVars
<1>27. ASSUME NEW c \in Conn, PublishMsgReturn(c)
      PROVE  BornInv'
  BY <1>27 DEF PublishMsgReturn, BornInv, PcTyped, ObjTyped, Threads, Goto, objVars
<1>28. ASSUME NEW c \in Conn, PublishDisc(c)
      PROVE  BornInv'
  BY <1>28 DEF PublishDisc, BornInv, PcTyped, ObjTyped, Threads, Goto, objVars
<1>29. ASSUME NEW c \in Conn, PublishDiscReturn(c)
      PROVE  BornInv'
  BY <1>29 DEF PublishDiscReturn, BornInv, PcTyped, ObjTyped, Threads, Goto, objVars
<1>30. ASSUME NEW c \in Conn, DecRead(c)
      PROVE  BornInv'
  BY <1>30 DEF DecRead, BornInv, PcTyped, ObjTyped, Threads, Goto, objVars
<1>31. ASSUME NEW c \in Conn, DecWrite(c)
      PROVE  BornInv'
  BY <1>31 DEF DecWrite, BornInv, PcTyped, ObjTyped, Threads, Goto, objVars
<1>32. CASE CloseClient
  BY <1>32 DEF CloseClient, ListTyped, ReceiverJoined, BornInv, PcTyped, ObjTyped,
      Threads, Goto, objVars
<1>33. CASE UNCHANGED <<pc, obj>>
  BY <1>33 DEF BornInv, PcTyped, ObjTyped, Threads, Goto, objVars
<1>34. QED
  BY <1>1, <1>2, <1>3, <1>4, <1>5, <1>6, <1>7, <1>8, <1>9, <1>10, <1>11, <1>12, <1>13,
      <1>14, <1>15, <1>16, <1>17, <1>18, <1>19, <1>20, <1>21, <1>22, <1>23, <1>24,
      <1>25, <1>26, <1>27, <1>28, <1>29, <1>30, <1>31, <1>32, <1>33, OutlivesFrame

(* The steps between which no thread begins or ends an erase or the loop of *)
(* close().                                                                *)
LEMMA MarksFrame ==
  ASSUME CoreInv, [Next]_vars
  PROVE  \/ ClosingList' = ClosingList /\ Erasing' = Erasing
         \/ CloseLock \/ ClearClients
         \/ \E r \in Removers : DeleteClient(r) \/ EraseClient(r)
<1> USE ThreadsAssumption
<1> PcTyped /\ NetTyped /\ FreshInv
  BY DEF CoreInv, TypeOK
<1>1. ASSUME NEW auto \in AutoRemove, NEW fd \in StartResults, Start(auto, fd)
      PROVE  ClosingList' = ClosingList /\ Erasing' = Erasing
  BY <1>1 DEF Start, StartRemover, ClosingList, Erasing, PcTyped, Threads, Goto
<1>2. CASE SubscribeCall
  BY <1>2 DEF SubscribeCall, ClosingList, Erasing, PcTyped, Threads, Goto
<1>3. CASE Subscribe
  BY <1>3 DEF Subscribe, ClosingList, Erasing, PcTyped, Threads, Goto
<1>4. ASSUME NEW timeout \in Timeouts, Accept(timeout)
      PROVE  ClosingList' = ClosingList /\ Erasing' = Erasing
  BY <1>4 DEF Accept, NetTyped, FreshInv, ClosingList, Erasing, PcTyped, Threads, Goto
<1>5. CASE PushClient
  BY <1>5 DEF PushClient, ClosingList, Erasing, PcTyped, Threads, Goto
<1>6. CASE CountClient
  BY <1>6 DEF CountClient, ClosingList, Erasing, PcTyped, Threads, Goto
<1>7. CASE SendToAllCall
  BY <1>7 DEF SendToAllCall, ClosingList, Erasing, PcTyped, Threads, Goto
<1>8. CASE SendToAllLock
  BY <1>8 DEF SendToAllLock, ClosingList, Erasing, PcTyped, Threads, Goto
<1>9. ASSUME NEW n \in -1..MsgSize, SendToNext(n)
      PROVE  ClosingList' = ClosingList /\ Erasing' = Erasing
  BY <1>9 DEF SendToNext, ClosingList, Erasing, PcTyped, Threads, Goto
<1>10. CASE SendToAllReturn
  BY <1>10 DEF SendToAllReturn, ClosingList, Erasing, PcTyped, Threads, Goto
<1>11. CASE SendToClientCall
  BY <1>11 DEF SendToClientCall, ClosingList, Erasing, PcTyped, Threads, Goto
<1>12. ASSUME NEW ip \in Ip, SendToClient(ip)
      PROVE  ClosingList' = ClosingList /\ Erasing' = Erasing
  BY <1>12 DEF SendToClient, ClosingList, Erasing, PcTyped, Threads, Goto
<1>13. CASE TerminateRemover
  BY <1>13 DEF TerminateRemover, ClosingList, Erasing, PcTyped, Threads, Goto
<1>14. CASE JoinRemover
  BY <1>14 DEF JoinRemover, ClosingList, Erasing, PcTyped, Threads, Goto
<1>15. CASE CloseListener
  BY <1>15 DEF CloseListener, ClosingList, Erasing, PcTyped, Threads, Goto
<1>16. ASSUME NEW r \in Removers, RemoverCheck(r)
      PROVE  ClosingList' = ClosingList /\ Erasing' = Erasing
  BY <1>16 DEF RemoverCheck, ClosingList, Erasing, PcTyped, Threads, Goto
<1>17. ASSUME NEW r \in Removers, RemoverLock(r)
      PROVE  ClosingList' = ClosingList /\ Erasing' = Erasing
  BY <1>17 DEF RemoverLock, ClosingList, Erasing, PcTyped, Threads, Goto
<1>18. ASSUME NEW r \in Removers, RemoverScan(r)
      PROVE  ClosingList' = ClosingList /\ Erasing' = Erasing
  BY <1>18 DEF RemoverScan, ClosingList, Erasing, PcTyped, Threads, Goto
<1>19. ASSUME NEW r \in Removers, RemoverUnlock(r)
      PROVE  ClosingList' = ClosingList /\ Erasing' = Erasing
  BY <1>19 DEF RemoverUnlock, ClosingList, Erasing, PcTyped, Threads, Goto
<1>20. ASSUME NEW r \in Removers, RemoverWake(r)
      PROVE  ClosingList' = ClosingList /\ Erasing' = Erasing
  BY <1>20 DEF RemoverWake, ClosingList, Erasing, PcTyped, Threads, Goto
<1>21. ASSUME NEW c \in Conn, Receive(c)
      PROVE  ClosingList' = ClosingList /\ Erasing' = Erasing
  BY <1>21 DEF Receive, ClosingList, Erasing, PcTyped, Threads, Goto
<1>22. ASSUME NEW c \in Conn, PublishMsg(c)
      PROVE  ClosingList' = ClosingList /\ Erasing' = Erasing
  BY <1>22 DEF PublishMsg, ClosingList, Erasing, PcTyped, Threads, Goto
<1>23. ASSUME NEW c \in Conn, PublishMsgReturn(c)
      PROVE  ClosingList' = ClosingList /\ Erasing' = Erasing
  BY <1>23 DEF PublishMsgReturn, ClosingList, Erasing, PcTyped, Threads, Goto
<1>24. ASSUME NEW c \in Conn, PublishDisc(c)
      PROVE  ClosingList' = ClosingList /\ Erasing' = Erasing
  BY <1>24 DEF PublishDisc, ClosingList, Erasing, PcTyped, Threads, Goto
<1>25. ASSUME NEW c \in Conn, PublishDiscReturn(c)
      PROVE  ClosingList' = ClosingList /\ Erasing' = Erasing
  BY <1>25 DEF PublishDiscReturn, ClosingList, Erasing, PcTyped, Threads, Goto
<1>26. ASSUME NEW c \in Conn, DecRead(c)
      PROVE  ClosingList' = ClosingList /\ Erasing' = Erasing
  BY <1>26 DEF DecRead, ClosingList, Erasing, PcTyped, Threads, Goto
<1>27. ASSUME NEW c \in Conn, DecWrite(c)
      PROVE  ClosingList' = ClosingList /\ Erasing' = Erasing
  BY <1>27 DEF DecWrite, ClosingList, Erasing, PcTyped, Threads, Goto
<1>28. CASE UNCHANGED pc
  BY <1>28 DEF ClosingList, Erasing, PcTyped, Threads, Goto
<1>29. QED
  BY <1>1, <1>2, <1>3, <1>4, <1>5, <1>6, <1>7, <1>8, <1>9, <1>10, <1>11, <1>12, <1>13,
      <1>14, <1>15, <1>16, <1>17, <1>18, <1>19, <1>20, <1>21, <1>22, <1>23, <1>24,
      <1>25, <1>26, <1>27, <1>28, PcFrame

(* Only the thread in the critical section of _clientsMtx marks objects.   *)
LEMMA Exclusive ==
  ASSUME CoreInv
  PROVE  /\ ClosingList => clientsMtx = Owner
         /\ \A r \in Removers : pc[r] \in {"scan", "join", "erase"} => clientsMtx = r
         /\ pc[Owner] \in {"inc", "send", "closeClient"} => clientsMtx = Owner
         /\ Erasing => clientsMtx \in Removers
         /\ Owner \notin Removers /\ None \notin Removers /\ Owner # None
<1> USE ThreadsAssumption
<1>1. LocksInv
  BY DEF CoreInv
<1>2. QED
  BY <1>1 DEF LocksInv, HoldsClients, ClosingList, Erasing, Threads

(* vector::erase(it): the elements after the iterator move down by one.    *)
LEMMA WithoutCurrentFacts ==
  ASSUME ListTyped, iter <= Len(clients)
  PROVE  /\ WithoutCurrent \in Seq(Conn)
         /\ Len(WithoutCurrent) = Len(clients) - 1
         /\ \A i \in 1..(Len(clients) - 1) :
              WithoutCurrent[i] = IF i < iter THEN clients[i] ELSE clients[i + 1]
<1> DEFINE left == SubSeq(clients, 1, iter - 1)
           right == SubSeq(clients, iter + 1, Len(clients))
<1>1. clients \in Seq(Conn) /\ Len(clients) \in Nat /\ iter \in Nat \ {0}
  BY DEF ListTyped
<1>2. left \in Seq(Conn) /\ Len(left) = iter - 1 /\ \A i \in 1..(iter - 1) : left[i] = clients[i]
  BY <1>1, SubSeqProperties
<1>3. /\ right \in Seq(Conn) /\ Len(right) = Len(clients) - iter
      /\ \A i \in 1..(Len(clients) - iter) : right[i] = clients[iter + i]
  BY <1>1, SubSeqProperties
<1>4. WithoutCurrent = left \o right
  BY DEF WithoutCurrent
<1> HIDE DEF left, right
<1>5. /\ left \o right \in Seq(Conn)
      /\ Len(left \o right) = Len(left) + Len(right)
      /\ \A i \in 1..(Len(left) + Len(right)) :
           (left \o right)[i] = IF i <= Len(left) THEN left[i] ELSE right[i - Len(left)]
  BY <1>2, <1>3, ConcatProperties
<1>6. Len(left) + Len(right) = Len(clients) - 1
  BY <1>1, <1>2, <1>3
<1>7. ASSUME NEW i \in 1..(Len(clients) - 1)
      PROVE  WithoutCurrent[i] = IF i < iter THEN clients[i] ELSE clients[i + 1]
  <2>1. CASE i < iter
    BY <1>1, <1>2, <1>4, <1>5, <1>6, <2>1
  <2>2. CASE i >= iter
    <3>1. i - Len(left) \in 1..(Len(clients) - iter) /\ iter + (i - Len(left)) = i + 1
      BY <1>1, <1>2, <2>2
    <3>2. WithoutCurrent[i] = right[i - Len(left)]
      BY <1>1, <1>2, <1>4, <1>5, <1>6, <2>2
    <3>3. right[i - Len(left)] = clients[iter + (i - Len(left))]
      BY <1>3, <3>1
    <3>4. QED
      BY <1>1, <2>2, <3>1, <3>2, <3>3
  <2>3. QED
    BY <1>1, <2>1, <2>2
<1>8. QED
  BY <1>4, <1>5, <1>6, <1>7


(* Only the end of the loop leads close() to the listening socket.         *)
LEMMA CloseListenerFrame ==
  ASSUME CoreInv, [Next]_vars
  PROVE  \/ ClearClients
         \/ pc'[Owner] = "closeListener" => pc[Owner] = "closeListener"
<1> USE ThreadsAssumption
<1> PcTyped /\ NetTyped
  BY DEF CoreInv, TypeOK
<1>1. ASSUME NEW auto \in AutoRemove, NEW fd \in StartResults, Start(auto, fd)
      PROVE  pc'[Owner] = "closeListener" => pc[Owner] = "closeListener"
  BY <1>1 DEF Start, StartRemover, PcTyped, Threads, Goto
<1>2. CASE SubscribeCall
  BY <1>2 DEF SubscribeCall, PcTyped, Threads, Goto
<1>3. CASE Subscribe
  BY <1>3 DEF Subscribe, PcTyped, Threads, Goto
<1>4. ASSUME NEW timeout \in Timeouts, Accept(timeout)
      PROVE  pc'[Owner] = "closeListener" => pc[Owner] = "closeListener"
  BY <1>4 DEF Accept, NetTyped, PcTyped, Threads, Goto
<1>5. CASE PushClient
  BY <1>5 DEF PushClient, PcTyped, Threads, Goto
<1>6. CASE CountClient
  BY <1>6 DEF CountClient, PcTyped, Threads, Goto
<1>7. CASE SendToAllCall
  BY <1>7 DEF SendToAllCall, PcTyped, Threads, Goto
<1>8. CASE SendToAllLock
  BY <1>8 DEF SendToAllLock, PcTyped, Threads, Goto
<1>9. ASSUME NEW n \in -1..MsgSize, SendToNext(n)
      PROVE  pc'[Owner] = "closeListener" => pc[Owner] = "closeListener"
  BY <1>9 DEF SendToNext, PcTyped, Threads, Goto
<1>10. CASE SendToAllReturn
  BY <1>10 DEF SendToAllReturn, PcTyped, Threads, Goto
<1>11. CASE SendToClientCall
  BY <1>11 DEF SendToClientCall, PcTyped, Threads, Goto
<1>12. ASSUME NEW ip \in Ip, SendToClient(ip)
      PROVE  pc'[Owner] = "closeListener" => pc[Owner] = "closeListener"
  BY <1>12 DEF SendToClient, PcTyped, Threads, Goto
<1>13. CASE TerminateRemover
  BY <1>13 DEF TerminateRemover, PcTyped, Threads, Goto
<1>14. CASE JoinRemover
  BY <1>14 DEF JoinRemover, PcTyped, Threads, Goto
<1>15. CASE CloseLock
  BY <1>15 DEF CloseLock, PcTyped, Threads, Goto
<1>16. CASE CloseListener
  BY <1>16 DEF CloseListener, PcTyped, Threads, Goto
<1>17. ASSUME NEW r \in Removers, RemoverCheck(r)
      PROVE  pc'[Owner] = "closeListener" => pc[Owner] = "closeListener"
  BY <1>17 DEF RemoverCheck, PcTyped, Threads, Goto
<1>18. ASSUME NEW r \in Removers, RemoverLock(r)
      PROVE  pc'[Owner] = "closeListener" => pc[Owner] = "closeListener"
  BY <1>18 DEF RemoverLock, PcTyped, Threads, Goto
<1>19. ASSUME NEW r \in Removers, RemoverScan(r)
      PROVE  pc'[Owner] = "closeListener" => pc[Owner] = "closeListener"
  BY <1>19 DEF RemoverScan, PcTyped, Threads, Goto
<1>20. ASSUME NEW r \in Removers, RemoverUnlock(r)
      PROVE  pc'[Owner] = "closeListener" => pc[Owner] = "closeListener"
  BY <1>20 DEF RemoverUnlock, PcTyped, Threads, Goto
<1>21. ASSUME NEW r \in Removers, DeleteClient(r)
      PROVE  pc'[Owner] = "closeListener" => pc[Owner] = "closeListener"
  BY <1>21 DEF DeleteClient, PcTyped, Threads, Goto
<1>22. ASSUME NEW r \in Removers, EraseClient(r)
      PROVE  pc'[Owner] = "closeListener" => pc[Owner] = "closeListener"
  BY <1>22 DEF EraseClient, PcTyped, Threads, Goto
<1>23. ASSUME NEW r \in Removers, RemoverWake(r)
      PROVE  pc'[Owner] = "closeListener" => pc[Owner] = "closeListener"
  BY <1>23 DEF RemoverWake, PcTyped, Threads, Goto
<1>24. ASSUME NEW c \in Conn, Receive(c)
      PROVE  pc'[Owner] = "closeListener" => pc[Owner] = "closeListener"
  BY <1>24 DEF Receive, PcTyped, Threads, Goto
<1>25. ASSUME NEW c \in Conn, PublishMsg(c)
      PROVE  pc'[Owner] = "closeListener" => pc[Owner] = "closeListener"
  BY <1>25 DEF PublishMsg, PcTyped, Threads, Goto
<1>26. ASSUME NEW c \in Conn, PublishMsgReturn(c)
      PROVE  pc'[Owner] = "closeListener" => pc[Owner] = "closeListener"
  BY <1>26 DEF PublishMsgReturn, PcTyped, Threads, Goto
<1>27. ASSUME NEW c \in Conn, PublishDisc(c)
      PROVE  pc'[Owner] = "closeListener" => pc[Owner] = "closeListener"
  BY <1>27 DEF PublishDisc, PcTyped, Threads, Goto
<1>28. ASSUME NEW c \in Conn, PublishDiscReturn(c)
      PROVE  pc'[Owner] = "closeListener" => pc[Owner] = "closeListener"
  BY <1>28 DEF PublishDiscReturn, PcTyped, Threads, Goto
<1>29. ASSUME NEW c \in Conn, DecRead(c)
      PROVE  pc'[Owner] = "closeListener" => pc[Owner] = "closeListener"
  BY <1>29 DEF DecRead, PcTyped, Threads, Goto
<1>30. ASSUME NEW c \in Conn, DecWrite(c)
      PROVE  pc'[Owner] = "closeListener" => pc[Owner] = "closeListener"
  BY <1>30 DEF DecWrite, PcTyped, Threads, Goto
<1>31. CASE UNCHANGED pc
  BY <1>31 DEF PcTyped, Threads, Goto
<1>32. QED
  BY <1>1, <1>2, <1>3, <1>4, <1>5, <1>6, <1>7, <1>8, <1>9, <1>10, <1>11, <1>12, <1>13,
      <1>14, <1>15, <1>16, <1>17, <1>18, <1>19, <1>20, <1>21, <1>22, <1>23, <1>24,
      <1>25, <1>26, <1>27, <1>28, <1>29, <1>30, <1>31, PcFrame

(* The actions that write what ListInv is about.                           *)
LEMMA ListObjFrame ==
  ASSUME [Next]_vars
  PROVE  \/ UNCHANGED <<clients, iter, obj, newClient>>
         \/ \E timeout \in Timeouts : Accept(timeout)
         \/ PushClient \/ SendToAllLock \/ SendToAllReturn \/ CloseLock \/ CloseClient
            \/ ClearClients
         \/ \E n \in -1..MsgSize : SendToNext(n)
         \/ \E r \in Removers : RemoverLock(r) \/ RemoverScan(r) \/ RemoverUnlock(r) \/
            DeleteClient(r) \/ EraseClient(r)
  BY SMTT(30) DEF vars, ownerVars, listVars, objVars, countVars, remVars, netVars,
      histVars, Next, OwnerCalls, OwnerLocks, OwnerSteps, RemoverSteps, ReceiverLocks,
      ReceiverSteps, PeerSteps, Start, SubscribeCall, Subscribe, AcceptFails,
      CountClient, SendToAllCall, SendToClientCall, SendToClient, TerminateRemover,
      JoinRemover, CloseListener, RemoverCheck, RemoverWake, Receive, PublishMsg,
      HandleMsg, PublishMsgReturn, PublishDisc, HandleDisc, PublishDiscReturn, DecRead,
      DecWrite, PeerConnect, PeerSend, PeerClose, PeerReset

(* Every step keeps ListInv; the cases are the steps that write _clients,  *)
(* newClient, obj or the iterator.                                         *)
LEMMA ListStep ==
  ASSUME CoreInv, BornInv, ListInv, [Next]_vars
  PROVE  ListInv'
<1> USE ThreadsAssumption
<1> /\ PcTyped /\ ListTyped /\ ObjTyped /\ OwnerTyped /\ NetTyped
    /\ FreshInv /\ LocksInv /\ LocalInv
  BY DEF CoreInv, TypeOK
<1>1. ASSUME NEW timeout \in Timeouts, Accept(timeout)
      PROVE  ListInv'
  <2> DEFINE q == queue[1]
  <2>1. q \in Conn /\ obj[q] = "unborn"
    BY <1>1 DEF Accept, NetTyped, FreshInv, BornInv
  <2>2. clients' = clients /\ iter' = iter /\ newClient' = q /\ newClient = None
    BY <1>1 DEF Accept, listVars, LocalInv
  <2>3. obj' = [obj EXCEPT ![q] = "open"]
    BY <1>1 DEF Accept, NetTyped
  <2>4. ~Listed(q)
    BY <2>1 DEF ListInv, ObjOf, Listed
  <2>5. ClosingList' = ClosingList /\ Erasing' = Erasing
    BY <1>1, <2>1 DEF Accept, ClosingList, Erasing, PcTyped, Threads
  <2>6. \A i \in DOMAIN clients : clients[i] \in Conn /\ clients[i] # q
    BY <2>4 DEF Listed, ListTyped
  <2>7. QED
    BY <2>1, <2>2, <2>3, <2>4, <2>5, <2>6 DEF ListInv, ObjOf, Listed, ObjTyped
<1>2. CASE PushClient
  <2>1. newClient \in Conn /\ newClient' = None /\ UNCHANGED <<obj, iter>>
    BY <1>2 DEF PushClient, Goto, LocalInv, OwnerTyped, objVars
  <2>2. ~ClosingList /\ ~ClosingList' /\ ~Erasing /\ ~Erasing'
    BY <1>2, Exclusive DEF PushClient, Goto, ClosingList, Erasing, PcTyped, Threads
  <2>3. /\ clients' \in Seq(Conn) /\ Len(clients') = Len(clients) + 1
        /\ \A i \in 1..Len(clients) : clients'[i] = clients[i]
        /\ clients'[Len(clients) + 1] = newClient
    BY <1>2, <2>1 DEF PushClient, ListTyped
  <2>4. QED
    BY <2>1, <2>2, <2>3 DEF ListInv, ObjOf, Listed, ListTyped
<1>3. ASSUME UNCHANGED <<clients, obj, newClient>>, ~ClosingList, ~Erasing,
             ~ClosingList', ~Erasing'
      PROVE  ListInv'
  BY <1>3 DEF ListInv, ObjOf, Listed
<1>4. CASE SendToAllLock \/ SendToAllReturn \/ \E n \in -1..MsgSize : SendToNext(n)
  <2>1. ~ClosingList /\ ~Erasing
    BY <1>4, Exclusive DEF SendToAllLock, SendToAllReturn, SendToNext, Goto, ClosingList
  <2>2. ~ClosingList' /\ ~Erasing'
    BY <1>4, <2>1 DEF SendToAllLock, SendToAllReturn, SendToNext, Goto, ClosingList,
       Erasing, PcTyped, Threads
  <2>3. UNCHANGED <<clients, obj, newClient>>
    BY <1>4 DEF SendToAllLock, SendToAllReturn, SendToNext, objVars
  <2>4. QED
    BY <1>3, <2>1, <2>2, <2>3
<1>5. ASSUME NEW r \in Removers, RemoverLock(r) \/ RemoverScan(r) \/ RemoverUnlock(r)
      PROVE  ListInv'
  <2>1. ~ClosingList /\ ~Erasing
    BY <1>5, Exclusive
    DEF RemoverLock, RemoverScan, RemoverUnlock, Goto, ClosingList, Erasing
  <2>2. ~ClosingList' /\ ~Erasing'
    BY <1>5, <2>1 DEF RemoverLock, RemoverScan, RemoverUnlock, Goto, ClosingList, Erasing,
       PcTyped, Threads
  <2>3. UNCHANGED <<clients, obj, newClient>>
    BY <1>5 DEF RemoverLock, RemoverScan, RemoverUnlock, objVars, ownerVars
  <2>4. QED
    BY <1>3, <2>1, <2>2, <2>3
<1>6. CASE CloseLock
  <2>1. ~ClosingList /\ ~Erasing
    BY <1>6, Exclusive DEF CloseLock, Goto, ClosingList
  <2>2. iter' = 1 /\ UNCHANGED <<clients, obj, newClient>>
    BY <1>6 DEF CloseLock, objVars, ownerVars
  <2>3. ~Erasing'
    BY <1>6, <2>1 DEF CloseLock, Goto, Erasing, PcTyped, Threads
  <2>4. DOMAIN clients = 1..Len(clients)
    BY DEF ListTyped
  <2>5. QED
    BY <2>1, <2>2, <2>3, <2>4 DEF ListInv, ObjOf, Listed
<1>7. CASE CloseClient
  <2>1. ClosingList /\ ClosingList' /\ ~Erasing /\ ~Erasing'
    BY <1>7, Exclusive DEF CloseClient, ClosingList, Erasing
  <2>2. /\ iter \in DOMAIN clients /\ clients[iter] \in Conn /\ iter' = iter + 1
        /\ obj' = [obj EXCEPT ![clients[iter]] = "closed"]
        /\ UNCHANGED <<clients, newClient>>
    BY <1>7 DEF CloseClient, ownerVars, ListTyped
  <2>3. newClient = None
    BY <1>7 DEF CloseClient, LocalInv
  <2>4. \A i \in DOMAIN clients : obj'[clients[i]] = IF i < iter + 1 THEN "closed" ELSE "open"
    BY <2>1, <2>2 DEF ListInv, ObjOf, ObjTyped, ListTyped
  <2>5. QED
    BY <2>1, <2>2, <2>3, <2>4 DEF ListInv, ObjOf, Listed, ObjTyped
<1>8. CASE ClearClients
  <2>1. clients' = <<>> /\ UNCHANGED <<obj, newClient>>
    BY <1>8 DEF ClearClients, objVars, ownerVars
  <2>2. newClient = None
    BY <1>8 DEF ClearClients, Goto, LocalInv
  <2>3. \A i \in DOMAIN clients : obj[clients[i]] = "closed"
    BY <1>8 DEF ClearClients, Goto, ClosingList, ListInv, ObjOf, ListTyped
  <2>4. \A c \in Conn : obj[c] # "open"
    BY <2>2, <2>3 DEF ListInv, Listed
  <2>5. DOMAIN clients' = {}
    BY <2>1
  <2>6. QED
    BY <2>1, <2>2, <2>4, <2>5 DEF ListInv, Listed
<1>9. ASSUME NEW r \in Removers, DeleteClient(r)
      PROVE  ListInv'
  <2>1. ~ClosingList /\ ~Erasing
    BY <1>9, Exclusive DEF DeleteClient, Goto, Erasing
  <2>2. ~ClosingList' /\ Erasing'
    BY <1>9, <2>1 DEF DeleteClient, Goto, ClosingList, Erasing, PcTyped, Threads
  <2>3. /\ iter \in DOMAIN clients /\ clients[iter] \in Conn
        /\ obj' = [obj EXCEPT ![clients[iter]] = "freed"]
        /\ UNCHANGED <<clients, iter, newClient>>
    BY <1>9 DEF DeleteClient, Goto, LocalInv, ownerVars, listVars, ListTyped
  <2>4. \A i \in DOMAIN clients : obj'[clients[i]] = IF i = iter THEN "freed" ELSE "open"
    BY <2>1, <2>3 DEF ListInv, ObjOf, ObjTyped, ListTyped
  <2>5. newClient # None => newClient # clients[iter]
    BY <2>3 DEF ListInv, Listed
  <2>6. QED
    BY <2>2, <2>3, <2>4, <2>5 DEF ListInv, ObjOf, Listed, ObjTyped, OwnerTyped
<1>10. ASSUME NEW r \in Removers, EraseClient(r)
       PROVE  ListInv'
  <2>1. ~ClosingList /\ Erasing
    BY <1>10, Exclusive DEF EraseClient, Goto, Erasing
  <2>2. ~ClosingList' /\ ~Erasing'
    BY <1>10, <2>1, Exclusive DEF EraseClient, Goto, ClosingList, Erasing, PcTyped, Threads
  <2>3. iter <= Len(clients) /\ iter \in Nat \ {0} /\ Len(clients) \in Nat
    BY <1>10 DEF EraseClient, Goto, LocalInv, ListTyped
  <2>4. clients' = WithoutCurrent /\ UNCHANGED <<obj, newClient>>
    BY <1>10 DEF EraseClient, objVars, ownerVars
  <2>5. /\ DOMAIN clients = 1..Len(clients)
        /\ DOMAIN clients' = 1..(Len(clients) - 1)
        /\ \A i \in DOMAIN clients' :
             clients'[i] = IF i < iter THEN clients[i] ELSE clients[i + 1]
    BY <2>3, <2>4, WithoutCurrentFacts DEF ListTyped
  <2>6. \A i \in DOMAIN clients : obj[clients[i]] = IF i = iter THEN "freed" ELSE "open"
    BY <2>1 DEF ListInv, ObjOf
  <2>7. \A i, j \in DOMAIN clients' : clients'[i] = clients'[j] => i = j
    BY <2>3, <2>5 DEF ListInv
  <2>8. \A i \in DOMAIN clients' : obj[clients'[i]] = "open"
    BY <2>3, <2>5, <2>6
  <2>9. ASSUME NEW i \in DOMAIN clients, i # iter
        PROVE  \E j \in DOMAIN clients' : clients'[j] = clients[i]
    <3>1. CASE i < iter
      BY <2>3, <2>5, <2>9, <3>1
    <3>2. CASE i > iter
      <4>1. i - 1 \in DOMAIN clients' /\ ~(i - 1 < iter)
        BY <2>3, <2>5, <2>9, <3>2
      <4>2. clients'[i - 1] = clients[i]
        BY <2>5, <4>1
      <4>3. QED
        BY <4>1, <4>2
    <3>3. QED
      BY <2>3, <2>5, <2>9, <3>1, <3>2
  <2>10. \A i \in DOMAIN clients' : \E j \in DOMAIN clients : clients[j] = clients'[i]
    BY <2>3, <2>5
  <2>11. \A c \in Conn : Listed(c) /\ obj[c] = "open" => Listed(c)'
    BY <2>6, <2>9 DEF Listed
  <2>12. \A c \in Conn : Listed(c)' => Listed(c)
    BY <2>10 DEF Listed
  <2>13. QED
    BY <2>2, <2>4, <2>7, <2>8, <2>11, <2>12 DEF ListInv, ObjOf, OwnerTyped
<1>11. CASE UNCHANGED <<clients, iter, obj, newClient>>
  <2>1. CASE ClosingList' = ClosingList /\ Erasing' = Erasing
    BY <1>11, <2>1 DEF ListInv, ObjOf, Listed
  <2>2. QED
    BY <1>6, <1>8, <1>9, <1>10, <2>1, MarksFrame
<1>12. QED
  BY <1>1, <1>2, <1>4, <1>5, <1>6, <1>7, <1>8, <1>9, <1>10, <1>11, ListObjFrame

(* The inductive invariant of this module.                                 *)
ListsInv == CoreInv /\ BornInv /\ ListInv

(* ListInv and BornInv hold initially.                                     *)
LEMMA ListInit == Init => BornInv /\ ListInv
<1> SUFFICES ASSUME Init PROVE BornInv /\ ListInv
  OBVIOUS
<1>1. /\ pc = [t \in Threads |-> IF t = Owner THEN "idle" ELSE "none"]
      /\ obj = [c \in Conn |-> "unborn"]
      /\ clients = <<>> /\ newClient = None
  BY DEF Init
<1>2. BornInv
  BY <1>1, ThreadsAssumption DEF BornInv, Threads
<1>3. ListInv
  BY <1>1 DEF ListInv
<1>4. QED
  BY <1>2, <1>3

(* What _clients contains, in every reachable state.                       *)
THEOREM ListInvariant == Spec => []ListsInv
<1>1. Init => ListsInv
  BY CoreInit, ListInit DEF ListsInv
<1>2. ListsInv /\ [Next]_vars => ListsInv'
  BY CoreStep, BornStep, ListStep DEF ListsInv
<1>3. QED
  BY <1>1, <1>2, PTL DEF Spec

(* What is at the iterator when a pass is about to close it is open.       *)
LEMMA ClosedOnceStep == ListsInv => NoDoubleClose
<1> SUFFICES ASSUME ListsInv PROVE NoDoubleClose
  OBVIOUS
<1> USE ThreadsAssumption
<1>1. ListTyped /\ LocalInv /\ LocksInv
  BY DEF ListsInv, CoreInv, TypeOK
<1>2. ASSUME NEW r \in Removers, pc[r] = "join" PROVE obj[clients[iter]] = "open"
  <2>1. iter \in DOMAIN clients /\ clientsMtx = r
    BY <1>1, <1>2, Exclusive DEF ListsInv, LocalInv, ListTyped
  <2>2. ~ClosingList /\ ~Erasing
    BY <1>2, <2>1, Exclusive DEF ListsInv, Erasing
  <2>3. QED
    BY <2>1, <2>2 DEF ListsInv, ListInv, ObjOf
<1>3. ASSUME pc[Owner] = "closeClient", iter <= Len(clients)
      PROVE  obj[clients[iter]] = "open"
  <2>1. iter \in DOMAIN clients /\ clientsMtx = Owner /\ iter \in Nat
    BY <1>1, <1>3, Exclusive DEF ListsInv, ListTyped
  <2>2. ~Erasing
    BY <2>1, Exclusive DEF ListsInv
  <2>3. QED
    BY <2>1, <2>2 DEF ListsInv, ListInv, ObjOf
<1>4. QED
  BY <1>2, <1>3 DEF NoDoubleClose

(* No pass over _clients comes to a client that was closed before.         *)
THEOREM ClosedOnce == Spec => []NoDoubleClose
  BY ClosedOnceStep, ListInvariant, PTL

(* Outside of the critical sections _clients is what it should be.         *)
THEOREM ListMatches == Spec => []ListMatchesObjects
<1>1. ListsInv => ListMatchesObjects
  <2> SUFFICES ASSUME ListsInv, clientsMtx = None
               PROVE  /\ \A c \in Conn : Listed(c) <=> obj[c] = "open" /\ c # newClient
                      /\ \A i, j \in DOMAIN clients : clients[i] = clients[j] => i = j
    BY DEF ListMatchesObjects
  <2>1. ~ClosingList /\ ~Erasing
    BY Exclusive DEF ListsInv
  <2>2. QED
    BY <2>1, ThreadsAssumption DEF ListsInv, ListInv, ObjOf, Listed
<1>2. QED
  BY <1>1, ListInvariant, PTL

(* When close() has cleared the list no client is open, and Owner opens    *)
(* none before it is done.                                                 *)
NoneOpen == pc[Owner] = "closeListener" => \A c \in Conn : obj[c] # "open"

(* Every step keeps NoneOpen.                                              *)
LEMMA NoneOpenStep ==
  ASSUME ListsInv, NoneOpen, [Next]_vars
  PROVE  NoneOpen'
<1> /\ ObjTyped /\ ListTyped /\ LocalInv /\ ListInv /\ NetTyped
  BY DEF ListsInv, CoreInv, TypeOK
<1>1. CASE ClearClients
  <2>1. obj' = obj /\ newClient = None
    BY <1>1 DEF ClearClients, Goto, LocalInv, objVars
  <2>2. \A i \in DOMAIN clients : obj[clients[i]] = "closed"
    BY <1>1 DEF ClearClients, Goto, ClosingList, ListInv, ObjOf, ListTyped
  <2>3. QED
    BY <2>1, <2>2, ThreadsAssumption DEF NoneOpen, ListInv, Listed
<1>2. CASE pc'[Owner] = "closeListener" => pc[Owner] = "closeListener"
  <2>1. ASSUME NEW timeout \in Timeouts, Accept(timeout) PROVE NoneOpen'
    BY <1>2, <2>1 DEF Accept, NoneOpen
  <2>2. CASE CloseClient
    BY <1>2, <2>2 DEF CloseClient, NoneOpen, ObjTyped
  <2>3. ASSUME NEW r \in Removers, DeleteClient(r) PROVE NoneOpen'
    BY <1>2, <2>3 DEF DeleteClient, Goto, NoneOpen, ObjTyped
  <2>4. ASSUME NEW c \in Conn, Receive(c) \/ PublishMsgReturn(c) PROVE NoneOpen'
    BY <1>2, <2>4 DEF Receive, PublishMsgReturn, NoneOpen, objVars
  <2>5. CASE UNCHANGED objVars
    BY <1>2, <2>5 DEF NoneOpen, objVars
  <2>6. QED
    BY <2>1, <2>2, <2>3, <2>4, <2>5, ObjFrame
<1>3. QED
  BY <1>1, <1>2, CloseListenerFrame DEF ListsInv

(* When close() is past the list no receive thread is left and no client's *)
(* descriptor is open.                                                     *)
THEOREM CloseReleasesAll == Spec => []CloseReleases
<1>1. Init => NoneOpen
  BY ThreadsAssumption DEF Init, NoneOpen, Threads
<1>2. ListsInv /\ NoneOpen /\ [Next]_vars => NoneOpen'
  BY NoneOpenStep
<1>3. ListsInv /\ OutlivesReceiver /\ NoneOpen => CloseReleases
  BY DEF ListsInv, CoreInv, TypeOK, ObjTyped, OutlivesReceiver, NoneOpen, CloseReleases
<1>4. QED
  BY <1>1, <1>2, <1>3, ListInvariant, ReceiverOutlived, PTL DEF Spec
=============================================================================
