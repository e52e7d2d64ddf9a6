------------------------- MODULE DescriptorsProofs -------------------------
(***************************************************************************)
(* As long as close() is only called with a socket of the server's own,    *)
(* every number keeps its meaning, no thread meets a number without a      *)
(* file, and close() gives back all numbers, for any number of clients,    *)
(* listeners, other files and descriptors.                                 *)
(***************************************************************************)
EXTENDS Descriptors, SequenceTheorems, TLAPS

(* The numbers that are in use mean what they were set for.                *)
Meanings ==
  /\ table[0] = Stdin
  /\ own # None => sockfd # -1 /\ table[sockfd] = own
  /\ \A i \in DOMAIN clients :
       fd[clients[i]] # -1 /\ (iter <= i => table[fd[clients[i]]] = clients[i])
  /\ \A o \in Others : otherFd[o] # -1 => table[otherFd[o]] = o

(* Nobody else has a number: a client's is that of a client in the list,   *)
(* a listener's is the server's own, or it was lost.                       *)
ClientListed(n) ==
  table[n] \in Conn =>
    \E i \in DOMAIN clients : iter <= i /\ clients[i] = table[n] /\ fd[table[n]] = n
ListenerOwned(n) ==
  table[n] \in Listeners => lost \/ (own = table[n] /\ sockfd = n)
NoLeak == \A n \in Fds : ClientListed(n) /\ ListenerOwned(n)

(* The list has every client once, and a client whose thread runs is in it.*)
Listing ==
  /\ \A i, j \in DOMAIN clients : clients[i] = clients[j] => i = j
  /\ \A c \in Conn : receives[c] => \E i \in DOMAIN clients : iter <= i /\ clients[i] = c

(* What close() relies on and what its results mean.                       *)
Results ==
  /\ outcome = "running"
  /\ iter > 0 => own # None \/ sockfd = -1
  /\ ret = "closeFail" => sockfd = -1
  /\ ret = "closeOk" => clients = <<>> /\ own = None

Healthy == Meanings /\ NoLeak /\ Listing /\ Results

FdInv == TypeOK /\ (~misused => Healthy)

-----------------------------------------------------------------------------
(* erase: the clients after the one that is removed move down by one.      *)
Without(s, k) == SubSeq(s, 1, k - 1) \o SubSeq(s, k + 1, Len(s))

LEMMA Removal ==
  ASSUME NEW s \in Seq(Conn), NEW k \in 1..Len(s)
  PROVE  /\ Without(s, k) \in Seq(Conn)
         /\ Len(Without(s, k)) = Len(s) - 1
         /\ \A i \in 1..(Len(s) - 1) :
              Without(s, k)[i] = IF i < k THEN s[i] ELSE s[i + 1]
<1> DEFINE front == SubSeq(s, 1, k - 1)
           back == SubSeq(s, k + 1, Len(s))
           t == Without(s, k)
<1>1. Len(s) \in Nat /\ k \in Nat /\ 1 <= k /\ k <= Len(s)
  OBVIOUS
<1>2. front \in Seq(Conn) /\ Len(front) = k - 1 /\ \A i \in 1..(k - 1) : front[i] = s[i]
  BY <1>1, SubSeqProperties
<1>3. /\ back \in Seq(Conn) /\ Len(back) = Len(s) - k
      /\ \A i \in 1..(Len(s) - k) : back[i] = s[k + i]
  BY <1>1, SubSeqProperties
<1>4. t = front \o back
  BY DEF Without
<1> HIDE DEF front, back, t
<1>5. /\ t \in Seq(Conn) /\ Len(t) = Len(front) + Len(back)
      /\ \A i \in 1..(Len(front) + Len(back)) :
           t[i] = IF i <= Len(front) THEN front[i] ELSE back[i - Len(front)]
  BY <1>2, <1>3, <1>4, ConcatProperties
<1>6. Len(front) + Len(back) = Len(s) - 1
  BY <1>1, <1>2, <1>3
<1>7. ASSUME NEW i \in 1..(Len(s) - 1)
      PROVE  t[i] = IF i < k THEN s[i] ELSE s[i + 1]
  <2>1. CASE i < k
    <3>1. i \in 1..(k - 1) /\ i <= Len(front) /\ i \in 1..(Len(front) + Len(back))
      BY <1>1, <1>2, <1>6, <2>1
    <3>2. t[i] = front[i]
      BY <1>5, <3>1
    <3> QED
      BY <1>2, <2>1, <3>1, <3>2
  <2>2. CASE i >= k
    <3>1. i - Len(front) \in 1..(Len(s) - k) /\ k + (i - Len(front)) = i + 1
      BY <1>1, <1>2, <2>2
    <3>2. t[i] = back[i - Len(front)]
      <4>1. i \in 1..(Len(front) + Len(back)) /\ ~(i <= Len(front))
        BY <1>1, <1>2, <1>6, <2>2
      <4> QED
        BY <1>5, <4>1
    <3>3. back[i - Len(front)] = s[k + (i - Len(front))]
      BY <1>3, <3>1
    <3> QED
      BY <1>1, <2>2, <3>1, <3>2, <3>3
  <2>3. i < k \/ i >= k
    BY <1>1
  <2> QED
    BY <2>1, <2>2, <2>3
<1> QED
  BY <1>5, <1>6, <1>7 DEF t

-----------------------------------------------------------------------------
LEMMA Typing ==
  ASSUME TypeOK, [Next]_vars
  PROVE  TypeOK'
<1> USE FilesAssumption DEF TypeOK, Files, Fds, serverVars, clientVars
<1>1. ASSUME NEW l \in Listeners, NEW n \in Fds, Start(l, n) PROVE TypeOK'
  BY <1>1 DEF Start, NewSocket, Opened
<1>2. CASE StartFails
  BY <1>2 DEF StartFails
<1>3. ASSUME NEW c \in Conn, NEW n \in Fds, Accept(c, n) PROVE TypeOK'
  BY <1>3 DEF Accept, Opened, Idle
<1>4. CASE AcceptFails
  BY <1>4 DEF AcceptFails
<1>5. CASE CloseCall
  BY <1>5 DEF CloseCall
<1>6. CASE CloseClient
  <2>1. iter \in 1..Len(clients) /\ clients' = clients
    BY <1>6 DEF CloseClient
  <2>2. iter' \in 0 .. Len(clients') + 1
    BY <1>6, <2>1 DEF CloseClient
  <2>3. table' \in [Fds -> Files \cup {None}] /\ ret' \in {ret, "closeFail"}
    BY <1>6 DEF CloseClient, Closed
  <2> QED
    BY <1>6, <2>2, <2>3 DEF CloseClient
<1>7. CASE CloseListener
  BY <1>7 DEF CloseListener, ClearClients, Closed, IsOpenFd
<1>8. ASSUME NEW c \in Conn, ReceiverEnds(c) PROVE TypeOK'
  BY <1>8 DEF ReceiverEnds
<1>9. ASSUME NEW i \in 1..Len(clients), Remove(i) PROVE TypeOK'
  <2>1. clients' = Without(clients, i)
    BY <1>9 DEF Remove, Without
  <2>2. clients' \in Seq(Conn) /\ iter' \in 0 .. Len(clients') + 1
    <3>1. clients \in Seq(Conn) /\ iter' = 0
      BY <1>9 DEF Remove, Idle
    <3>2. Without(clients, i) \in Seq(Conn)
      BY <1>9, <3>1, Removal
    <3>3. Len(clients') \in Nat
      BY <2>1, <3>2
    <3> QED
      BY <2>1, <3>1, <3>2, <3>3
  <2>3. table' \in [Fds -> Files \cup {None}] /\ outcome' \in {"running", "aborted"}
    BY <1>9 DEF Remove, CloseRemoved, Closed
  <2> QED
    BY <1>9, <2>2, <2>3 DEF Remove
<1>10. ASSUME NEW o \in Others, NEW n \in Fds, OtherOpen(o, n) PROVE TypeOK'
  BY <1>10 DEF OtherOpen, Opened
<1>11. ASSUME NEW o \in Others, OtherClose(o) PROVE TypeOK'
  BY <1>11 DEF OtherClose, Closed
<1>12. CASE UNCHANGED vars
  BY <1>12 DEF vars
<1> QED
  BY <1>1, <1>2, <1>3, <1>4, <1>5, <1>6, <1>7, <1>8, <1>9, <1>10, <1>11, <1>12 DEF Next

-----------------------------------------------------------------------------
(* One step of each action, as long as close() is not misused.             *)
LEMMA StartStep ==
  ASSUME TypeOK, TypeOK', Healthy, NEW l \in Listeners, NEW n \in Fds, Start(l, n)
  PROVE  Healthy'
<1> USE FilesAssumption DEF TypeOK, Files, Fds, Healthy, Idle
<1>1. /\ table[n] = None /\ table' = [table EXCEPT ![n] = l] /\ own' = l /\ sockfd' = n
      /\ iter = 0 /\ lost' = (lost \/ own # None)
      /\ UNCHANGED <<fd, clients, receives, iter, otherFd, outcome>>
  BY DEF Start, NewSocket, Opened, Lowest, FreeFds, clientVars
<1>2. Meanings'
  BY <1>1 DEF Meanings
<1>3. NoLeak'
  <2> SUFFICES ASSUME NEW m \in Fds PROVE ClientListed(m)' /\ ListenerOwned(m)'
    BY DEF NoLeak
  <2>1. CASE m = n
    BY <1>1, <2>1 DEF ClientListed, ListenerOwned
  <2>2. CASE m # n
    <3>1. table'[m] = table[m] /\ ClientListed(m) /\ ListenerOwned(m)
      BY <1>1, <2>2 DEF NoLeak
    <3>2. ClientListed(m)'
      BY <1>1, <3>1 DEF ClientListed
    <3>3. ListenerOwned(m)'
      BY <1>1, <3>1 DEF ListenerOwned
    <3> QED
      BY <3>2, <3>3
  <2> QED
    BY <2>1, <2>2
<1>4. Listing'
  BY <1>1 DEF Listing
<1>5. Results'
  BY <1>1 DEF Results, Start
<1> QED
  BY <1>2, <1>3, <1>4, <1>5

LEMMA AcceptStep ==
  ASSUME TypeOK, TypeOK', Healthy, NEW c \in Conn, NEW n \in Fds, Accept(c, n)
  PROVE  Healthy'
<1> USE FilesAssumption DEF TypeOK, Files, Fds, Healthy, Idle
<1>1. /\ table[n] = None /\ table' = [table EXCEPT ![n] = c]
      /\ fd[c] = -1 /\ fd' = [fd EXCEPT ![c] = n]
      /\ receives' = [receives EXCEPT ![c] = TRUE]
      /\ clients' = Append(clients, c) /\ ret' = "none" /\ iter = 0
      /\ UNCHANGED <<own, sockfd, lost, iter, otherFd, outcome>>
  BY DEF Accept, Opened, Lowest, FreeFds, serverVars
<1>2. /\ DOMAIN clients' = 1..(Len(clients) + 1) /\ clients'[Len(clients) + 1] = c
      /\ DOMAIN clients = 1..Len(clients) /\ Len(clients) \in Nat
      /\ \A i \in DOMAIN clients : /\ clients'[i] = clients[i] /\ clients[i] \in Conn
                                  /\ clients[i] # c /\ i \in DOMAIN clients'
  BY <1>1 DEF Meanings
<1>3. \A i \in DOMAIN clients' : i \in DOMAIN clients \/ i = Len(clients) + 1
  BY <1>2
<1>4. Len(clients) + 1 \in DOMAIN clients' /\ 0 <= Len(clients) + 1
  BY <1>2
<1>5. Meanings'
  BY <1>1, <1>2, <1>3 DEF Meanings
<1>6. NoLeak'
  <2> SUFFICES ASSUME NEW m \in Fds PROVE ClientListed(m)' /\ ListenerOwned(m)'
    BY DEF NoLeak
  <2>1. CASE m = n
    BY <1>1, <1>2, <1>4, <2>1 DEF ClientListed, ListenerOwned
  <2>2. CASE m # n
    <3>1. table'[m] = table[m]
      BY <1>1, <2>2
    <3>2. ASSUME table[m] \in Conn
          PROVE  \E i \in DOMAIN clients' :
                   iter' <= i /\ clients'[i] = table'[m] /\ fd'[table'[m]] = m
      <4>1. PICK i \in DOMAIN clients :
              iter <= i /\ clients[i] = table[m] /\ fd[table[m]] = m
        BY <3>2 DEF NoLeak, ClientListed
      <4>2. table[m] # c
        BY <1>2, <4>1
      <4> QED
        BY <1>1, <1>2, <3>1, <3>2, <4>1, <4>2
    <3>3. ListenerOwned(m)
      BY DEF NoLeak
    <3> QED
      BY <1>1, <3>1, <3>2, <3>3 DEF ClientListed, ListenerOwned
  <2> QED
    BY <2>1, <2>2
<1>7. Listing'
  <2>1. ASSUME NEW i \in DOMAIN clients', NEW j \in DOMAIN clients', clients'[i] = clients'[j]
        PROVE  i = j
    BY <1>2, <1>3, <2>1 DEF Listing
  <2>2. ASSUME NEW d \in Conn, receives'[d]
        PROVE  \E i \in DOMAIN clients' : iter' <= i /\ clients'[i] = d
    <3>1. CASE d = c
      BY <1>1, <1>2, <1>4, <3>1
    <3>2. CASE d # c
      <4>1. PICK i \in DOMAIN clients : iter <= i /\ clients[i] = d
        BY <1>1, <2>2, <3>2 DEF Listing
      <4> QED
        BY <1>1, <1>2, <4>1
    <3> QED
      BY <3>1, <3>2
  <2> QED
    BY <2>1, <2>2 DEF Listing
<1>8. Results'
  BY <1>1 DEF Results
<1> QED
  BY <1>5, <1>6, <1>7, <1>8

LEMMA CloseClientStep ==
  ASSUME TypeOK, TypeOK', Healthy, CloseClient
  PROVE  Healthy'
<1> USE FilesAssumption DEF TypeOK, Files, Fds, Healthy
<1> DEFINE c == clients[iter]
<1>1. /\ iter \in DOMAIN clients /\ c \in Conn /\ ~receives[c] /\ iter \in Nat \ {0}
      /\ DOMAIN clients \subseteq Nat
  BY DEF CloseClient
<1>2. fd[c] \in Fds /\ table[fd[c]] = c
  BY <1>1 DEF Meanings
<1>3. /\ table' = [table EXCEPT ![fd[c]] = None] /\ iter' = iter + 1
      /\ UNCHANGED <<own, sockfd, lost, fd, clients, receives, otherFd, outcome, ret>>
  BY <1>1, <1>2 DEF CloseClient, IsOpenFd, Closed, serverVars, clientVars
<1>4. Meanings'
  <2>1. table'[0] = Stdin /\ (own' # None => sockfd' # -1 /\ table'[sockfd'] = own')
    <3>1. table[0] = Stdin /\ fd[c] # 0
      BY <1>1, <1>2 DEF Meanings
    <3>2. own # None => sockfd # -1 /\ table[sockfd] = own /\ fd[c] # sockfd
      BY <1>1, <1>2 DEF Meanings
    <3> QED
      BY <1>2, <1>3, <3>1, <3>2
  <2>2. ASSUME NEW i \in DOMAIN clients'
        PROVE  fd'[clients'[i]] # -1 /\ (iter' <= i => table'[fd'[clients'[i]]] = clients'[i])
    <3>1. iter' <= i => clients[i] # c /\ iter <= i
      BY <1>1, <1>3, <2>2 DEF Listing
    <3>2. clients[i] \in Conn /\ fd[clients[i]] # -1
      BY <1>3, <2>2 DEF Meanings
    <3>3. iter <= i => table[fd[clients[i]]] = clients[i]
      BY <1>3, <2>2 DEF Meanings
    <3> QED
      BY <1>2, <1>3, <3>1, <3>2, <3>3
  <2>3. \A o \in Others : otherFd'[o] # -1 => table'[otherFd'[o]] = o
    BY <1>1, <1>2, <1>3 DEF Meanings
  <2> QED
    BY <2>1, <2>2, <2>3 DEF Meanings
<1>5. NoLeak'
  <2> SUFFICES ASSUME NEW m \in Fds PROVE ClientListed(m)' /\ ListenerOwned(m)'
    BY DEF NoLeak
  <2>1. CASE m = fd[c]
    BY <1>2, <1>3, <2>1 DEF ClientListed, ListenerOwned
  <2>2. CASE m # fd[c]
    <3>1. table'[m] = table[m]
      BY <1>2, <1>3, <2>2
    <3>2. ASSUME table[m] \in Conn
          PROVE  \E i \in DOMAIN clients' :
                   iter' <= i /\ clients'[i] = table'[m] /\ fd'[table'[m]] = m
      <4>1. PICK i \in DOMAIN clients :
              iter <= i /\ clients[i] = table[m] /\ fd[table[m]] = m
        BY <3>2 DEF NoLeak, ClientListed
      <4>2. i # iter
        BY <2>2, <4>1
      <4>3. iter + 1 <= i
        BY <1>1, <4>1, <4>2
      <4> QED
        BY <1>3, <3>1, <4>1, <4>3
    <3>3. ListenerOwned(m)
      BY DEF NoLeak
    <3> QED
      BY <1>3, <3>1, <3>2, <3>3 DEF ClientListed, ListenerOwned
  <2> QED
    BY <2>1, <2>2
<1>6. Listing'
  <2>1. ASSUME NEW d \in Conn, receives[d]
        PROVE  \E i \in DOMAIN clients : iter + 1 <= i /\ clients[i] = d
    <3>1. PICK i \in DOMAIN clients : iter <= i /\ clients[i] = d
      BY <2>1 DEF Listing
    <3>2. i # iter
      BY <1>1, <2>1, <3>1
    <3> QED
      BY <1>1, <3>1, <3>2
  <2> QED
    BY <1>3, <2>1 DEF Listing
<1>7. Results'
  BY <1>1, <1>3 DEF Results
<1> QED
  BY <1>4, <1>5, <1>6, <1>7
LEMMA CloseListenerStep ==
  ASSUME TypeOK, TypeOK', Healthy, CloseListener
  PROVE  Healthy'
<1> USE FilesAssumption DEF TypeOK, Files, Fds, Healthy
<1>1. /\ clients' = <<>> /\ DOMAIN clients' = {} /\ iter' = 0 /\ own' = None
      /\ UNCHANGED <<sockfd, lost, fd, receives, otherFd, outcome>>
      /\ \A i \in DOMAIN clients : ~(iter <= i)
  BY DEF CloseListener, ClearClients
<1>2. CASE own # None
  <2>1. sockfd \in Fds /\ table[sockfd] = own /\ own \in Listeners
    BY <1>2 DEF Meanings
  <2>2. table' = [table EXCEPT ![sockfd] = None] /\ ret' = "closeOk"
    BY <2>1 DEF CloseListener, IsOpenFd, Closed
  <2>3. Meanings'
    BY <1>1, <2>1, <2>2 DEF Meanings
  <2>4. NoLeak'
    <3> SUFFICES ASSUME NEW m \in Fds PROVE ClientListed(m)' /\ ListenerOwned(m)'
      BY DEF NoLeak
    <3>1. m # sockfd => table'[m] = table[m]
      BY <2>1, <2>2
    <3>2. table'[sockfd] = None
      BY <2>1, <2>2
    <3>3. table[m] \notin Conn
      BY <1>1 DEF NoLeak, ClientListed
    <3>4. ListenerOwned(m)
      BY DEF NoLeak
    <3> QED
      BY <1>1, <3>1, <3>2, <3>3, <3>4 DEF ClientListed, ListenerOwned
  <2>5. Listing' /\ Results'
    BY <1>1, <2>2 DEF Listing, Results
  <2> QED
    BY <2>3, <2>4, <2>5
<1>3. CASE own = None
  <2>1. sockfd = -1
    BY <1>3 DEF CloseListener, Results
  <2>2. table' = table /\ ret' = "closeFail"
    BY <2>1 DEF CloseListener, IsOpenFd
  <2>3. Meanings'
    BY <1>1, <2>2 DEF Meanings
  <2>4. NoLeak'
    <3> SUFFICES ASSUME NEW m \in Fds PROVE ClientListed(m)' /\ ListenerOwned(m)'
      BY DEF NoLeak
    <3>1. table[m] \notin Conn
      BY <1>1 DEF NoLeak, ClientListed
    <3>2. ListenerOwned(m)
      BY DEF NoLeak
    <3> QED
      BY <1>1, <2>2, <1>3, <3>1, <3>2 DEF ClientListed, ListenerOwned
  <2>5. Listing' /\ Results'
    BY <1>1, <2>1, <2>2 DEF Listing, Results
  <2> QED
    BY <2>3, <2>4, <2>5
<1> QED
  BY <1>2, <1>3

LEMMA RemoveStep ==
  ASSUME TypeOK, TypeOK', Healthy, NEW k \in 1..Len(clients), Remove(k)
  PROVE  Healthy'
<1> USE FilesAssumption DEF TypeOK, Files, Fds, Healthy, Idle
<1> DEFINE c == clients[k]
           shift(i) == IF i < k THEN i ELSE i + 1
<1>1. /\ c \in Conn /\ ~receives[c] /\ iter = 0 /\ iter' = 0 /\ DOMAIN clients = 1..Len(clients)
      /\ Len(clients) \in Nat /\ k \in DOMAIN clients
  BY DEF Remove
<1>2. fd[c] \in Fds /\ table[fd[c]] = c
  BY <1>1 DEF Meanings
<1>3. /\ table' = [table EXCEPT ![fd[c]] = None] /\ clients' = Without(clients, k)
      /\ UNCHANGED <<own, sockfd, lost, fd, receives, otherFd, outcome, ret>>
  BY <1>1, <1>2 DEF Remove, CloseRemoved, IsOpenFd, Closed, Without, serverVars
<1>4. /\ clients' \in Seq(Conn) /\ Len(clients') = Len(clients) - 1
      /\ \A i \in 1..(Len(clients) - 1) : clients'[i] = clients[shift(i)]
  <2>1. /\ Without(clients, k) \in Seq(Conn)
        /\ Len(Without(clients, k)) = Len(clients) - 1
        /\ \A i \in 1..(Len(clients) - 1) :
             Without(clients, k)[i] = IF i < k THEN clients[i] ELSE clients[i + 1]
    BY Removal
  <2>2. \A i \in 1..(Len(clients) - 1) :
          clients[shift(i)] = IF i < k THEN clients[i] ELSE clients[i + 1]
    OBVIOUS
  <2> QED
    BY <1>3, <2>1, <2>2
<1>5. DOMAIN clients' = 1..(Len(clients) - 1)
  BY <1>4
<1>6. ASSUME NEW i \in DOMAIN clients'
      PROVE  shift(i) \in DOMAIN clients /\ shift(i) # k /\ clients'[i] = clients[shift(i)]
  BY <1>1, <1>4, <1>5
<1>7. ASSUME NEW j \in DOMAIN clients, j # k
      PROVE  \E i \in DOMAIN clients' : clients'[i] = clients[j]
  <2>1. CASE j < k
    <3>1. j \in DOMAIN clients' /\ shift(j) = j
      BY <1>1, <1>5, <2>1
    <3> QED
      BY <1>4, <1>5, <3>1
  <2>2. CASE j > k
    <3>1. j - 1 \in DOMAIN clients' /\ shift(j - 1) = j
      BY <1>1, <1>5, <2>2
    <3> QED
      BY <1>4, <1>5, <3>1
  <2>3. j < k \/ j > k
    BY <1>1, <1>7
  <2> QED
    BY <2>1, <2>2, <2>3
<1>8. \A i, j \in DOMAIN clients' : shift(i) = shift(j) => i = j
  BY <1>1, <1>5
<1> HIDE DEF shift
<1>9. Meanings'
  <2>1. table[0] = Stdin /\ fd[c] # 0
    BY <1>1, <1>2 DEF Meanings
  <2>2. own # None => sockfd # -1 /\ table[sockfd] = own /\ fd[c] # sockfd
    BY <1>1, <1>2 DEF Meanings
  <2>3. ASSUME NEW i \in DOMAIN clients'
        PROVE  fd'[clients'[i]] # -1 /\ (iter' <= i => table'[fd'[clients'[i]]] = clients'[i])
    <3>1. PICK j \in DOMAIN clients : j # k /\ clients'[i] = clients[j]
      BY <1>6
    <3>2. clients[j] \in Conn /\ clients[j] # c
      BY <1>1, <3>1 DEF Listing
    <3>3. fd[clients[j]] \in Fds /\ table[fd[clients[j]]] = clients[j]
      BY <1>1, <3>2 DEF Meanings
    <3> QED
      BY <1>2, <1>3, <3>1, <3>2, <3>3
  <2>4. \A o \in Others : otherFd'[o] # -1 => table'[otherFd'[o]] = o
    BY <1>1, <1>2, <1>3 DEF Meanings
  <2> QED
    BY <1>2, <1>3, <2>1, <2>2, <2>3, <2>4 DEF Meanings
<1>10. NoLeak'
  <2> SUFFICES ASSUME NEW m \in Fds PROVE ClientListed(m)' /\ ListenerOwned(m)'
    BY DEF NoLeak
  <2>1. CASE m = fd[c]
    BY <1>2, <1>3, <2>1 DEF ClientListed, ListenerOwned
  <2>2. CASE m # fd[c]
    <3>1. table'[m] = table[m]
      BY <1>2, <1>3, <2>2
    <3>2. ASSUME table[m] \in Conn
          PROVE  \E i \in DOMAIN clients' :
                   iter' <= i /\ clients'[i] = table'[m] /\ fd'[table'[m]] = m
      <4>1. PICK j \in DOMAIN clients : clients[j] = table[m] /\ fd[table[m]] = m
        BY <3>2 DEF NoLeak, ClientListed
      <4>2. j # k
        BY <2>2, <4>1
      <4>3. PICK i \in DOMAIN clients' : clients'[i] = clients[j]
        BY <1>7, <4>2
      <4>4. iter' <= i
        BY <1>1, <1>5, <4>3
      <4> QED
        BY <1>3, <3>1, <4>1, <4>3, <4>4
    <3>3. ListenerOwned(m)
      BY DEF NoLeak
    <3> QED
      BY <1>3, <3>1, <3>2, <3>3 DEF ClientListed, ListenerOwned
  <2> QED
    BY <2>1, <2>2
<1>11. Listing'
  <2>1. ASSUME NEW i \in DOMAIN clients', NEW j \in DOMAIN clients', clients'[i] = clients'[j]
        PROVE  i = j
    BY <1>6, <1>8, <2>1 DEF Listing
  <2>2. ASSUME NEW d \in Conn, receives'[d]
        PROVE  \E i \in DOMAIN clients' : iter' <= i /\ clients'[i] = d
    <3>1. PICK j \in DOMAIN clients : clients[j] = d
      BY <1>3, <2>2 DEF Listing
    <3>2. j # k
      BY <1>1, <1>3, <2>2, <3>1
    <3>3. PICK i \in DOMAIN clients' : clients'[i] = clients[j]
      BY <1>7, <3>2
    <3>4. iter' <= i
      BY <1>1, <1>5, <3>3
    <3> QED
      BY <3>1, <3>3, <3>4
  <2> QED
    BY <2>1, <2>2 DEF Listing
<1>12. Results'
  <2>1. clients # <<>>
    BY <1>1
  <2> QED
    BY <1>1, <1>3, <2>1 DEF Results
<1> QED
  BY <1>9, <1>10, <1>11, <1>12

LEMMA ReceiverStep ==
  ASSUME TypeOK, TypeOK', Healthy, NEW c \in Conn, ReceiverEnds(c)
  PROVE  Healthy'
<1> USE FilesAssumption DEF TypeOK, Files, Fds, Healthy
<1>1. receives[c] /\ UNCHANGED <<table, serverVars, fd, clients, iter, ret, otherFd>>
  BY DEF ReceiverEnds
<1>2. PICK i \in DOMAIN clients : iter <= i /\ clients[i] = c
  BY <1>1 DEF Listing
<1>3. fd[c] \in Fds /\ table[fd[c]] = c
  BY <1>2 DEF Meanings
<1>4. receives' = [receives EXCEPT ![c] = FALSE] /\ outcome' = outcome
  BY <1>3 DEF ReceiverEnds, IsOpenFd
<1>5. Meanings'
  BY <1>1 DEF Meanings, serverVars
<1>6. NoLeak'
  BY <1>1 DEF NoLeak, ClientListed, ListenerOwned, serverVars
<1>7. Listing'
  BY <1>1, <1>4 DEF Listing
<1>8. Results'
  BY <1>1, <1>4 DEF Results, serverVars
<1> QED
  BY <1>5, <1>6, <1>7, <1>8

LEMMA OtherOpenStep ==
  ASSUME TypeOK, TypeOK', Healthy, NEW o \in Others, NEW n \in Fds, OtherOpen(o, n)
  PROVE  Healthy'
<1> USE FilesAssumption DEF TypeOK, Files, Fds, Healthy
<1>1. /\ table[n] = None /\ table' = [table EXCEPT ![n] = o]
      /\ otherFd' = [otherFd EXCEPT ![o] = n]
      /\ UNCHANGED <<serverVars, clientVars, iter, ret, outcome>>
  BY DEF OtherOpen, Opened, Lowest, FreeFds
<1>2. Meanings'
  BY <1>1 DEF Meanings, serverVars, clientVars
<1>3. NoLeak'
  <2> SUFFICES ASSUME NEW m \in Fds PROVE ClientListed(m)' /\ ListenerOwned(m)'
    BY DEF NoLeak
  <2>1. table'[m] = IF m = n THEN o ELSE table[m]
    BY <1>1
  <2>2. ClientListed(m) /\ ListenerOwned(m)
    BY DEF NoLeak
  <2>3. ClientListed(m)'
    BY <1>1, <2>1, <2>2 DEF ClientListed, serverVars, clientVars
  <2>4. ListenerOwned(m)'
    BY <1>1, <2>1, <2>2 DEF ListenerOwned, serverVars, clientVars
  <2> QED
    BY <2>3, <2>4
<1>4. Listing' /\ Results'
  BY <1>1 DEF Listing, Results, serverVars, clientVars
<1> QED
  BY <1>2, <1>3, <1>4

LEMMA OtherCloseStep ==
  ASSUME TypeOK, TypeOK', Healthy, NEW o \in Others, OtherClose(o)
  PROVE  Healthy'
<1> USE FilesAssumption DEF TypeOK, Files, Fds, Healthy
<1>1. /\ otherFd[o] \in Fds /\ table[otherFd[o]] = o
      /\ table' = [table EXCEPT ![otherFd[o]] = None]
      /\ otherFd' = [otherFd EXCEPT ![o] = -1]
      /\ UNCHANGED <<serverVars, clientVars, iter, ret, outcome>>
  BY DEF OtherClose, Closed, Meanings
<1>2. Meanings'
  <2>1. table'[0] = Stdin /\ (own' # None => sockfd' # -1 /\ table'[sockfd'] = own')
    <3>1. table[0] = Stdin /\ otherFd[o] # 0
      BY <1>1 DEF Meanings
    <3>2. own # None => sockfd # -1 /\ table[sockfd] = own /\ otherFd[o] # sockfd
      BY <1>1 DEF Meanings
    <3> QED
      BY <1>1, <3>1, <3>2 DEF serverVars
  <2>2. ASSUME NEW i \in DOMAIN clients
        PROVE  fd[clients[i]] # -1 /\ (iter <= i => table'[fd[clients[i]]] = clients[i])
    <3>1. clients[i] \in Conn
      OBVIOUS
    <3> QED
      BY <1>1, <2>2, <3>1 DEF Meanings
  <2>3. \A p \in Others : otherFd'[p] # -1 => table'[otherFd'[p]] = p
    BY <1>1 DEF Meanings
  <2> QED
    BY <1>1, <2>1, <2>2, <2>3 DEF Meanings, clientVars
<1>3. NoLeak'
  <2> SUFFICES ASSUME NEW m \in Fds PROVE ClientListed(m)' /\ ListenerOwned(m)'
    BY DEF NoLeak
  <2>1. table'[m] = IF m = otherFd[o] THEN None ELSE table[m]
    BY <1>1
  <2>2. ClientListed(m) /\ ListenerOwned(m)
    BY DEF NoLeak
  <2>3. ClientListed(m)'
    BY <1>1, <2>1, <2>2 DEF ClientListed, serverVars, clientVars
  <2>4. ListenerOwned(m)'
    BY <1>1, <2>1, <2>2 DEF ListenerOwned, serverVars, clientVars
  <2> QED
    BY <2>3, <2>4
<1>4. Listing' /\ Results'
  BY <1>1 DEF Listing, Results, serverVars, clientVars
<1> QED
  BY <1>2, <1>3, <1>4

(* The calls that change no table and no list.                             *)
LEMMA CallStep ==
  ASSUME TypeOK, TypeOK', Healthy, ~misused', StartFails \/ AcceptFails \/ CloseCall
  PROVE  Healthy'
<1> USE FilesAssumption DEF TypeOK, Files, Fds, Healthy, Idle
<1>1. iter = 0 /\ iter' \in {0, 1} /\ UNCHANGED <<table, fd, clients, receives, otherFd, outcome>>
  BY DEF StartFails, AcceptFails, CloseCall, clientVars
<1>2. /\ own' # None => own' = own /\ sockfd' = sockfd
      /\ lost => lost'
      /\ own # None /\ own' = None => lost'
  BY DEF StartFails, AcceptFails, CloseCall, serverVars
<1>3. \A i \in DOMAIN clients : iter <= i /\ iter' <= i
  BY <1>1
<1>4. Meanings'
  BY <1>1, <1>2, <1>3 DEF Meanings
<1>5. NoLeak'
  <2> SUFFICES ASSUME NEW m \in Fds PROVE ClientListed(m)' /\ ListenerOwned(m)'
    BY DEF NoLeak
  <2>1. ClientListed(m) /\ ListenerOwned(m)
    BY DEF NoLeak
  <2>2. ClientListed(m)'
    BY <1>1, <1>3, <2>1 DEF ClientListed
  <2>3. ListenerOwned(m)'
    BY <1>1, <1>2, <2>1 DEF ListenerOwned
  <2> QED
    BY <2>2, <2>3
<1>6. Listing'
  BY <1>1, <1>3 DEF Listing
<1>7. Results'
  <2>1. CASE StartFails
    BY <1>1, <2>1 DEF StartFails, Results
  <2>2. CASE AcceptFails
    BY <1>1, <2>2 DEF AcceptFails, Results
  <2>3. CASE CloseCall
    BY <1>1, <2>3 DEF CloseCall, Results, serverVars
  <2> QED
    BY <2>1, <2>2, <2>3
<1> QED
  BY <1>4, <1>5, <1>6, <1>7
(***************************************************************************)
(* The inductive invariant.                                                *)
(***************************************************************************)
LEMMA FdInvInit ==
  ASSUME Init
  PROVE  FdInv
<1> USE FilesAssumption DEF Init, Files, Fds
<1>1. TypeOK
  <2>1. 0 \in Fds /\ table \in [Fds -> Files \cup {None}]
    OBVIOUS
  <2>2. clients \in Seq(Conn) /\ Len(clients) = 0
    OBVIOUS
  <2>3. /\ sockfd \in Fds \cup {-1} /\ listening \subseteq used /\ used \subseteq Listeners
        /\ iter \in 0 .. Len(clients) + 1
    BY <2>1, <2>2
  <2>4. fd \in [Conn -> Fds \cup {-1}] /\ otherFd \in [Others -> Fds \cup {-1}]
    OBVIOUS
  <2>5. /\ receives \in [Conn -> BOOLEAN] /\ outcome \in {"running", "aborted"}
        /\ ret \in {"none", "startOk", "startFail", "acceptFail", "closeOk", "closeFail"}
        /\ own \in Listeners \cup {None} /\ misused \in BOOLEAN /\ lost \in BOOLEAN
    OBVIOUS
  <2> QED
    BY <2>1, <2>2, <2>3, <2>4, <2>5 DEF TypeOK
<1>2. Meanings /\ Listing /\ Results
  BY DEF Meanings, Listing, Results
<1>3. NoLeak
  BY DEF NoLeak, ClientListed, ListenerOwned
<1> QED
  BY <1>1, <1>2, <1>3 DEF FdInv, Healthy

LEMMA FdInvStep ==
  ASSUME FdInv, [Next]_vars
  PROVE  FdInv'
<1>1. TypeOK /\ TypeOK'
  BY Typing DEF FdInv
<1>2. SUFFICES ASSUME ~misused' PROVE Healthy'
  BY <1>1 DEF FdInv
<1>3. ~misused
  BY <1>2 DEF Next, vars, Start, StartFails, Accept, AcceptFails, CloseCall, CloseClient,
              CloseListener, ReceiverEnds, Remove, OtherOpen, OtherClose
<1>4. Healthy
  BY <1>3 DEF FdInv
<1>5. ASSUME NEW l \in Listeners, NEW n \in Fds, Start(l, n) PROVE Healthy'
  BY <1>1, <1>4, <1>5, StartStep
<1>6. ASSUME NEW c \in Conn, NEW n \in Fds, Accept(c, n) PROVE Healthy'
  BY <1>1, <1>4, <1>6, AcceptStep
<1>7. CASE StartFails \/ AcceptFails \/ CloseCall
  BY <1>1, <1>2, <1>4, <1>7, CallStep
<1>8. CASE CloseClient
  BY <1>1, <1>4, <1>8, CloseClientStep
<1>9. CASE CloseListener
  BY <1>1, <1>4, <1>9, CloseListenerStep
<1>10. ASSUME NEW c \in Conn, ReceiverEnds(c) PROVE Healthy'
  BY <1>1, <1>4, <1>10, ReceiverStep
<1>11. ASSUME NEW k \in 1..Len(clients), Remove(k) PROVE Healthy'
  BY <1>1, <1>4, <1>11, RemoveStep
<1>12. ASSUME NEW o \in Others, NEW n \in Fds, OtherOpen(o, n) PROVE Healthy'
  BY <1>1, <1>4, <1>12, OtherOpenStep
<1>13. ASSUME NEW o \in Others, OtherClose(o) PROVE Healthy'
  BY <1>1, <1>4, <1>13, OtherCloseStep
<1>14. CASE UNCHANGED vars
  BY <1>4, <1>14 DEF vars, serverVars, clientVars, Healthy, Meanings, NoLeak, ClientListed,
                     ListenerOwned, Listing, Results
<1> QED
  BY <1>5, <1>6, <1>7, <1>8, <1>9, <1>10, <1>11, <1>12, <1>13, <1>14 DEF Next

LEMMA FdInvAlways == Spec => []FdInv
<1>1. Init => FdInv
  BY FdInvInit
<1>2. FdInv /\ [Next]_vars => FdInv'
  BY FdInvStep
<1> QED
  BY <1>1, <1>2, PTL DEF Spec

(* tcp_server.cpp:369, client.cpp:53, file_descriptor.h: whatever numbers  *)
(* the kernel gives out again, each one still means the file that it was   *)
(* set for, as long as close() is only called for a socket of the server.  *)
THEOREM MeaningKept == Spec => []NumbersKeepMeaning
<1>1. ASSUME FdInv, ~misused
      PROVE  /\ own # None => table[sockfd] = own
             /\ \A c \in Conn : Held(c) => table[fd[c]] = c
             /\ \A o \in Others : otherFd[o] # -1 => table[otherFd[o]] = o
             /\ table[0] = Stdin
  <2>1. Meanings
    BY <1>1 DEF FdInv, Healthy
  <2>2. ASSUME NEW c \in Conn, Held(c) PROVE table[fd[c]] = c
    <3>1. PICK i \in DOMAIN clients : clients[i] = c /\ (iter = 0 \/ iter <= i)
      BY <2>2 DEF Held
    <3>2. iter <= i
      BY <1>1, <3>1 DEF FdInv, TypeOK
    <3> QED
      BY <2>1, <3>1, <3>2 DEF Meanings
  <2> QED
    BY <2>1, <2>2 DEF Meanings
<1>2. FdInv => NumbersKeepMeaning
  BY <1>1 DEF NumbersKeepMeaning
<1> QED
  BY <1>2, FdInvAlways, PTL

(* client.cpp:53, tcp_server.cpp:85: no receive thread and no remover      *)
(* meets a number without a file, so none ends the process with its        *)
(* exception; close() gives up only when socket() had failed before it.    *)
THEOREM NobodyThrows == Spec => []NoBadNumber
<1>1. FdInv => NoBadNumber
  BY DEF FdInv, Healthy, Results, NoBadNumber
<1> QED
  BY <1>1, FdInvAlways, PTL

(* tcp_server.cpp:358: a close() that succeeds leaves no number with a     *)
(* client or a listener, unless start() was called over an open socket.    *)
THEOREM GivesBack == Spec => []CloseGivesBack
<1>1. ASSUME FdInv, ret = "closeOk", ~misused, NEW n \in Fds
      PROVE  table[n] \notin Conn /\ (table[n] \in Listeners => lost)
  <2>1. NoLeak /\ clients = <<>> /\ own = None
    BY <1>1 DEF FdInv, Healthy, Results
  <2>2. table[n] \notin Conn
    BY <2>1 DEF NoLeak, ClientListed
  <2>3. table[n] \in Listeners => lost
    BY <2>1, FilesAssumption DEF NoLeak, ListenerOwned, Files
  <2> QED
    BY <2>2, <2>3
<1>2. FdInv => CloseGivesBack
  BY <1>1 DEF CloseGivesBack
<1> QED
  BY <1>2, FdInvAlways, PTL
====
