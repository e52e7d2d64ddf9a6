---------------------------- MODULE Descriptors ----------------------------
(***************************************************************************)
(* The descriptor numbers of a process with a TcpServer: FileDescriptor    *)
(* keeps a number and nothing else, so it does not know whether the number *)
(* still means the file it was set for. The kernel gives out the lowest    *)
(* number that is free.                                                    *)
(*                                                                         *)
(* TcpServer has the threads in detail; here acceptClient and a pass of a  *)
(* remover over one client are a step each, and a remover may pass at any  *)
(* time that _clientsMtx is free. Numbers 1 and 2 are left out.            *)
(***************************************************************************)
EXTENDS Integers, Sequences

CONSTANTS
  Conn,       \* connections that may be accepted
  Listeners,  \* sockets that start() may create
  Others,     \* files that other parts of the process open
  Stdin, None,
  MaxFd       \* the greatest number the process may use

Files == Conn \cup Listeners \cup Others \cup {Stdin}
Fds == 0..MaxFd

ASSUME FilesAssumption ==
  /\ None \notin Files /\ Stdin \notin Conn \cup Listeners \cup Others
  /\ Conn \cap Listeners = {} /\ Conn \cap Others = {} /\ Listeners \cap Others = {}
  /\ MaxFd \in Nat

VARIABLES
  table,     \* the file of each number, or None
  sockfd,    \* _sockfd of the server
  listening, \* listeners that are bound and listen
  fd,        \* _sockfd of each Client, -1 before there is one
  clients,   \* _clients
  receives,  \* the receive thread of each client runs
  iter,      \* position in _clients of the loop of close(), 0 outside of it
  ret,       \* what the last call returned
  otherFd,   \* the number by which each other file is known, or -1
  outcome,   \* of the process: "running", or "aborted" by an exception
  own,       \* history: the listener that _sockfd was set for, until it is closed
  used,      \* history: listeners created
  misused,   \* history: close() was called without a socket of the server's own
  lost       \* history: start() was called over a socket that was not closed

serverVars == <<sockfd, listening, own, used, lost>>
clientVars == <<fd, clients, receives>>
vars == <<table, serverVars, clientVars, iter, ret, otherFd, outcome, misused>>

TypeOK ==
  /\ table \in [Fds -> Files \cup {None}]
  /\ sockfd \in Fds \cup {-1} /\ listening \subseteq used /\ used \subseteq Listeners
  /\ fd \in [Conn -> Fds \cup {-1}] /\ clients \in Seq(Conn)
  /\ receives \in [Conn -> BOOLEAN] /\ iter \in 0 .. Len(clients) + 1
  /\ ret \in {"none", "startOk", "startFail", "acceptFail", "closeOk", "closeFail"}
  /\ otherFd \in [Others -> Fds \cup {-1}]
  /\ outcome \in {"running", "aborted"}
  /\ own \in Listeners \cup {None} /\ misused \in BOOLEAN /\ lost \in BOOLEAN

(* A FileDescriptor that was never set is number 0.                        *)
Init ==
  /\ table = [n \in Fds |-> IF n = 0 THEN Stdin ELSE None]
  /\ sockfd = 0 /\ listening = {} /\ used = {} /\ own = None /\ lost = FALSE
  /\ fd = [c \in Conn |-> -1] /\ clients = <<>>
  /\ receives = [c \in Conn |-> FALSE]
  /\ iter = 0 /\ ret = "none"
  /\ otherFd = [o \in Others |-> -1]
  /\ outcome = "running" /\ misused = FALSE

FreeFds == {n \in Fds : table[n] = None}
Lowest(n) == n \in FreeFds /\ \A m \in FreeFds : n <= m
Opened(n, file) == [table EXCEPT ![n] = file]
IsOpenFd(n) == n \in Fds /\ table[n] # None
Closed(n) == [table EXCEPT ![n] = None]

Idle == outcome = "running" /\ iter = 0

-----------------------------------------------------------------------------
(* initializeSocket: socket() succeeds and overwrites _sockfd, whatever    *)
(* it was; bindAddress or listenToClients may then fail. The mutated form  *)
(* takes the number for one that is not in use yet.                        *)
NewSocket_Next(n) == sockfd' = (n + 1) % (MaxFd + 1)
NewSocket(n) == sockfd' = n

Start(l, n) ==
  /\ Idle /\ Lowest(n) /\ l \notin used
  /\ used' = used \cup {l} /\ own' = l
  /\ lost' = (lost \/ own # None)
  /\ table' = Opened(n, l)
  /\ NewSocket(n)
  /\ \/ ret' = "startOk" /\ listening' = listening \cup {l}
     \/ ret' = "startFail" /\ UNCHANGED listening
  /\ UNCHANGED <<clientVars, iter, otherFd, outcome, misused>>

(* socket() fails, and _sockfd is -1.                                      *)
StartFails ==
  /\ Idle /\ FreeFds = {}
  /\ sockfd' = -1 /\ own' = None
  /\ lost' = (lost \/ own # None)
  /\ ret' = "startFail"
  /\ UNCHANGED <<table, listening, used, clientVars, iter, otherFd, outcome, misused>>

Listens == IsOpenFd(sockfd) /\ table[sockfd] \in listening

(* acceptClient: the new Client, its receive thread and its place in       *)
(* _clients.                                                               *)
Accept(c, n) ==
  /\ Idle /\ Listens /\ Lowest(n) /\ fd[c] = -1
  /\ table' = Opened(n, c)
  /\ fd' = [fd EXCEPT ![c] = n]
  /\ receives' = [receives EXCEPT ![c] = TRUE]
  /\ clients' = Append(clients, c)
  /\ ret' = "none"
  /\ UNCHANGED <<serverVars, iter, otherFd, outcome, misused>>

AcceptFails ==
  /\ Idle /\ (~Listens \/ FreeFds = {})
  /\ ret' = "acceptFail"
  /\ UNCHANGED <<table, serverVars, clientVars, iter, otherFd, outcome, misused>>

(* close() begins, also the one in the destructor.                         *)
CloseCall ==
  /\ Idle
  /\ iter' = 1 /\ ret' = "none"
  /\ misused' = (misused \/ (own = None /\ sockfd # -1))
  /\ UNCHANGED <<table, serverVars, clientVars, otherFd, outcome>>

(* Client::close(): joins the receive thread, closes the number. When that *)
(* fails close() returns at once: the list stays as it is.                 *)
CloseClient ==
  /\ outcome = "running" /\ iter \in DOMAIN clients
  /\ ~receives[clients[iter]]
  /\ LET n == fd[clients[iter]]
     IN  IF IsOpenFd(n)
         THEN table' = Closed(n) /\ iter' = iter + 1 /\ UNCHANGED ret
         ELSE iter' = 0 /\ ret' = "closeFail" /\ UNCHANGED table
  /\ UNCHANGED <<serverVars, clientVars, otherFd, outcome, misused>>

(* The list is cleared, then ::close(_sockfd), which keeps its value. The  *)
(* mutated form does not clear the list.                                   *)
ClearClients_Missing == UNCHANGED clients
ClearClients == clients' = <<>>

CloseListener ==
  /\ outcome = "running" /\ iter > Len(clients)
  /\ ClearClients
  /\ iter' = 0 /\ own' = None
  /\ table' = IF IsOpenFd(sockfd) THEN Closed(sockfd) ELSE table
  /\ ret' = IF IsOpenFd(sockfd) THEN "closeOk" ELSE "closeFail"
  /\ UNCHANGED <<sockfd, listening, used, lost, fd, receives, otherFd, outcome, misused>>

-----------------------------------------------------------------------------
(* A remover finds a dead client, closes and erases it. Nobody catches the *)
(* exception of a close that fails. The mutated form does not close it.    *)
CloseRemoved_Missing(n) == UNCHANGED <<table, outcome>>
CloseRemoved(n) ==
  IF IsOpenFd(n) THEN table' = Closed(n) /\ UNCHANGED outcome
  ELSE outcome' = "aborted" /\ UNCHANGED table

Remove(i) ==
  /\ Idle /\ i \in DOMAIN clients /\ ~receives[clients[i]]
  /\ CloseRemoved(fd[clients[i]])
  /\ clients' = SubSeq(clients, 1, i - 1) \o SubSeq(clients, i + 1, Len(clients))
  /\ UNCHANGED <<serverVars, fd, receives, iter, ret, otherFd, misused>>

(* The peer left and the receive thread has reported it; or the thread     *)
(* finds no file under its number, throws, and nobody catches it.          *)
ReceiverEnds(c) ==
  /\ outcome = "running" /\ receives[c]
  /\ IF IsOpenFd(fd[c])
     THEN receives' = [receives EXCEPT ![c] = FALSE] /\ UNCHANGED outcome
     ELSE outcome' = "aborted" /\ UNCHANGED receives
  /\ UNCHANGED <<table, serverVars, fd, clients, iter, ret, otherFd, misused>>

(* Other files: those that the callback writes, a TcpClient, the files of  *)
(* the program that uses the library.                                      *)
OtherOpen(o, n) ==
  /\ outcome = "running" /\ otherFd[o] = -1 /\ Lowest(n)
  /\ table' = Opened(n, o)
  /\ otherFd' = [otherFd EXCEPT ![o] = n]
  /\ UNCHANGED <<serverVars, clientVars, iter, ret, outcome, misused>>

OtherClose(o) ==
  /\ outcome = "running" /\ otherFd[o] # -1
  /\ table' = Closed(otherFd[o])
  /\ otherFd' = [otherFd EXCEPT ![o] = -1]
  /\ UNCHANGED <<serverVars, clientVars, iter, ret, outcome, misused>>

Next ==
  \/ \E n \in Fds : \/ \E l \in Listeners : Start(l, n)
                    \/ \E c \in Conn : Accept(c, n)
                    \/ \E o \in Others : OtherOpen(o, n)
  \/ StartFails \/ AcceptFails \/ CloseCall \/ CloseClient \/ CloseListener
  \/ \E c \in Conn : ReceiverEnds(c)
  \/ \E i \in 1..Len(clients) : Remove(i)
  \/ \E o \in Others : OtherClose(o)

Spec == Init /\ [][Next]_vars

-----------------------------------------------------------------------------
(***************************************************************************)
(* What holds as long as close() is only called for a socket that start()  *)
(* made since: not before start() (the number is 0 then), not twice, and   *)
(* not by the destructor after a close().                                  *)
(***************************************************************************)
Held(c) == \E i \in DOMAIN clients : clients[i] = c /\ (iter = 0 \/ iter <= i)

(* Every number still means the file it was set for, though numbers are    *)
(* given out again and again: the server's, those of the clients that are  *)
(* not closed yet, and those of the rest of the process.                   *)
NumbersKeepMeaning ==
  ~misused =>
    /\ own # None => table[sockfd] = own
    /\ \A c \in Conn : Held(c) => table[fd[c]] = c
    /\ \A o \in Others : otherFd[o] # -1 => table[otherFd[o]] = o
    /\ table[0] = Stdin

(* No thread meets a number without a file, whose exception nobody catches *)
(* (receiveTask, removeDeadClients), and close() never gives up half way.  *)
NoBadNumber ==
  ~misused => outcome = "running" /\ (ret = "closeFail" => sockfd = -1)

(* tcp_server.cpp:358, "close server and clients resources": after a       *)
(* close() that succeeds, no client and no listener has a number left,     *)
(* unless start() was called over a socket, which nobody can close then.   *)
CloseGivesBack ==
  ret = "closeOk" /\ ~misused =>
    \A n \in Fds : /\ table[n] \notin Conn
                   /\ table[n] \in Listeners => lost
=============================================================================
