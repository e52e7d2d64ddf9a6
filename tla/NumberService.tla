--------------------------- MODULE NumberService ---------------------------
(***************************************************************************)
(* The application of the example: every request of a client is answered   *)
(* with a number that nobody got before (onIncomingMsg1 in                 *)
(* tests/server_example.cpp, generateNumber and sortList in                *)
(* src/tcp_server.cpp).                                                    *)
(*                                                                         *)
(* A request is the ID that the client's process gave to the client; the   *)
(* callback uses it as an index into _clients, which acceptClient and the  *)
(* remover change meanwhile: the callback never takes _clientsMtx. The     *)
(* callbacks exclude each other, for they run under _subscribersMtx. What  *)
(* TcpServer does in detail is here one step per change of _clients.       *)
(***************************************************************************)
EXTENDS Integers, Sequences, FiniteSets

CONSTANTS
  Conn,        \* connections, each with the client and its receive thread
  None,
  IdOf,        \* the ID of each, counted from 0 in every client process
  Base,        \* of the digits in a message (10 in the code)
  Half,        \* numbers of each parity (50 in the code)
  MaxRequests, \* bound: requests of each client, by client
  MaxPending   \* bound: requests that wait at a time, more than 1 if a client
               \* asks again without waiting for the answer

ASSUME ServiceAssumption ==
  /\ None \notin Conn
  /\ Base \in Nat \ {0, 1} /\ IdOf \in [Conn -> 0 .. Base - 1]
  /\ Half \in Nat \ {0} /\ MaxRequests \in [Conn -> Nat] /\ MaxPending \in Nat \ {0}

VARIABLES
  clients,    \* _clients
  newClient,  \* the client whose thread runs but which is not yet in _clients
  life,       \* clients: "new", "up", "reset" and "gone" (by the peer, before and
              \* after recv() has failed), "dead" (the end was seen), "reported", "freed"
  requests,   \* requests each peer has made
  pending,    \* requests that were sent and not received
  buf,        \* the digits that each receive buffer begins with
  cb,         \* the client whose request the callback is serving, or None
  step,       \* where the callback is
  id,         \* its local ID
  target,     \* its local client
  local,      \* the local client of generateNumber and sortList, and the one to send to
  value,      \* its local value
  numbers,    \* numbers
  list,       \* the list of numbers of each Client object
  file,       \* contents of the files that exist, by ID
  answers,    \* history: answers sent
  outcome     \* "running", "aborted" (stoi threw), "killed" by SIGPIPE, or "undefined":
              \* memory that is not a client's was accessed

listVars == <<clients, newClient, life>>
peerVars == <<requests, pending, buf>>
cbVars   == <<cb, step, id, target, local, value>>
dataVars == <<numbers, list, file, answers>>
vars == <<listVars, peerVars, cbVars, dataVars, outcome>>

Pool == 0 .. 2 * Half - 1

Looks == {"lookup", "generate", "sort", "rewrite", "send"}
Uses == {"draw", "write", "sorting", "rewriting", "sending"}

TypeOK ==
  /\ clients \in Seq(Conn) /\ newClient \in Conn \cup {None}
  /\ life \in [Conn -> {"new", "up", "reset", "gone", "dead", "reported", "freed"}]
  /\ requests \in [Conn -> Nat]
  /\ pending \in [Conn -> 0..MaxPending] /\ buf \in [Conn -> Seq(0 .. Base - 1)]
  /\ cb \in Conn \cup {None}
  /\ step \in {"none", "report"} \cup Looks \cup Uses
  /\ id \in Nat /\ target \in Conn \cup {None} /\ local \in Conn \cup {None} /\ value \in Pool
  /\ numbers \subseteq Pool
  /\ list \in [Conn -> Seq(Pool)]
  /\ DOMAIN file \subseteq Nat /\ \A i \in DOMAIN file : file[i] \in Seq(Pool)
  /\ answers \subseteq [from : Conn, to : Conn, value : Pool]
  /\ outcome \in {"running", "aborted", "killed", "undefined"}

Init ==
  /\ clients = <<>> /\ newClient = None
  /\ life = [c \in Conn |-> "new"]
  /\ requests = [c \in Conn |-> 0]
  /\ pending = [c \in Conn |-> 0] /\ buf = [c \in Conn |-> <<>>]
  /\ cb = None /\ step = "none" /\ id = 0 /\ target = None /\ local = None /\ value = 0
  /\ numbers = {} /\ list = [c \in Conn |-> <<>>] /\ file = <<>>
  /\ answers = {} /\ outcome = "running"

-----------------------------------------------------------------------------
(***************************************************************************)
(* The server around the callback, and the peers.                          *)
(***************************************************************************)
(* Nothing clears the buffer of the new thread: its stack is fresh memory  *)
(* or the stack of a thread that has ended.                                *)
Leftovers == {<<>>} \cup {buf[c] : c \in {d \in Conn : life[d] = "freed"}}

Accept(c) ==
  /\ outcome = "running" /\ newClient = None /\ life[c] = "new"
  /\ newClient' = c
  /\ life' = [life EXCEPT ![c] = "up"]
  /\ \E s \in Leftovers : buf' = [buf EXCEPT ![c] = s]
  /\ UNCHANGED <<clients, requests, pending, cbVars, dataVars, outcome>>

(* The remover has deleted a client and not erased it yet, _clientsMtx in  *)
(* its hand.                                                               *)
Dangling(i) == i \in DOMAIN clients /\ life[clients[i]] = "freed"

Push ==
  /\ outcome = "running" /\ newClient # None /\ \A i \in DOMAIN clients : ~Dangling(i)
  /\ clients' = Append(clients, newClient)
  /\ newClient' = None
  /\ UNCHANGED <<life, peerVars, cbVars, dataVars, outcome>>

(* The menu of the client: a request may be made while others wait.        *)
Ask(c) ==
  /\ outcome = "running" /\ life[c] = "up"
  /\ requests[c] < MaxRequests[c] /\ pending[c] < MaxPending
  /\ requests' = [requests EXCEPT ![c] = @ + 1]
  /\ pending' = [pending EXCEPT ![c] = @ + 1]
  /\ UNCHANGED <<listVars, buf, cbVars, dataVars, outcome>>

(* The connection is reset: the requests that still wait may get lost.     *)
Reset(c) ==
  /\ outcome = "running" /\ life[c] = "up"
  /\ life' = [life EXCEPT ![c] = "reset"]
  /\ \E n \in {0, pending[c]} : pending' = [pending EXCEPT ![c] = n]
  /\ UNCHANGED <<clients, newClient, requests, buf, cbVars, dataVars, outcome>>

(* The peer left and the client's thread has seen it.                      *)
Leave(c) ==
  /\ outcome = "running" /\ life[c] \in {"up", "gone"} /\ pending[c] = 0 /\ cb # c
  /\ life' = [life EXCEPT ![c] = "dead"]
  /\ UNCHANGED <<clients, newClient, peerVars, cbVars, dataVars, outcome>>

Delete(c) ==
  /\ outcome = "running" /\ life[c] = "reported"
  /\ \A i \in DOMAIN clients : ~Dangling(i)
  /\ \E i \in DOMAIN clients : clients[i] = c
  /\ life' = [life EXCEPT ![c] = "freed"]
  /\ UNCHANGED <<clients, newClient, peerVars, cbVars, dataVars, outcome>>

Erase(i) ==
  /\ outcome = "running" /\ Dangling(i)
  /\ clients' = SubSeq(clients, 1, i - 1) \o SubSeq(clients, i + 1, Len(clients))
  /\ UNCHANGED <<newClient, life, peerVars, cbVars, dataVars, outcome>>

-----------------------------------------------------------------------------
(***************************************************************************)
(* onIncomingMsg1, in the receive thread of cb.                            *)
(***************************************************************************)
Step(from, to) == outcome = "running" /\ step = from /\ step' = to

(* The digits of the buffer after recv() has put the first k requests over *)
(* its beginning; in the mutated form the clients count from 1.            *)
Digit_OneBased(c) == IdOf[c] + 1
Digit(c) == IdOf[c]
Received(c, k) ==
  [i \in 1..k |-> Digit(c)] \o SubSeq(buf[c], k + 1, Len(buf[c]))

(* stoi: the number of all the digits, for nothing ends the string after   *)
(* those that came. It throws without a digit, or if the number is no int. *)
NumberOf(s) ==
  LET upTo[n \in 0..Len(s)] == IF n = 0 THEN 0 ELSE Base * upTo[n - 1] + s[n]
  IN  upTo[Len(s)]

MaxInt == 2147483647
IsNumber(s) == s # <<>> /\ NumberOf(s) \in 0..MaxInt

Receive(c, k) ==
  /\ Step("none", "lookup")
  /\ life[c] \in {"up", "reset"} /\ k <= pending[c]
  /\ pending' = [pending EXCEPT ![c] = @ - k]
  /\ buf' = [buf EXCEPT ![c] = Received(c, k)]
  /\ IsNumber(buf'[c])
  /\ cb' = c /\ id' = NumberOf(buf'[c])
  /\ UNCHANGED <<listVars, requests, target, local, value, dataVars, outcome>>

(* After a reset recv() gives -1, which is taken for a size: what the      *)
(* buffer has is published once more.                                      *)
ReceiveError(c) ==
  /\ Step("none", "lookup")
  /\ life[c] = "reset" /\ pending[c] = 0
  /\ life' = [life EXCEPT ![c] = "gone"]
  /\ IsNumber(buf[c])
  /\ cb' = c /\ id' = NumberOf(buf[c])
  /\ UNCHANGED <<clients, newClient, peerVars, target, local, value, dataVars, outcome>>

Ends(how) == outcome' = how /\ UNCHANGED <<listVars, peerVars, cbVars, dataVars>>

(* Nobody catches what stoi throws for one of the messages that may come.   *)
StoiThrows(c) ==
  /\ outcome = "running" /\ step = "none"
  /\ \E s \in {Received(c, k) : k \in 1..pending[c]} \cup
               (IF life[c] = "reset" /\ pending[c] = 0 THEN {buf[c]} ELSE {}) : ~IsNumber(s)
  /\ Ends("aborted")

(* Without a request left the disconnection is published, which takes      *)
(* _subscribersMtx too.                                                    *)
BeginReport(c) ==
  /\ Step("none", "report")
  /\ life[c] = "dead"
  /\ cb' = c
  /\ UNCHANGED <<listVars, peerVars, id, target, local, value, dataVars, outcome>>

EndReport ==
  /\ Step("report", "none")
  /\ life' = [life EXCEPT ![cb] = "reported"]
  /\ cb' = None
  /\ UNCHANGED <<clients, newClient, peerVars, id, target, local, value, dataVars, outcome>>

(* server._clients[ID], and whether it is a client.                        *)
AtId == clients[id + 1]
IsClient == id < Len(clients) /\ ~Dangling(id + 1)

Lookup ==
  /\ Step("lookup", "generate")
  /\ IsClient /\ target' = AtId
  /\ UNCHANGED <<listVars, peerVars, cb, id, local, value, dataVars, outcome>>

(* It is looked up again by generateNumber, twice by sortList, and for the *)
(* answer; each keeps the client that it found.                            *)
LookupAgain ==
  /\ \/ Step("generate", "draw") \/ Step("sort", "sorting")
     \/ Step("rewrite", "rewriting") \/ Step("send", "sending")
  /\ IsClient /\ local' = AtId
  /\ UNCHANGED <<listVars, peerVars, cb, id, target, value, dataVars, outcome>>

IsAlive(c) == life[c] # "freed"

(* The numbers that the loop of generateNumber may end with. In the        *)
(* mutated forms it looks for the number in the client's own list, and     *)
(* draws one number too few.                                               *)
Candidates_OwnList ==
  {n \in Pool : n % 2 = id % 2 /\ \A i \in DOMAIN list[local] : list[local][i] # n}
Candidates_TooFew == {n \in 0 .. 2 * Half - 3 : n % 2 = id % 2 /\ n \notin numbers}
Candidates == {n \in Pool \ numbers : n % 2 = id % 2}

Generate ==
  /\ Step("draw", "write")
  /\ IsAlive(local)
  /\ value' \in Candidates
  /\ list' = [list EXCEPT ![local] = Append(@, value')]
  /\ numbers' = numbers \cup {value'}
  /\ UNCHANGED <<listVars, peerVars, cb, id, target, local, file, answers, outcome>>

(* The list of the client that was looked up first goes to the file.       *)
Written(i, l) == [n \in DOMAIN file \cup {i} |-> IF n = i THEN l ELSE file[n]]

WriteFile ==
  /\ Step("write", "sort")
  /\ IsAlive(target) /\ list[target] # <<>>
  /\ file' = Written(id, list[target])
  /\ UNCHANGED <<listVars, peerVars, cb, id, target, local, value, numbers, list, answers, outcome>>

(* The numbers of s in ascending order; no number is in a list twice.      *)
Ascending(s) ==
  CHOOSE t \in [DOMAIN s -> {s[i] : i \in DOMAIN s}] :
    \A i, j \in DOMAIN s : i < j => t[i] < t[j]

(* After five seconds: sortList sorts the list in place, as ExchangeSort   *)
(* does in detail; a list of one number is left alone. The mutated form    *)
(* leaves a list of two alone too.                                         *)
IsSorted_UpToTwo(l) == Len(l) <= 2
IsSorted(l) == Len(l) <= 1

SortList ==
  /\ outcome = "running" /\ step = "sorting"
  /\ IsAlive(local)
  /\ IF IsSorted(list[local])
     THEN step' = "send" /\ UNCHANGED list
     ELSE step' = "rewrite" /\ list' = [list EXCEPT ![local] = Ascending(@)]
  /\ UNCHANGED <<listVars, peerVars, cb, id, target, local, value, numbers, file, answers, outcome>>

(* The list of the client that was looked up after the sort is written.    *)
RewriteFile ==
  /\ Step("rewriting", "send")
  /\ IsAlive(local) /\ list[local] # <<>>
  /\ file' = Written(id, list[local])
  /\ UNCHANGED <<listVars, peerVars, cb, id, target, local, value, numbers, list, answers, outcome>>

Answer ==
  /\ Step("sending", "none")
  /\ IsAlive(local)
  /\ answers' = answers \cup {[from |-> cb, to |-> local, value |-> value]}
  /\ cb' = None /\ id' = 0 /\ target' = None /\ local' = None /\ value' = 0
  /\ UNCHANGED <<listVars, peerVars, numbers, list, file, outcome>>

(* On a connection that the peer has ended send() may raise SIGPIPE.       *)
AnswerKills ==
  /\ outcome = "running" /\ step = "sending"
  /\ life[local] \in {"reset", "gone", "dead", "reported"}
  /\ Ends("killed")

(* An index past the end, the memory of a deleted client, or a null list.  *)
WildAccess ==
  /\ outcome = "running"
  /\ \/ step \in Looks /\ ~IsClient
     \/ step \in Uses \ {"write"} /\ ~IsAlive(local)
     \/ step = "rewriting" /\ list[local] = <<>>
     \/ step = "write" /\ (~IsAlive(target) \/ list[target] = <<>>)
  /\ Ends("undefined")

-----------------------------------------------------------------------------
Callback ==
  \/ Lookup \/ LookupAgain \/ Generate \/ WriteFile \/ SortList \/ RewriteFile
  \/ Answer \/ AnswerKills \/ EndReport \/ WildAccess

Receives(c) == (\E k \in 1..MaxPending : Receive(c, k)) \/ ReceiveError(c) \/ StoiThrows(c)

Peer(c) == Ask(c) \/ Reset(c)

Next ==
  \/ Push
  \/ \E c \in Conn : Accept(c) \/ Peer(c) \/ Leave(c) \/ BeginReport(c) \/ Delete(c)
  \/ \E i \in 1..Len(clients) : Erase(i)
  \/ \E c \in Conn : Receives(c)
  \/ Callback

Spec == Init /\ [][Next]_vars

(* A callback goes on; the loop of generateNumber ends if it can. The      *)
(* mutex, free again and again, is had by each thread that waits for it.   *)
FairSpec == Spec /\ WF_vars(Callback) /\ \A c \in Conn : SF_vars(Receives(c))

-----------------------------------------------------------------------------
(* No number is in two places of the lists, nor in two answers, and the    *)
(* lists have exactly the numbers that were drawn (generateNumber: numbers *)
(* is one vector for all clients, changed by one callback at a time).      *)
EachNumberOnce ==
  /\ \A c, d \in Conn : \A i \in DOMAIN list[c], j \in DOMAIN list[d] :
       list[c][i] = list[d][j] => c = d /\ i = j
  /\ numbers = UNION {{list[c][i] : i \in DOMAIN list[c]} : c \in Conn}
  /\ \A a, b \in answers : a.value = b.value => a = b

(***************************************************************************)
(* The use that the example is made for: every client is accepted in the   *)
(* order of the IDs, none has the ID of another or has left, and none asks *)
(* before it has its answer. What holds then and not otherwise:            *)
(***************************************************************************)
Accepted == {c \in Conn : life[c] # "new"}

Orderly ==
  /\ \A c \in Accepted : life[c] = "up" /\ Len(buf[c]) <= 1
  /\ \A c, d \in Accepted : IdOf[c] = IdOf[d] => c = d
  /\ \A i \in DOMAIN clients : IdOf[clients[i]] = i - 1

(* Between callbacks the file of a client has its numbers in ascending     *)
(* order (README.md:6, onIncomingMsg1, sortList).                          *)
FileOf(c) == IF IdOf[c] \in DOMAIN file THEN file[IdOf[c]] ELSE <<>>
FileSorted == Orderly /\ cb = None => \A c \in Accepted : FileOf(c) = Ascending(list[c])

(* README.md:15, the server is thread-safe: the callback, which takes no   *)
(* mutex of the list, only uses clients that exist. Even in orderly use    *)
(* one case is left: a client is served before acceptClient has stored it. *)
WildOnlyBeforePush ==
  Orderly /\ outcome = "undefined" => \A i \in DOMAIN clients : clients[i] # cb

(* README.md:4, server_example.cpp:21: a request of a client is followed   *)
(* by an answer, one for those that were read together, unless the client  *)
(* resets its connection or the process ends; and unless some callback, of *)
(* this client or of another, looks for a number of a parity that is given *)
(* away: it has _subscribersMtx and all others wait.                       *)
Exhausted == \A n \in Pool : n % 2 = id % 2 => n \in numbers
Looping == step = "draw" /\ Exhausted
AnswersTo(c) == Cardinality({a \in answers : a.from = c})

RequestAnswered ==
  \A c \in Conn : \A n \in 0..MaxRequests[c] :
    pending[c] > 0 /\ AnswersTo(c) = n
      ~> AnswersTo(c) > n \/ life[c] # "up" \/ outcome # "running" \/ Looping
=============================================================================
