# Verification of the sample TCP server

TLA+ models of the TCP server and client library in `src/TCPServer`, the TLC
configurations that check them on small instances, and TLAPS proofs of the
properties that matter most for every size of the instance. `PROJECT.json`
relates every definition to the lines it models.

Paths below are relative to `src/TCPServer/`.

## The system

| Component | State | Operations |
|---|---|---|
| `TcpServer` (`src/tcp_server.cpp`) | `_sockfd` (a number that keeps its value after `::close`), `_clients` with `_clientsMtx`, `_subscribers` with `_subscribersMtx`, the remover thread and its stop flag, `numClientsConnected` | `start`, `subscribe`, `acceptClient`, `sendToClient` (two forms), `sendToAllClients`, `close`, the remover thread `removeDeadClients`, `publishClientMsg`, `publishClientDisconnected` |
| `Client` (`src/client.cpp`) | `_sockfd`, `_isConnected`, `_receiveThread` | `startListen`, the thread `receiveTask`, `send`, `close` |
| Observers (`include/server_observer.h`) | `wantedIP`, two handlers | called under `_subscribersMtx`, in the receive thread of the client concerned |
| Number service (`generateNumber`, `sortList`, and the callback of `tests/server_example.cpp`) | `numbers`, a linked list per client | one random even or odd number per request, sorted list written to a file, answer sent |
| `TcpClient` (`src/tcp_client.cpp`) | `_isConnected`, `_isClosed`, receive thread, subscribers, the static ID counter | `connectTo`, `sendMsg`, `subscribe`, `close`, the thread `receiveTask` |
| Client example (`tests/client_example.cpp`) | the global `client` pointer, `std::cout` | ten clients one after the other, each with its menu; the callbacks, which print; the SIGINT handler `sig_exit` |
| `fd_wait`, `FileDescriptor`, `pipe_ret_t` | none or a number | select with a timeout; results as values |

How they interact. The application thread (`evenServer`) starts the server,
subscribes an observer and accepts in a loop. Every accepted client gets a
receive thread, which calls `TcpServer::clientEventHandler`, which calls the
observers with `_subscribersMtx` held. The remover thread scans `_clients`
under `_clientsMtx` every two seconds; for a client whose flag is clear it
joins the receive thread, closes the descriptor, deletes the object and erases
the pointer, all with `_clientsMtx` held. `close()` stops and joins the remover,
then joins and closes every client under `_clientsMtx`.

What is hard about it. Two mutexes and three kinds of joins in an order no
test exercises; a thread that starts before its object is in the list that
owns it; an object that another thread deletes while its own thread still
publishes its end; a counter changed inside and outside of a mutex; results of
system calls stored in an unsigned type; a life cycle (start, close, start
again) with state that is not reset; descriptor numbers that outlive their
file and are given out again; and, in the examples, indices that other threads
shift, a global pointer that changes under the callbacks, and a signal handler
that joins and prints. `PROJECT.json` lists each hazard at its line with the properties
that cover it.

What makes each component correct. *TcpServer*: no deadlock; `_clients` is
exactly the clients that are connected or not yet cleaned up; every dead client
is released, once; `close()` releases everything. *Client*: its object outlives
its thread; messages before the disconnection. *Observers*: an observer that
hears a client is told of its end; one event at a time. *Number service*: a
number is given once, every request is answered, the file of a client is sorted
(that a client gets numbers of its parity, and its own, the code does not keep).
*TcpClient*: connected clients receive, `close()` returns and can be repeated.
*Client example*: an answer is printed under the client that got it, SIGINT ends
the program. *Descriptors*: a number means the file it was set for.

## Modules

* `TcpServer.tla`: the server and its `Client` objects. The main module.
* `ClientLifecycle.tla`: the abstract specification of what the server promises
  about one client: absent, served, dead, reported, released, with the events
  that observers hear one at a time. `TcpServer` implements it under the
  mapping `stage` and `busy <- subscribersMtx`.
* `TcpClient.tla`: one `TcpClient` object with its receive threads, and the
  SIGINT handler of the example.
* `ClientSession.tla`: the abstract specification of a receive thread of the
  client: it serves, it has lost the connection and says so, it has ended; what
  it hands to observers it hands over while it serves, and it serves once.
  `TcpClient` implements it.
* `ClientExample.tla`: the client program, several `TcpClient` objects with the
  callbacks, the menu and `sig_exit` around them.
* `NumberService.tla`: the application of the server example on top of the list
  of clients, with the contents of the receive buffers.
* `ExchangeSort.tla`: the loops of `sortList`, which are one step of
  `NumberService`.
* `Descriptors.tla`: the descriptor table of the process, and the numbers that
  the server and its clients keep.
* `MCTcpServer.tla`, `MCTcpClient.tla`, `MCClientExample.tla`,
  `MCNumberService.tla`, `MCExchangeSort.tla`, `MCDescriptors.tla`: values for the
  constants of the runs.
* `TcpServerProofs.tla`, `TcpServerListProofs.tla`, `TcpServerEventProofs.tla`,
  `TcpClientProofs.tla`, `ClientExampleProofs.tla`, `NumberServiceProofs.tla`,
  `ExchangeSortProofs.tla`, `DescriptorsProofs.tla`: the proofs.

### How `TcpServer.tla` corresponds to the code

A step is what a thread does between two points where another thread can see
the difference. `pc[t]` is where thread `t` is: `Owner` is the thread that calls
the public functions, `Removers` are the threads that `start()` can create, and
`c \in Conn` names at once a connection, the `Client` object made for it and the
receive thread of that object.

| Code | Actions |
|---|---|
| `start` | `Start`: the remover first (`StartRemover`), then the listener, which may fail in `socket` ("invalid") or in `bind`/`listen` ("unbound") |
| `subscribe` | `SubscribeCall`, `Subscribe` |
| `acceptClient` | `Accept` (up to and with `startListen`), `AcceptFails`, `PushClient` (lock, `push_back`, read of the counter), `CountClient` (write of the counter, unlock) |
| `sendToAllClients`, `sendToClient` | `SendToAllCall`, `SendToAllLock`, `SendToNext`, `SendToAllReturn`; `SendToClientCall`, `SendToClient` |
| `close` | `TerminateRemover`, `JoinRemover`, `CloseLock`, `CloseClient` (one per client), `ClearClients`, `CloseListener` |
| `removeDeadClients` | `RemoverCheck`, `RemoverLock`, `RemoverScan`, `DeleteClient`, `EraseClient` (which ends the pass if it erased the last element: the iterator then compares equal to the new end), `RemoverUnlock`, `RemoverWake` |
| `receiveTask` | `Receive` (select and `recv`, and the flag); publishing a message: `PublishMsg`, `HandleMsg`, `PublishMsgReturn`; publishing the end: `PublishDisc`, `HandleDisc`, `PublishDiscReturn`, `DecRead`, `DecWrite` |
| outside of `src/` | `PeerConnect`, `PeerSend`, `PeerClose`, `PeerReset`, and the results of `send` and `recv` |

`obj[c]` is the fate of the object and of its descriptor, `iter` the iterator
of whoever holds `_clientsMtx`, `reg` the value that a thread has read from
`numClientsConnected` and not yet written back. `missed` has the clients that the last
`sendToAllClients` or `sendToClient` was for and that have not taken the message whole.
`received`, `packets`, `handed`, `heard` and `told` are
history: nothing reads them but properties. `PacketHandlers` and `DisconnectHandlers`
are the observers that have the handler set. The conversion of a result to
`size_t` is `SizeT(n) == n % SizeMod`.

Abstractions, each with its reason:

* Payloads are byte counts, and a publication only counts: the text that a handler is
  given (the size is dropped, and the unterminated buffer becomes a string,
  `client.cpp:74`) is modelled in `NumberService`. No property of `TcpServer` is about it.
* A call of `Owner` is one at a time, as in the example; the library's comments
  do not promise concurrent calls of `start` and `close`.
* `start()` is called only when the server is not listening; what a second
  `start()` on a listening server does is in `Descriptors`.
* `close(2)` of an open descriptor succeeds, and `select` on one does not fail;
  `SIGPIPE`, which would end the process on a send to a reset peer, is taken to
  be ignored, so that the error path of `send` can be examined.
* `send` does not block for ever. A peer that never reads could make it.
* A handler returns. It must not call the server (`README.md`, observer rules).
* The server is a global variable, as in the example, so that the counter and
  `_fds`, which the constructor leaves alone, are zero. `FdsBit` is a constant:
  no run sets it, the proofs hold for either value.
* `printClients` and `print` change nothing; the destructor is a `close()`.
* The number of a descriptor is not modelled here, only its state; `Descriptors`
  has the numbers.
* `_clients` is a sequence. That `reserve(20)` makes `push_back` move the pointers
  from the 21st client on matters only to the reads without the mutex, which are
  in `NumberService`.

### `TcpClient.tla`

| Code | Actions |
|---|---|
| `connectTo` | `CreateSocket` or `SocketFails`, `AddressFails` (the name does not resolve), `ConnectFails` or `Connect` (the thread is created), `SetConnected` |
| `subscribe`, `sendMsg` | `SubscribeCall`, `SubscribeLock`, `Subscribe`; `SendMsg` |
| `close` | `CloseCall` or `JoinThrows`, `JoinReceiver` or `DeleteUnjoined`, `CloseFd`, by `App` or by `Handler` |
| `sig_exit` | `Interrupt`, the steps of `close`, `Exit` |
| `receiveTask` | `ReceiverCheck`, `WaitReady`, `WaitTimeout`, `WaitFails`, `Recv`, `Publish`, `Handle`, `PublishMsgReturn`, `PublishDiscReturn` |
| outside of `src/` | `ServerSend`, `ServerClose`, `ServerReset`, and the results of `send` and `recv` |

`Handler` is the signal handler, which runs once (a second SIGINT, in
another thread, is not modelled); `host` is the thread it interrupted, which never
runs again because `sig_exit` exits. An exception that nobody catches sets
`outcome` to "aborted": `select` on a descriptor that is not open, and a `join`
of oneself or of a thread that is being joined (`JoinRefused`); so does `delete` of a
thread that was not joined (`DeleteUnjoined`). That a second `join` throws is
what glibc's `pthread_join` makes of it; the standard leaves it undefined. The
constant `Calls` says how the client is used: with "reconnect" `connectTo` is
called although the client is not closed, with "subscribeLate" `subscribe` is
called on a connected client, which the example never does. A descriptor
number is not reused after `close(2)`. A message is a number of bytes, as in
`TcpServer`. The flags `_isConnected` and `_isClosed`
are set in one step at the end of `connectTo`: nothing reads both.

### `ClientExample.tla`

| Code | Actions |
|---|---|
| `connectTo` (`client_example.cpp:192`) | `Connect` (up to the thread), `SetConnected`, or `ConnectFails` |
| the menu | `BeginMenu`, `EndMenu` (writing to `std::cout`), then `Ask`, `AskNobody` or `AskKills` (selection 1, with a connection, without a socket, and without a connection: SIGPIPE), `Leave` (selection 2), `SelectOther`, `SelectInvalid` |
| the end of the round | `NewClient`, and after the last `Return` |
| `receiveTask` with the callbacks | `ReceiverCheck`, `WaitReturns`, `ReceiveAnswers` or `ReceiveError` (the -1 after a reset), `BeginShow`, `EndShow` (the ID), `BeginText`, `EndText` (the buffer); `ReceiveEnd`, `BeginShowEnd`, `EndShowEnd` |
| `sig_exit` | `Interrupt`, `HandlerSay`, `HandlerClose`, `HandlerJoin` or `JoinThrows`, `HandlerCloseFd`, `HandlerExit` |
| outside of this process | `Answer`, `ServerLeaves`, `ServerResets` |

A write to `std::cout` is two steps, for stdio locks the stream meanwhile: a
thread that is stopped in between keeps the lock, which only that thread,
and so the handler that runs in it, can take again. The callback for a message writes
the ID of the global client and then the buffer, and another thread may write
between; what is in the buffer is left out, and with it how many numbers a reader makes of
it: it is not terminated, so that nothing defines it. One round of the menu is one
write. `close()` has the same steps as in
`TcpClient`; the mutex of the observers is left out, for nobody else takes it
after the thread of the object is made.

### `NumberService.tla`

| Code | Actions |
|---|---|
| `receiveTask` with a message, up to the callback | `Receive`: `k` requests of one client may be read as one; `ReceiveError`: the -1 of `recv` after a reset, by which the buffer is published again; `StoiThrows` |
| `onIncomingMsg1` | `Lookup`, `Generate` (`generateNumber`), `WriteFile`, after the sleep `SortList` and `RewriteFile` (`sortList`), `Answer` or `AnswerKills` (SIGPIPE) |
| each further `_clients[ID]`: in `generateNumber`, twice in `sortList`, for the answer | `LookupAgain`, a step of its own; the client may go before it is used |
| any access to `_clients[ID]` or through a pointer that is not a client's | `WildAccess`: the behaviour is undefined, so nothing is said of what follows |
| `acceptClient` | `Accept` (up to `startListen`), `Push` |
| disconnection | `Leave` (the flag is cleared), `BeginReport`, `EndReport` (`onClientDisconnected`, under the observers' mutex as every callback) |
| `removeDeadClients` | `Delete`, `Erase` |
| the menu of the client, and the network | `Ask`, `Reset` |

The server is abstract here: that a client is deleted only after its thread
has reported it, and that callbacks exclude each other (`step`), is taken over from
`TcpServer`, not shown again.

A message is the ID of the sender, one digit (the example makes ten clients per
process). `buf[c]` are the digits that the receive buffer of the thread begins with.
Nothing initialises it: a new thread finds it without a digit or, if it has
the stack of a thread that has ended, with the digits of that client (`Leftovers`).
`Received` puts the digits of the message over its beginning and leaves the
rest, and `NumberOf` is what `stoi` makes of all of them; it throws without a digit or when the number is
no `int`. Other memory that a new stack may contain is not modelled, nor is the byte
that is read past a full buffer. The digits are to the base `Base`, which is 10 in the code and 2
in the runs: what matters of it is that more digits make another position and perhaps another
parity, and with base 2 the numbers that arise are positions of a list of a few clients.
The sort is one step, on lists without duplicates, and a number is drawn and
appended in one: only its own list and `numbers` change, which no other thread touches.

`Orderly` is the use that the example is made for: clients are accepted in the
order of their IDs, no two have the same, none has left, each buffer has at most the one digit
of its client. `FileSorted` and `WildOnlyBeforePush` are about it. What the
documentation says of parity and recipient the code does not keep, and nothing is stated of it;
see the findings.

### `ExchangeSort.tla` and `Descriptors.tla`

A linked list is a sequence, `head` and `sel` are positions in it, a null
pointer is the position after the last. `Call` is the early return, `OuterRound`,
`InnerRound` and `InnerEnd` the two loops, `OpenFile` and `WriteNode` the second half.

In `Descriptors`, `table` is the table of the kernel, which gives out the lowest
free number; `Start` and `StartFails` are `start` (after `socket`, `bind` or `listen`
may fail), `Accept`, `AcceptFails` are `acceptClient`, `CloseCall`, `CloseClient` and
`CloseListener` are `close`, also that of the destructor, `Remove` is a removal of
the remover and `ReceiverEnds` the end of a receive thread, `OtherOpen` and
`OtherClose` stand for all other files of the process. Each holds its lock
for the whole step: the interleavings inside are those of `TcpServer`. The threads that
`start()` creates, the readiness and the events are left to `TcpServer` as well.
A number that was never set is 0, which is the standard input.

## Runs

Deadlock checking is off in every run because the
system really may stop: `Owner` need not call anything and peers need not come.
`NoDeadlock` of each module says what deadlock means here: no set of threads waits only for
itself.

| Run | Question | Instance |
|---|---|---|
| `Server` | types, deadlock, lifetime of objects against threads, order of messages and disconnection, who is told before the object is released, what `close()` releases | two clients, one of which sends two bytes, in one packet or in two, while the other comes and goes; one remover, two observers subscribed at any time, one without a handler for disconnections, failing starts, resets, `close()` at any time and repeated |
| `ServerLive` | dead clients are released, `close()` returns when all peers leave, `ClientLifecycle` is implemented with its fairness | two clients, one sends; `FairSpec` |
| `ServerRestart` | two lives of the server: nothing closed twice, the list agrees with the objects, a send that falls short is reported | two starts and two removers, with timed accepts, both kinds of send |
| `Client` | orderly use: types, no deadlock, `close()` returns and leaves nothing behind, messages before the end, which is reported, a send that falls short is reported; `ClientSession` | two sockets, two observers, one for messages only and one for the end only, each subscribed before or after `connectTo`, one byte from the server, sends that fall short; `FairSpec` |
| `ClientAnyUse` | any use, SIGINT in any thread: no socket is closed under the thread made for it, no deadlock | three sockets, reconnects without `close()`, no observers and nothing sent (`Client` has both) |
| `ClientExample` | which answers are printed under another client's ID, when SIGINT gets stuck or does not end the process | two rounds, the first client asks up to twice, SIGINT at any moment in any thread, a server that leaves or resets; `FairSpec` |
| `Numbers` | no number twice, whoever gets it and however requests are read; in orderly use sorted files, and which clients are looked up wrongly; every request is answered unless a callback looks for a number that is not there | two clients, accepted in either order, that leave, reset and ask again without waiting, three times and twice; two numbers of each parity; `FairSpec` |
| `Sort` | the loops of `sortList` keep the numbers, sort them and write them | all lists of up to four numbers from 0 to 3, the empty one included |
| `Descriptors` | each number keeps its meaning, no thread meets a number without a file, `close()` gives everything back | two listeners, two clients, two other files, five numbers |
| `CountDrifts`, `RestartedRemover`, `DeafClient` | one sentence of the documentation each, which the code does not keep; see the findings | the smallest instance that shows it |

Bounds. `MaxSent` bounds what a peer sends (two bytes
suffice for a packet to be published while another waits), `MaxStarts` the calls of `start()` (two show
everything that a first life leaves behind), `Backlog` the listen queue. Two
clients suffice for the erase to shift a client, for the counter to lose an
update and for a remover to join one client while another dies; one remover
per start. In `TcpClient` two sockets suffice for a connection that leaves
something to the next one, and three for the exception of `SocketOutlivesThread`. In `ClientExample` an object that main has left, the
one it is at and the one it makes last are all there is to tell apart, and two
requests suffice for two answers in one `recv`. In `Descriptors` there
are fewer numbers than files, so that numbers are used again and `socket` and
`accept` also fail for lack of one. `Half` stands for the 50 numbers of each parity;
`MaxRequests` and `MaxPending` are chosen so that the numbers are used up and
two requests are read as one. Two clients suffice for the list to
shift, for a request that names another client, and for a buffer with what a client left. The proofs do not depend on any of these values. Symmetry among
clients (of sockets and receive threads in `TcpClient`, of files in `Descriptors`) is used only in the runs without
temporal properties.

Fairness. Every thread that can run eventually does (weak fairness of
`OwnerSteps`, `RemoverSteps`, `ReceiverSteps`): the operating system schedules
threads, `sleep(2)` and handlers end, `join` returns when the thread has ended.
A thread that waits for a mutex that is free again and again gets it (strong
fairness of the lock actions): `std::mutex` does not promise it, but every holder
sleeps or waits for the network between two holds. Nothing is assumed about
the beginning of a call or about a peer. `TcpClient` assumes the same of its
threads and of `sig_exit`; `NumberService` that a callback goes on, that
the random draws of `generateNumber` hit a number that is left, and that each receive
thread with something to read gets the mutex of the observers if it is free again and again. In `ClientExample` a thread that
waits for `std::cout` gets it if it is free again and again (strong fairness of
the writes); the user need not select anything, nor the server answer.

### Findings

With a run, each of which ends with a counterexample:

1. `CountDrifts`: `numClientsConnected` loses updates (`tcp_server.cpp:116`
   against `:251`).
2. `RestartedRemover`: after `close()` a restarted server removes no dead client
   (`tcp_server.cpp:101`).
3. `DeafClient`: `connectTo` may leave a connected client without a receive
   thread (`tcp_client.cpp:61`).

Also seen, without a run. Where a property of a passing run has a hypothesis or an
exception for one of them, it is named:

* `close()` does not return while a peer stays connected (`client.cpp:92`; the
  hypothesis of `CloseReturnsWhenPeersLeave`), and leaks the `Client` objects
  (`tcp_server.cpp:373`).
* A failed `send` is reported as a success (`client.cpp:31`,
  `tcp_client.cpp:115`; the exception in `ShortSendReported`), and a failed
  `recv` is published as a message (`client.cpp:60`, `tcp_client.cpp:181`;
  `MessagesBeforeDisconnect` is about connections that end in order): in `NumberService`
  the last request is then served once more (`ReceiveError`).
* A message that holds a zero byte is published only up to it, a shorter message is
  published with the end of a longer one before it, and one that fills the buffer with
  whatever follows in memory (`client.cpp:74`, `tcp_server.cpp:120`): no property of
  `TcpServer` or `TcpClient` is about the text.
* `acceptClient` with a timeout always fails (`tcp_server.cpp:262`): this is how
  `Accept` and `AcceptFails` are written.
* An observer with an empty `wantedIP` hears messages and no disconnection
  (`tcp_server.cpp:154` against `:136`); it is the one of the example.
  `ToldBeforeRelease` is about observers that name the address.
* The first request of a client may index past the end of `_clients`
  (`server_example.cpp:27`, `tcp_server.cpp:248`): the one case that
  `WildOnlyBeforePush` leaves in orderly use. Out of it, a request of a client
  that was removed, or of a second process, does the same.
* SIGINT handled in the receive thread of an earlier connection lets main go on:
  if it connects once more while `sig_exit` is between the join and `::close`
  (`tcp_client.cpp:213-215`), the socket of the new connection is closed under its
  thread. It takes three connections and a `connectTo` on a client that is
  not closed, which the example never makes. It is the exception of
  `SocketOutlivesThread` (`overtaken`). If App connects while `sig_exit` is in the join,
  the thread that is deleted is not the one that was joined, and the process ends
  (`DeleteUnjoined`).
* SIGINT handled in the receive thread of the client that is closed aborts the
  process (`client_example.cpp:17`, the second disjunct of `SignalExits`), and handled in the middle
  of a write it may never end (`StuckOnlyInWrite`, the hypothesis of
  `SignalExits`).
* An answer that comes after main has gone on is printed under the ID of the
  next client (`client_example.cpp:28`, the exception in `LabelRight`, also for an answer
  that was received and not yet printed); several answers, or an answer and the rest of a
  longer one, may be printed as one number, and two threads may write in turns.
* A failed connect leaves its socket open (`tcp_client.cpp:57`, `OnlyFailedLeaks`),
  and the example then goes on with a client that has no connection: selection 1
  ends the process by SIGPIPE.
* `close()` before any `start()` closes number 0, and a second `close()` or the
  destructor after one closes the same number again, which may be another file's
  by then (`tcp_server.cpp:377`). Without its hypothesis `~misused`,
  `NumbersKeepMeaning` fails in a few steps.
* `start()` over an open socket loses it (`tcp_server.cpp:186`, `lost` in
  `CloseGivesBack`).
* Clients of two processes share IDs, and an ID is a position in `_clients`
  (`server_example.cpp:27`, `:56`, `tcp_client.cpp:12`), so that one client gets the
  other's numbers, and numbers of another parity than it would by its own
  ID (`README.md:4`).
* Two requests that are read together leave two digits in the buffer
  (`client.cpp:59`), that client's thread ends, a later client's thread has its stack, and what is
  read for its request is its own digit and the second of those: its number may have the other
  parity (`README.md:4`).
* The request after the last number of a parity never ends
  (`tcp_server.cpp:300`), and as it holds `_subscribersMtx` no request of any client is
  served after it: the exception in `RequestAnswered`.
* Requests that are read together get one answer (`client.cpp:60`): `RequestAnswered`
  promises a further answer while requests wait, not one for each.
* A client that is removed between the two look-ups of `sortList` (`tcp_server.cpp:46`, `:58`)
  shifts the list: the file of an ID then has the numbers of another client.
* A request that is no number, such as the empty buffer after a reset, ends the server
  (`server_example.cpp:26`), and so does an answer to a client that has left (SIGPIPE,
  `client.cpp:31`).
* The list is sorted five seconds after each request, not "Every 10 seconds"
  (`README.md:6`).
* The menu's "Close connection to server and exit" (`tcp_client.cpp:41`) does neither:
  `main` makes another client and the connection stays
  (`client_example.cpp:204-218`); `LabelRight` has the consequence for what is printed.

## Proofs

Every safety invariant that a run checks is a theorem, and so is the safety part
of both refinements: `TcpServer` implements `ClientLifecycle`,
`TcpClient` implements `ClientSession`. Each proof rests on the
named assumptions on the constants of its module and on nothing else.

Of `TcpServer`, everything is proved for `Spec`, from the three assumptions that the module
names: `ThreadsAssumption` (threads are distinct), `DataAssumption` (addresses),
`BoundsAssumption` (the message size and the bounds on what is sent are smaller
than `SizeMod`).

`TcpServerProofs`. `TypeOK` alone is not inductive: `join` reads
`clients[iter]`, which is a client only while nobody else changes the list.
`CoreInv` adds to it

* `LocksInv`: a mutex is held by the one thread that is inside of its critical
  section, so that two threads never are;
* `FreshInv`: a connection waits once and has no thread before it is accepted;
* `LocalInv`: the locals that survive a lock or a join are still valid.

From it follow `Typing` and `DeadlockFreedom`. The argument for the latter: a
receive thread waits only for the holder of `_subscribersMtx`, which is a receive
thread inside of a handler and waits for nobody; so every receive thread is
live, hence a remover that holds `_clientsMtx`, which waits at most for a receive
thread, is live, hence everybody who waits for `_clientsMtx` or for the remover.
`ReceiverOutlived` uses that both `delete` and `::close` come after the join.

`TcpServerListProofs`. `ListInv` says which object each place of `_clients` has
at every step of the two passes that release clients while their pointers are
still in the list (`ObjOf`). It gives `ClosedOnce`, `ListMatches` and
`CloseReleasesAll`.

`TcpServerEventProofs`. `ConnectedInv` ties the flag to the place of the receive
thread, `ByteInv` says where every byte of a peer is and which packets are yet to be
published, `ToldInv` who is yet to be called. They give `MessagesFirst`, `ToldFirst` and `Refinement`, the safety part of
the implementation of `ClientLifecycle`: every step of the server moves one
client one stage, begins or ends an event, or is invisible. `SendInv` ties the
result of `sendToAllClients` and `sendToClient` to the peers: while the loop runs
and after a success, a client before the iterator that is still in `missed` is one for which `send`
returned -1, which `SizeT` turns into a large number, and so its peer has left. It gives `SuccessfulSends`.

`TcpClientProofs`, from `ClientThreadsAssumption` and `ClientBoundsAssumption`, has two
invariants. `AnyUseInv` holds in any use, with reconnects and SIGINT in any
thread: who holds `_subscribersMtx` (`LockInv`), who runs while `sig_exit` does
(`HandlerInv`), and that a thread with the current socket is the current
thread or has ended (`SocketInv`), so that a join before `::close` is enough. From it
follow `ClientTyping`, `SuccessIsTruthful`, `ClientDeadlockFreedom` and
`SessionRefinement`. `OnceInv` holds if `connectTo` is not called on a client
that is not closed (`"reconnect" \notin Calls`, which is the use in the example and in the
run `Client`): one receive thread works at a time, for the current
connection, and every byte is in the inbox, in the buffer or published. From it
follow `QuietAfterClose`, `ConnectionsKept` and `AllMessagesBefore`, which have that
hypothesis because the code does not keep them otherwise: a thread that
`connectTo` has lost sight of works on. `ThreadOutlived` needs the first only, and no
hypothesis: the history `overtaken` says when the exception of `SocketOutlivesThread` has
occurred. `NoDeadlock` is not for a SIGINT that stopped the holder of
`_subscribersMtx`; a SIGINT that stopped the thread to join is no exception, for the join is refused.

`ClientExampleProofs`, from `ExampleAssumption`. `ReqTyped` says that no answer is
received that was not asked for; `MainInv` where main is with the current object,
`GotInv` and `AnswerInv` which thread holds answers and what `leftEarly` knows
of those that are on their way, `StreamInv` who has `std::cout`, and `HandlerInv` where
`sig_exit` may be. `AnswersLabelled` and `StuckInWriteOnly` follow; the last
because a writer waits only for the holder of the stream, who waits for
nobody unless it was stopped.

`NumberServiceProofs`, from `ServiceAssumption`, for any base of the digits and any leftovers in
the buffers. `ControlInv` says that the callback
serves a client whose end is not yet seen, with the number that this client's buffer holds.
`NumbersInv` says that the lists have no number twice and together are `numbers`,
and that the number being served is in no answer yet. They give `NumbersDrawnOnce`,
although the callback may find another client at its
index at every look. `OrderlyInv` says what the callback has done for its client in
orderly use (`OwnFile`) and that no other file is behind its list (`OtherFiles`).
No step makes the use orderly (`OrderlyStep`), and in it the client at the ID is the
one served (`OwnId`): hence `FilesSorted` and `WildBeforePush`.
That a list of different
numbers has one ascending order (`OrderExists`), without which `Ascending` would
mean nothing, is proved by taking the least counterexample (`LeastNatural`), for want of
an induction rule that the provers can instantiate.

`ExchangeSortProofs`, from the assumption that the lists are sequences of integers.
`LoopInv` says that `data` is a rearrangement of `given`, that everything before
`head` is in ascending order and no greater than anything from `head` on, and that
`data[head]` is no greater than what lies between `head` and `sel`; once the file is
open, that it has the part of the list before `head`. An exchange keeps all of it because
it composes the rearrangement with a transposition. `Sorts`, `KeepsAll` and
`SortTyping` follow for lists of any length.

`DescriptorsProofs`, from `FilesAssumption` (the kinds of files are disjoint).
`NumbersKeepMeaning` alone is not inductive: it does not say that a number is held
by nobody else. `FdInv` adds `NoLeak` (a client's number is that of a client in the
list which `close()` has not passed yet, a listener's is `_sockfd` or was lost),
`Listing` (no client is in the list twice, and one whose thread runs is in it)
and `Results` (what `close()` relies on once it began). The theorems are
about the uses in which every `close()` follows a `start()` of its own (`~misused`).
`MeaningKept`, `NobodyThrows` and `GivesBack` follow for any number of files and descriptors.

Only model-checked: the liveness properties (`CloseReturns`, `EndReported`,
`SignalExits`, `RequestAnswered` and those of `ServerLive`) and the
fairness that `ImplementsLifecycle` of `TcpServer` and `ImplementsSession` of
`TcpClient` have beyond their safety part, all of which are beyond the prover; and the violations.
The `TypeOK` of every module with state is proved; the runs `Server` and
`Client` check two of them as well.

## Plan

Everything that changes state is modelled, and every safety invariant of the
runs is proved. What is left is to relate the modules by theorems where they are
related by words:

1. that one run of `ExchangeSort` gives what `SortList` of `NumberService` takes
   in one step, `Ascending`;
2. action properties of the server's list: a pointer leaves it only after its
   client was reported;
3. that `NumberService` assumes no more of the list of clients than `TcpServer` gives.

## Not modelled

* The build files and artefacts (`build/`, `CMakeLists.txt`, `build.sh`, Docker): no
  behaviour.
* `printClients`, `print` and the text of messages: no state.
* The storage of `std::vector`: see the abstractions of `TcpServer`.
* `Client::operator==`, and `sort`, `startSorting` and `myMap` of `tcp_server.h`,
  which have no caller or no definition.
* The text of what `TcpServer`, `TcpClient` and `ClientExample` hand to handlers and print:
  the buffers are not terminated, and nothing defines what follows the bytes that were
  received. `NumberService` models what depends on it on the server's side, as far as
  digits left by other clients go.
* SIGPIPE in `TcpServer` and `TcpClient`, which take it to be ignored; it is in
  `ClientExample` and `NumberService`.
