--------------------------- MODULE ClientExample ---------------------------
(***************************************************************************)
(* The program tests/client_example.cpp: main makes one TcpClient after    *)
(* the other, each with a connection and a receive thread of its own, and  *)
(* shows a menu for the one it is at; the threads print the answers; SIGINT *)
(* runs sig_exit in whichever thread it meets.                             *)
(*                                                                         *)
(* TcpClient has the details of one object. Here connect() is one step     *)
(* with socket(), for close() refuses an object until the flags are set,   *)
(* and recv() takes all answers that have arrived.                         *)
(***************************************************************************)
EXTENDS Integers

CONSTANTS
  Main, Handler, None,
  Loops,    \* rounds of main (10 in the code)
  MaxAsks   \* bound: requests by each client, by client

Objs == 0..Loops   \* the IDs of the objects, also of their receive threads
Connected == 0..(Loops - 1)   \* those that main connects: the last is only made
Threads == Objs \cup {Main}

ASSUME ExampleAssumption ==
  /\ Loops \in Nat \ {0} /\ MaxAsks \in [Objs -> Nat]
  /\ Main # Handler /\ None \notin Threads \cup {Handler}
  /\ Main \notin Objs /\ Handler \notin Objs

VARIABLES
  pc,           \* where each thread is
  handlerPc,    \* where sig_exit is
  host,         \* the thread that it interrupted, which is stopped, or None
  closing,      \* the object that it closes
  outcome,      \* of the process: "running", "exited", "killed" by SIGPIPE, or
                \* ended by an exception: "badInput" of the menu, "aborted"
  client,       \* the global client
  obj,          \* of each object: _isConnected, _isClosed and the socket
  server,       \* other end of each: "none" (not connected), "up", "fin" (left), "rst"
                \* (reset, the error is pending)
  req,          \* requests of each: asked; of these, waiting for the server,
                \* in the inbox as an answer, and got by the receive thread
  out,          \* the thread that is in the middle of writing to std::cout
  leftEarly,    \* history: main went on before the last request was answered
  mislabelled   \* history: an answer was printed with the ID of another client

sigVars  == <<handlerPc, host, closing>>
histVars == <<leftEarly, mislabelled>>
dataVars == <<client, obj, server, req, histVars>>
vars == <<pc, sigVars, outcome, out, dataVars>>

(* Requests of o whose answer has not been printed.                        *)
Outstanding(o) == req[o].waiting + req[o].inbox + req[o].got

MainLabels == {"connect", "setConnected", "menu", "menuing", "select", "new", "done"}
ReceiverLabels ==
  {"none", "check", "wait", "show", "showing", "text", "showingText", "showEnd", "showingEnd",
   "exit"}

TypeOK ==
  /\ pc \in [Threads -> MainLabels \cup ReceiverLabels]
  /\ pc[Main] \in MainLabels /\ \A o \in Objs : pc[o] \in ReceiverLabels
  /\ handlerPc \in {"off", "say", "close", "join", "closeFd", "exit"}
  /\ host \in Threads \cup {None} /\ closing \in Objs \cup {None}
  /\ outcome \in {"running", "exited", "killed", "badInput", "aborted"}
  /\ client \in Objs
  /\ obj \in [Objs -> [connected : BOOLEAN, closed : BOOLEAN, sock : {"none", "open", "closed"}]]
  /\ server \in [Objs -> {"none", "up", "fin", "rst"}]
  /\ req \in [Objs -> [asked : Nat, waiting : Nat, inbox : Nat, got : Nat]]
  /\ \A o \in Objs : Outstanding(o) <= req[o].asked
  /\ out \in Threads \cup {None}
  /\ leftEarly \subseteq Objs /\ mislabelled \subseteq Objs

Init ==
  /\ pc = [t \in Threads |-> IF t = Main THEN "connect" ELSE "none"]
  /\ handlerPc = "off" /\ host = None /\ closing = None
  /\ outcome = "running" /\ client = 0 /\ out = None
  /\ obj = [o \in Objs |-> [connected |-> FALSE, closed |-> TRUE, sock |-> "none"]]
  /\ server = [o \in Objs |-> "none"]
  /\ req = [o \in Objs |-> [asked |-> 0, waiting |-> 0, inbox |-> 0, got |-> 0]]
  /\ leftEarly = {} /\ mislabelled = {}

(* Thread t is at a label and neither it nor the process has been stopped. *)
At(t, label) == outcome = "running" /\ host # t /\ pc[t] = label

Goto(t, from, to) ==
  /\ At(t, from) /\ pc' = [pc EXCEPT ![t] = to]
  /\ UNCHANGED <<sigVars, outcome>>

Ends(how) == outcome' = how /\ UNCHANGED <<pc, sigVars, out, dataVars>>

-----------------------------------------------------------------------------
(***************************************************************************)
(* main().                                                                 *)
(***************************************************************************)
(* connectTo creates the receive thread and then sets the flags.           *)
Connect ==
  /\ At(Main, "connect")
  /\ pc' = [pc EXCEPT ![Main] = "setConnected", ![client] = "check"]
  /\ obj' = [obj EXCEPT ![client].sock = "open"]
  /\ server' = [server EXCEPT ![client] = "up"]
  /\ UNCHANGED <<sigVars, outcome, client, req, out, histVars>>

SetConnected ==
  /\ Goto(Main, "setConnected", "menu")
  /\ obj' = [obj EXCEPT ![client].connected = TRUE, ![client].closed = FALSE]
  /\ UNCHANGED <<client, server, req, out, histVars>>

(* A failure leaves an open socket, or none; main shows the menu anyway.   *)
ConnectFails ==
  /\ Goto(Main, "connect", "menu")
  /\ \E s \in {"none", "open"} : obj' = [obj EXCEPT ![client].sock = s]
  /\ UNCHANGED <<client, server, req, out, histVars>>

(* std::cout is one stream for all threads; stdio locks it for each write. *)
BeginMenu ==
  /\ Goto(Main, "menu", "menuing")
  /\ out = None /\ out' = Main
  /\ UNCHANGED dataVars

EndMenu ==
  /\ Goto(Main, "menuing", "select")
  /\ out' = None
  /\ UNCHANGED dataVars

(* Selection 1: the request goes out and the menu comes again. It may get  *)
(* lost after the server has left.                                         *)
AfterAsk_Leave == "new"
AfterAsk == "menu"

Ask ==
  /\ Goto(Main, "select", AfterAsk)
  /\ server[client] \in {"up", "fin"} /\ obj[client].sock = "open"
  /\ req[client].asked < MaxAsks[client]
  /\ req' = [req EXCEPT ![client].asked = @ + 1, ![client].waiting = @ + 1]
  /\ UNCHANGED <<client, obj, server, out, histVars>>

(* Without a socket, or with an error pending on it, send() fails and main *)
(* says that it succeeded.                                                 *)
AskNobody ==
  /\ Goto(Main, "select", "menu")
  /\ obj[client].sock # "open" \/ server[client] = "rst"
  /\ server' = [server EXCEPT ![client] = IF @ = "rst" THEN "fin" ELSE @]
  /\ UNCHANGED <<client, obj, req, out, histVars>>

(* On a socket without a connection send() raises SIGPIPE.                 *)
AskKills ==
  /\ At(Main, "select")
  /\ obj[client].sock = "open" /\ server[client] \in {"none", "fin"}
  /\ Ends("killed")

(* Selection 2: main leaves the object as it is.                           *)
Leave ==
  /\ Goto(Main, "select", "new")
  /\ leftEarly' = IF Outstanding(client) > 0 THEN leftEarly \cup {client} ELSE leftEarly
  /\ UNCHANGED <<client, obj, server, req, out, mislabelled>>

(* Any other number, and what is no number: getMenuSelection throws.       *)
SelectOther == Goto(Main, "select", "menu") /\ UNCHANGED <<out, dataVars>>
SelectInvalid == At(Main, "select") /\ Ends("badInput")

NewClient ==
  /\ Goto(Main, "new", IF client + 1 < Loops THEN "connect" ELSE "done")
  /\ client' = client + 1
  /\ UNCHANGED <<obj, server, req, out, histVars>>

Return == At(Main, "done") /\ Ends("exited")

-----------------------------------------------------------------------------
(***************************************************************************)
(* receiveTask() of object o, with onIncomingMsg and onDisconnection.      *)
(***************************************************************************)
ReceiverCheck(o) ==
  /\ Goto(o, "check", IF obj[o].connected THEN "wait" ELSE "exit")
  /\ UNCHANGED <<out, dataVars>>

(* select() finds nothing in a second, or it fails for a closed socket:    *)
(* that exception ends the process.                                        *)
WaitReturns(o) ==
  /\ At(o, "wait")
  /\ IF obj[o].sock = "open"
     THEN /\ req[o].inbox = 0 /\ server[o] \notin {"fin", "rst"}
          /\ Goto(o, "wait", "check") /\ UNCHANGED <<out, dataVars>>
     ELSE Ends("aborted")

ReceiveAnswers(o) ==
  /\ Goto(o, "wait", "show")
  /\ obj[o].sock = "open" /\ req[o].inbox > 0
  /\ req' = [req EXCEPT ![o].got = req[o].inbox, ![o].inbox = 0]
  /\ UNCHANGED <<client, obj, server, out, histVars>>

ReceiveEnd(o) ==
  /\ Goto(o, "wait", "showEnd")
  /\ obj[o].sock = "open" /\ req[o].inbox = 0 /\ server[o] = "fin"
  /\ obj' = [obj EXCEPT ![o].connected = FALSE]
  /\ UNCHANGED <<client, server, req, out, histVars>>

(* After a reset recv() gives -1, which is taken for a size: the buffer is *)
(* shown as if a message had come.                                         *)
ReceiveError(o) ==
  /\ Goto(o, "wait", "show")
  /\ obj[o].sock = "open" /\ req[o].inbox = 0 /\ server[o] = "rst"
  /\ server' = [server EXCEPT ![o] = "fin"]
  /\ UNCHANGED <<client, obj, req, out, histVars>>

(* onIncomingMsg prints the ID of the global client, and then the buffer:  *)
(* each is a write of its own.                                             *)
BeginShow(o) ==
  /\ Goto(o, "show", "showing")
  /\ out = None /\ out' = o
  /\ mislabelled' = IF client # o /\ req[o].got > 0 THEN mislabelled \cup {o} ELSE mislabelled
  /\ UNCHANGED <<client, obj, server, req, leftEarly>>

EndShow(o) ==
  /\ Goto(o, "showing", "text")
  /\ out' = None
  /\ UNCHANGED dataVars

BeginText(o) ==
  /\ Goto(o, "text", "showingText")
  /\ out = None /\ out' = o
  /\ UNCHANGED dataVars

EndText(o) ==
  /\ Goto(o, "showingText", "check")
  /\ out' = None
  /\ req' = [req EXCEPT ![o].got = 0]
  /\ UNCHANGED <<client, obj, server, histVars>>

BeginShowEnd(o) ==
  /\ Goto(o, "showEnd", "showingEnd")
  /\ out = None /\ out' = o
  /\ UNCHANGED dataVars

EndShowEnd(o) ==
  /\ Goto(o, "showingEnd", "exit")
  /\ out' = None
  /\ UNCHANGED dataVars

-----------------------------------------------------------------------------
(***************************************************************************)
(* sig_exit().                                                             *)
(***************************************************************************)
HandlerGoto(from, to) ==
  /\ outcome = "running" /\ handlerPc = from /\ handlerPc' = to
  /\ UNCHANGED <<pc, client, server, req, histVars>>

Interrupt(t) ==
  /\ host = None /\ pc[t] \notin {"none", "exit"}
  /\ HandlerGoto("off", "say")
  /\ host' = t
  /\ UNCHANGED <<closing, outcome, obj, out>>

(* The lock of the stream may be taken again by the thread that has it. In *)
(* the mutated form the handler keeps it until it ends.                    *)
MayWrite == out \in {None, host}
ReleaseStream_Late == out' = host
ReleaseStream == UNCHANGED out

HandlerSay ==
  /\ HandlerGoto("say", "close")
  /\ MayWrite /\ ReleaseStream
  /\ UNCHANGED <<host, closing, outcome, obj>>

(* close() of the client that is the global one now.                       *)
HandlerClose ==
  /\ HandlerGoto("close", IF obj[client].closed THEN "exit" ELSE "join")
  /\ closing' = client
  /\ obj' = IF obj[client].closed THEN obj ELSE [obj EXCEPT ![client].connected = FALSE]
  /\ UNCHANGED <<host, outcome, out>>

(* The mutated form does not wait for the thread.                          *)
ReceiverEnded_NoWait == TRUE
ReceiverEnded == pc[closing] = "exit"

HandlerJoin ==
  /\ HandlerGoto("join", "closeFd")
  /\ closing # host /\ ReceiverEnded
  /\ UNCHANGED <<host, closing, outcome, obj, out>>

(* A thread that joins itself: nobody catches the exception.               *)
JoinThrows ==
  outcome = "running" /\ handlerPc = "join" /\ closing = host /\ Ends("aborted")

HandlerCloseFd ==
  /\ HandlerGoto("closeFd", "exit")
  /\ obj' = [obj EXCEPT ![closing].sock = "closed", ![closing].closed = TRUE]
  /\ UNCHANGED <<host, closing, outcome, out>>

HandlerExit ==
  /\ HandlerGoto("exit", "off")
  /\ MayWrite
  /\ outcome' = "exited"
  /\ UNCHANGED <<host, closing, obj, out>>

-----------------------------------------------------------------------------
(* The server, outside of this process.                                    *)
Answer(o) ==
  /\ outcome = "running" /\ server[o] = "up" /\ req[o].waiting > 0
  /\ req' = [req EXCEPT ![o].waiting = @ - 1, ![o].inbox = @ + 1]
  /\ UNCHANGED <<pc, sigVars, outcome, client, obj, server, out, histVars>>

ServerLeaves(o) ==
  /\ outcome = "running" /\ server[o] = "up"
  /\ server' = [server EXCEPT ![o] = "fin"]
  /\ UNCHANGED <<pc, sigVars, outcome, client, obj, req, out, histVars>>

(* A reset may take the answers that are still on their way with it.       *)
ServerResets(o) ==
  /\ outcome = "running" /\ server[o] = "up"
  /\ server' = [server EXCEPT ![o] = "rst"]
  /\ \E n \in {0, req[o].inbox} : req' = [req EXCEPT ![o].inbox = n]
  /\ UNCHANGED <<pc, sigVars, outcome, client, obj, out, histVars>>

-----------------------------------------------------------------------------
User == Ask \/ AskNobody \/ AskKills \/ Leave \/ SelectOther \/ SelectInvalid

MainSteps == Connect \/ SetConnected \/ ConnectFails \/ EndMenu \/ NewClient \/ Return

ReceiverSteps(o) ==
  \/ ReceiverCheck(o) \/ WaitReturns(o) \/ ReceiveAnswers(o) \/ ReceiveEnd(o)
  \/ ReceiveError(o) \/ EndShow(o) \/ EndText(o) \/ EndShowEnd(o)

Shows(o) == BeginShow(o) \/ BeginText(o) \/ BeginShowEnd(o)

ServerSteps(o) == Answer(o) \/ ServerLeaves(o) \/ ServerResets(o)

HandlerWrites == HandlerSay \/ HandlerExit
HandlerSteps == HandlerClose \/ HandlerJoin \/ JoinThrows \/ HandlerCloseFd

Next ==
  \/ User \/ BeginMenu \/ MainSteps \/ HandlerWrites \/ HandlerSteps
  \/ \E t \in Threads : Interrupt(t)
  \/ \E o \in Objs : ReceiverSteps(o) \/ Shows(o) \/ ServerSteps(o)

Spec == Init /\ [][Next]_vars

(* Threads that can run do, and the stream, free again and again, is had   *)
(* by each that waits for it. The user need not select anything, the       *)
(* server need not answer and SIGINT need not come.                        *)
Fairness ==
  /\ WF_vars(MainSteps) /\ SF_vars(BeginMenu)
  /\ WF_vars(HandlerSteps) /\ SF_vars(HandlerWrites)
  /\ \A o \in Connected : WF_vars(ReceiverSteps(o)) /\ SF_vars(Shows(o))

FairSpec == Spec /\ Fairness

-----------------------------------------------------------------------------
(* client_example.cpp:28: the ID that is printed for an answer is that of  *)
(* the client that got it, unless the user left that client before the     *)
(* answer was printed. (What is printed after it, the buffer and perhaps   *)
(* parts of another thread's line first, is another matter.)               *)
LabelRight == mislabelled \subseteq leftEarly

InWrite(t) == pc[t] \in {"menuing", "showing", "showingText", "showingEnd"}

WaitsFor(t) ==
  CASE t = host -> Handler
    [] t = Handler /\ handlerPc \in {"say", "exit"} /\ ~MayWrite -> out
    [] t = Handler /\ handlerPc = "join" /\ closing # host /\ pc[closing] # "exit" -> closing
    [] t \in Threads /\ t # host /\ pc[t] \in {"menu", "show", "text", "showEnd"} -> out
    [] OTHER -> None

(* No set of threads waits only for itself, unless SIGINT stopped a thread *)
(* in the middle of a write: the thread that sig_exit joins may want to    *)
(* write too.                                                              *)
StuckOnlyInWrite ==
  outcome = "running" =>
    \A S \in SUBSET (Threads \cup {Handler}) :
      S # {} /\ (\A t \in S : WaitsFor(t) \in S) => host \in S /\ InWrite(host)

(* SIGINT ends the process (sig_exit), unless it met a thread in the middle *)
(* of a write; by an exception only if the handler joins its own thread,    *)
(* never because a thread meets a closed socket.                            *)
SignalExits ==
  host # None /\ ~InWrite(host)
    ~> \/ outcome \in {"exited", "killed", "badInput"}
       \/ outcome = "aborted" /\ closing = host
=============================================================================
