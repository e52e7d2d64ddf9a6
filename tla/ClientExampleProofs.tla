------------------------ MODULE ClientExampleProofs ------------------------
(***************************************************************************)
(* Proofs about ClientExample, for any number of rounds of main and of     *)
(* requests by each client.                                                *)
(***************************************************************************)
EXTENDS ClientExample, TLAPS

(* The types, in three parts.                                              *)
ObjType == [connected : BOOLEAN, closed : BOOLEAN, sock : {"none", "open", "closed"}]
ReqType == [asked : Nat, waiting : Nat, inbox : Nat, got : Nat]

ProcTyped ==
  /\ pc \in [Threads -> MainLabels \cup ReceiverLabels]
  /\ pc[Main] \in MainLabels /\ \A o \in Objs : pc[o] \in ReceiverLabels
  /\ handlerPc \in {"off", "say", "close", "join", "closeFd", "exit"}
  /\ host \in Threads \cup {None} /\ closing \in Objs \cup {None}
  /\ outcome \in {"running", "exited", "killed", "badInput", "aborted"}
  /\ client \in Objs
  /\ server \in [Objs -> {"none", "up", "fin", "rst"}]
  /\ out \in Threads \cup {None}
  /\ leftEarly \subseteq Objs /\ mislabelled \subseteq Objs

ObjTyped == obj \in [Objs -> ObjType]

ReqTyped ==
  /\ req \in [Objs -> ReqType]
  /\ \A o \in Objs : Outstanding(o) <= req[o].asked

NoRequests(o) == req[o].waiting = 0 /\ req[o].inbox = 0 /\ req[o].got = 0

(* The client at hand, until it is connected, and those that main has yet  *)
(* to make have no thread and no request.                                  *)
MainInv ==
  /\ pc[Main] # "done" => client \in Connected
  /\ \A o \in Objs : o > client \/ (o = client /\ pc[Main] \in {"connect", "done"}) =>
       pc[o] = "none" /\ NoRequests(o)

(* A thread has answers of its own only while it prints them.              *)
GotInv ==
  \A o \in Objs : req[o].got > 0 => pc[o] \in {"show", "showing", "text", "showingText"}

(* Where a request waits and main has gone on, main left early: nobody     *)
(* asks for a client that main left.                                       *)
AnswerInv ==
  \A o \in Objs :
    Outstanding(o) > 0 /\ (o < client \/ (o = client /\ pc[Main] = "new")) => o \in leftEarly

(* The stream belongs to the thread that is in the middle of a write.      *)
StreamInv == \A t \in Threads : out = t <=> InWrite(t)

(* The object that sig_exit joins is one.                                  *)
HandlerInv == handlerPc = "join" => closing \in Objs

ExampleInv ==
  /\ ProcTyped /\ ObjTyped /\ ReqTyped
  /\ MainInv /\ GotInv /\ AnswerInv /\ StreamInv /\ HandlerInv
  /\ LabelRight

-----------------------------------------------------------------------------
(* The requests of o after each action that moves one.                     *)
Asked(o) ==
  /\ req' = [req EXCEPT ![o] = [req[o] EXCEPT !.asked = req[o].asked + 1,
                                              !.waiting = req[o].waiting + 1]]
Answered(o) ==
  /\ req[o].waiting > 0
  /\ req' = [req EXCEPT ![o] = [req[o] EXCEPT !.waiting = req[o].waiting - 1,
                                              !.inbox = req[o].inbox + 1]]
Taken(o) ==
  /\ req[o].inbox > 0
  /\ req' = [req EXCEPT ![o] = [req[o] EXCEPT !.got = req[o].inbox, !.inbox = 0]]
Shown(o) == req' = [req EXCEPT ![o] = [req[o] EXCEPT !.got = 0]]
Dropped(o) ==
  \E n \in {0, req[o].inbox} : req' = [req EXCEPT ![o] = [req[o] EXCEPT !.inbox = n]]

(* The five actions.                                                       *)
LEMMA ReqMoves ==
  /\ Ask => Asked(client)
  /\ \A o \in Objs :
       /\ Answer(o) => Answered(o)
       /\ ReceiveAnswers(o) => Taken(o)
       /\ EndText(o) => Shown(o)
       /\ ServerResets(o) => Dropped(o)
<1>1. Ask => Asked(client)
  BY DEF Ask, Asked
<1>2. ASSUME NEW o \in Objs, Answer(o) PROVE Answered(o)
  BY <1>2 DEF Answer, Answered
<1>3. ASSUME NEW o \in Objs, ReceiveAnswers(o) PROVE Taken(o)
  BY <1>3 DEF ReceiveAnswers, Taken
<1>4. ASSUME NEW o \in Objs, EndText(o) PROVE Shown(o)
  BY <1>4 DEF EndText, Shown
<1>5. ASSUME NEW o \in Objs, ServerResets(o) PROVE Dropped(o)
  BY <1>5 DEF ServerResets, Dropped
<1> QED
  BY <1>1, <1>2, <1>3, <1>4, <1>5

(* The requests move one step at a time.                                   *)
LEMMA ReqFrame ==
  ASSUME [Next]_vars
  PROVE  \/ UNCHANGED req
         \/ Ask /\ Asked(client)
         \/ \E o \in Objs : Answer(o) /\ Answered(o)
         \/ \E o \in Objs : ReceiveAnswers(o) /\ Taken(o)
         \/ \E o \in Objs : EndText(o) /\ Shown(o)
         \/ \E o \in Objs : ServerResets(o) /\ Dropped(o)
<1>1. \/ Ask \/ UNCHANGED req
      \/ \E o \in Objs : Answer(o) \/ ReceiveAnswers(o) \/ EndText(o) \/ ServerResets(o)
  BY DEF Next, User, MainSteps, ReceiverSteps, ServerSteps, Shows, HandlerWrites, HandlerSteps,
     vars, dataVars, histVars, sigVars, Connect, SetConnected, ConnectFails, BeginMenu,
     EndMenu, AskNobody, AskKills, Leave, SelectOther, SelectInvalid, NewClient, Return,
     ReceiverCheck, WaitReturns, ReceiveEnd, ReceiveError, BeginShow, EndShow, BeginText,
     BeginShowEnd, EndShowEnd, Interrupt, HandlerSay, HandlerClose, HandlerJoin,
     JoinThrows, HandlerCloseFd, HandlerExit, HandlerGoto, Ends, ServerSteps, ServerLeaves
<1>2. CASE \E o \in Objs : Answer(o) \/ ReceiveAnswers(o) \/ EndText(o) \/ ServerResets(o)
  <2>1. PICK o \in Objs : Answer(o) \/ ReceiveAnswers(o) \/ EndText(o) \/ ServerResets(o)
    BY <1>2
  <2>2. \/ Answer(o) /\ Answered(o)
        \/ ReceiveAnswers(o) /\ Taken(o)
        \/ EndText(o) /\ Shown(o)
        \/ ServerResets(o) /\ Dropped(o)
    BY <2>1, ReqMoves
  <2> QED
    BY <2>2
<1> QED
  BY <1>1, <1>2, ReqMoves

(* What each of these does to the counts.                                  *)
LEMMA ReqEffect ==
  ASSUME ReqTyped, NEW o \in Objs, Asked(o) \/ Answered(o) \/ Taken(o) \/ Shown(o) \/ Dropped(o)
  PROVE  /\ req' \in [Objs -> ReqType]
         /\ \A p \in Objs \ {o} : req'[p] = req[p]
         /\ Asked(o) => /\ req'[o].asked = req[o].asked + 1
                        /\ req'[o].waiting = req[o].waiting + 1
                        /\ req'[o].inbox = req[o].inbox /\ req'[o].got = req[o].got
         /\ Answered(o) => /\ req'[o].asked = req[o].asked
                           /\ req'[o].waiting = req[o].waiting - 1
                           /\ req'[o].inbox = req[o].inbox + 1 /\ req'[o].got = req[o].got
         /\ Taken(o) => /\ req'[o].asked = req[o].asked
                        /\ req'[o].waiting = req[o].waiting
                        /\ req'[o].inbox = 0 /\ req'[o].got = req[o].inbox
         /\ Shown(o) => /\ req'[o].asked = req[o].asked
                        /\ req'[o].waiting = req[o].waiting
                        /\ req'[o].inbox = req[o].inbox /\ req'[o].got = 0
         /\ Dropped(o) => /\ req'[o].asked = req[o].asked
                          /\ req'[o].waiting = req[o].waiting
                          /\ req'[o].inbox \in {0, req[o].inbox} /\ req'[o].got = req[o].got
<1>0. req \in [Objs -> ReqType] /\ req[o] \in ReqType
  BY DEF ReqTyped
<1>1. ASSUME Asked(o)
      PROVE  /\ req' \in [Objs -> ReqType]
             /\ \A p \in Objs \ {o} : req'[p] = req[p]
             /\ req'[o].asked = req[o].asked + 1
             /\ req'[o].waiting = req[o].waiting + 1
             /\ req'[o].inbox = req[o].inbox
             /\ req'[o].got = req[o].got
  <2> DEFINE r == [req[o] EXCEPT !.asked = req[o].asked + 1,
                                !.waiting = req[o].waiting + 1]
  <2>1. r \in ReqType
    <3>1. req[o].asked + 1 \in Nat /\ req[o].waiting + 1 \in Nat
      BY <1>0, <1>1 DEF Asked, ReqType
    <3>2. \A a, b \in Nat : [req[o] EXCEPT !.asked = a, !.waiting = b] \in ReqType
      BY <1>0 DEF ReqType
    <3> QED
      BY <3>1, <3>2
  <2>2. req' = [req EXCEPT ![o] = r]
    BY <1>1 DEF Asked
  <2> HIDE DEF r
  <2>3. /\ req' \in [Objs -> ReqType] /\ req'[o] = r
        /\ \A p \in Objs \ {o} : req'[p] = req[p]
    BY <1>0, <2>1, <2>2
  <2> USE DEF r
  <2> QED
    BY <1>0, <2>3 DEF ReqType
<1>2. ASSUME Answered(o)
      PROVE  /\ req' \in [Objs -> ReqType]
             /\ \A p \in Objs \ {o} : req'[p] = req[p]
             /\ req'[o].asked = req[o].asked
             /\ req'[o].waiting = req[o].waiting - 1
             /\ req'[o].inbox = req[o].inbox + 1
             /\ req'[o].got = req[o].got
  <2> DEFINE r == [req[o] EXCEPT !.waiting = req[o].waiting - 1,
                                !.inbox = req[o].inbox + 1]
  <2>1. r \in ReqType
    <3>1. req[o].waiting - 1 \in Nat /\ req[o].inbox + 1 \in Nat
      BY <1>0, <1>2 DEF Answered, ReqType
    <3>2. \A a, b \in Nat : [req[o] EXCEPT !.waiting = a, !.inbox = b] \in ReqType
      BY <1>0 DEF ReqType
    <3> QED
      BY <3>1, <3>2
  <2>2. req' = [req EXCEPT ![o] = r]
    BY <1>2 DEF Answered
  <2> HIDE DEF r
  <2>3. /\ req' \in [Objs -> ReqType] /\ req'[o] = r
        /\ \A p \in Objs \ {o} : req'[p] = req[p]
    BY <1>0, <2>1, <2>2
  <2> USE DEF r
  <2> QED
    BY <1>0, <2>3 DEF ReqType
<1>3. ASSUME Taken(o)
      PROVE  /\ req' \in [Objs -> ReqType]
             /\ \A p \in Objs \ {o} : req'[p] = req[p]
             /\ req'[o].asked = req[o].asked
             /\ req'[o].waiting = req[o].waiting
             /\ req'[o].inbox = 0
             /\ req'[o].got = req[o].inbox
  <2> DEFINE r == [req[o] EXCEPT !.got = req[o].inbox, !.inbox = 0]
  <2>1. r \in ReqType
    BY <1>0, <1>3 DEF Taken, ReqType
  <2>2. req' = [req EXCEPT ![o] = r]
    BY <1>3 DEF Taken
  <2> HIDE DEF r
  <2>3. /\ req' \in [Objs -> ReqType] /\ req'[o] = r
        /\ \A p \in Objs \ {o} : req'[p] = req[p]
    BY <1>0, <2>1, <2>2
  <2> USE DEF r
  <2> QED
    BY <1>0, <2>3 DEF ReqType
<1>4. ASSUME Shown(o)
      PROVE  /\ req' \in [Objs -> ReqType]
             /\ \A p \in Objs \ {o} : req'[p] = req[p]
             /\ req'[o].asked = req[o].asked
             /\ req'[o].waiting = req[o].waiting
             /\ req'[o].inbox = req[o].inbox
             /\ req'[o].got = 0
  <2> DEFINE r == [req[o] EXCEPT !.got = 0]
  <2>1. r \in ReqType
    BY <1>0, <1>4 DEF Shown, ReqType
  <2>2. req' = [req EXCEPT ![o] = r]
    BY <1>4 DEF Shown
  <2> HIDE DEF r
  <2>3. /\ req' \in [Objs -> ReqType] /\ req'[o] = r
        /\ \A p \in Objs \ {o} : req'[p] = req[p]
    BY <1>0, <2>1, <2>2
  <2> USE DEF r
  <2> QED
    BY <1>0, <2>3 DEF ReqType
<1>5. ASSUME Dropped(o)
      PROVE  /\ req' \in [Objs -> ReqType]
             /\ \A p \in Objs \ {o} : req'[p] = req[p]
             /\ req'[o].asked = req[o].asked
             /\ req'[o].waiting = req[o].waiting
             /\ req'[o].inbox \in {0, req[o].inbox}
             /\ req'[o].got = req[o].got
  <2>0. PICK n \in {0, req[o].inbox} : req' = [req EXCEPT ![o] = [req[o] EXCEPT !.inbox = n]]
    BY <1>5 DEF Dropped
  <2> DEFINE r == [req[o] EXCEPT !.inbox = n]
  <2>1. r \in ReqType
    BY <1>0, <2>0 DEF ReqType
  <2>2. req' = [req EXCEPT ![o] = r]
    BY <2>0
  <2> HIDE DEF r
  <2>3. /\ req' \in [Objs -> ReqType] /\ req'[o] = r
        /\ \A p \in Objs \ {o} : req'[p] = req[p]
    BY <1>0, <2>1, <2>2
  <2> USE DEF r
  <2> QED
    BY <1>0, <2>3 DEF ReqType
<1> QED
  BY <1>1, <1>2, <1>3, <1>4, <1>5

-----------------------------------------------------------------------------
(* The counts stay counts, and nothing is outstanding that was not asked.  *)
LEMMA ReqTypedStep ==
  ASSUME ReqTyped, ProcTyped, [Next]_vars
  PROVE  ReqTyped'
<1>1. ASSUME NEW o \in Objs, Asked(o) \/ Answered(o) \/ Taken(o) \/ Shown(o) \/ Dropped(o)
      PROVE  ReqTyped'
  <2>1. /\ req' \in [Objs -> ReqType]
        /\ \A p \in Objs \ {o} : req'[p] = req[p]
    BY <1>1, ReqEffect
  <2>2. req'[o].waiting + req'[o].inbox + req'[o].got <= req'[o].asked
    <3>1. /\ req[o].asked \in Nat /\ req[o].waiting \in Nat
          /\ req[o].inbox \in Nat /\ req[o].got \in Nat
          /\ req[o].waiting + req[o].inbox + req[o].got <= req[o].asked
      BY DEF ReqTyped, ReqType, Outstanding
    <3>2. CASE Asked(o)
      BY <3>1, <3>2, ReqEffect
    <3>3. CASE Answered(o)
      BY <3>1, <3>3, ReqEffect
    <3>4. CASE Taken(o)
      BY <3>1, <3>4, ReqEffect
    <3>5. CASE Shown(o)
      BY <3>1, <3>5, ReqEffect
    <3>6. CASE Dropped(o)
      BY <3>1, <3>6, ReqEffect
    <3> QED
      BY <1>1, <3>2, <3>3, <3>4, <3>5, <3>6
  <2> QED
    BY <2>1, <2>2 DEF ReqTyped, Outstanding
<1>2. CASE UNCHANGED req
  BY <1>2 DEF ReqTyped, Outstanding
<1> client \in Objs
  BY DEF ProcTyped
<1> QED
  BY <1>1, <1>2, ReqFrame

(* The objects.                                                            *)
LEMMA ObjTypedStep ==
  ASSUME ObjTyped, ProcTyped, [Next]_vars
  PROVE  ObjTyped'
<1> USE DEF ProcTyped, ObjTyped, ObjType
<1>1. CASE Connect
  BY <1>1 DEF Connect
<1>2. CASE SetConnected
  BY <1>2 DEF SetConnected
<1>3. CASE ConnectFails
  BY <1>3 DEF ConnectFails
<1>4. ASSUME NEW o \in Objs, ReceiveEnd(o) PROVE ObjTyped'
  BY <1>4 DEF ReceiveEnd
<1>5. CASE HandlerClose
  BY <1>5 DEF HandlerClose
<1>6. CASE HandlerCloseFd
  BY <1>6 DEF HandlerCloseFd
<1>7. CASE UNCHANGED obj
  BY <1>7
<1>8. \/ Connect \/ SetConnected \/ ConnectFails \/ HandlerClose \/ HandlerCloseFd
      \/ \E o \in Objs : ReceiveEnd(o)
      \/ UNCHANGED obj
  BY DEF Next, User, MainSteps, ReceiverSteps, ServerSteps, Shows, HandlerWrites, HandlerSteps,
     vars, dataVars, histVars, sigVars, BeginMenu, EndMenu, Ask, AskNobody, AskKills,
     Leave, SelectOther, SelectInvalid, NewClient, Return, ReceiverCheck,
     WaitReturns, ReceiveAnswers, ReceiveError, BeginShow, EndShow, BeginText, EndText,
     BeginShowEnd, EndShowEnd, Interrupt, HandlerSay, HandlerJoin, JoinThrows,
     HandlerExit, HandlerGoto, Ends, ServerSteps, Answer, ServerLeaves, ServerResets
<1> QED
  BY <1>1, <1>2, <1>3, <1>4, <1>5, <1>6, <1>7, <1>8

(* The rest.                                                               *)
LEMMA ProcTypedStep ==
  ASSUME ProcTyped, MainInv, [Next]_vars
  PROVE  ProcTyped'
<1> USE ExampleAssumption
<1> USE DEF ProcTyped, Threads, Objs, MainLabels, ReceiverLabels, At, Goto, Ends,
            HandlerGoto, sigVars, dataVars, histVars
<1>1. CASE Connect
  BY <1>1 DEF Connect
<1>2. CASE SetConnected
  BY <1>2 DEF SetConnected
<1>3. CASE ConnectFails
  BY <1>3 DEF ConnectFails
<1>4. CASE BeginMenu
  BY <1>4 DEF BeginMenu
<1>5. CASE EndMenu
  BY <1>5 DEF EndMenu
<1>6. CASE Ask
  BY <1>6 DEF Ask, AfterAsk
<1>7. CASE AskNobody
  BY <1>7 DEF AskNobody
<1>8. CASE AskKills
  BY <1>8 DEF AskKills
<1>9. CASE Leave
  BY <1>9 DEF Leave
<1>10. CASE SelectOther
  BY <1>10 DEF SelectOther
<1>11. CASE SelectInvalid
  BY <1>11 DEF SelectInvalid
<1>12. CASE NewClient
  BY <1>12 DEF NewClient, MainInv, Connected
<1>13. CASE Return
  BY <1>13 DEF Return
<1>14. ASSUME NEW o \in Objs, ReceiverCheck(o) PROVE ProcTyped'
  BY <1>14 DEF ReceiverCheck
<1>15. ASSUME NEW o \in Objs, WaitReturns(o) PROVE ProcTyped'
  BY <1>15 DEF WaitReturns
<1>16. ASSUME NEW o \in Objs, ReceiveAnswers(o) PROVE ProcTyped'
  BY <1>16 DEF ReceiveAnswers
<1>17. ASSUME NEW o \in Objs, ReceiveEnd(o) PROVE ProcTyped'
  BY <1>17 DEF ReceiveEnd
<1>18. ASSUME NEW o \in Objs, BeginShow(o) PROVE ProcTyped'
  BY <1>18 DEF BeginShow
<1>19. ASSUME NEW o \in Objs, EndShow(o) PROVE ProcTyped'
  BY <1>19 DEF EndShow
<1>20. ASSUME NEW o \in Objs, BeginShowEnd(o) PROVE ProcTyped'
  BY <1>20 DEF BeginShowEnd
<1>21. ASSUME NEW o \in Objs, EndShowEnd(o) PROVE ProcTyped'
  BY <1>21 DEF EndShowEnd
<1>22. ASSUME NEW t \in Threads, Interrupt(t) PROVE ProcTyped'
  BY <1>22 DEF Interrupt
<1>23. CASE HandlerSay
  BY <1>23 DEF HandlerSay, ReleaseStream
<1>24. CASE HandlerClose
  BY <1>24 DEF HandlerClose
<1>25. CASE HandlerJoin
  BY <1>25 DEF HandlerJoin
<1>26. CASE JoinThrows
  BY <1>26 DEF JoinThrows
<1>27. CASE HandlerCloseFd
  BY <1>27 DEF HandlerCloseFd
<1>28. CASE HandlerExit
  BY <1>28 DEF HandlerExit
<1>29. ASSUME NEW o \in Objs, Answer(o) PROVE ProcTyped'
  BY <1>29 DEF Answer
<1>30. ASSUME NEW o \in Objs, ServerLeaves(o) PROVE ProcTyped'
  BY <1>30 DEF ServerLeaves
<1>31. CASE UNCHANGED vars
  BY <1>31 DEF vars, sigVars, dataVars, histVars
<1>32. ASSUME NEW o \in Objs, ReceiveError(o) PROVE ProcTyped'
  BY <1>32 DEF ReceiveError
<1>33. ASSUME NEW o \in Objs, BeginText(o) PROVE ProcTyped'
  BY <1>33 DEF BeginText
<1>34. ASSUME NEW o \in Objs, EndText(o) PROVE ProcTyped'
  BY <1>34 DEF EndText
<1>35. ASSUME NEW o \in Objs, ServerResets(o) PROVE ProcTyped'
  BY <1>35 DEF ServerResets
<1> QED
  BY <1>1, <1>2, <1>3, <1>4, <1>5, <1>6, <1>7, <1>8, <1>9, <1>10, <1>11, <1>12, <1>13,
     <1>14, <1>15, <1>16, <1>17, <1>18, <1>19, <1>20, <1>21, <1>22, <1>23, <1>24,
     <1>25, <1>26, <1>27, <1>28, <1>29, <1>30, <1>31, <1>32, <1>33, <1>34, <1>35
     DEF Next, User, MainSteps, ReceiverSteps, ServerSteps, Shows, HandlerWrites, HandlerSteps

(* Every step keeps MainInv.                                               *)
LEMMA MainStep ==
  ASSUME ProcTyped, ReqTyped, MainInv, GotInv, [Next]_vars
  PROVE  MainInv'
<1> USE ExampleAssumption
<1> USE DEF ProcTyped, Threads, At, Goto, Ends, HandlerGoto, sigVars, dataVars,
            histVars, MainInv, NoRequests
<1>1. CASE SetConnected \/ ConnectFails \/ BeginMenu \/ EndMenu
  BY <1>1 DEF SetConnected, ConnectFails, BeginMenu, EndMenu
<1>2. CASE AskNobody \/ AskKills \/ Leave \/ SelectOther \/ SelectInvalid \/
           Return
  BY <1>2 DEF AskNobody, AskKills, Leave, SelectOther, SelectInvalid, Return
<1>3. ASSUME NEW o \in Objs,
             ReceiverCheck(o) \/ WaitReturns(o) \/ ReceiveEnd(o) \/ ReceiveError(o)
      PROVE  MainInv'
  BY <1>3 DEF ReceiverCheck, WaitReturns, ReceiveEnd, ReceiveError
<1>4. ASSUME NEW o \in Objs,
             BeginShow(o) \/ EndShow(o) \/ BeginText(o) \/ BeginShowEnd(o) \/ EndShowEnd(o)
      PROVE  MainInv'
  BY <1>4 DEF BeginShow, EndShow, BeginText, BeginShowEnd, EndShowEnd
<1>5. CASE HandlerSay \/ HandlerClose \/ HandlerJoin
  BY <1>5 DEF HandlerSay, HandlerClose, HandlerJoin, ReleaseStream
<1>6. CASE JoinThrows \/ HandlerCloseFd \/ HandlerExit
  BY <1>6 DEF JoinThrows, HandlerCloseFd, HandlerExit
<1>7. CASE Connect
  <2>1. /\ pc[Main] = "connect" /\ pc' = [pc EXCEPT ![Main] = "setConnected", ![client] = "check"]
        /\ UNCHANGED <<client, req, out>>
    BY <1>7 DEF Connect
  <2>2. client \in Objs /\ Main \notin Objs /\ pc[client] = "none"
    BY <2>1 DEF MainInv, Objs
  <2>3. /\ pc'[Main] = "setConnected" /\ pc'[client] = "check"
        /\ \A t \in Threads \ {Main, client} : pc'[t] = pc[t]
    BY <2>1, <2>2
  <2>4. \A o \in Objs : o > client => o # client /\ o # Main
    BY <2>2 DEF Objs
  <2> QED
    BY <2>1, <2>2, <2>3, <2>4
<1>8. CASE Ask
  <2>1. Asked(client) /\ client \in Objs
    BY <1>8, ReqMoves
  <2>2. /\ \A p \in Objs \ {client} : req'[p] = req[p]
        /\ req'[client].waiting = req[client].waiting + 1
        /\ req'[client].inbox = req[client].inbox
        /\ req'[client].got = req[client].got
    BY <2>1, ReqEffect
  <2>3. /\ req[client].waiting \in Nat /\ req[client].inbox \in Nat /\ req[client].got \in Nat
    BY <2>1 DEF ReqTyped, ReqType
  <2>4. /\ pc[Main] = "select" /\ pc' = [pc EXCEPT ![Main] = "menu"]
        /\ client' = client /\ UNCHANGED leftEarly
    BY <1>8 DEF Ask, AfterAsk
  <2>5. /\ pc'[Main] = "menu" /\ \A o \in Objs : pc'[o] = pc[o]
        /\ \A o \in Objs : (o > client => o # client) /\ (o < client => o # client)
    BY <2>1, <2>4 DEF Objs
  <2> QED
    BY <2>1, <2>2, <2>3, <2>4, <2>5
<1>9. CASE NewClient
  BY <1>9 DEF NewClient, Connected, Objs
<1>10. ASSUME NEW o \in Objs, ReceiveAnswers(o) PROVE MainInv'
  <2>1. Taken(o) /\ o \in Objs
    BY <1>10, ReqMoves
  <2>2. /\ \A p \in Objs \ {o} : req'[p] = req[p]
        /\ req'[o].waiting = req[o].waiting
        /\ req'[o].inbox = 0
        /\ req'[o].got = req[o].inbox
    BY <2>1, ReqEffect
  <2>3. /\ req[o].waiting \in Nat /\ req[o].inbox \in Nat /\ req[o].got \in Nat
    BY <2>1 DEF ReqTyped, ReqType
  <2>4. /\ pc[o] = "wait" /\ pc' = [pc EXCEPT ![o] = "show"] /\ req[o].inbox > 0
        /\ client' = client /\ UNCHANGED leftEarly
    BY <1>10 DEF ReceiveAnswers
  <2> QED
    BY <2>1, <2>2, <2>3, <2>4
<1>11. ASSUME NEW o \in Objs, EndText(o) PROVE MainInv'
  <2>1. Shown(o) /\ o \in Objs
    BY <1>11, ReqMoves
  <2>2. /\ \A p \in Objs \ {o} : req'[p] = req[p]
        /\ req'[o].waiting = req[o].waiting
        /\ req'[o].inbox = req[o].inbox
        /\ req'[o].got = 0
    BY <2>1, ReqEffect
  <2>3. /\ req[o].waiting \in Nat /\ req[o].inbox \in Nat /\ req[o].got \in Nat
    BY <2>1 DEF ReqTyped, ReqType
  <2>4. /\ pc[o] = "showingText" /\ pc' = [pc EXCEPT ![o] = "check"]
        /\ client' = client /\ UNCHANGED leftEarly
    BY <1>11 DEF EndText
  <2> QED
    BY <2>1, <2>2, <2>3, <2>4
<1>12. ASSUME NEW t \in Threads, Interrupt(t) PROVE MainInv'
  BY <1>12 DEF Interrupt
<1>13. ASSUME NEW o \in Objs, Answer(o) PROVE MainInv'
  <2>1. Answered(o) /\ o \in Objs
    BY <1>13, ReqMoves
  <2>2. /\ \A p \in Objs \ {o} : req'[p] = req[p]
        /\ req'[o].waiting = req[o].waiting - 1
        /\ req'[o].inbox = req[o].inbox + 1
        /\ req'[o].got = req[o].got
    BY <2>1, ReqEffect
  <2>3. /\ req[o].waiting \in Nat /\ req[o].inbox \in Nat /\ req[o].got \in Nat
    BY <2>1 DEF ReqTyped, ReqType
  <2>4. /\ UNCHANGED pc /\ req[o].waiting > 0
        /\ client' = client /\ UNCHANGED leftEarly
    BY <1>13 DEF Answer
  <2> QED
    BY <2>1, <2>2, <2>3, <2>4
<1>14. ASSUME NEW o \in Objs, ServerLeaves(o) PROVE MainInv'
  BY <1>14 DEF ServerLeaves
<1>15. CASE UNCHANGED vars
  BY <1>15 DEF vars, sigVars, dataVars, histVars
<1>16. ASSUME NEW o \in Objs, ServerResets(o) PROVE MainInv'
  <2>1. Dropped(o) /\ o \in Objs
    BY <1>16, ReqMoves
  <2>2. /\ \A p \in Objs \ {o} : req'[p] = req[p]
        /\ req'[o].waiting = req[o].waiting
        /\ req'[o].inbox \in {0, req[o].inbox}
        /\ req'[o].got = req[o].got
    BY <2>1, ReqEffect
  <2>3. /\ req[o].waiting \in Nat /\ req[o].inbox \in Nat /\ req[o].got \in Nat
    BY <2>1 DEF ReqTyped, ReqType
  <2>4. UNCHANGED pc /\ client' = client /\ UNCHANGED leftEarly
    BY <1>16 DEF ServerResets
  <2> QED
    BY <2>1, <2>2, <2>3, <2>4
<1> QED
  BY <1>1, <1>2, <1>3, <1>4, <1>5, <1>6, <1>7, <1>8, <1>9, <1>10, <1>11, <1>12, <1>13,
     <1>14, <1>15, <1>16 DEF Next, User, MainSteps, ReceiverSteps, ServerSteps, Shows,
     HandlerWrites,
     HandlerSteps

(* Every step keeps GotInv.                                                *)
LEMMA GotStep ==
  ASSUME ProcTyped, ReqTyped, MainInv, GotInv, [Next]_vars
  PROVE  GotInv'
<1> USE ExampleAssumption
<1> USE DEF ProcTyped, Threads, At, Goto, Ends, HandlerGoto, sigVars, dataVars,
            histVars, GotInv
<1>1. CASE SetConnected \/ ConnectFails \/ BeginMenu \/ EndMenu
  BY <1>1 DEF SetConnected, ConnectFails, BeginMenu, EndMenu
<1>2. CASE AskNobody \/ AskKills \/ Leave \/ SelectOther \/ SelectInvalid \/
           NewClient \/ Return
  BY <1>2 DEF AskNobody, AskKills, Leave, SelectOther, SelectInvalid, NewClient,
     Return
<1>3. ASSUME NEW o \in Objs,
             ReceiverCheck(o) \/ WaitReturns(o) \/ ReceiveEnd(o) \/ ReceiveError(o)
      PROVE  GotInv'
  BY <1>3 DEF ReceiverCheck, WaitReturns, ReceiveEnd, ReceiveError
<1>4. ASSUME NEW o \in Objs,
             BeginShow(o) \/ EndShow(o) \/ BeginText(o) \/ BeginShowEnd(o) \/ EndShowEnd(o)
      PROVE  GotInv'
  BY <1>4 DEF BeginShow, EndShow, BeginText, BeginShowEnd, EndShowEnd
<1>5. CASE HandlerSay \/ HandlerClose \/ HandlerJoin
  BY <1>5 DEF HandlerSay, HandlerClose, HandlerJoin, ReleaseStream
<1>6. CASE JoinThrows \/ HandlerCloseFd \/ HandlerExit
  BY <1>6 DEF JoinThrows, HandlerCloseFd, HandlerExit
<1>7. CASE Connect
  BY <1>7 DEF Connect, MainInv, NoRequests, Objs
<1>8. CASE Ask
  <2>1. Asked(client) /\ client \in Objs
    BY <1>8, ReqMoves
  <2>2. /\ \A p \in Objs \ {client} : req'[p] = req[p]
        /\ req'[client].waiting = req[client].waiting + 1
        /\ req'[client].inbox = req[client].inbox
        /\ req'[client].got = req[client].got
    BY <2>1, ReqEffect
  <2>3. /\ req[client].waiting \in Nat /\ req[client].inbox \in Nat /\ req[client].got \in Nat
    BY <2>1 DEF ReqTyped, ReqType
  <2>4. /\ pc[Main] = "select" /\ pc' = [pc EXCEPT ![Main] = "menu"]
        /\ client' = client /\ UNCHANGED leftEarly
    BY <1>8 DEF Ask, AfterAsk
  <2>5. /\ pc'[Main] = "menu" /\ \A o \in Objs : pc'[o] = pc[o]
        /\ \A o \in Objs : (o > client => o # client) /\ (o < client => o # client)
    BY <2>1, <2>4 DEF Objs
  <2> QED
    BY <2>1, <2>2, <2>3, <2>4, <2>5
<1>9. ASSUME NEW o \in Objs, ReceiveAnswers(o) PROVE GotInv'
  <2>1. Taken(o) /\ o \in Objs
    BY <1>9, ReqMoves
  <2>2. /\ \A p \in Objs \ {o} : req'[p] = req[p]
        /\ req'[o].waiting = req[o].waiting
        /\ req'[o].inbox = 0
        /\ req'[o].got = req[o].inbox
    BY <2>1, ReqEffect
  <2>3. /\ req[o].waiting \in Nat /\ req[o].inbox \in Nat /\ req[o].got \in Nat
    BY <2>1 DEF ReqTyped, ReqType
  <2>4. /\ pc[o] = "wait" /\ pc' = [pc EXCEPT ![o] = "show"] /\ req[o].inbox > 0
        /\ client' = client /\ UNCHANGED leftEarly
    BY <1>9 DEF ReceiveAnswers
  <2> QED
    BY <2>1, <2>2, <2>3, <2>4
<1>10. ASSUME NEW o \in Objs, EndText(o) PROVE GotInv'
  <2>1. Shown(o) /\ o \in Objs
    BY <1>10, ReqMoves
  <2>2. /\ \A p \in Objs \ {o} : req'[p] = req[p]
        /\ req'[o].waiting = req[o].waiting
        /\ req'[o].inbox = req[o].inbox
        /\ req'[o].got = 0
    BY <2>1, ReqEffect
  <2>3. /\ req[o].waiting \in Nat /\ req[o].inbox \in Nat /\ req[o].got \in Nat
    BY <2>1 DEF ReqTyped, ReqType
  <2>4. /\ pc[o] = "showingText" /\ pc' = [pc EXCEPT ![o] = "check"]
        /\ client' = client /\ UNCHANGED leftEarly
    BY <1>10 DEF EndText
  <2> QED
    BY <2>1, <2>2, <2>3, <2>4
<1>11. ASSUME NEW t \in Threads, Interrupt(t) PROVE GotInv'
  BY <1>11 DEF Interrupt
<1>12. ASSUME NEW o \in Objs, Answer(o) PROVE GotInv'
  <2>1. Answered(o) /\ o \in Objs
    BY <1>12, ReqMoves
  <2>2. /\ \A p \in Objs \ {o} : req'[p] = req[p]
        /\ req'[o].waiting = req[o].waiting - 1
        /\ req'[o].inbox = req[o].inbox + 1
        /\ req'[o].got = req[o].got
    BY <2>1, ReqEffect
  <2>3. /\ req[o].waiting \in Nat /\ req[o].inbox \in Nat /\ req[o].got \in Nat
    BY <2>1 DEF ReqTyped, ReqType
  <2>4. /\ UNCHANGED pc /\ req[o].waiting > 0
        /\ client' = client /\ UNCHANGED leftEarly
    BY <1>12 DEF Answer
  <2> QED
    BY <2>1, <2>2, <2>3, <2>4
<1>13. ASSUME NEW o \in Objs, ServerLeaves(o) PROVE GotInv'
  BY <1>13 DEF ServerLeaves
<1>14. CASE UNCHANGED vars
  BY <1>14 DEF vars, sigVars, dataVars, histVars
<1>15. ASSUME NEW o \in Objs, ServerResets(o) PROVE GotInv'
  <2>1. Dropped(o) /\ o \in Objs
    BY <1>15, ReqMoves
  <2>2. /\ \A p \in Objs \ {o} : req'[p] = req[p]
        /\ req'[o].waiting = req[o].waiting
        /\ req'[o].inbox \in {0, req[o].inbox}
        /\ req'[o].got = req[o].got
    BY <2>1, ReqEffect
  <2>3. /\ req[o].waiting \in Nat /\ req[o].inbox \in Nat /\ req[o].got \in Nat
    BY <2>1 DEF ReqTyped, ReqType
  <2>4. UNCHANGED pc /\ client' = client /\ UNCHANGED leftEarly
    BY <1>15 DEF ServerResets
  <2> QED
    BY <2>1, <2>2, <2>3, <2>4
<1> QED
  BY <1>1, <1>2, <1>3, <1>4, <1>5, <1>6, <1>7, <1>8, <1>9, <1>10, <1>11, <1>12, <1>13,
     <1>14, <1>15 DEF Next, User, MainSteps, ReceiverSteps, ServerSteps, Shows, HandlerWrites,
     HandlerSteps

(* Every step keeps AnswerInv.                                             *)
LEMMA AnswerStep ==
  ASSUME ProcTyped, ReqTyped, MainInv, AnswerInv, [Next]_vars
  PROVE  AnswerInv'
<1> USE ExampleAssumption
<1> USE DEF ProcTyped, Threads, At, Goto, Ends, HandlerGoto, sigVars, dataVars,
            histVars, AnswerInv, Outstanding
<1>1. CASE SetConnected \/ ConnectFails \/ BeginMenu \/ EndMenu
  BY <1>1 DEF SetConnected, ConnectFails, BeginMenu, EndMenu
<1>2. CASE AskNobody \/ AskKills \/ SelectOther \/ SelectInvalid \/ Return
  BY <1>2 DEF AskNobody, AskKills, SelectOther, SelectInvalid, Return
<1>3. ASSUME NEW o \in Objs,
             ReceiverCheck(o) \/ WaitReturns(o) \/ ReceiveEnd(o) \/ ReceiveError(o)
      PROVE  AnswerInv'
  BY <1>3 DEF ReceiverCheck, WaitReturns, ReceiveEnd, ReceiveError
<1>4. ASSUME NEW o \in Objs,
             EndShow(o) \/ BeginText(o) \/ BeginShowEnd(o) \/ EndShowEnd(o)
      PROVE  AnswerInv'
  BY <1>4 DEF EndShow, BeginText, BeginShowEnd, EndShowEnd
<1>5. CASE HandlerSay \/ HandlerClose \/ HandlerJoin
  BY <1>5 DEF HandlerSay, HandlerClose, HandlerJoin, ReleaseStream
<1>6. CASE JoinThrows \/ HandlerCloseFd \/ HandlerExit
  BY <1>6 DEF JoinThrows, HandlerCloseFd, HandlerExit
<1>7. CASE Connect
  BY <1>7 DEF Connect, Objs
<1>8. CASE Ask
  <2>1. Asked(client) /\ client \in Objs
    BY <1>8, ReqMoves
  <2>2. /\ \A p \in Objs \ {client} : req'[p] = req[p]
        /\ req'[client].waiting = req[client].waiting + 1
        /\ req'[client].inbox = req[client].inbox
        /\ req'[client].got = req[client].got
    BY <2>1, ReqEffect
  <2>3. /\ req[client].waiting \in Nat /\ req[client].inbox \in Nat /\ req[client].got \in Nat
    BY <2>1 DEF ReqTyped, ReqType
  <2>4. /\ pc[Main] = "select" /\ pc' = [pc EXCEPT ![Main] = "menu"]
        /\ client' = client /\ UNCHANGED leftEarly
    BY <1>8 DEF Ask, AfterAsk
  <2>5. /\ pc'[Main] = "menu" /\ \A o \in Objs : pc'[o] = pc[o]
        /\ \A o \in Objs : (o > client => o # client) /\ (o < client => o # client)
    BY <2>1, <2>4 DEF Objs
  <2> QED
    BY <2>1, <2>2, <2>3, <2>4, <2>5
<1>9. CASE Leave
  BY <1>9 DEF Leave
<1>10. CASE NewClient
  BY <1>10 DEF NewClient, Connected, Objs, MainInv, NoRequests
<1>11. ASSUME NEW o \in Objs, ReceiveAnswers(o) PROVE AnswerInv'
  <2>1. Taken(o) /\ o \in Objs
    BY <1>11, ReqMoves
  <2>2. /\ \A p \in Objs \ {o} : req'[p] = req[p]
        /\ req'[o].waiting = req[o].waiting
        /\ req'[o].inbox = 0
        /\ req'[o].got = req[o].inbox
    BY <2>1, ReqEffect
  <2>3. /\ req[o].waiting \in Nat /\ req[o].inbox \in Nat /\ req[o].got \in Nat
    BY <2>1 DEF ReqTyped, ReqType
  <2>4. /\ pc[o] = "wait" /\ pc' = [pc EXCEPT ![o] = "show"] /\ req[o].inbox > 0
        /\ client' = client /\ UNCHANGED leftEarly
    BY <1>11 DEF ReceiveAnswers
  <2> QED
    BY <2>1, <2>2, <2>3, <2>4
<1>12. ASSUME NEW o \in Objs, BeginShow(o) PROVE AnswerInv'
  BY <1>12 DEF BeginShow
<1>13. ASSUME NEW o \in Objs, EndText(o) PROVE AnswerInv'
  <2>1. Shown(o) /\ o \in Objs
    BY <1>13, ReqMoves
  <2>2. /\ \A p \in Objs \ {o} : req'[p] = req[p]
        /\ req'[o].waiting = req[o].waiting
        /\ req'[o].inbox = req[o].inbox
        /\ req'[o].got = 0
    BY <2>1, ReqEffect
  <2>3. /\ req[o].waiting \in Nat /\ req[o].inbox \in Nat /\ req[o].got \in Nat
    BY <2>1 DEF ReqTyped, ReqType
  <2>4. /\ pc[o] = "showingText" /\ pc' = [pc EXCEPT ![o] = "check"]
        /\ client' = client /\ UNCHANGED leftEarly
    BY <1>13 DEF EndText
  <2> QED
    BY <2>1, <2>2, <2>3, <2>4
<1>14. ASSUME NEW t \in Threads, Interrupt(t) PROVE AnswerInv'
  BY <1>14 DEF Interrupt
<1>15. ASSUME NEW o \in Objs, Answer(o) PROVE AnswerInv'
  <2>1. Answered(o) /\ o \in Objs
    BY <1>15, ReqMoves
  <2>2. /\ \A p \in Objs \ {o} : req'[p] = req[p]
        /\ req'[o].waiting = req[o].waiting - 1
        /\ req'[o].inbox = req[o].inbox + 1
        /\ req'[o].got = req[o].got
    BY <2>1, ReqEffect
  <2>3. /\ req[o].waiting \in Nat /\ req[o].inbox \in Nat /\ req[o].got \in Nat
    BY <2>1 DEF ReqTyped, ReqType
  <2>4. /\ UNCHANGED pc /\ req[o].waiting > 0
        /\ client' = client /\ UNCHANGED leftEarly
    BY <1>15 DEF Answer
  <2> QED
    BY <2>1, <2>2, <2>3, <2>4
<1>16. ASSUME NEW o \in Objs, ServerLeaves(o) PROVE AnswerInv'
  BY <1>16 DEF ServerLeaves
<1>17. CASE UNCHANGED vars
  BY <1>17 DEF vars, sigVars, dataVars, histVars
<1>18. ASSUME NEW o \in Objs, ServerResets(o) PROVE AnswerInv'
  <2>1. Dropped(o) /\ o \in Objs
    BY <1>18, ReqMoves
  <2>2. /\ \A p \in Objs \ {o} : req'[p] = req[p]
        /\ req'[o].waiting = req[o].waiting
        /\ req'[o].inbox \in {0, req[o].inbox}
        /\ req'[o].got = req[o].got
    BY <2>1, ReqEffect
  <2>3. /\ req[o].waiting \in Nat /\ req[o].inbox \in Nat /\ req[o].got \in Nat
    BY <2>1 DEF ReqTyped, ReqType
  <2>4. UNCHANGED pc /\ client' = client /\ UNCHANGED leftEarly
    BY <1>18 DEF ServerResets
  <2> QED
    BY <2>1, <2>2, <2>3, <2>4
<1> QED
  BY <1>1, <1>2, <1>3, <1>4, <1>5, <1>6, <1>7, <1>8, <1>9, <1>10, <1>11, <1>12, <1>13,
     <1>14, <1>15, <1>16, <1>17, <1>18 DEF Next, User, MainSteps, ReceiverSteps, ServerSteps, Shows,
     HandlerWrites, HandlerSteps

(* Every step keeps StreamInv: who writes has the stream, sig_exit gives   *)
(* it back at once.                                                        *)
LEMMA StreamStep ==
  ASSUME ProcTyped, MainInv, StreamInv, [Next]_vars
  PROVE  StreamInv'
<1> USE ExampleAssumption
<1> USE DEF ProcTyped, Threads, At, Goto, Ends, HandlerGoto, sigVars, dataVars,
            histVars, StreamInv, InWrite, MainLabels, ReceiverLabels
<1>1. CASE SetConnected \/ ConnectFails \/ BeginMenu \/ EndMenu
  BY <1>1 DEF SetConnected, ConnectFails, BeginMenu, EndMenu
<1>2. CASE AskNobody \/ AskKills \/ Leave \/ SelectOther \/ SelectInvalid \/
           NewClient \/ Return
  BY <1>2 DEF AskNobody, AskKills, Leave, SelectOther, SelectInvalid, NewClient,
     Return
<1>3. ASSUME NEW o \in Objs,
             ReceiverCheck(o) \/ WaitReturns(o) \/ ReceiveEnd(o) \/ ReceiveError(o)
      PROVE  StreamInv'
  BY <1>3 DEF ReceiverCheck, WaitReturns, ReceiveEnd, ReceiveError
<1>4. ASSUME NEW o \in Objs,
             BeginShow(o) \/ EndShow(o) \/ BeginText(o) \/ BeginShowEnd(o) \/ EndShowEnd(o)
      PROVE  StreamInv'
  BY <1>4 DEF BeginShow, EndShow, BeginText, BeginShowEnd, EndShowEnd
<1>5. CASE HandlerSay \/ HandlerClose \/ HandlerJoin
  BY <1>5 DEF HandlerSay, HandlerClose, HandlerJoin, ReleaseStream
<1>6. CASE JoinThrows \/ HandlerCloseFd \/ HandlerExit
  BY <1>6 DEF JoinThrows, HandlerCloseFd, HandlerExit
<1>7. CASE Connect
  <2>1. /\ pc[Main] = "connect" /\ pc' = [pc EXCEPT ![Main] = "setConnected", ![client] = "check"]
        /\ UNCHANGED <<client, req, out>>
    BY <1>7 DEF Connect
  <2>2. client \in Objs /\ Main \notin Objs /\ pc[client] = "none"
    BY <2>1 DEF MainInv, Objs
  <2>3. /\ pc'[Main] = "setConnected" /\ pc'[client] = "check"
        /\ \A t \in Threads \ {Main, client} : pc'[t] = pc[t]
    BY <2>1, <2>2
  <2>4. \A o \in Objs : o > client => o # client /\ o # Main
    BY <2>2 DEF Objs
  <2> QED
    BY <2>1, <2>2, <2>3, <2>4
<1>8. CASE Ask
  BY <1>8 DEF Ask, AfterAsk
<1>9. ASSUME NEW o \in Objs, ReceiveAnswers(o) PROVE StreamInv'
  BY <1>9 DEF ReceiveAnswers
<1>10. ASSUME NEW o \in Objs, EndText(o) PROVE StreamInv'
  BY <1>10 DEF EndText
<1>11. ASSUME NEW t \in Threads, Interrupt(t) PROVE StreamInv'
  BY <1>11 DEF Interrupt
<1>12. ASSUME NEW o \in Objs, Answer(o) PROVE StreamInv'
  BY <1>12 DEF Answer
<1>13. ASSUME NEW o \in Objs, ServerLeaves(o) \/ ServerResets(o) PROVE StreamInv'
  BY <1>13 DEF ServerLeaves, ServerResets
<1>14. CASE UNCHANGED vars
  BY <1>14 DEF vars, sigVars, dataVars, histVars
<1> QED
  BY <1>1, <1>2, <1>3, <1>4, <1>5, <1>6, <1>7, <1>8, <1>9, <1>10, <1>11, <1>12, <1>13,
     <1>14 DEF Next, User, MainSteps, ReceiverSteps, ServerSteps, Shows, HandlerWrites,
     HandlerSteps

(* Every step keeps HandlerInv.                                            *)
LEMMA HandlerStep ==
  ASSUME ProcTyped, HandlerInv, [Next]_vars
  PROVE  HandlerInv'
<1> USE ExampleAssumption
<1> USE DEF ProcTyped, Threads, At, Goto, Ends, HandlerGoto, sigVars, dataVars,
            histVars, HandlerInv
<1>1. CASE SetConnected \/ ConnectFails \/ BeginMenu \/ EndMenu
  BY <1>1 DEF SetConnected, ConnectFails, BeginMenu, EndMenu
<1>2. CASE AskNobody \/ AskKills \/ Leave \/ SelectOther \/ SelectInvalid \/
           NewClient \/ Return
  BY <1>2 DEF AskNobody, AskKills, Leave, SelectOther, SelectInvalid, NewClient,
     Return
<1>3. ASSUME NEW o \in Objs,
             ReceiverCheck(o) \/ WaitReturns(o) \/ ReceiveEnd(o) \/ ReceiveError(o)
      PROVE  HandlerInv'
  BY <1>3 DEF ReceiverCheck, WaitReturns, ReceiveEnd, ReceiveError
<1>4. ASSUME NEW o \in Objs,
             BeginShow(o) \/ EndShow(o) \/ BeginText(o) \/ BeginShowEnd(o) \/ EndShowEnd(o)
      PROVE  HandlerInv'
  BY <1>4 DEF BeginShow, EndShow, BeginText, BeginShowEnd, EndShowEnd
<1>5. CASE HandlerSay \/ HandlerClose \/ HandlerJoin
  BY <1>5 DEF HandlerSay, HandlerClose, HandlerJoin, ReleaseStream
<1>6. CASE JoinThrows \/ HandlerCloseFd \/ HandlerExit
  BY <1>6 DEF JoinThrows, HandlerCloseFd, HandlerExit
<1>7. CASE Connect
  BY <1>7 DEF Connect
<1>8. CASE Ask
  BY <1>8 DEF Ask, AfterAsk
<1>9. ASSUME NEW o \in Objs, ReceiveAnswers(o) PROVE HandlerInv'
  BY <1>9 DEF ReceiveAnswers
<1>10. ASSUME NEW o \in Objs, EndText(o) PROVE HandlerInv'
  BY <1>10 DEF EndText
<1>11. ASSUME NEW t \in Threads, Interrupt(t) PROVE HandlerInv'
  BY <1>11 DEF Interrupt
<1>12. ASSUME NEW o \in Objs, Answer(o) PROVE HandlerInv'
  BY <1>12 DEF Answer
<1>13. ASSUME NEW o \in Objs, ServerLeaves(o) \/ ServerResets(o) PROVE HandlerInv'
  BY <1>13 DEF ServerLeaves, ServerResets
<1>14. CASE UNCHANGED vars
  BY <1>14 DEF vars, sigVars, dataVars, histVars
<1> QED
  BY <1>1, <1>2, <1>3, <1>4, <1>5, <1>6, <1>7, <1>8, <1>9, <1>10, <1>11, <1>12, <1>13,
     <1>14 DEF Next, User, MainSteps, ReceiverSteps, ServerSteps, Shows, HandlerWrites,
     HandlerSteps

(* An answer with the label of another client is for one that main has     *)
(* left before it came.                                                    *)
LEMMA LabelStep ==
  ASSUME ProcTyped, ReqTyped, MainInv, GotInv, AnswerInv, LabelRight, [Next]_vars
  PROVE  LabelRight'
<1> USE ExampleAssumption
<1> USE DEF ProcTyped, Threads, At, Goto, Ends, HandlerGoto, sigVars, dataVars,
            histVars, LabelRight
<1>1. CASE SetConnected \/ ConnectFails \/ BeginMenu \/ EndMenu
  BY <1>1 DEF SetConnected, ConnectFails, BeginMenu, EndMenu
<1>2. CASE AskNobody \/ AskKills \/ Leave \/ SelectOther \/ SelectInvalid \/
           NewClient \/ Return
  BY <1>2 DEF AskNobody, AskKills, Leave, SelectOther, SelectInvalid, NewClient,
     Return
<1>3. ASSUME NEW o \in Objs,
             ReceiverCheck(o) \/ WaitReturns(o) \/ ReceiveEnd(o) \/ ReceiveError(o)
      PROVE  LabelRight'
  BY <1>3 DEF ReceiverCheck, WaitReturns, ReceiveEnd, ReceiveError
<1>4. ASSUME NEW o \in Objs,
             EndShow(o) \/ BeginText(o) \/ BeginShowEnd(o) \/ EndShowEnd(o)
      PROVE  LabelRight'
  BY <1>4 DEF EndShow, BeginText, BeginShowEnd, EndShowEnd
<1>5. CASE HandlerSay \/ HandlerClose \/ HandlerJoin
  BY <1>5 DEF HandlerSay, HandlerClose, HandlerJoin, ReleaseStream
<1>6. CASE JoinThrows \/ HandlerCloseFd \/ HandlerExit
  BY <1>6 DEF JoinThrows, HandlerCloseFd, HandlerExit
<1>7. CASE Connect
  BY <1>7 DEF Connect
<1>8. CASE Ask
  BY <1>8 DEF Ask, AfterAsk
<1>9. ASSUME NEW o \in Objs, ReceiveAnswers(o) PROVE LabelRight'
  BY <1>9 DEF ReceiveAnswers
<1>10. ASSUME NEW o \in Objs, BeginShow(o) PROVE LabelRight'
  <2> SUFFICES ASSUME client # o, req[o].got > 0 PROVE o \in leftEarly
    BY <1>10 DEF BeginShow
  <2>1. pc[o] = "show" /\ req[o].got > 0
    BY <1>10 DEF BeginShow, GotInv
  <2>2. o < client
    BY <2>1 DEF MainInv, Objs
  <2>3. Outstanding(o) > 0
    BY <2>1 DEF Outstanding, ReqTyped, ReqType
  <2> QED
    BY <2>2, <2>3 DEF AnswerInv
<1>11. ASSUME NEW o \in Objs, EndText(o) PROVE LabelRight'
  BY <1>11 DEF EndText
<1>12. ASSUME NEW t \in Threads, Interrupt(t) PROVE LabelRight'
  BY <1>12 DEF Interrupt
<1>13. ASSUME NEW o \in Objs, Answer(o) PROVE LabelRight'
  BY <1>13 DEF Answer
<1>14. ASSUME NEW o \in Objs, ServerLeaves(o) \/ ServerResets(o) PROVE LabelRight'
  BY <1>14 DEF ServerLeaves, ServerResets
<1>15. CASE UNCHANGED vars
  BY <1>15 DEF vars, sigVars, dataVars, histVars
<1> QED
  BY <1>1, <1>2, <1>3, <1>4, <1>5, <1>6, <1>7, <1>8, <1>9, <1>10, <1>11, <1>12, <1>13,
     <1>14, <1>15 DEF Next, User, MainSteps, ReceiverSteps, ServerSteps, Shows, HandlerWrites,
     HandlerSteps

-----------------------------------------------------------------------------
LEMMA ExampleInit == Init => ExampleInv
<1> SUFFICES ASSUME Init PROVE ExampleInv
  OBVIOUS
<1> USE ExampleAssumption DEF Init
<1>0. 0 \in Objs /\ 0 \in Connected /\ \A o \in Objs : o # Main
  BY DEF Objs, Connected
<1>1. ProcTyped
  BY <1>0 DEF ProcTyped, Threads, MainLabels, ReceiverLabels
<1>2. ObjTyped
  BY DEF ObjTyped, ObjType
<1>3. ReqTyped
  BY DEF ReqTyped, ReqType, Outstanding
<1>4. MainInv
  BY <1>0 DEF MainInv, NoRequests, Threads
<1>5. GotInv /\ AnswerInv
  BY DEF GotInv, AnswerInv, Outstanding, Threads
<1>6. StreamInv /\ HandlerInv
  BY DEF StreamInv, HandlerInv, InWrite, Threads
<1>7. LabelRight
  BY DEF LabelRight
<1> QED
  BY <1>1, <1>2, <1>3, <1>4, <1>5, <1>6, <1>7 DEF ExampleInv

LEMMA ExampleStep == ExampleInv /\ [Next]_vars => ExampleInv'
  BY ProcTypedStep, ObjTypedStep, ReqTypedStep, MainStep, GotStep, AnswerStep, StreamStep,
     HandlerStep, LabelStep DEF ExampleInv

(* The invariant, of any clients and requests and wherever SIGINT stops.   *)
THEOREM ExampleInvariant == Spec => []ExampleInv
  BY ExampleInit, ExampleStep, PTL DEF Spec

(* The counts of requests stay counts: no answer is received that was not  *)
(* sent, and none is printed that was not received.                        *)
THEOREM ExampleTyping == Spec => []TypeOK
<1>1. ExampleInv => TypeOK
  BY DEF ExampleInv, ProcTyped, ObjTyped, ObjType, ReqTyped, ReqType, TypeOK
<1> QED
  BY <1>1, ExampleInvariant, PTL

(* client_example.cpp:28: whoever was not left before its answer came sees *)
(* it with its own ID, for any number of clients and requests.             *)
THEOREM AnswersLabelled == Spec => []LabelRight
<1>1. ExampleInv => LabelRight
  BY DEF ExampleInv
<1> QED
  BY <1>1, ExampleInvariant, PTL

(* sig_exit is stuck only where SIGINT stopped a thread in a write: a      *)
(* chain of waiting is stopped thread -> handler -> thread to join ->      *)
(* writer, and a writer that is not stopped waits for nobody.              *)
THEOREM StuckInWriteOnly == Spec => []StuckOnlyInWrite
<1>1. ASSUME ExampleInv, outcome = "running", NEW S \in SUBSET (Threads \cup {Handler}),
             S # {}, \A t \in S : WaitsFor(t) \in S, ~(host \in S /\ InWrite(host))
      PROVE  FALSE
  <2> USE ExampleAssumption
  <2>0. /\ None \notin S /\ Handler \notin Threads /\ Main \notin Objs
        /\ Handler # None /\ host # Handler /\ \A o \in Objs : o # Handler /\ o \in Threads
        /\ host \in Threads \cup {None} /\ closing \in Objs \cup {None}
        /\ out \in Threads \cup {None}
    BY <1>1 DEF ExampleInv, ProcTyped, Threads
  <2>1. ~(out \in S /\ out # host)
    <3> SUFFICES ASSUME out \in S, out # host PROVE FALSE
      OBVIOUS
    <3>1. out \in Threads /\ out # Handler
      BY <2>0
    <3>2. InWrite(out)
      BY <1>1, <3>1 DEF ExampleInv, StreamInv
    <3>3. WaitsFor(out) = None
      BY <2>0, <3>1, <3>2 DEF WaitsFor, InWrite
    <3> QED
      BY <1>1, <2>0, <3>3
  <2>2. out \notin S
    BY <1>1, <2>0, <2>1 DEF ExampleInv, StreamInv
  <2>3. ASSUME NEW t \in S, t \in Threads, t # host PROVE FALSE
    <3>1. WaitsFor(t) \in {out, None}
      BY <2>0, <2>3 DEF WaitsFor
    <3> QED
      BY <1>1, <2>0, <2>2, <2>3, <3>1
  <2>4. Handler \in S
    <3>1. PICK t \in S : TRUE
      BY <1>1
    <3>2. CASE t = host
      BY <1>1, <3>2, <2>0 DEF WaitsFor
    <3> QED
      BY <2>3, <3>1, <3>2, <2>0
  <2>5. WaitsFor(Handler) \in {out, None} \/ (WaitsFor(Handler) = closing /\ closing # host)
    BY <2>0 DEF WaitsFor
  <2>6. closing \in S /\ closing # host
    BY <1>1, <2>0, <2>2, <2>4, <2>5
  <2> QED
    BY <2>0, <2>3, <2>6
<1>2. ExampleInv => StuckOnlyInWrite
  BY <1>1 DEF StuckOnlyInWrite
<1> QED
  BY <1>2, ExampleInvariant, PTL

=============================================================================
