--------------------------- MODULE ClientSession ---------------------------
(***************************************************************************)
(* What a client promises about each of its receive threads ("receive      *)
(* server packets, and notify user", tcp_client.cpp:167): it works once,   *)
(* messages are published while it serves, the end of the connection is    *)
(* published after all of them, and a thread that has ended is silent.     *)
(***************************************************************************)
EXTENDS Naturals

CONSTANT Receivers

VARIABLES
  stage,     \* of each thread: "none", "serving", "lost" or "ended"
  delivered  \* what each thread has published

sessionVars == <<stage, delivered>>

Move(r, from, to) == stage[r] = from /\ stage' = [stage EXCEPT ![r] = to]

Init ==
  /\ stage = [r \in Receivers |-> "none"]
  /\ delivered = [r \in Receivers |-> 0]

Begin(r) == Move(r, "none", "serving") /\ UNCHANGED delivered

Deliver(r) ==
  /\ stage[r] = "serving"
  /\ delivered' = [delivered EXCEPT ![r] = delivered'[r]] /\ delivered'[r] > delivered[r]
  /\ UNCHANGED stage

(* The connection is found to be at its end; its end has been published.   *)
Lose(r)   == Move(r, "serving", "lost") /\ UNCHANGED delivered
Report(r) == Move(r, "lost", "ended") /\ UNCHANGED delivered

(* The client is closed.                                                   *)
Quit(r) == Move(r, "serving", "ended") /\ UNCHANGED delivered

Next == \E r \in Receivers : Begin(r) \/ Deliver(r) \/ Lose(r) \/ Report(r) \/ Quit(r)

Spec == Init /\ [][Next]_sessionVars

(* Every end that is found is published.                                   *)
FairSpec == Spec /\ \A r \in Receivers : WF_sessionVars(Report(r))
=============================================================================
