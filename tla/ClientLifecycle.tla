-------------------------- MODULE ClientLifecycle --------------------------
(***************************************************************************)
(* What the server promises about a client, whatever its threads do: the   *)
(* observers hear of one event at a time; messages of a client come only   *)
(* while it is served; it is reported as disconnected once, after its last *)
(* message; its resources go away only after that.                         *)
(***************************************************************************)
CONSTANTS Conn, None

VARIABLES
  stage,   \* "absent", "served", "dead", "reported" or "released"
  busy     \* the client whose event the observers are hearing, or None

lifeVars == <<stage, busy>>

Move(c, from, to) == stage[c] = from /\ stage' = [stage EXCEPT ![c] = to]

Init ==
  /\ stage = [c \in Conn |-> "absent"]
  /\ busy = None

Serve(c) == Move(c, "absent", "served") /\ UNCHANGED busy

BeginMessage(c) ==
  /\ stage[c] = "served" /\ busy = None
  /\ busy' = c /\ UNCHANGED stage

EndMessage(c) ==
  /\ stage[c] = "served" /\ busy = c
  /\ busy' = None /\ UNCHANGED stage

Die(c) == Move(c, "served", "dead") /\ busy # c /\ UNCHANGED busy

BeginReport(c) ==
  /\ stage[c] = "dead" /\ busy = None
  /\ busy' = c /\ UNCHANGED stage

EndReport(c) == Move(c, "dead", "reported") /\ busy = c /\ busy' = None

Release(c) == Move(c, "reported", "released") /\ UNCHANGED busy

Next == \E c \in Conn :
  \/ Serve(c) \/ BeginMessage(c) \/ EndMessage(c)
  \/ Die(c) \/ BeginReport(c) \/ EndReport(c) \/ Release(c)

Spec == Init /\ [][Next]_lifeVars

(* Every event ends and every client that died is reported.                *)
FairSpec ==
  /\ Spec
  /\ \A c \in Conn : /\ WF_lifeVars(EndMessage(c) \/ EndReport(c))
                     /\ SF_lifeVars(BeginReport(c))
=============================================================================
