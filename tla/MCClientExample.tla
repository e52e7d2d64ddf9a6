-------------------------- MODULE MCClientExample --------------------------
(* Small instances of ClientExample for TLC. *)
EXTENDS ClientExample

FirstAsksTwice == [o \in Objs |-> IF o = 0 THEN 2 ELSE 0]
=============================================================================
