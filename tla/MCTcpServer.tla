--------------------------- MODULE MCTcpServer ---------------------------
(* Small instances of TcpServer for TLC. *)
EXTENDS TcpServer, TLC

CONSTANTS c1, c2, o1, o2, a1

OneIp == [c \in Conn |-> a1]
O1Wants == [o \in Observers |-> a1]
FirstSends == [c \in Conn |-> IF c = c1 THEN 2 ELSE 0]
NoneSent == [c \in Conn |-> 0]
OneSender == [c \in Conn |-> IF c = c1 THEN 1 ELSE 0]
Symmetric == Permutations(Conn)
=============================================================================
