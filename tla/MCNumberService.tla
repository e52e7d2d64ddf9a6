------------------------- MODULE MCNumberService -------------------------
(* Small instances of NumberService for TLC. *)
EXTENDS NumberService

CONSTANTS c0, c1

(* The IDs that one process gives to two clients.                          *)
Counted == [c \in Conn |-> IF c = c0 THEN 0 ELSE 1]

FirstAsksMore == [c \in Conn |-> IF c = c0 THEN 3 ELSE 2]
=============================================================================
