-------------------------- MODULE MCExchangeSort --------------------------
(* Small instances of ExchangeSort for TLC. *)
EXTENDS ExchangeSort

CONSTANTS MaxLen, MaxData

(* Every list of at most MaxLen nodes with data from 0 to MaxData, equal   *)
(* ones and the empty list included.                                       *)
ShortLists == UNION {[1..n -> 0..MaxData] : n \in 0..MaxLen}
=============================================================================
