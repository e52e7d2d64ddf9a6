---------------------------- MODULE ExchangeSort ----------------------------
(***************************************************************************)
(* TcpServer::sortList (src/tcp_server.cpp), one step per round of its     *)
(* loops: the data of a client's linked list are exchanged in place until  *)
(* they ascend, then the list is written to the client's file.             *)
(*                                                                         *)
(* A node is its position in the list, nullptr is the position after the   *)
(* last. NumberService takes the sort as one step: it runs in the callback *)
(* under _subscribersMtx, and nothing else reads the data.                 *)
(***************************************************************************)
EXTENDS Integers, Sequences, Functions

CONSTANT Lists   \* the data of the lists that it may be called with

ASSUME ListsAssumption == Lists \subseteq Seq(Int)

VARIABLES
  pc,     \* "call", "outer", "inner", "write" or "done"
  data,   \* the data of the nodes, in the order of the list
  head,   \* local head
  sel,    \* local sel
  file,   \* what the client's file has
  given   \* history: the data at the call

vars == <<pc, data, head, sel, file, given>>

(* The callback has written the list before it calls.                      *)
Init ==
  /\ pc = "call"
  /\ data \in Lists /\ given = data /\ file = data
  /\ head = 1 /\ sel = 1

HasNext(node) == node < Len(data)
IsNode(node)  == node <= Len(data)

(* The return for lists with nothing to sort leaves the file alone.        *)
Call ==
  /\ pc = "call"
  /\ pc' = IF HasNext(head) THEN "outer" ELSE "done"
  /\ UNCHANGED <<data, head, sel, file, given>>

(* The inner loop begins at the next node; the mutated form skips it.      *)
FirstSel_AfterNext == head + 2
FirstSel == head + 1

OuterRound ==
  /\ pc = "outer" /\ HasNext(head)
  /\ sel' = FirstSel
  /\ pc' = "inner"
  /\ UNCHANGED <<data, head, file, given>>

(* std::swap of two nodes' data; the mutated form copies one way.          *)
Swapped_OneWay(i, j) == [data EXCEPT ![i] = data[j]]
Swapped(i, j) == [data EXCEPT ![i] = data[j], ![j] = data[i]]

NextSel == sel + 1

InnerRound ==
  /\ pc = "inner" /\ IsNode(sel)
  /\ data' = IF data[head] > data[sel] THEN Swapped(head, sel) ELSE data
  /\ sel' = NextSel
  /\ UNCHANGED <<pc, head, file, given>>

InnerEnd ==
  /\ pc = "inner" /\ ~IsNode(sel)
  /\ head' = head + 1
  /\ pc' = "outer"
  /\ UNCHANGED <<data, sel, file, given>>

(* The head is looked up again, and opening the file empties it.           *)
OpenFile ==
  /\ pc = "outer" /\ ~HasNext(head)
  /\ head' = 1 /\ file' = <<>>
  /\ pc' = "write"
  /\ UNCHANGED <<data, sel, given>>

(* A node and an arrow, and the last node without.                         *)
WriteNode ==
  /\ pc = "write"
  /\ file' = Append(file, data[head])
  /\ IF HasNext(head) THEN head' = head + 1 /\ UNCHANGED pc
     ELSE pc' = "done" /\ UNCHANGED head
  /\ UNCHANGED <<data, sel, given>>

Next == Call \/ OuterRound \/ InnerRound \/ InnerEnd \/ OpenFile \/ WriteNode

Spec == Init /\ [][Next]_vars

-----------------------------------------------------------------------------
TypeOK ==
  /\ pc \in {"call", "outer", "inner", "write", "done"}
  /\ data \in Seq(Int) /\ given \in Seq(Int) /\ file \in Seq(Int)
  /\ Len(data) = Len(given)
  /\ head \in Nat \ {0} /\ (IsNode(head) \/ head = 1)
  /\ sel \in 1 .. Len(data) + 1 \/ sel = 1

Ascending(s) == \A i, j \in DOMAIN s : i < j => s[i] <= s[j]

(* t has the numbers of s, each as often, in some order.                   *)
Rearranged(s, t) ==
  /\ Len(s) = Len(t)
  /\ \E p \in Injection(DOMAIN s, DOMAIN s) : \A i \in DOMAIN s : t[i] = s[p[i]]

(* sortList, "sort the Linked List of a specific client": no exchange      *)
(* loses or doubles a number of the client.                                *)
KeepsNumbers == Rearranged(given, data)

(* sortList, "write this to their appropriate file": when it returns, the  *)
(* list ascends and the file has exactly the list, also where the return   *)
(* for short lists is taken.                                               *)
ListAndFileSorted == pc = "done" => Ascending(data) /\ file = data
=============================================================================
