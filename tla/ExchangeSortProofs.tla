------------------------- MODULE ExchangeSortProofs -------------------------
(***************************************************************************)
(* sortList sorts every list and loses no number of it: the loop invariant *)
(* of the two loops, and that each step keeps it.                          *)
(***************************************************************************)
EXTENDS ExchangeSort, TLAPS

(* Every node before n has a number that is no greater than any after it.  *)
SettledBefore(n) ==
  \A a, b \in DOMAIN data : a < n /\ a < b => data[a] <= data[b]

(* The number of head is no greater than those the inner loop has passed.  *)
LeastUpTo(n) == \A b \in DOMAIN data : head < b /\ b < n => data[head] <= data[b]

LoopInv ==
  /\ TypeOK
  /\ KeepsNumbers
  /\ pc = "call" => head = 1 /\ file = data
  /\ pc = "outer" => IsNode(head) /\ SettledBefore(head)
  /\ pc = "inner" => /\ HasNext(head) /\ head < sel
                     /\ SettledBefore(head) /\ LeastUpTo(sel)
  /\ pc = "write" => /\ IsNode(head) /\ Ascending(data)
                     /\ Len(file) = head - 1
                     /\ \A i \in 1 .. head - 1 : file[i] = data[i]
  /\ pc = "done" => Ascending(data) /\ file = data

-----------------------------------------------------------------------------
(* A list of numbers is its own rearrangement.                             *)
LEMMA RearrangedSelf == ASSUME NEW s \in Seq(Int) PROVE Rearranged(s, s)
<1> DEFINE p == [i \in DOMAIN s |-> i]
<1>1. p \in Injection(DOMAIN s, DOMAIN s)
  BY DEF Injection, IsInjective
<1>2. \A i \in DOMAIN s : s[i] = s[p[i]]
  OBVIOUS
<1> QED
  BY <1>1, <1>2 DEF Rearranged

(* The exchange of two entries of a list.                                  *)
LEMMA SwapShape ==
  ASSUME NEW s \in Seq(Int), NEW i \in DOMAIN s, NEW j \in DOMAIN s,
         NEW t, t = [s EXCEPT ![i] = s[j], ![j] = s[i]]
  PROVE  /\ t \in Seq(Int) /\ Len(t) = Len(s) /\ DOMAIN t = DOMAIN s
         /\ t[i] = s[j] /\ t[j] = s[i]
         /\ \A k \in DOMAIN s : k # i /\ k # j => t[k] = s[k]
<1>1. DOMAIN s = 1..Len(s) /\ Len(s) \in Nat /\ s \in [1..Len(s) -> Int]
  OBVIOUS
<1>2. t \in [1..Len(s) -> Int]
  BY <1>1
<1>3. t \in Seq(Int) /\ Len(t) = Len(s)
  BY <1>1, <1>2
<1> QED
  BY <1>1, <1>3

(* An exchange of two entries rearranges what the list rearranged.         *)
LEMMA SwapRearranges ==
  ASSUME NEW s \in Seq(Int), NEW t \in Seq(Int), Rearranged(s, t),
         NEW i \in DOMAIN t, NEW j \in DOMAIN t
  PROVE  Rearranged(s, [t EXCEPT ![i] = t[j], ![j] = t[i]])
<1> DEFINE D == DOMAIN s
           u == [t EXCEPT ![i] = t[j], ![j] = t[i]]
<1>1. Len(s) = Len(t) /\ D = DOMAIN t /\ i \in D /\ j \in D
  BY DEF Rearranged
<1>2. PICK p \in Injection(D, D) : \A k \in D : t[k] = s[p[k]]
  BY DEF Rearranged
<1> DEFINE q == [p EXCEPT ![i] = p[j], ![j] = p[i]]
<1>3. p \in [D -> D] /\ \A a, b \in D : p[a] = p[b] => a = b
  BY <1>2 DEF Injection, IsInjective
<1>4. q \in [D -> D] /\ \A k \in D : q[k] = IF k = j THEN p[i] ELSE IF k = i THEN p[j] ELSE p[k]
  BY <1>1, <1>3
<1>5. \A a, b \in D : q[a] = q[b] => a = b
  BY <1>1, <1>3, <1>4
<1>6. q \in Injection(D, D)
  BY <1>4, <1>5 DEF Injection, IsInjective
<1>7. u \in Seq(Int) /\ Len(u) = Len(s) /\ u[i] = t[j] /\ u[j] = t[i]
      /\ \A k \in D : k # i /\ k # j => u[k] = t[k]
  BY <1>1, SwapShape
<1>8. \A k \in D : u[k] = s[q[k]]
  BY <1>1, <1>2, <1>4, <1>7
<1> QED
  BY <1>6, <1>7, <1>8 DEF Rearranged

-----------------------------------------------------------------------------
LEMMA InitLoop == Init => LoopInv
<1> SUFFICES ASSUME Init PROVE LoopInv
  OBVIOUS
<1>1. data \in Seq(Int) /\ given = data /\ file = data
  BY ListsAssumption DEF Init
<1>2. KeepsNumbers
  BY <1>1, RearrangedSelf DEF KeepsNumbers
<1> QED
  BY <1>1, <1>2 DEF Init, LoopInv, TypeOK

LEMMA CallStep == LoopInv /\ Call => LoopInv'
<1> SUFFICES ASSUME LoopInv, Call PROVE LoopInv'
  OBVIOUS
<1>1. TypeOK' /\ KeepsNumbers'
  BY DEF LoopInv, Call, TypeOK, KeepsNumbers, IsNode
<1>2. HasNext(head) => IsNode(head) /\ SettledBefore(head)
  BY DEF LoopInv, Call, TypeOK, HasNext, IsNode, SettledBefore
<1>3. ~HasNext(head) => Ascending(data)
  BY DEF LoopInv, Call, TypeOK, HasNext, Ascending
<1> QED
  BY <1>1, <1>2, <1>3
  DEF LoopInv, Call, TypeOK, HasNext, IsNode, SettledBefore, Ascending

LEMMA OuterStep == LoopInv /\ OuterRound => LoopInv'
<1> SUFFICES ASSUME LoopInv, OuterRound PROVE LoopInv'
  OBVIOUS
<1>1. TypeOK' /\ KeepsNumbers'
  BY DEF LoopInv, OuterRound, TypeOK, KeepsNumbers, IsNode, HasNext, FirstSel
<1>2. HasNext(head)' /\ head' < sel' /\ SettledBefore(head)' /\ LeastUpTo(sel)'
  BY DEF LoopInv, OuterRound, TypeOK, HasNext, FirstSel, SettledBefore, LeastUpTo
<1> QED
  BY <1>1, <1>2 DEF LoopInv, OuterRound

LEMMA InnerStep == LoopInv /\ InnerRound => LoopInv'
<1> SUFFICES ASSUME LoopInv, InnerRound PROVE LoopInv'
  OBVIOUS
<1>1. /\ data \in Seq(Int) /\ given \in Seq(Int) /\ file \in Seq(Int)
      /\ head \in DOMAIN data /\ sel \in DOMAIN data /\ head < sel /\ sel' = sel + 1
      /\ pc = "inner" /\ pc' = "inner"
      /\ head' = head /\ given' = given /\ file' = file
      /\ SettledBefore(head) /\ LeastUpTo(sel) /\ HasNext(head)
  BY DEF LoopInv, InnerRound, TypeOK, IsNode, HasNext, NextSel
<1>2. CASE data[head] > data[sel]
  <2>1. data' = [data EXCEPT ![head] = data[sel], ![sel] = data[head]]
    BY <1>2 DEF InnerRound, Swapped
  <2>0. DOMAIN data = 1 .. Len(data) /\ Len(data) \in Nat
    BY <1>1
  <2>2. /\ data' \in Seq(Int) /\ Len(data') = Len(data) /\ DOMAIN data' = DOMAIN data
        /\ data'[head] = data[sel] /\ data'[sel] = data[head]
        /\ \A k \in DOMAIN data : k # head /\ k # sel => data'[k] = data[k]
    BY <1>1, <2>1, SwapShape
  <2>3. KeepsNumbers'
    BY <1>1, <2>1, SwapRearranges DEF LoopInv, KeepsNumbers, TypeOK
  <2>4. TypeOK'
    <3>1. head \in 1 .. Len(data') /\ sel \in 1 .. Len(data') /\ Len(data') \in Nat
      BY <1>1, <2>0, <2>2
    <3>2. Len(data') = Len(given')
      BY <1>1, <2>2 DEF LoopInv, TypeOK
    <3> QED
      BY <1>1, <2>2, <3>1, <3>2 DEF TypeOK, IsNode
  <2>5. SettledBefore(head)'
    <3> SUFFICES ASSUME NEW a \in DOMAIN data', NEW b \in DOMAIN data', a < head, a < b
                 PROVE  data'[a] <= data'[b]
      BY <1>1 DEF SettledBefore
    <3>1. a \in DOMAIN data /\ b \in DOMAIN data /\ a # head /\ a < sel /\ a # sel
      BY <1>1, <2>0, <2>2
    <3>2. data'[a] = data[a] /\ data'[b] \in {data[head], data[sel], data[b]}
      BY <2>2, <3>1
    <3> QED
      BY <1>1, <3>1, <3>2 DEF SettledBefore
  <2>6. LeastUpTo(sel)'
    <3> SUFFICES ASSUME NEW b \in DOMAIN data', head < b, b < sel + 1
                 PROVE  data'[head] <= data'[b]
      BY <1>1 DEF LeastUpTo
    <3>1. b \in DOMAIN data /\ (b = sel \/ b < sel)
      BY <1>1, <2>2
    <3>2. b < sel => data'[b] = data[b] /\ data[head] <= data[b]
      <4> SUFFICES ASSUME b < sel PROVE data'[b] = data[b] /\ data[head] <= data[b]
        OBVIOUS
      <4>1. b # head /\ b # sel
        BY <1>1, <2>0, <3>1
      <4> QED
        BY <1>1, <2>2, <3>1, <4>1 DEF LeastUpTo
    <3>3. data[head] \in Int /\ data[sel] \in Int /\ data[b] \in Int
      BY <1>1, <3>1
    <3> QED
      BY <1>2, <2>2, <3>1, <3>2, <3>3
  <2>7. HasNext(head)' /\ head' < sel'
    BY <1>1, <2>2 DEF HasNext
  <2> QED
    BY <1>1, <2>3, <2>4, <2>5, <2>6, <2>7 DEF LoopInv
<1>3. CASE ~(data[head] > data[sel])
  <2>1. data' = data /\ data[head] \in Int /\ data[sel] \in Int
    BY <1>1, <1>3 DEF InnerRound
  <2>2. TypeOK' /\ KeepsNumbers'
    BY <1>1, <2>1 DEF LoopInv, TypeOK, KeepsNumbers, IsNode, HasNext
  <2>3. LeastUpTo(sel)'
    BY <1>1, <1>3, <2>1 DEF LeastUpTo
  <2>4. SettledBefore(head)' /\ HasNext(head)' /\ head' < sel'
    BY <1>1, <2>1 DEF SettledBefore, HasNext
  <2> QED
    BY <1>1, <2>2, <2>3, <2>4 DEF LoopInv
<1> QED
  BY <1>2, <1>3

(* When sel has left the list, head has the least of the numbers from head *)
(* on.                                                                     *)
LEMMA InnerEndStep == LoopInv /\ InnerEnd => LoopInv'
<1> SUFFICES ASSUME LoopInv, InnerEnd PROVE LoopInv'
  OBVIOUS
<1>1. TypeOK' /\ KeepsNumbers' /\ IsNode(head)'
  BY DEF LoopInv, InnerEnd, TypeOK, KeepsNumbers, IsNode, HasNext
<1>2. SettledBefore(head)'
  BY DEF LoopInv, InnerEnd, TypeOK, IsNode, HasNext, SettledBefore, LeastUpTo
<1> QED
  BY <1>1, <1>2 DEF LoopInv, InnerEnd

LEMMA OpenStep == LoopInv /\ OpenFile => LoopInv'
<1> SUFFICES ASSUME LoopInv, OpenFile PROVE LoopInv'
  OBVIOUS
<1>1. TypeOK' /\ KeepsNumbers' /\ IsNode(head)'
  BY DEF LoopInv, OpenFile, TypeOK, KeepsNumbers, IsNode, HasNext
<1>2. Ascending(data)
  BY DEF LoopInv, OpenFile, TypeOK, IsNode, HasNext, SettledBefore, Ascending
<1> QED
  BY <1>1, <1>2 DEF LoopInv, OpenFile, Ascending

LEMMA WriteStep == LoopInv /\ WriteNode => LoopInv'
<1> SUFFICES ASSUME LoopInv, WriteNode PROVE LoopInv'
  OBVIOUS
<1>1. /\ data \in Seq(Int) /\ file \in Seq(Int) /\ head \in DOMAIN data
      /\ Len(file) = head - 1 /\ Ascending(data) /\ data' = data
      /\ \A i \in 1 .. head - 1 : file[i] = data[i]
  BY DEF LoopInv, WriteNode, TypeOK, IsNode
<1>2. /\ file' \in Seq(Int) /\ Len(file') = head
      /\ \A i \in 1 .. head : file'[i] = data[i]
  BY <1>1 DEF WriteNode
<1>3. TypeOK' /\ KeepsNumbers' /\ Ascending(data)'
  BY <1>1, <1>2 DEF LoopInv, WriteNode, TypeOK, KeepsNumbers, IsNode, HasNext, Ascending
<1>4. CASE HasNext(head)
  BY <1>1, <1>2, <1>3, <1>4 DEF LoopInv, WriteNode, HasNext, IsNode
<1>5. CASE ~HasNext(head)
  <2>1. head = Len(data)
    BY <1>1, <1>5 DEF HasNext
  <2>2. file' \in [1..head -> Int] /\ data \in [1..head -> Int]
    BY <1>1, <1>2, <2>1
  <2>3. file' = data
    BY <1>2, <2>2
  <2> QED
    BY <1>1, <1>3, <1>5, <2>3 DEF LoopInv, WriteNode
<1> QED
  BY <1>4, <1>5

-----------------------------------------------------------------------------
(* The loop invariant holds for lists of any length and any numbers.       *)
THEOREM LoopInvariant == Spec => []LoopInv
<1>1. LoopInv /\ [Next]_vars => LoopInv'
  <2> SUFFICES ASSUME LoopInv, [Next]_vars PROVE LoopInv'
    OBVIOUS
  <2>1. CASE UNCHANGED vars
    BY <2>1 DEF vars, LoopInv, TypeOK, KeepsNumbers, HasNext, IsNode, SettledBefore,
                LeastUpTo, Ascending
  <2> QED
    BY <2>1, CallStep, OuterStep, InnerStep, InnerEndStep, OpenStep, WriteStep DEF Next
<1> QED
  BY <1>1, InitLoop, PTL DEF Spec

(* Whatever the list, sortList returns it in ascending order, and the file *)
(* has it.                                                                 *)
THEOREM Sorts == Spec => []ListAndFileSorted
<1>1. LoopInv => ListAndFileSorted
  BY DEF LoopInv, ListAndFileSorted
<1> QED
  BY <1>1, LoopInvariant, PTL

(* Whatever the list, the loops keep each of its numbers.                  *)
THEOREM KeepsAll == Spec => []KeepsNumbers
<1>1. LoopInv => KeepsNumbers
  BY DEF LoopInv
<1> QED
  BY <1>1, LoopInvariant, PTL

(* The variables keep their types; head and sel stay in the list.          *)
THEOREM SortTyping == Spec => []TypeOK
<1>1. LoopInv => TypeOK
  BY DEF LoopInv
<1> QED
  BY <1>1, LoopInvariant, PTL
=============================================================================
