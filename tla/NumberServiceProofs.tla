------------------------ MODULE NumberServiceProofs ------------------------
(***************************************************************************)
(* Proofs about NumberService, for any clients, IDs and numbers of each    *)
(* parity and any requests.                                                *)
(***************************************************************************)
EXTENDS NumberService, FiniteSetTheorems, WellFoundedInduction, TLAPS

(* Every set of naturals has a least one: what an induction on a length    *)
(* rests on below.                                                         *)
LEMMA LeastNatural ==
  ASSUME NEW T \in SUBSET Nat, T # {}
  PROVE  \E n \in T : \A m \in T : n <= m
<1> DEFINE R == OpToRel(<, Nat)
<1>1. PICK n \in T : \A m \in T : ~(<<m, n>> \in R)
  <2>1. IsWellFoundedOn(R, Nat)
    BY NatLessThanWellFounded
  <2> HIDE DEF R
  <2> QED
    BY <2>1, WFMin
<1>2. \A m \in T : ~(m < n)
  BY <1>1 DEF OpToRel
<1> QED
  BY <1>2

Digits == 0 .. Base - 1

(* What stoi makes of one digit.                                           *)
LEMMA OneDigit ==
  ASSUME NEW s \in Seq(Digits), Len(s) = 1
  PROVE  NumberOf(s) = s[1]
<1> DEFINE Rec(f) == f = [n \in 0..Len(s) |-> IF n = 0 THEN 0 ELSE Base * f[n - 1] + s[n]]
           g == [n \in 0..1 |-> IF n = 0 THEN 0 ELSE s[1]]
<1>1. Base \in Nat /\ s[1] \in Nat
  <2>1. s[1] \in Digits
    OBVIOUS
  <2>2. Base \in Nat
    BY ServiceAssumption
  <2> QED
    BY <2>1, <2>2 DEF Digits
<1>2. Rec(g)
  <2>1. \A n \in 0..1 : g[n] = IF n = 0 THEN 0 ELSE Base * g[n - 1] + s[n]
    <3>1. g[0] = 0 /\ g[1] = s[1] /\ Base * 0 + s[1] = s[1]
      BY <1>1
    <3> HIDE DEF g
    <3>2. \A n \in 0..1 : n = 0 \/ n = 1
      OBVIOUS
    <3> QED
      BY <3>1, <3>2
  <2>2. DOMAIN g = 0..Len(s) /\ g = [n \in 0..Len(s) |-> g[n]]
    OBVIOUS
  <2> HIDE DEF g
  <2> QED
    BY <2>1, <2>2
<1> DEFINE h == CHOOSE f : Rec(f)
<1>3. NumberOf(s) = h[Len(s)]
  BY DEF NumberOf
<1>4. Rec(h)
  <2> HIDE DEF g, Rec
  <2> QED
    BY <1>2
<1> HIDE DEF h
<1>5. h[0] = 0 /\ h[1] = Base * h[0] + s[1]
  BY <1>4
<1> QED
  BY <1>1, <1>3, <1>5

(* A message is put over the beginning of the buffer.                      *)
LEMMA ReceivedFacts ==
  ASSUME NEW c \in Conn, NEW k \in 1..MaxPending, buf[c] \in Seq(Digits)
  PROVE  /\ Received(c, k) \in Seq(Digits) /\ Received(c, k) # <<>>
         /\ Len(buf[c]) <= Len(Received(c, k)) /\ Received(c, k)[1] = IdOf[c]
<1> DEFINE u == [i \in 1..k |-> IdOf[c]]
           v == SubSeq(buf[c], k + 1, Len(buf[c]))
<1>1. k \in Nat \ {0} /\ IdOf[c] \in Digits
  BY ServiceAssumption DEF Digits
<1>2. u \in Seq(Digits) /\ Len(u) = k /\ u[1] = IdOf[c]
  BY <1>1
<1>3. v \in Seq(Digits) /\ Len(v) \in Nat /\ Len(v) >= Len(buf[c]) - k
  BY <1>1
<1>4. Received(c, k) = u \o v
  BY DEF Received, Digit
<1> HIDE DEF u, v
<1> QED
  BY <1>1, <1>2, <1>3, <1>4

-----------------------------------------------------------------------------
(***************************************************************************)
(* Sorting.                                                                *)
(***************************************************************************)
Different(s) == \A i, j \in DOMAIN s : s[i] = s[j] => i = j
Increasing(t) == \A i, j \in DOMAIN t : i < j => t[i] < t[j]
ValuesOf(s) == {s[i] : i \in DOMAIN s}

(* A list that is not empty has a largest number.                          *)
LEMMA Largest ==
  ASSUME NEW n \in Nat \ {0}, NEW s \in [1..n -> Int]
  PROVE  \E k \in 1..n : \A i \in 1..n : s[i] <= s[k]
<1> DEFINE Has(m) == \A q \in [1..m -> Int] : \E k \in 1..m : \A i \in 1..m : q[i] <= q[k]
           T == {m \in Nat \ {0} : ~Has(m)}
<1> SUFFICES ASSUME T # {} PROVE FALSE
  OBVIOUS
<1>1. PICK m \in T : \A j \in T : m <= j
  <2> HIDE DEF T
  <2>1. T \in SUBSET Nat
    BY DEF T
  <2> QED
    BY <2>1, LeastNatural
<1>2. Has(1)
  OBVIOUS
<1>3. m # 1 /\ m - 1 \in Nat \ {0} /\ Has(m - 1)
  <2>1. m # 1
    BY <1>1, <1>2
  <2>2. m - 1 \in Nat \ {0} /\ ~(m <= m - 1)
    BY <1>1, <2>1
  <2> QED
    BY <1>1, <2>1, <2>2
<1>4. ASSUME NEW q \in [1..m -> Int] PROVE \E k \in 1..m : \A i \in 1..m : q[i] <= q[k]
  <2> DEFINE p == [i \in 1..m - 1 |-> q[i]]
  <2>1. p \in [1..m - 1 -> Int]
    BY <1>3
  <2>2. PICK k \in 1..m - 1 : \A i \in 1..m - 1 : p[i] <= p[k]
    BY <1>3, <2>1
  <2>3. /\ k \in 1..m /\ m \in 1..m /\ q[k] \in Int /\ q[m] \in Int
        /\ \A i \in 1..m : i # m => i \in 1..m - 1
    BY <1>3, <2>2
  <2>4. \A i \in 1..m - 1 : q[i] <= q[k]
    BY <2>2
  <2>5. CASE q[m] <= q[k]
    BY <2>3, <2>4, <2>5
  <2>6. CASE q[k] < q[m]
    <3>1. ASSUME NEW i \in 1..m PROVE q[i] <= q[m]
      <4>1. q[i] \in Int
        OBVIOUS
      <4>2. i # m => q[i] <= q[k]
        BY <2>3, <2>4
      <4>3. CASE i = m
        BY <2>3, <4>3
      <4>4. CASE i # m
        BY <2>3, <2>6, <4>1, <4>2, <4>4
      <4> QED
        BY <4>3, <4>4
    <3> QED
      BY <2>3, <3>1
  <2> QED
    BY <2>3, <2>5, <2>6
<1> QED
  BY <1>1, <1>4

(* A list of different numbers can be put in ascending order: the largest  *)
(* goes last, the others before it in the order that they have.            *)
LEMMA OrderExists ==
  ASSUME NEW n \in Nat, NEW s \in [1..n -> Int], Different(s)
  PROVE  \E t \in [1..n -> ValuesOf(s)] : Increasing(t)
<1> DEFINE Has(m) == \A q \in [1..m -> Int] : Different(q) =>
                       \E t \in [1..m -> ValuesOf(q)] : Increasing(t)
           T == {m \in Nat : ~Has(m)}
<1> SUFFICES ASSUME T # {} PROVE FALSE
  OBVIOUS
<1>1. PICK m \in T : \A j \in T : m <= j
  <2> HIDE DEF T
  <2>1. T \in SUBSET Nat
    BY DEF T
  <2> QED
    BY <2>1, LeastNatural
<1>2. Has(0)
  <2>1. ASSUME NEW q \in [1..0 -> Int]
        PROVE  \E t \in [1..0 -> ValuesOf(q)] : Increasing(t)
    <3>1. q \in [1..0 -> ValuesOf(q)] /\ Increasing(q)
      BY DEF Increasing, ValuesOf
    <3> QED
      BY <3>1
  <2> QED
    BY <2>1
<1>3. m - 1 \in Nat /\ Has(m - 1)
  <2>1. m # 0
    BY <1>1, <1>2
  <2>2. m - 1 \in Nat /\ ~(m <= m - 1)
    BY <1>1, <2>1
  <2> QED
    BY <1>1, <2>2
<1>4. ASSUME NEW q \in [1..m -> Int], Different(q)
      PROVE  \E t \in [1..m -> ValuesOf(q)] : Increasing(t)
  <2>1. PICK k \in 1..m : \A i \in 1..m : q[i] <= q[k]
    <3>1. m \in Nat \ {0}
      BY <1>3
    <3> QED
      BY <3>1, Largest
  <2> DEFINE p == [i \in 1..m - 1 |-> IF i < k THEN q[i] ELSE q[i + 1]]
  <2>2. p \in [1..m - 1 -> Int] /\ Different(p)
    BY <1>3, <1>4, <2>1 DEF Different
  <2>3. \A v \in ValuesOf(p) : v \in ValuesOf(q) /\ v \in Int /\ v < q[k]
    <3>1. ASSUME NEW i \in 1..m - 1
          PROVE  p[i] \in ValuesOf(q) /\ p[i] \in Int /\ p[i] < q[k]
      <4>1. PICK j \in 1..m : p[i] = q[j] /\ j # k
        BY <1>3, <2>1
      <4>2. q[j] # q[k] /\ q[j] <= q[k] /\ q[j] \in Int /\ q[k] \in Int
        BY <1>4, <2>1, <4>1 DEF Different
      <4>3. q[j] \in ValuesOf(q)
        BY <4>1 DEF ValuesOf
      <4> HIDE DEF p
      <4> QED
        BY <4>1, <4>2, <4>3
    <3> QED
      BY <2>2, <3>1 DEF ValuesOf
  <2> HIDE DEF p
  <2>4. PICK t \in [1..m - 1 -> ValuesOf(p)] : Increasing(t)
    BY <1>3, <2>2
  <2> DEFINE u == [i \in 1..m |-> IF i < m THEN t[i] ELSE q[k]]
  <2>5. \A i \in 1..m : i < m =>
          i \in 1..m - 1 /\ t[i] \in ValuesOf(q) /\ t[i] \in Int /\ t[i] < q[k]
    BY <1>3, <2>3, <2>4
  <2>6. u \in [1..m -> ValuesOf(q)]
    BY <2>1, <2>5 DEF ValuesOf
  <2>7. Increasing(u)
    BY <1>3, <2>1, <2>4, <2>5 DEF Increasing
  <2> HIDE DEF u
  <2> QED
    BY <2>6, <2>7
<1> QED
  BY <1>1, <1>4

(* What Ascending gives: the same numbers in ascending order; a list that  *)
(* is in order stays as it is.                                             *)
LEMMA AscendingFacts ==
  ASSUME NEW s \in Seq(Pool), Different(s)
  PROVE  /\ Ascending(s) \in Seq(Pool) /\ DOMAIN Ascending(s) = DOMAIN s
         /\ ValuesOf(Ascending(s)) = ValuesOf(s) /\ Different(Ascending(s))
         /\ Ascending(Ascending(s)) = Ascending(s)
<1> DEFINE n == Len(s)
           V == ValuesOf(s)
           t == Ascending(s)
<1>1. /\ n \in Nat /\ DOMAIN s = 1..n /\ s \in [1..n -> Pool] /\ s \in [1..n -> Int]
      /\ Pool \subseteq Int /\ V \subseteq Pool
  BY ServiceAssumption DEF Pool, ValuesOf
<1>2. \E q \in [DOMAIN s -> {s[i] : i \in DOMAIN s}] :
        \A i, j \in DOMAIN s : i < j => q[i] < q[j]
  BY <1>1, OrderExists DEF Increasing, ValuesOf
<1>3. t \in [1..n -> V] /\ \A i, j \in 1..n : i < j => t[i] < t[j]
  BY <1>1, <1>2 DEF Ascending, ValuesOf
<1>4. t \in Injection(1..n, V)
  <2>1. ASSUME NEW i \in 1..n, NEW j \in 1..n, t[i] = t[j] PROVE i = j
    <3>1. t[i] \in V /\ i \in Int /\ j \in Int
      <4> HIDE DEF t, V
      <4> QED
        BY <1>1, <1>3
    <3>2. t[i] \in Int
      <4> HIDE DEF t, V
      <4> QED
        BY <1>1, <3>1
    <3> QED
      BY <1>3, <2>1, <3>1, <3>2
  <2> QED
    BY <1>3, <2>1 DEF Injection, IsInjective
<1>5. IsFiniteSet(V) /\ Cardinality(1..n) = Cardinality(V)
  <2>1. s \in Surjection(1..n, V) /\ s \in Injection(1..n, V)
    BY <1>1 DEF Surjection, Injection, IsInjective, ValuesOf, Different
  <2>2. IsFiniteSet(1..n)
    BY <1>1, FS_Interval
  <2> HIDE DEF n, V
  <2> QED
    BY <2>1, <2>2, FS_Surjection
<1>6. t \in Surjection(1..n, V)
  <2> HIDE DEF n, V, t
  <2> QED
    BY <1>4, <1>5, FS_Injection
<1>7. ValuesOf(t) = V
  BY <1>3, <1>6 DEF ValuesOf, Surjection
<1>8. t \in Seq(Pool) /\ DOMAIN t = DOMAIN s /\ Different(t)
  BY <1>1, <1>3, <1>4 DEF Different, Injection, IsInjective
<1>9. Ascending(t) = t
  <2>1. DOMAIN t = DOMAIN s /\ {t[i] : i \in DOMAIN t} = {s[i] : i \in DOMAIN s}
    BY <1>7, <1>8 DEF ValuesOf
  <2> HIDE DEF t
  <2>2. Ascending(t) = Ascending(s)
    BY <2>1 DEF Ascending
  <2> QED
    BY <2>2 DEF t
<1> QED
  BY <1>7, <1>8, <1>9

(* An empty list and a list of one number are in order.                    *)
LEMMA AscendingShort ==
  ASSUME NEW s \in Seq(Pool), Len(s) <= 1
  PROVE  Ascending(s) = s
<1>1. Different(s)
  BY DEF Different
<1>2. /\ DOMAIN Ascending(s) = DOMAIN s /\ ValuesOf(Ascending(s)) = ValuesOf(s)
      /\ Ascending(s) \in Seq(Pool)
  BY <1>1, AscendingFacts
<1>3. \A i \in DOMAIN s : Ascending(s)[i] = s[i]
  <2> SUFFICES ASSUME NEW i \in DOMAIN s PROVE Ascending(s)[i] = s[i]
    OBVIOUS
  <2>1. Ascending(s)[i] \in ValuesOf(s)
    BY <1>2 DEF ValuesOf
  <2>2. \A j \in DOMAIN s : j = i
    OBVIOUS
  <2> QED
    BY <2>1, <2>2 DEF ValuesOf
<1> QED
  BY <1>2, <1>3

-----------------------------------------------------------------------------
(***************************************************************************)
(* The invariant. A callback works for a client that is not yet known to   *)
(* be dead, with the number that it read from this client's buffer.        *)
(***************************************************************************)
Working == cb # None /\ step # "report"
Found == step \notin {"none", "report", "lookup"}
FoundAgain == step \in {"draw", "sorting", "rewriting", "sending"}
Drawn == step \in {"write", "sort", "sorting", "rewrite", "rewriting", "send", "sending"}

ListTyped ==
  /\ clients \in Seq(Conn) /\ newClient \in Conn \cup {None}
  /\ life \in [Conn -> {"new", "up", "reset", "gone", "dead", "reported", "freed"}]

PeerTyped ==
  /\ requests \in [Conn -> Nat]
  /\ pending \in [Conn -> 0..MaxPending] /\ buf \in [Conn -> Seq(Digits)]

CallbackTyped ==
  /\ cb \in Conn \cup {None}
  /\ step \in {"none", "report"} \cup Looks \cup Uses
  /\ id \in Nat /\ value \in Pool
  /\ outcome \in {"running", "aborted", "killed", "undefined"}
  /\ target \in Conn \cup {None} /\ local \in Conn \cup {None}

CallbackInv ==
  /\ step = "none" <=> cb = None
  /\ step = "report" => life[cb] = "dead"
  /\ Working => /\ life[cb] \in {"up", "reset", "gone"}
                /\ buf[cb] # <<>> /\ id = NumberOf(buf[cb])
                /\ life[cb] # "gone" => buf[cb][1] = IdOf[cb]
  /\ Found => target \in Conn
  /\ FoundAgain => local \in Conn /\ life[local] # "new"

ListedInv ==
  /\ \A i \in DOMAIN clients : life[clients[i]] # "new"
  /\ newClient # None => life[newClient] # "new"

ControlInv == ListTyped /\ PeerTyped /\ CallbackTyped /\ CallbackInv /\ ListedInv

(* The numbers: the lists, and what was answered.                          *)
NumbersTyped ==
  /\ numbers \subseteq Pool /\ list \in [Conn -> Seq(Pool)]
  /\ answers \subseteq [from : Conn, to : Conn, value : Pool]

ListsInv ==
  /\ \A c \in Conn : Different(list[c])
  /\ \A c, d \in Conn : ValuesOf(list[c]) \cap ValuesOf(list[d]) # {} => c = d
  /\ numbers = UNION {ValuesOf(list[c]) : c \in Conn}
  /\ \A c \in Conn : life[c] = "new" => list[c] = <<>>

AnswersInv ==
  /\ \A a, b \in answers : a.value = b.value => a = b
  /\ \A a \in answers : a.value \in numbers
  /\ Drawn => value \in numbers /\ \A a \in answers : a.value # value

NumbersInv == NumbersTyped /\ ListsInv /\ AnswersInv

(* IDs are digits, and no model value is a client.                         *)
LEMMA Constants ==
  /\ None \notin Conn /\ MaxPending \in Nat \ {0} /\ Half \in Nat \ {0}
  /\ IdOf \in [Conn -> Digits] /\ MaxRequests \in [Conn -> Nat]
  /\ Digits \subseteq Nat /\ Pool \subseteq Nat /\ 0 \in Pool
BY ServiceAssumption DEF Pool, Digits

(* What the callback takes for its client is one of the list.              *)
LEMMA AtIdTyped ==
  ASSUME ControlInv, IsClient
  PROVE  id + 1 \in DOMAIN clients /\ AtId \in Conn /\ life[AtId] \notin {"new", "freed"}
<1>1. id \in Nat
  BY DEF ControlInv, CallbackTyped
<1>2. id + 1 \in 1..Len(clients)
  BY <1>1 DEF ControlInv, ListTyped, IsClient
<1>3. id + 1 \in DOMAIN clients
  BY <1>2 DEF ControlInv, ListTyped
<1> QED
  BY <1>2, <1>3 DEF ControlInv, ListTyped, ListedInv, AtId, IsClient, Dangling

(* Erasing takes nothing but one element away.                             *)
WithoutOne(s, i) == SubSeq(s, 1, i - 1) \o SubSeq(s, i + 1, Len(s))

LEMMA Erased ==
  ASSUME NEW s \in Seq(Conn), NEW i \in 1..Len(s)
  PROVE  /\ WithoutOne(s, i) \in Seq(Conn)
         /\ \A j \in DOMAIN WithoutOne(s, i) :
              \E k \in DOMAIN s : WithoutOne(s, i)[j] = s[k]
<1> DEFINE u == SubSeq(s, 1, i - 1)
           v == SubSeq(s, i + 1, Len(s))
<1>1. u \in Seq(Conn) /\ Len(u) = i - 1 /\ \A j \in 1..i - 1 : u[j] = s[j]
  OBVIOUS
<1>2. v \in Seq(Conn) /\ Len(v) = Len(s) - i /\ \A j \in 1..Len(s) - i : v[j] = s[i + j]
  OBVIOUS
<1>3. WithoutOne(s, i) = u \o v
  BY DEF u, v, WithoutOne
<1> HIDE DEF u, v
<1>4. u \o v \in Seq(Conn) /\ DOMAIN (u \o v) = 1..Len(s) - 1
  BY <1>1, <1>2
<1>5. ASSUME NEW j \in 1..Len(s) - 1 PROVE \E k \in DOMAIN s : (u \o v)[j] = s[k]
  <2>1. CASE j <= i - 1
    BY <1>1, <1>2, <2>1
  <2>2. CASE j > i - 1
    <3>1. j - (i - 1) \in 1..Len(s) - i /\ (u \o v)[j] = v[j - (i - 1)]
      BY <1>1, <1>2, <2>2
    <3>2. (u \o v)[j] = s[i + (j - (i - 1))] /\ i + (j - (i - 1)) \in DOMAIN s
      BY <1>2, <2>2, <3>1
    <3> QED
      BY <3>2
  <2>3. j <= i - 1 \/ j > i - 1
    OBVIOUS
  <2> QED
    BY <2>1, <2>2, <2>3
<1> QED
  BY <1>3, <1>4, <1>5

(* Every step keeps the part of the invariant that no number is in.        *)
LEMMA ControlInit == Init => ControlInv
<1> SUFFICES ASSUME Init PROVE ControlInv
  OBVIOUS
<1>1. ListTyped /\ ListedInv
  BY Constants DEF Init, ListTyped, ListedInv
<1>2. PeerTyped
  BY Constants DEF Init, PeerTyped
<1>3. CallbackTyped /\ CallbackInv
  BY Constants DEF Init, CallbackTyped, CallbackInv, Working, Found, FoundAgain
<1> QED
  BY <1>1, <1>2, <1>3 DEF ControlInv

LEMMA ListStep ==
  ASSUME ControlInv, [Next]_vars
  PROVE  ListTyped' /\ ListedInv'
<1> USE Constants
<1>1. CASE Lookup \/ LookupAgain \/ Generate \/ WriteFile \/ SortList \/
           RewriteFile
  BY <1>1 DEF Lookup, LookupAgain, Generate, WriteFile, SortList, RewriteFile,
     ControlInv, ListTyped, ListedInv, listVars, Step
<1>2. CASE Answer \/ AnswerKills \/ WildAccess
  BY <1>2 DEF Answer, AnswerKills, WildAccess, ControlInv, ListTyped, ListedInv,
     listVars, Step, Ends
<1>3. CASE Push
  <2>1. /\ clients' = Append(clients, newClient) /\ newClient \in Conn
        /\ newClient' = None /\ life' = life
    BY <1>3 DEF Push, ControlInv, ListTyped
  <2>2. clients' \in Seq(Conn) /\ \A i \in DOMAIN clients' :
           clients'[i] = newClient \/ \E j \in DOMAIN clients : clients'[i] = clients[j]
    BY <2>1 DEF ControlInv, ListTyped
  <2> QED
    BY <1>3, <2>1, <2>2 DEF ControlInv, ListTyped, ListedInv
<1>4. ASSUME NEW c \in Conn, Accept(c) PROVE ListTyped' /\ ListedInv'
  BY <1>4 DEF Accept, ControlInv, ListTyped, ListedInv
<1>5. ASSUME NEW c \in Conn, Ask(c) PROVE ListTyped' /\ ListedInv'
  BY <1>5 DEF Ask, listVars, ControlInv, ListTyped, ListedInv
<1>6. ASSUME NEW c \in Conn, Reset(c) PROVE ListTyped' /\ ListedInv'
  BY <1>6 DEF Reset, ControlInv, ListTyped, ListedInv
<1>7. ASSUME NEW c \in Conn, Leave(c) PROVE ListTyped' /\ ListedInv'
  BY <1>7 DEF Leave, ControlInv, ListTyped, ListedInv
<1>8. ASSUME NEW c \in Conn, BeginReport(c) PROVE ListTyped' /\ ListedInv'
  BY <1>8 DEF BeginReport, listVars, ControlInv, ListTyped, ListedInv
<1>9. ASSUME NEW c \in Conn, Delete(c) PROVE ListTyped' /\ ListedInv'
  BY <1>9 DEF Delete, ControlInv, ListTyped, ListedInv
<1>10. ASSUME NEW i \in 1..Len(clients), Erase(i) PROVE ListTyped' /\ ListedInv'
  <2>1. clients' = WithoutOne(clients, i) /\ newClient' = newClient /\ life' = life
    BY <1>10 DEF Erase, WithoutOne
  <2>2. clients \in Seq(Conn)
    BY DEF ControlInv, ListTyped
  <2>3. /\ clients' \in Seq(Conn)
        /\ \A j \in DOMAIN clients' : \E m \in DOMAIN clients : clients'[j] = clients[m]
    BY <2>1, <2>2, Erased
  <2> QED
    BY <2>1, <2>3 DEF ControlInv, ListTyped, ListedInv
<1>11. ASSUME NEW c \in Conn, NEW k \in 1..MaxPending, Receive(c, k)
       PROVE  ListTyped' /\ ListedInv'
  BY <1>11 DEF Receive, listVars, ControlInv, ListTyped, ListedInv
<1>12. ASSUME NEW c \in Conn, ReceiveError(c) PROVE ListTyped' /\ ListedInv'
  BY <1>12 DEF ReceiveError, ControlInv, ListTyped, ListedInv
<1>13. ASSUME NEW c \in Conn, StoiThrows(c) PROVE ListTyped' /\ ListedInv'
  BY <1>13 DEF StoiThrows, listVars, Ends, ControlInv, ListTyped, ListedInv
<1>14. CASE EndReport
  BY <1>14 DEF EndReport, CallbackInv, CallbackTyped, Step, ControlInv, ListTyped,
     ListedInv
<1>15. CASE UNCHANGED vars
  BY <1>15 DEF vars, listVars, peerVars, cbVars, dataVars, ControlInv, ListTyped,
     ListedInv
<1> QED
  BY <1>1, <1>2, <1>3, <1>4, <1>5, <1>6, <1>7, <1>8, <1>9, <1>10, <1>11, <1>12, <1>13,
     <1>14, <1>15 DEF Next, Callback, Receives, Peer

LEMMA PeerStep ==
  ASSUME ControlInv, [Next]_vars
  PROVE  PeerTyped'
<1> USE Constants
<1>1. CASE Push \/ Lookup \/ LookupAgain \/ Generate \/ WriteFile \/ SortList
           \/ RewriteFile \/ Answer \/ EndReport
  BY <1>1 DEF Push, Lookup, LookupAgain, Generate, WriteFile, SortList, RewriteFile,
     Answer, EndReport, ControlInv, PeerTyped, peerVars
<1>2. CASE AnswerKills \/ WildAccess
  BY <1>2 DEF AnswerKills, WildAccess, ControlInv, PeerTyped, Ends, peerVars
<1>3. ASSUME NEW c \in Conn,
             Leave(c) \/ BeginReport(c) \/ Delete(c) \/ ReceiveError(c)
      PROVE  PeerTyped'
  BY <1>3 DEF Leave, BeginReport, Delete, ReceiveError, ControlInv, PeerTyped,
     peerVars
<1>4. ASSUME NEW c \in Conn, Accept(c) PROVE PeerTyped'
  <2>1. \A s \in Leftovers : s \in Seq(Digits)
    <3>1. <<>> \in Seq(Digits) /\ \A d \in Conn : buf[d] \in Seq(Digits)
      BY DEF ControlInv, PeerTyped
    <3> QED
      BY <3>1 DEF Leftovers
  <2> QED
    BY <1>4, <2>1 DEF Accept, ControlInv, PeerTyped
<1>5. ASSUME NEW c \in Conn, Ask(c) PROVE PeerTyped'
  BY <1>5 DEF Ask, ControlInv, PeerTyped
<1>6. ASSUME NEW c \in Conn, Reset(c) PROVE PeerTyped'
  BY <1>6 DEF Reset, ControlInv, PeerTyped
<1>7. ASSUME NEW i \in 1..Len(clients), Erase(i) PROVE PeerTyped'
  BY <1>7 DEF Erase, peerVars, ControlInv, PeerTyped
<1>8. ASSUME NEW c \in Conn, NEW k \in 1..MaxPending, Receive(c, k) PROVE PeerTyped'
  <2>1. Received(c, k) \in Seq(Digits)
    BY ReceivedFacts DEF ControlInv, PeerTyped
  <2> QED
    BY <1>8, <2>1 DEF Receive, ControlInv, PeerTyped
<1>9. ASSUME NEW c \in Conn, StoiThrows(c) PROVE PeerTyped'
  BY <1>9 DEF StoiThrows, Ends, peerVars, ControlInv, PeerTyped
<1>10. CASE UNCHANGED vars
  BY <1>10 DEF vars, listVars, peerVars, cbVars, dataVars, ControlInv, PeerTyped
<1> QED
  BY <1>1, <1>2, <1>3, <1>4, <1>5, <1>6, <1>7, <1>8, <1>9, <1>10 DEF Next, Callback,
     Receives, Peer

LEMMA CallbackStep ==
  ASSUME ControlInv, [Next]_vars
  PROVE  CallbackTyped' /\ CallbackInv'
<1> USE Constants DEF Looks, Uses
<1>1. CASE WriteFile \/ SortList \/ RewriteFile
  BY <1>1 DEF WriteFile, SortList, RewriteFile, ControlInv, CallbackTyped,
     CallbackInv, Working, Found, FoundAgain, Step, listVars, peerVars
<1>2. CASE AnswerKills \/ WildAccess
  BY <1>2 DEF AnswerKills, WildAccess, ControlInv, CallbackTyped, CallbackInv,
     Working, Found, FoundAgain, Ends, listVars, peerVars, cbVars
<1>3. CASE Push
  BY <1>3 DEF Push, cbVars, peerVars, ControlInv, CallbackTyped, CallbackInv, Working,
     Found, FoundAgain
<1>4. ASSUME NEW c \in Conn, Accept(c) PROVE CallbackTyped' /\ CallbackInv'
  <2>1. /\ life \in [Conn -> {"new", "up", "reset", "gone", "dead", "reported", "freed"}]
        /\ UNCHANGED <<cb, step, id, value, target, local, outcome>>
        /\ \A d \in Conn \ {c} : life'[d] = life[d] /\ buf'[d] = buf[d]
    BY <1>4 DEF Accept, ControlInv, ListTyped, PeerTyped, cbVars, peerVars
  <2>2. life[c] = "new" /\ life'[c] = "up"
    BY <1>4 DEF Accept, ControlInv, ListTyped, PeerTyped, peerVars
  <2>3. Working => c # cb
    BY <1>4, <2>2 DEF Accept, ControlInv, CallbackTyped, CallbackInv, Working
  <2>4. CallbackTyped'
    BY <2>1 DEF ControlInv, CallbackTyped
  <2> QED
    BY <2>1, <2>2, <2>3, <2>4 DEF ControlInv, CallbackTyped, CallbackInv, Working, Found,
       FoundAgain
<1>5. ASSUME NEW c \in Conn, Ask(c) PROVE CallbackTyped' /\ CallbackInv'
  BY <1>5 DEF Ask, listVars, cbVars, ControlInv, CallbackTyped, CallbackInv, Working,
     Found, FoundAgain
<1>6. ASSUME NEW c \in Conn, Reset(c) PROVE CallbackTyped' /\ CallbackInv'
  <2>1. /\ life \in [Conn -> {"new", "up", "reset", "gone", "dead", "reported", "freed"}]
        /\ UNCHANGED <<cb, step, id, value, target, local, outcome>>
        /\ \A d \in Conn \ {c} : life'[d] = life[d] /\ buf'[d] = buf[d]
    BY <1>6 DEF Reset, ControlInv, ListTyped, PeerTyped, cbVars, peerVars
  <2>2. life[c] = "up" /\ life'[c] = "reset" /\ buf' = buf
    BY <1>6 DEF Reset, ControlInv, ListTyped, PeerTyped, peerVars
  <2>3. Working => cb \in Conn
    BY <1>6, <2>2 DEF Reset, ControlInv, CallbackTyped, CallbackInv, Working
  <2>4. CallbackTyped'
    BY <2>1 DEF ControlInv, CallbackTyped
  <2> QED
    BY <2>1, <2>2, <2>3, <2>4 DEF ControlInv, CallbackTyped, CallbackInv, Working, Found,
       FoundAgain
<1>7. ASSUME NEW c \in Conn, Leave(c) PROVE CallbackTyped' /\ CallbackInv'
  <2>1. /\ life \in [Conn -> {"new", "up", "reset", "gone", "dead", "reported", "freed"}]
        /\ UNCHANGED <<cb, step, id, value, target, local, outcome>>
        /\ \A d \in Conn \ {c} : life'[d] = life[d] /\ buf'[d] = buf[d]
    BY <1>7 DEF Leave, ControlInv, ListTyped, PeerTyped, cbVars, peerVars
  <2>2. life[c] \in {"up", "gone"} /\ life'[c] = "dead" /\ buf' = buf
    BY <1>7 DEF Leave, ControlInv, ListTyped, PeerTyped, peerVars
  <2>3. Working => c # cb
    BY <1>7, <2>2 DEF Leave, ControlInv, CallbackTyped, CallbackInv, Working
  <2>4. CallbackTyped'
    BY <2>1 DEF ControlInv, CallbackTyped
  <2> QED
    BY <2>1, <2>2, <2>3, <2>4 DEF ControlInv, CallbackTyped, CallbackInv, Working, Found,
       FoundAgain
<1>8. ASSUME NEW c \in Conn, BeginReport(c) PROVE CallbackTyped' /\ CallbackInv'
  BY <1>8 DEF BeginReport, Step, listVars, peerVars, ControlInv, CallbackTyped,
     CallbackInv, Working, Found, FoundAgain
<1>9. ASSUME NEW c \in Conn, Delete(c) PROVE CallbackTyped' /\ CallbackInv'
  <2>1. /\ life \in [Conn -> {"new", "up", "reset", "gone", "dead", "reported", "freed"}]
        /\ UNCHANGED <<cb, step, id, value, target, local, outcome>>
        /\ \A d \in Conn \ {c} : life'[d] = life[d] /\ buf'[d] = buf[d]
    BY <1>9 DEF Delete, ControlInv, ListTyped, PeerTyped, cbVars, peerVars
  <2>2. life[c] = "reported" /\ life'[c] = "freed" /\ buf' = buf
    BY <1>9 DEF Delete, ControlInv, ListTyped, PeerTyped, peerVars
  <2>3. Working => c # cb
    BY <1>9, <2>2 DEF Delete, ControlInv, CallbackTyped, CallbackInv, Working
  <2>4. CallbackTyped'
    BY <2>1 DEF ControlInv, CallbackTyped
  <2> QED
    BY <2>1, <2>2, <2>3, <2>4 DEF ControlInv, CallbackTyped, CallbackInv, Working, Found,
       FoundAgain
<1>10. ASSUME NEW i \in 1..Len(clients), Erase(i) PROVE CallbackTyped' /\ CallbackInv'
  BY <1>10 DEF Erase, cbVars, peerVars, ControlInv, CallbackTyped, CallbackInv,
     Working, Found, FoundAgain
<1>11. ASSUME NEW c \in Conn, NEW k \in 1..MaxPending, Receive(c, k)
       PROVE  CallbackTyped' /\ CallbackInv'
  <2>1. /\ buf' = [buf EXCEPT ![c] = Received(c, k)] /\ buf \in [Conn -> Seq(Digits)]
        /\ Received(c, k) # <<>> /\ Received(c, k)[1] = IdOf[c]
    BY <1>11, ReceivedFacts DEF Receive, ControlInv, PeerTyped
  <2>2. buf'[c] # <<>> /\ buf'[c][1] = IdOf[c]
    BY <2>1
  <2>3. id' = NumberOf(buf'[c]) /\ id' \in Nat
    BY <1>11 DEF Receive, IsNumber
  <2> QED
    BY <1>11, <2>2, <2>3 DEF Receive, Step, listVars, ControlInv, CallbackTyped,
       CallbackInv, Working, Found, FoundAgain
<1>12. ASSUME NEW c \in Conn, ReceiveError(c) PROVE CallbackTyped' /\ CallbackInv'
  <2>1. id' = NumberOf(buf'[c]) /\ id' \in Nat /\ buf'[c] # <<>>
    BY <1>12 DEF ReceiveError, IsNumber, peerVars
  <2>2. life'[c] = "gone"
    BY <1>12 DEF ReceiveError, ControlInv, ListTyped
  <2> QED
    BY <1>12, <2>1, <2>2 DEF ReceiveError, Step, ControlInv, CallbackTyped,
       CallbackInv, Working, Found, FoundAgain
<1>13. ASSUME NEW c \in Conn, StoiThrows(c) PROVE CallbackTyped' /\ CallbackInv'
  BY <1>13 DEF StoiThrows, Ends, cbVars, listVars, peerVars, ControlInv, CallbackTyped,
     CallbackInv, Working, Found, FoundAgain
<1>14. CASE Lookup
  <2>1. target' \in Conn
    BY <1>14, AtIdTyped DEF Lookup
  <2> QED
    BY <1>14, <2>1 DEF Lookup, Step, listVars, peerVars, ControlInv, CallbackTyped,
       CallbackInv, Working, Found, FoundAgain
<1>15. CASE LookupAgain
  <2>1. local' \in Conn /\ life[local'] # "new"
    BY <1>15, AtIdTyped DEF LookupAgain
  <2> QED
    BY <1>15, <2>1 DEF LookupAgain, Step, listVars, peerVars, ControlInv,
       CallbackTyped, CallbackInv, Working, Found, FoundAgain
<1>16. CASE Generate
  <2>1. value' \in Pool
    BY <1>16 DEF Generate, Candidates
  <2> QED
    BY <1>16, <2>1 DEF Generate, Step, listVars, peerVars, ControlInv, CallbackTyped,
       CallbackInv, Working, Found, FoundAgain
<1>17. CASE Answer
  BY <1>17 DEF Answer, Step, listVars, peerVars, ControlInv, CallbackTyped,
     CallbackInv, Working, Found, FoundAgain
<1>18. CASE EndReport
  BY <1>18 DEF EndReport, Step, listVars, peerVars, ListTyped, ControlInv,
     CallbackTyped, CallbackInv, Working, Found, FoundAgain
<1>19. CASE UNCHANGED vars
  BY <1>19 DEF vars, listVars, peerVars, cbVars, dataVars, vars, ControlInv,
     CallbackTyped, CallbackInv, Working, Found, FoundAgain
<1> QED
  BY <1>1, <1>2, <1>3, <1>4, <1>5, <1>6, <1>7, <1>8, <1>9, <1>10, <1>11, <1>12, <1>13,
     <1>14, <1>15, <1>16, <1>17, <1>18, <1>19 DEF Next, Callback, Receives, Peer

LEMMA ControlStep ==
  ASSUME ControlInv, [Next]_vars
  PROVE  ControlInv'
BY ListStep, PeerStep, CallbackStep DEF ControlInv

-----------------------------------------------------------------------------
(***************************************************************************)
(* No number is given away twice.                                          *)
(***************************************************************************)
LEMMA NumbersInit == Init => NumbersInv
<1> SUFFICES ASSUME Init PROVE NumbersInv
  OBVIOUS
<1>1. \A c \in Conn : list[c] = <<>> /\ ValuesOf(list[c]) = {}
  BY DEF Init, ValuesOf
<1>2. NumbersTyped
  BY DEF Init, NumbersTyped
<1>3. ListsInv
  BY <1>1 DEF Init, ListsInv, Different
<1>4. AnswersInv
  BY DEF Init, AnswersInv, Drawn
<1> QED
  BY <1>2, <1>3, <1>4 DEF NumbersInv

LEMMA Appended ==
  ASSUME NEW s \in Seq(Pool), Different(s), NEW n \in Pool \ ValuesOf(s)
  PROVE  /\ Append(s, n) \in Seq(Pool) /\ Append(s, n) # <<>> /\ Different(Append(s, n))
         /\ ValuesOf(Append(s, n)) = ValuesOf(s) \cup {n}
<1> DEFINE t == Append(s, n)
<1>1. /\ Len(s) \in Nat /\ DOMAIN s = 1..Len(s)
      /\ t \in Seq(Pool) /\ DOMAIN t = 1..Len(s) + 1
      /\ t[Len(s) + 1] = n /\ \A i \in 1..Len(s) : t[i] = s[i]
  OBVIOUS
<1> HIDE DEF t
<1>2. t # <<>>
  BY <1>1
<1>3. ValuesOf(t) = ValuesOf(s) \cup {n}
  <2>1. \A i \in 1..Len(s) + 1 : i \in 1..Len(s) \/ i = Len(s) + 1
    BY <1>1
  <2>2. \A i \in 1..Len(s) : i \in 1..Len(s) + 1
    BY <1>1
  <2>3. Len(s) + 1 \in 1..Len(s) + 1
    BY <1>1
  <2> QED
    BY <1>1, <2>1, <2>2, <2>3 DEF ValuesOf
<1>4. Different(t)
  <2>1. \A i \in DOMAIN s : s[i] # n
    BY DEF ValuesOf
  <2>2. \A i \in 1..Len(s) + 1 : i \in 1..Len(s) \/ i = Len(s) + 1
    BY <1>1
  <2> QED
    BY <1>1, <2>1, <2>2 DEF Different
<1> QED
  BY <1>1, <1>2, <1>3, <1>4 DEF t

(* A step that changes no list and no answer, and draws nothing.           *)
LEMMA NumbersFrame ==
  ASSUME NumbersInv, UNCHANGED <<numbers, list, answers>>,
         \A c \in Conn : life'[c] = "new" => life[c] = "new",
         Drawn' => Drawn /\ UNCHANGED <<value, id>>
  PROVE  NumbersInv'
<1>1. NumbersTyped' /\ ListsInv'
  BY DEF NumbersInv, NumbersTyped, ListsInv
<1>2. AnswersInv'
  BY DEF NumbersInv, AnswersInv
<1> QED
  BY <1>1, <1>2 DEF NumbersInv

LEMMA NumbersStep ==
  ASSUME ControlInv, NumbersInv, [Next]_vars
  PROVE  NumbersInv'
<1>1. CASE Push
  <2>1. /\ UNCHANGED <<numbers, list, answers>>
        /\ \A d \in Conn : life'[d] = "new" => life[d] = "new"
    BY <1>1 DEF Push, dataVars
  <2>2. Drawn' => Drawn /\ UNCHANGED <<value, id>>
    BY <1>1 DEF Push, cbVars, Drawn
  <2> QED
    BY <2>1, <2>2, NumbersFrame
<1>2. ASSUME NEW c \in Conn, Accept(c) PROVE NumbersInv'
  <2>1. /\ UNCHANGED <<numbers, list, answers>>
        /\ \A d \in Conn : life'[d] = "new" => life[d] = "new"
    BY <1>2 DEF Accept, dataVars, ControlInv, ListTyped
  <2>2. Drawn' => Drawn /\ UNCHANGED <<value, id>>
    BY <1>2 DEF Accept, cbVars, Drawn
  <2> QED
    BY <2>1, <2>2, NumbersFrame
<1>3. ASSUME NEW c \in Conn, Ask(c) PROVE NumbersInv'
  <2>1. /\ UNCHANGED <<numbers, list, answers>>
        /\ \A d \in Conn : life'[d] = "new" => life[d] = "new"
    BY <1>3 DEF Ask, dataVars, listVars
  <2>2. Drawn' => Drawn /\ UNCHANGED <<value, id>>
    BY <1>3 DEF Ask, cbVars, Drawn
  <2> QED
    BY <2>1, <2>2, NumbersFrame
<1>4. ASSUME NEW c \in Conn, Reset(c) PROVE NumbersInv'
  <2>1. /\ UNCHANGED <<numbers, list, answers>>
        /\ \A d \in Conn : life'[d] = "new" => life[d] = "new"
    BY <1>4 DEF Reset, dataVars, ControlInv, ListTyped
  <2>2. Drawn' => Drawn /\ UNCHANGED <<value, id>>
    BY <1>4 DEF Reset, cbVars, Drawn
  <2> QED
    BY <2>1, <2>2, NumbersFrame
<1>5. ASSUME NEW c \in Conn, Leave(c) PROVE NumbersInv'
  <2>1. /\ UNCHANGED <<numbers, list, answers>>
        /\ \A d \in Conn : life'[d] = "new" => life[d] = "new"
    BY <1>5 DEF Leave, dataVars, ControlInv, ListTyped
  <2>2. Drawn' => Drawn /\ UNCHANGED <<value, id>>
    BY <1>5 DEF Leave, cbVars, Drawn
  <2> QED
    BY <2>1, <2>2, NumbersFrame
<1>6. ASSUME NEW c \in Conn, BeginReport(c) PROVE NumbersInv'
  <2>1. /\ UNCHANGED <<numbers, list, answers>>
        /\ \A d \in Conn : life'[d] = "new" => life[d] = "new"
    BY <1>6 DEF BeginReport, dataVars, listVars
  <2>2. Drawn' => Drawn /\ UNCHANGED <<value, id>>
    BY <1>6 DEF BeginReport, Step, Drawn
  <2> QED
    BY <2>1, <2>2, NumbersFrame
<1>7. ASSUME NEW c \in Conn, Delete(c) PROVE NumbersInv'
  <2>1. /\ UNCHANGED <<numbers, list, answers>>
        /\ \A d \in Conn : life'[d] = "new" => life[d] = "new"
    BY <1>7 DEF Delete, dataVars, ControlInv, ListTyped
  <2>2. Drawn' => Drawn /\ UNCHANGED <<value, id>>
    BY <1>7 DEF Delete, cbVars, Drawn
  <2> QED
    BY <2>1, <2>2, NumbersFrame
<1>8. ASSUME NEW i \in 1..Len(clients), Erase(i) PROVE NumbersInv'
  <2>1. /\ UNCHANGED <<numbers, list, answers>>
        /\ \A d \in Conn : life'[d] = "new" => life[d] = "new"
    BY <1>8 DEF Erase, dataVars
  <2>2. Drawn' => Drawn /\ UNCHANGED <<value, id>>
    BY <1>8 DEF Erase, cbVars, Drawn
  <2> QED
    BY <2>1, <2>2, NumbersFrame
<1>9. ASSUME NEW c \in Conn, NEW k \in 1..MaxPending, Receive(c, k) PROVE NumbersInv'
  <2>1. /\ UNCHANGED <<numbers, list, answers>>
        /\ \A d \in Conn : life'[d] = "new" => life[d] = "new"
    BY <1>9 DEF Receive, dataVars, listVars
  <2>2. Drawn' => Drawn /\ UNCHANGED <<value, id>>
    BY <1>9 DEF Receive, Step, Drawn
  <2> QED
    BY <2>1, <2>2, NumbersFrame
<1>10. ASSUME NEW c \in Conn, ReceiveError(c) PROVE NumbersInv'
  <2>1. /\ UNCHANGED <<numbers, list, answers>>
        /\ \A d \in Conn : life'[d] = "new" => life[d] = "new"
    BY <1>10 DEF ReceiveError, dataVars, ControlInv, ListTyped
  <2>2. Drawn' => Drawn /\ UNCHANGED <<value, id>>
    BY <1>10 DEF ReceiveError, Step, Drawn
  <2> QED
    BY <2>1, <2>2, NumbersFrame
<1>11. ASSUME NEW c \in Conn, StoiThrows(c) PROVE NumbersInv'
  <2>1. /\ UNCHANGED <<numbers, list, answers>>
        /\ \A d \in Conn : life'[d] = "new" => life[d] = "new"
    BY <1>11 DEF StoiThrows, Ends, dataVars, listVars
  <2>2. Drawn' => Drawn /\ UNCHANGED <<value, id>>
    BY <1>11 DEF StoiThrows, Ends, cbVars, Drawn
  <2> QED
    BY <2>1, <2>2, NumbersFrame
<1>12. CASE Lookup
  <2>1. /\ UNCHANGED <<numbers, list, answers>>
        /\ \A d \in Conn : life'[d] = "new" => life[d] = "new"
    BY <1>12 DEF Lookup, dataVars, listVars
  <2>2. Drawn' => Drawn /\ UNCHANGED <<value, id>>
    BY <1>12 DEF Lookup, Step, Drawn
  <2> QED
    BY <2>1, <2>2, NumbersFrame
<1>13. CASE LookupAgain
  <2>1. /\ UNCHANGED <<numbers, list, answers>>
        /\ \A d \in Conn : life'[d] = "new" => life[d] = "new"
    BY <1>13 DEF LookupAgain, dataVars, listVars
  <2>2. Drawn' => Drawn /\ UNCHANGED <<value, id>>
    BY <1>13 DEF LookupAgain, Step, Drawn
  <2> QED
    BY <2>1, <2>2, NumbersFrame
<1>14. CASE Generate
  <2> DEFINE a == local
             n == value'
  <2>1. /\ a \in Conn /\ life[a] # "new" /\ n \in Pool \ numbers
        /\ list' = [list EXCEPT ![a] = Append(list[a], n)] /\ numbers' = numbers \cup {n}
        /\ UNCHANGED <<life, id, answers>> /\ Drawn'
    BY <1>14, Constants DEF Generate, Step, Candidates, listVars, Drawn, ControlInv,
       CallbackInv, FoundAgain
  <2> HIDE DEF a, n
  <2>2. \A c \in Conn : n \notin ValuesOf(list[c])
    BY <2>1 DEF NumbersInv, ListsInv
  <2>3. /\ Append(list[a], n) \in Seq(Pool) /\ Append(list[a], n) # <<>>
        /\ Different(Append(list[a], n))
        /\ ValuesOf(Append(list[a], n)) = ValuesOf(list[a]) \cup {n}
    <3>1. list[a] \in Seq(Pool) /\ Different(list[a]) /\ n \in Pool \ ValuesOf(list[a])
      BY <2>1, <2>2 DEF NumbersInv, NumbersTyped, ListsInv
    <3> QED
      BY <3>1, Appended
  <2>4. NumbersTyped'
    BY <2>1, <2>3 DEF NumbersInv, NumbersTyped
  <2>5. \A c \in Conn : /\ Different(list'[c])
                        /\ ValuesOf(list'[c]) =
                             ValuesOf(list[c]) \cup (IF c = a THEN {n} ELSE {})
    BY <2>1, <2>3 DEF NumbersInv, NumbersTyped, ListsInv
  <2>6. \A c, d \in Conn : ValuesOf(list'[c]) \cap ValuesOf(list'[d]) # {} => c = d
    BY <2>2, <2>5 DEF NumbersInv, ListsInv
  <2>7. numbers' = UNION {ValuesOf(list'[c]) : c \in Conn}
    BY <2>1, <2>5 DEF NumbersInv, ListsInv
  <2>8. ListsInv'
    BY <2>1, <2>5, <2>6, <2>7 DEF NumbersInv, NumbersTyped, ListsInv
  <2>9. AnswersInv'
    <3>1. value' \in numbers' /\ \A x \in answers : x.value # value'
      BY <2>1 DEF n, NumbersInv, AnswersInv
    <3> QED
      BY <2>1, <3>1 DEF NumbersInv, AnswersInv
  <2> QED
    BY <2>4, <2>8, <2>9 DEF NumbersInv
<1>15. CASE WriteFile
  <2>1. /\ UNCHANGED <<numbers, list, answers>>
        /\ \A d \in Conn : life'[d] = "new" => life[d] = "new"
    BY <1>15 DEF WriteFile, listVars
  <2>2. Drawn' => Drawn /\ UNCHANGED <<value, id>>
    BY <1>15 DEF WriteFile, Step, Drawn
  <2> QED
    BY <2>1, <2>2, NumbersFrame
<1>16. CASE SortList
  <2> DEFINE a == local
  <2>1. /\ a \in Conn /\ life[a] # "new"
        /\ UNCHANGED <<life, id, value, numbers, answers>> /\ Drawn
    BY <1>16, Constants DEF SortList, listVars, Drawn, ControlInv, CallbackInv, FoundAgain
  <2>2. list' = list \/ list' = [list EXCEPT ![a] = Ascending(list[a])]
    BY <1>16 DEF SortList
  <2>3. list[a] \in Seq(Pool) /\ Different(list[a])
    BY <2>1 DEF NumbersInv, NumbersTyped, ListsInv
  <2> HIDE DEF a
  <2>4. /\ Ascending(list[a]) \in Seq(Pool) /\ Different(Ascending(list[a]))
        /\ ValuesOf(Ascending(list[a])) = ValuesOf(list[a])
    BY <2>3, AscendingFacts
  <2>5. NumbersTyped'
    BY <2>1, <2>2, <2>4 DEF NumbersInv, NumbersTyped
  <2>6. \A c \in Conn : Different(list'[c]) /\ ValuesOf(list'[c]) = ValuesOf(list[c])
    BY <2>1, <2>2, <2>4 DEF NumbersInv, NumbersTyped, ListsInv
  <2>7. \A c \in Conn : life'[c] = "new" => list'[c] = <<>>
    BY <2>1, <2>2 DEF NumbersInv, NumbersTyped, ListsInv
  <2>8. ListsInv'
    BY <2>1, <2>6, <2>7 DEF NumbersInv, ListsInv
  <2>9. AnswersInv'
    BY <2>1 DEF NumbersInv, AnswersInv
  <2> QED
    BY <2>5, <2>8, <2>9 DEF NumbersInv
<1>17. CASE RewriteFile
  <2>1. /\ UNCHANGED <<numbers, list, answers>>
        /\ \A d \in Conn : life'[d] = "new" => life[d] = "new"
    BY <1>17 DEF RewriteFile, listVars
  <2>2. Drawn' => Drawn /\ UNCHANGED <<value, id>>
    BY <1>17 DEF RewriteFile, Step, Drawn
  <2> QED
    BY <2>1, <2>2, NumbersFrame
<1>18. CASE Answer
  <2> DEFINE x == [from |-> cb, to |-> local, value |-> value]
  <2>1. /\ x \in [from : Conn, to : Conn, value : Pool] /\ x.value = value
        /\ answers' = answers \cup {x} /\ UNCHANGED <<life, numbers, list>>
        /\ ~Drawn' /\ Drawn
    BY <1>18, Constants DEF Answer, Step, Drawn, listVars, ControlInv, CallbackTyped,
       CallbackInv, FoundAgain
  <2> HIDE DEF x
  <2>3. NumbersTyped' /\ ListsInv'
    BY <2>1 DEF NumbersInv, NumbersTyped, ListsInv
  <2>4. AnswersInv'
    BY <2>1 DEF NumbersInv, AnswersInv
  <2> QED
    BY <2>3, <2>4 DEF NumbersInv
<1>19. CASE AnswerKills
  <2>1. /\ UNCHANGED <<numbers, list, answers>>
        /\ \A d \in Conn : life'[d] = "new" => life[d] = "new"
    BY <1>19 DEF AnswerKills, Ends, dataVars, listVars
  <2>2. Drawn' => Drawn /\ UNCHANGED <<value, id>>
    BY <1>19 DEF AnswerKills, Ends, cbVars, Drawn
  <2> QED
    BY <2>1, <2>2, NumbersFrame
<1>20. CASE EndReport
  <2>1. /\ UNCHANGED <<numbers, list, answers>>
        /\ \A d \in Conn : life'[d] = "new" => life[d] = "new"
    BY <1>20 DEF EndReport, dataVars, ControlInv, ListTyped
  <2>2. Drawn' => Drawn /\ UNCHANGED <<value, id>>
    BY <1>20 DEF EndReport, Step, Drawn
  <2> QED
    BY <2>1, <2>2, NumbersFrame
<1>21. CASE WildAccess
  <2>1. /\ UNCHANGED <<numbers, list, answers>>
        /\ \A d \in Conn : life'[d] = "new" => life[d] = "new"
    BY <1>21 DEF WildAccess, Ends, dataVars, listVars
  <2>2. Drawn' => Drawn /\ UNCHANGED <<value, id>>
    BY <1>21 DEF WildAccess, Ends, cbVars, Drawn
  <2> QED
    BY <2>1, <2>2, NumbersFrame
<1>22. CASE UNCHANGED vars
  <2>1. /\ UNCHANGED <<numbers, list, answers>>
        /\ \A d \in Conn : life'[d] = "new" => life[d] = "new"
    BY <1>22 DEF vars, dataVars, listVars
  <2>2. Drawn' => Drawn /\ UNCHANGED <<value, id>>
    BY <1>22 DEF vars, cbVars, Drawn
  <2> QED
    BY <2>1, <2>2, NumbersFrame
<1> QED
  BY <1>1, <1>2, <1>3, <1>4, <1>5, <1>6, <1>7, <1>8, <1>9, <1>10, <1>11, <1>12, <1>13,
     <1>14, <1>15, <1>16, <1>17, <1>18, <1>19, <1>20, <1>21, <1>22 DEF Next,
     Callback, Receives, Peer

-----------------------------------------------------------------------------
(***************************************************************************)
(* Orderly use: the callback's client is found under its own ID, and its   *)
(* file follows its list.                                                  *)
(***************************************************************************)
FileTyped == DOMAIN file \subseteq Nat /\ \A i \in DOMAIN file : file[i] \in Seq(Pool)

(* No step makes the use orderly: what was orderly may only end.           *)
LEMMA OrderlyStep ==
  ASSUME ControlInv, [Next]_vars, Orderly'
  PROVE  Orderly
<1>1. ASSUME \A c \in Conn : life[c] # "new" =>
                 life'[c] = life[c] /\ Len(buf[c]) <= Len(buf'[c]),
             \A i \in DOMAIN clients : i \in DOMAIN clients' /\ clients'[i] = clients[i]
      PROVE  Orderly
  <2>1. \A c \in Accepted : /\ c \in Accepted' /\ life'[c] = life[c]
                            /\ Len(buf[c]) <= Len(buf'[c])
    BY <1>1 DEF Accepted
  <2>2. \A c \in Accepted : Len(buf[c]) \in Nat /\ Len(buf'[c]) \in Nat
    BY PeerStep DEF ControlInv, PeerTyped, Accepted
  <2>3. \A c \in Accepted : life[c] = "up" /\ Len(buf[c]) <= 1
    BY <2>1, <2>2 DEF Orderly
  <2>4. \A c, d \in Accepted : IdOf[c] = IdOf[d] => c = d
    BY <2>1 DEF Orderly
  <2>5. \A i \in DOMAIN clients : IdOf[clients[i]] = i - 1
    BY <1>1 DEF Orderly
  <2> QED
    BY <2>3, <2>4, <2>5 DEF Orderly
<1>2. \A c \in Conn : life'[c] \in {"new", "up"}
  BY DEF Orderly, Accepted
<1>3. \A c \in Conn : Len(buf[c]) <= Len(buf[c])
  BY DEF ControlInv, PeerTyped
<1>4. CASE Push
  <2>1. /\ UNCHANGED <<life, buf>>
        /\ \A i \in DOMAIN clients : i \in DOMAIN clients' /\ clients'[i] = clients[i]
    BY <1>4 DEF Push, peerVars, ControlInv, ListTyped
  <2> QED
    BY <1>1, <1>3, <2>1
<1>5. ASSUME NEW c \in Conn, Accept(c) PROVE Orderly
  <2>1. /\ UNCHANGED clients /\ life[c] = "new"
        /\ \A d \in Conn : d # c => life'[d] = life[d] /\ buf'[d] = buf[d]
    BY <1>5 DEF Accept, ControlInv, ListTyped, PeerTyped
  <2> QED
    BY <1>1, <1>3, <2>1
<1>6. ASSUME NEW c \in Conn, Ask(c) PROVE Orderly
  <2>1. UNCHANGED <<life, clients, buf>>
    BY <1>6 DEF Ask, listVars
  <2> QED
    BY <1>1, <1>3, <2>1
<1>7. ASSUME NEW c \in Conn, Reset(c) PROVE Orderly
  BY <1>2, <1>7 DEF Reset, ControlInv, ListTyped
<1>8. ASSUME NEW c \in Conn, Leave(c) PROVE Orderly
  BY <1>2, <1>8 DEF Leave, ControlInv, ListTyped
<1>9. ASSUME NEW c \in Conn, BeginReport(c) PROVE Orderly
  BY <1>2, <1>9 DEF BeginReport, listVars
<1>10. ASSUME NEW c \in Conn, Delete(c) PROVE Orderly
  BY <1>2, <1>10 DEF Delete, ControlInv, ListTyped
<1>11. ASSUME NEW i \in 1..Len(clients), Erase(i) PROVE Orderly
  <2>1. life'[clients[i]] = "freed" /\ clients[i] \in Conn
    BY <1>11 DEF Erase, Dangling, ControlInv, ListTyped
  <2> QED
    BY <1>2, <2>1
<1>12. ASSUME NEW c \in Conn, NEW k \in 1..MaxPending, Receive(c, k) PROVE Orderly
  <2>1. /\ UNCHANGED <<life, clients>>
        /\ buf' = [buf EXCEPT ![c] = Received(c, k)] /\ buf \in [Conn -> Seq(Digits)]
    BY <1>12 DEF Receive, listVars, ControlInv, PeerTyped
  <2>2. Len(buf[c]) <= Len(Received(c, k))
    BY <2>1, ReceivedFacts
  <2>3. \A d \in Conn : Len(buf[d]) <= Len(buf'[d])
    BY <1>3, <2>1, <2>2
  <2> QED
    BY <1>1, <2>1, <2>3
<1>13. ASSUME NEW c \in Conn, ReceiveError(c) PROVE Orderly
  BY <1>2, <1>13 DEF ReceiveError, ControlInv, ListTyped
<1>14. ASSUME NEW c \in Conn, StoiThrows(c) PROVE Orderly
  <2>1. UNCHANGED <<life, clients, buf>>
    BY <1>14 DEF StoiThrows, Ends, listVars, peerVars
  <2> QED
    BY <1>1, <1>3, <2>1
<1>15. CASE Lookup
  <2>1. UNCHANGED <<life, clients, buf>>
    BY <1>15 DEF Lookup, listVars, peerVars
  <2> QED
    BY <1>1, <1>3, <2>1
<1>16. CASE LookupAgain
  <2>1. UNCHANGED <<life, clients, buf>>
    BY <1>16 DEF LookupAgain, listVars, peerVars
  <2> QED
    BY <1>1, <1>3, <2>1
<1>17. CASE Generate
  <2>1. UNCHANGED <<life, clients, buf>>
    BY <1>17 DEF Generate, listVars, peerVars
  <2> QED
    BY <1>1, <1>3, <2>1
<1>18. CASE WriteFile
  <2>1. UNCHANGED <<life, clients, buf>>
    BY <1>18 DEF WriteFile, listVars, peerVars
  <2> QED
    BY <1>1, <1>3, <2>1
<1>19. CASE SortList
  <2>1. UNCHANGED <<life, clients, buf>>
    BY <1>19 DEF SortList, listVars, peerVars
  <2> QED
    BY <1>1, <1>3, <2>1
<1>20. CASE RewriteFile
  <2>1. UNCHANGED <<life, clients, buf>>
    BY <1>20 DEF RewriteFile, listVars, peerVars
  <2> QED
    BY <1>1, <1>3, <2>1
<1>21. CASE Answer
  <2>1. UNCHANGED <<life, clients, buf>>
    BY <1>21 DEF Answer, listVars, peerVars
  <2> QED
    BY <1>1, <1>3, <2>1
<1>22. CASE AnswerKills
  <2>1. UNCHANGED <<life, clients, buf>>
    BY <1>22 DEF AnswerKills, Ends, listVars, peerVars
  <2> QED
    BY <1>1, <1>3, <2>1
<1>23. CASE EndReport
  <2>1. cb \in Conn /\ life'[cb] = "reported"
    BY <1>23 DEF EndReport, Step, ControlInv, ListTyped, CallbackTyped, CallbackInv
  <2> QED
    BY <1>2, <2>1
<1>24. CASE WildAccess
  <2>1. UNCHANGED <<life, clients, buf>>
    BY <1>24 DEF WildAccess, Ends, listVars, peerVars
  <2> QED
    BY <1>1, <1>3, <2>1
<1>25. CASE UNCHANGED vars
  <2>1. UNCHANGED <<life, clients, buf>>
    BY <1>25 DEF vars, listVars, peerVars
  <2> QED
    BY <1>1, <1>3, <2>1
<1> QED
  BY <1>4, <1>5, <1>6, <1>7, <1>8, <1>9, <1>10, <1>11, <1>12, <1>13, <1>14, <1>15,
     <1>16, <1>17, <1>18, <1>19, <1>20, <1>21, <1>22, <1>23, <1>24, <1>25 DEF Next,
     Callback, Receives, Peer

LEMMA OwnId ==
  ASSUME ControlInv, Orderly, Working
  PROVE  /\ cb \in Accepted /\ life[cb] = "up" /\ id = IdOf[cb]
         /\ IsClient => AtId = cb
<1>1. cb \in Conn /\ cb \in Accepted
  BY DEF ControlInv, CallbackTyped, CallbackInv, Working, Accepted
<1>2. life[cb] = "up" /\ Len(buf[cb]) <= 1
  BY <1>1 DEF Orderly
<1>3. /\ buf[cb] \in Seq(Digits) /\ buf[cb] # <<>> /\ id = NumberOf(buf[cb])
      /\ buf[cb][1] = IdOf[cb]
  <2>1. buf[cb] \in Seq(Digits)
    BY <1>1 DEF ControlInv, PeerTyped
  <2>2. buf[cb] # <<>> /\ id = NumberOf(buf[cb]) /\ buf[cb][1] = IdOf[cb]
    BY <1>2 DEF ControlInv, CallbackInv
  <2> QED
    BY <2>1, <2>2
<1>4. Len(buf[cb]) = 1
  <2> DEFINE n == Len(buf[cb])
  <2>1. n \in Nat /\ n # 0
    BY <1>3
  <2>2. n <= 1
    BY <1>2
  <2> HIDE DEF n
  <2>3. n = 1
    BY <2>1, <2>2
  <2> QED
    BY <2>3 DEF n
<1>5. id = IdOf[cb]
  BY <1>3, <1>4, OneDigit
<1>6. ASSUME IsClient PROVE AtId = cb
  <2>1. id + 1 \in DOMAIN clients /\ AtId \in Accepted
    BY <1>6, AtIdTyped DEF Accepted
  <2>2. IdOf[AtId] = (id + 1) - 1 /\ id \in Nat
    BY <2>1 DEF Orderly, AtId, ControlInv, CallbackTyped
  <2>3. IdOf[AtId] = IdOf[cb]
    BY <1>5, <2>2
  <2> QED
    BY <1>1, <2>1, <2>3 DEF Orderly
<1> QED
  BY <1>1, <1>2, <1>5, <1>6

(* The file of a client that is not being served has its numbers in order, *)
(* no other file exists, and what the callback has done for its client.    *)
OtherFiles ==
  /\ \A c \in Accepted \ {cb} : FileOf(c) = Ascending(list[c])
  /\ \A i \in DOMAIN file : \E c \in Accepted : IdOf[c] = i

OwnFile ==
  /\ step \in {"lookup", "generate", "draw"} => FileOf(cb) = Ascending(list[cb])
  /\ Found => target = cb
  /\ FoundAgain => local = cb
  /\ Drawn => list[cb] # <<>>
  /\ step \in {"sort", "sorting", "send", "sending"} => FileOf(cb) = list[cb]
  /\ step \in {"rewrite", "rewriting", "send", "sending"} => list[cb] = Ascending(list[cb])

OrderlyInv ==
  /\ FileTyped
  /\ Orderly => OtherFiles /\ OwnFile
  /\ WildOnlyBeforePush

LEMMA OrderlyInit == Init => OrderlyInv
<1> SUFFICES ASSUME Init PROVE OrderlyInv
  OBVIOUS
<1>1. Accepted = {} /\ DOMAIN file = {}
  BY DEF Init, Accepted
<1>2. OtherFiles /\ OwnFile
  BY <1>1 DEF Init, OtherFiles, OwnFile, Found, FoundAgain, Drawn
<1>3. FileTyped /\ outcome = "running"
  BY <1>1 DEF Init, FileTyped
<1> QED
  BY <1>2, <1>3 DEF OrderlyInv, WildOnlyBeforePush

LEMMA FileTypedStep ==
  ASSUME ControlInv, NumbersInv, FileTyped, [Next]_vars
  PROVE  FileTyped'
<1>1. CASE UNCHANGED file
  BY <1>1 DEF FileTyped
<1>2. ASSUME NEW l \in Seq(Pool), file' = Written(id, l) PROVE FileTyped'
  BY <1>2 DEF Written, FileTyped, ControlInv, CallbackTyped
<1>3. CASE WriteFile
  BY <1>2, <1>3 DEF WriteFile, Step, Found, ControlInv, CallbackInv, NumbersInv,
     NumbersTyped
<1>4. CASE RewriteFile
  BY <1>2, <1>4 DEF RewriteFile, Step, FoundAgain, ControlInv, CallbackInv, NumbersInv,
     NumbersTyped
<1>5. UNCHANGED file \/ WriteFile \/ RewriteFile
  BY DEF Next, Callback, Receives, Peer, vars, dataVars, Push, Accept, Ask, Reset, Leave,
     BeginReport, Delete, Erase, Receive, ReceiveError, StoiThrows, Lookup, LookupAgain,
     Generate, SortList, Answer, AnswerKills, EndReport, WildAccess, Ends
<1> QED
  BY <1>1, <1>3, <1>4, <1>5

(* What the callback needs of its client's list.                           *)
LEMMA OwnList ==
  ASSUME ControlInv, NumbersInv, Orderly, Working
  PROVE  /\ cb \in Conn /\ cb \in Accepted /\ life[cb] = "up"
         /\ list[cb] \in Seq(Pool) /\ Different(list[cb])
         /\ \A c \in Accepted : c \in Conn /\ (IdOf[c] = IdOf[cb] => c = cb)
BY OwnId DEF NumbersInv, NumbersTyped, ListsInv, Accepted, Orderly

(* A step that changes no list and no file, and neither the callback nor   *)
(* the clients that were accepted.                                         *)
LEMMA FileFrame ==
  ASSUME OtherFiles /\ OwnFile, UNCHANGED <<cb, step, target, local, list, file>>,
         Accepted' = Accepted
  PROVE  (OtherFiles /\ OwnFile)'
BY DEF OtherFiles, OwnFile, FileOf, Found, FoundAgain, Drawn

LEMMA FileStep ==
  ASSUME ControlInv, NumbersInv, FileTyped, Orderly, Orderly', OtherFiles /\ OwnFile,
         [Next]_vars
  PROVE  (OtherFiles /\ OwnFile)'
<1>1. \A c \in Conn : life[c] \in {"new", "up"} /\ life'[c] \in {"new", "up"}
  BY DEF Orderly, Accepted
<1>2. \A c \in Conn : file' = file => FileOf(c)' = FileOf(c)
  BY DEF FileOf
<1>3. CASE Push
  <2>1. UNCHANGED <<cb, step, target, local, list, file>> /\ Accepted' = Accepted
    BY <1>3 DEF Push, cbVars, dataVars, Accepted
  <2> QED
    BY <2>1, FileFrame
<1>4. ASSUME NEW c \in Conn, Accept(c) PROVE (OtherFiles /\ OwnFile)'
  <2>1. /\ life[c] = "new" /\ UNCHANGED <<cb, step, target, local, list, file>>
        /\ Accepted' = Accepted \cup {c} /\ c \notin Accepted
    BY <1>4 DEF Accept, cbVars, dataVars, Accepted, ControlInv, ListTyped
  <2>2. list[c] = <<>> /\ list[c] \in Seq(Pool)
    BY <2>1 DEF NumbersInv, NumbersTyped, ListsInv
  <2>3. FileOf(c) = <<>>
    <3>1. \A d \in Accepted : IdOf[d] # IdOf[c]
      BY <2>1 DEF Orderly
    <3> QED
      BY <3>1 DEF OtherFiles, FileOf
  <2>4. FileOf(c) = Ascending(list[c])
    <3>1. Len(list[c]) <= 1
      BY <2>2
    <3> QED
      BY <2>2, <2>3, <3>1, AscendingShort
  <2>5. \A d \in Accepted' : FileOf(d)' = FileOf(d)
    BY <1>2, <2>1 DEF Accepted
  <2>6. OtherFiles'
    BY <2>1, <2>4, <2>5 DEF OtherFiles
  <2>7. OwnFile'
    BY <2>1 DEF OwnFile, FileOf, Found, FoundAgain, Drawn
  <2> QED
    BY <2>6, <2>7
<1>5. ASSUME NEW c \in Conn, Ask(c) PROVE (OtherFiles /\ OwnFile)'
  <2>1. UNCHANGED <<cb, step, target, local, list, file>> /\ Accepted' = Accepted
    BY <1>5 DEF Ask, listVars, cbVars, dataVars, Accepted
  <2> QED
    BY <2>1, FileFrame
<1>6. ASSUME NEW c \in Conn, Reset(c) PROVE (OtherFiles /\ OwnFile)'
  BY <1>1, <1>6 DEF Reset, ControlInv, ListTyped
<1>7. ASSUME NEW c \in Conn, Leave(c) PROVE (OtherFiles /\ OwnFile)'
  BY <1>1, <1>7 DEF Leave, ControlInv, ListTyped
<1>8. ASSUME NEW c \in Conn, BeginReport(c) PROVE (OtherFiles /\ OwnFile)'
  BY <1>1, <1>8 DEF BeginReport
<1>9. ASSUME NEW c \in Conn, Delete(c) PROVE (OtherFiles /\ OwnFile)'
  BY <1>1, <1>9 DEF Delete, ControlInv, ListTyped
<1>10. ASSUME NEW i \in 1..Len(clients), Erase(i) PROVE (OtherFiles /\ OwnFile)'
  <2>1. UNCHANGED <<cb, step, target, local, list, file>> /\ Accepted' = Accepted
    BY <1>10 DEF Erase, cbVars, dataVars, Accepted
  <2> QED
    BY <2>1, FileFrame
<1>11. ASSUME NEW c \in Conn, NEW k \in 1..MaxPending, Receive(c, k)
       PROVE  (OtherFiles /\ OwnFile)'
  <2>1. /\ cb = None /\ cb' = c /\ step' = "lookup" /\ UNCHANGED <<life, list, file>>
        /\ Accepted' = Accepted /\ c \in Accepted
    BY <1>11 DEF Receive, Step, listVars, dataVars, Accepted, ControlInv, CallbackInv
  <2>2. \A d \in Accepted : d \in Accepted \ {cb} /\ FileOf(d)' = FileOf(d)
    BY <1>2, <2>1, Constants DEF Accepted
  <2> QED
    BY <2>1, <2>2 DEF OtherFiles, OwnFile, Found, FoundAgain, Drawn
<1>12. ASSUME NEW c \in Conn, ReceiveError(c) PROVE (OtherFiles /\ OwnFile)'
  BY <1>1, <1>12 DEF ReceiveError, ControlInv, ListTyped
<1>13. ASSUME NEW c \in Conn, StoiThrows(c) PROVE (OtherFiles /\ OwnFile)'
  <2>1. UNCHANGED <<cb, step, target, local, list, file>> /\ Accepted' = Accepted
    BY <1>13 DEF StoiThrows, Ends, listVars, cbVars, dataVars, Accepted
  <2> QED
    BY <2>1, FileFrame
<1>14. CASE Lookup
  <2>1. Working
    BY <1>14 DEF Lookup, Step, Working, ControlInv, CallbackInv
  <2>2. /\ target' = cb /\ step = "lookup" /\ step' = "generate" /\ Accepted' = Accepted
        /\ UNCHANGED <<cb, list, file>>
    BY <1>14, <2>1, OwnId DEF Lookup, Step, listVars, dataVars, Accepted
  <2>3. cb \in Accepted /\ \A d \in Accepted : FileOf(d)' = FileOf(d)
    BY <1>2, <2>1, <2>2, OwnId DEF Accepted
  <2> QED
    BY <2>2, <2>3 DEF OtherFiles, OwnFile, Found, FoundAgain, Drawn
<1>15. CASE LookupAgain
  <2>1. Working
    BY <1>15 DEF LookupAgain, Step, Working, ControlInv, CallbackInv
  <2>2. /\ local' = cb /\ Accepted' = Accepted /\ UNCHANGED <<cb, target, list, file>>
        /\ \/ step = "generate" /\ step' = "draw"
           \/ step = "sort" /\ step' = "sorting"
           \/ step = "rewrite" /\ step' = "rewriting"
           \/ step = "send" /\ step' = "sending"
    BY <1>15, <2>1, OwnId DEF LookupAgain, Step, listVars, dataVars, Accepted
  <2>3. cb \in Accepted /\ \A d \in Accepted : FileOf(d)' = FileOf(d)
    BY <1>2, <2>1, <2>2, OwnId DEF Accepted
  <2> QED
    BY <2>2, <2>3 DEF OtherFiles, OwnFile, Found, FoundAgain, Drawn
<1>16. CASE Generate
  <2>1. Working
    BY <1>16 DEF Generate, Step, Working, ControlInv, CallbackInv
  <2>2. /\ step = "draw" /\ step' = "write" /\ Accepted' = Accepted /\ local = cb
        /\ list' = [list EXCEPT ![cb] = Append(list[cb], value')]
        /\ UNCHANGED <<cb, target, file>>
    BY <1>16 DEF Generate, Step, listVars, Accepted, OwnFile, FoundAgain
  <2>3. cb \in Conn /\ list \in [Conn -> Seq(Pool)] /\ Append(list[cb], value') # <<>>
    <3>1. cb \in Conn /\ list \in [Conn -> Seq(Pool)] /\ list[cb] \in Seq(Pool)
      BY <2>1, OwnList DEF NumbersInv, NumbersTyped
    <3>2. value' \in Pool
      BY <1>16 DEF Generate, Candidates
    <3> QED
      BY <3>1, <3>2
  <2>4. list'[cb] # <<>> /\ \A c \in Accepted \ {cb} : list'[c] = list[c]
    BY <2>2, <2>3 DEF Accepted
  <2>5. \A d \in Accepted : FileOf(d)' = FileOf(d)
    BY <1>2, <2>2 DEF Accepted
  <2> QED
    BY <2>2, <2>4, <2>5 DEF OtherFiles, OwnFile, Found, FoundAgain, Drawn
<1>17. CASE WriteFile
  <2>1. Working
    BY <1>17 DEF WriteFile, Step, Working, ControlInv, CallbackInv
  <2>2. /\ step = "write" /\ step' = "sort"
        /\ Accepted' = Accepted /\ UNCHANGED <<cb, target, list>>
    BY <1>17 DEF WriteFile, Step, listVars, Accepted
  <2>3. id = IdOf[cb] /\ target = cb /\ file' = Written(IdOf[cb], list[cb])
    BY <1>17, <2>1, <2>2, OwnId DEF WriteFile, OwnFile, Found, FoundAgain
  <2>4. /\ DOMAIN file' = DOMAIN file \cup {IdOf[cb]}
        /\ \A c \in Accepted : FileOf(c)' = IF c = cb THEN list[cb] ELSE FileOf(c)
    <3>1. \A c \in Conn : FileOf(c)' = IF IdOf[c] = IdOf[cb] THEN list[cb] ELSE FileOf(c)
      BY <2>3 DEF Written, FileOf
    <3>2. DOMAIN file' = DOMAIN file \cup {IdOf[cb]}
      BY <2>3 DEF Written
    <3> QED
      BY <2>1, <3>1, <3>2, OwnList
  <2>5. OtherFiles'
    BY <2>1, <2>2, <2>4, OwnList DEF OtherFiles
  <2>6. OwnFile'
    BY <2>1, <2>2, <2>4, OwnList DEF OwnFile, Found, FoundAgain, Drawn
  <2> QED
    BY <2>5, <2>6
<1>18. CASE SortList
  <2>1. Working
    BY <1>18 DEF SortList, Step, Working, ControlInv, CallbackInv
  <2>2. /\ step = "sorting" /\ Accepted' = Accepted /\ UNCHANGED <<cb, target, file>>
        /\ local = cb
    BY <1>18 DEF SortList, listVars, Accepted, OwnFile, FoundAgain
  <2>3. /\ cb \in Conn /\ list \in [Conn -> Seq(Pool)]
        /\ list[cb] \in Seq(Pool) /\ Different(list[cb])
    BY <2>1, OwnList DEF NumbersInv, NumbersTyped
  <2>4. cb \in Accepted /\ \A d \in Accepted : FileOf(d)' = FileOf(d)
    BY <1>2, <2>1, <2>2, OwnList DEF Accepted
  <2>5. CASE Len(list[cb]) <= 1
    <3>1. step' = "send" /\ UNCHANGED list
      BY <1>18, <2>2, <2>5 DEF SortList, IsSorted
    <3>2. list[cb] = Ascending(list[cb])
      BY <2>3, <2>5, AscendingShort
    <3> QED
      BY <2>2, <2>4, <3>1, <3>2 DEF OtherFiles, OwnFile, Found, FoundAgain, Drawn
  <2>6. CASE ~(Len(list[cb]) <= 1)
    <3>1. step' = "rewrite" /\ list' = [list EXCEPT ![cb] = Ascending(list[cb])]
      BY <1>18, <2>2, <2>6 DEF SortList, IsSorted
    <3>2. /\ Ascending(list[cb]) \in Seq(Pool)
          /\ DOMAIN Ascending(list[cb]) = DOMAIN list[cb]
          /\ Ascending(Ascending(list[cb])) = Ascending(list[cb])
      BY <2>3, AscendingFacts
    <3>3. /\ list'[cb] = Ascending(list[cb])
          /\ \A c \in Accepted \ {cb} : list'[c] = list[c]
      BY <2>3, <3>1 DEF Accepted
    <3>4. list'[cb] # <<>>
      BY <2>3, <2>6, <3>2, <3>3
    <3> QED
      BY <2>2, <2>4, <3>1, <3>2, <3>3, <3>4 DEF OtherFiles, OwnFile, Found,
         FoundAgain, Drawn
  <2> QED
    BY <2>5, <2>6
<1>19. CASE RewriteFile
  <2>1. Working
    BY <1>19 DEF RewriteFile, Step, Working, ControlInv, CallbackInv
  <2>2. /\ step = "rewriting" /\ step' = "send"
        /\ Accepted' = Accepted /\ UNCHANGED <<cb, target, list>>
    BY <1>19 DEF RewriteFile, Step, listVars, Accepted
  <2>3. id = IdOf[cb] /\ local = cb /\ file' = Written(IdOf[cb], list[cb])
    BY <1>19, <2>1, <2>2, OwnId DEF RewriteFile, OwnFile, Found, FoundAgain
  <2>4. /\ DOMAIN file' = DOMAIN file \cup {IdOf[cb]}
        /\ \A c \in Accepted : FileOf(c)' = IF c = cb THEN list[cb] ELSE FileOf(c)
    <3>1. \A c \in Conn : FileOf(c)' = IF IdOf[c] = IdOf[cb] THEN list[cb] ELSE FileOf(c)
      BY <2>3 DEF Written, FileOf
    <3>2. DOMAIN file' = DOMAIN file \cup {IdOf[cb]}
      BY <2>3 DEF Written
    <3> QED
      BY <2>1, <3>1, <3>2, OwnList
  <2>5. OtherFiles'
    BY <2>1, <2>2, <2>4, OwnList DEF OtherFiles
  <2>6. OwnFile'
    BY <2>1, <2>2, <2>4, OwnList DEF OwnFile, Found, FoundAgain, Drawn
  <2> QED
    BY <2>5, <2>6
<1>20. CASE Answer
  <2>1. Working
    BY <1>20 DEF Answer, Step, Working, ControlInv, CallbackInv
  <2>2. /\ step = "sending" /\ step' = "none" /\ cb' = None /\ Accepted' = Accepted
        /\ UNCHANGED <<list, file>>
    BY <1>20 DEF Answer, Step, listVars, Accepted
  <2>3. FileOf(cb) = Ascending(list[cb])
    BY <2>2 DEF OwnFile
  <2>4. \A d \in Accepted : FileOf(d)' = FileOf(d)
    BY <1>2, <2>2 DEF Accepted
  <2> QED
    BY <2>2, <2>3, <2>4 DEF OtherFiles, OwnFile, Found, FoundAgain, Drawn
<1>21. CASE AnswerKills
  <2>1. UNCHANGED <<cb, step, target, local, list, file>> /\ Accepted' = Accepted
    BY <1>21 DEF AnswerKills, Ends, listVars, cbVars, dataVars, Accepted
  <2> QED
    BY <2>1, FileFrame
<1>22. CASE EndReport
  <2>1. cb \in Conn /\ life'[cb] = "reported"
    BY <1>22 DEF EndReport, Step, ControlInv, ListTyped, CallbackTyped, CallbackInv
  <2> QED
    BY <1>1, <2>1
<1>23. CASE WildAccess
  <2>1. UNCHANGED <<cb, step, target, local, list, file>> /\ Accepted' = Accepted
    BY <1>23 DEF WildAccess, Ends, listVars, cbVars, dataVars, Accepted
  <2> QED
    BY <2>1, FileFrame
<1>24. CASE UNCHANGED vars
  <2>1. UNCHANGED <<cb, step, target, local, list, file>> /\ Accepted' = Accepted
    BY <1>24 DEF vars, listVars, cbVars, dataVars, Accepted
  <2> QED
    BY <2>1, FileFrame
<1> QED
  BY <1>3, <1>4, <1>5, <1>6, <1>7, <1>8, <1>9, <1>10, <1>11, <1>12, <1>13, <1>14,
     <1>15, <1>16, <1>17, <1>18, <1>19, <1>20, <1>21, <1>22, <1>23, <1>24 DEF Next,
     Callback, Receives, Peer

(* Only a client that is not yet in the list is taken for memory that is   *)
(* no client's, in orderly use; nothing happens after that.                *)
LEMMA WildStep ==
  ASSUME ControlInv, Orderly => OtherFiles /\ OwnFile, WildOnlyBeforePush, [Next]_vars
  PROVE  WildOnlyBeforePush'
<1> SUFFICES ASSUME Orderly', outcome' = "undefined"
             PROVE  \A i \in DOMAIN clients' : clients'[i] # cb'
  BY DEF WildOnlyBeforePush
<1>1. Orderly
  BY OrderlyStep
<1>2. CASE UNCHANGED vars
  BY <1>1, <1>2 DEF WildOnlyBeforePush, vars, listVars, cbVars
<1>3. CASE WildAccess
  <2>1. Working
    BY <1>3 DEF WildAccess, Looks, Uses, Working, ControlInv, CallbackInv
  <2>2. ~IsClient
    <3>1. life[cb] = "up"
      BY <1>1, <2>1, OwnId
    <3>2. /\ step \in Uses \ {"write"} => FoundAgain
          /\ step \in {"write", "rewriting"} => Found /\ Drawn
      BY DEF Uses, Found, FoundAgain, Drawn
    <3>3. step = "rewriting" => FoundAgain
      BY DEF FoundAgain
    <3> QED
      BY <1>1, <1>3, <3>1, <3>2, <3>3 DEF WildAccess, IsAlive, OwnFile
  <2>3. ASSUME NEW i \in DOMAIN clients, clients[i] = cb PROVE FALSE
    <3>1. i \in 1..Len(clients) /\ id = i - 1 /\ i \in Int /\ Len(clients) \in Nat
      BY <1>1, <2>1, <2>3, OwnId DEF Orderly, ControlInv, ListTyped
    <3>2. id < Len(clients) /\ id + 1 = i
      BY <3>1
    <3>3. ~Dangling(id + 1)
      BY <1>1, <2>1, <2>3, <3>2, OwnId DEF Dangling
    <3> QED
      BY <2>2, <3>2, <3>3 DEF IsClient
  <2> QED
    BY <1>3, <2>3 DEF WildAccess, Ends, listVars, cbVars
<1>4. UNCHANGED vars \/ WildAccess
  <2>1. outcome # "running" /\ ~(UNCHANGED vars) => outcome' # "undefined" \/ WildAccess
    BY DEF Next, Callback, Receives, Peer, Step, Push, Accept, Ask, Reset, Leave,
       BeginReport, Delete, Erase, Receive, ReceiveError, StoiThrows, Lookup,
       LookupAgain, Generate, WriteFile, SortList, RewriteFile, Answer, AnswerKills,
       EndReport
  <2>2. outcome = "running" => WildAccess
    BY DEF Next, Callback, Receives, Peer, Step, Push, Accept, Ask, Reset, Leave,
       BeginReport, Delete, Erase, Receive, ReceiveError, StoiThrows, Lookup,
       LookupAgain, Generate, WriteFile, SortList, RewriteFile, Answer, AnswerKills,
       EndReport, Ends, vars
  <2> QED
    BY <2>1, <2>2
<1> QED
  BY <1>2, <1>3, <1>4

(* Whatever the clients and the remover do, and in whatever order.         *)
THEOREM ServiceInvariant == Spec => [](ControlInv /\ NumbersInv /\ OrderlyInv)
<1>1. Init => ControlInv /\ NumbersInv /\ OrderlyInv
  BY ControlInit, NumbersInit, OrderlyInit
<1>2. ASSUME ControlInv, NumbersInv, OrderlyInv, [Next]_vars
      PROVE  (ControlInv /\ NumbersInv /\ OrderlyInv)'
  <2>1. ControlInv' /\ NumbersInv'
    BY <1>2, ControlStep, NumbersStep
  <2>2. FileTyped' /\ WildOnlyBeforePush'
    BY <1>2, FileTypedStep, WildStep DEF OrderlyInv
  <2>3. Orderly' => (OtherFiles /\ OwnFile)'
    BY <1>2, OrderlyStep, FileStep DEF OrderlyInv
  <2> QED
    BY <2>1, <2>2, <2>3 DEF OrderlyInv
<1> QED
  BY <1>1, <1>2, PTL DEF Spec

(* What the callback computes has the types of its variables: the clients  *)
(* that it looked up are some, and the sorted list is a list of numbers.   *)
THEOREM ServiceTyping == Spec => []TypeOK
<1>1. ControlInv /\ NumbersInv /\ OrderlyInv => TypeOK
  BY DEF ControlInv, ListTyped, PeerTyped, CallbackTyped, NumbersInv, NumbersTyped,
     OrderlyInv, FileTyped, Digits, TypeOK
<1> QED
  BY <1>1, ServiceInvariant, PTL

(* No number is in two lists or twice in one, nor in two answers           *)
(* (generateNumber looks in numbers, and one callback runs at a time).     *)
THEOREM NumbersDrawnOnce == Spec => []EachNumberOnce
<1>1. NumbersInv => EachNumberOnce
  <2> SUFFICES ASSUME NumbersInv PROVE EachNumberOnce
    OBVIOUS
  <2>1. ASSUME NEW c \in Conn, NEW d \in Conn, NEW i \in DOMAIN list[c], NEW j \in DOMAIN list[d],
               list[c][i] = list[d][j]
        PROVE  c = d /\ i = j
    <3>1. list[c][i] \in ValuesOf(list[c]) \cap ValuesOf(list[d])
      BY <2>1 DEF ValuesOf
    <3>2. c = d
      BY <3>1 DEF NumbersInv, ListsInv
    <3> QED
      BY <2>1, <3>2 DEF NumbersInv, ListsInv, Different
  <2>2. numbers = UNION {{list[c][i] : i \in DOMAIN list[c]} : c \in Conn}
    BY DEF NumbersInv, ListsInv, ValuesOf
  <2> QED
    BY <2>1, <2>2 DEF EachNumberOnce, NumbersInv, AnswersInv
<1> QED
  BY <1>1, ServiceInvariant, PTL

(* In orderly use the file of a client that is not being served has its    *)
(* numbers in ascending order: SortList leaves one number alone, and what  *)
(* RewriteFile writes stays until the next number (sortList).              *)
THEOREM FilesSorted == Spec => []FileSorted
<1>1. ASSUME ControlInv, OrderlyInv PROVE FileSorted
  <2>1. \A c \in Accepted : c # None
    BY Constants DEF Accepted
  <2> QED
    BY <1>1, <2>1 DEF OrderlyInv, OtherFiles, FileSorted
<1> QED
  BY <1>1, ServiceInvariant, PTL

(* In orderly use the callback uses memory that is not a client's in one   *)
(* case: it serves a client that acceptClient has not stored yet.          *)
THEOREM WildBeforePush == Spec => []WildOnlyBeforePush
BY ServiceInvariant, PTL DEF OrderlyInv
=============================================================================
