-------------------------- MODULE CausalOrderProofs --------------------------
(***************************************************************************)
(* What the histories of a graph of versions are: computed in one pass,    *)
(* they satisfy the equation one would define them by, and are transitive. *)
(*                                                                         *)
(* The pass is a recursive function, so TLA+ promises a function that      *)
(* satisfies its equation only if there is one.  It is exhibited: the past *)
(* of a version is what is in every set that is closed under parents and   *)
(* has the version.  That no other function satisfies the equation follows *)
(* from a least place at which another one would differ.                   *)
(***************************************************************************)
EXTENDS CausalOrder, TLAPS, WellFoundedInduction

\* Every non-empty set of naturals has a least element.
LEMMA LeastElement ==
  ASSUME NEW S, S \subseteq Nat, S # {}
  PROVE  \E x \in S : \A y \in S : x <= y
<1>1. IsWellFoundedOn(OpToRel(<, Nat), Nat)
  BY NatLessThanWellFounded
<1>2. PICK x \in S : \A y \in S : ~ (<<y, x>> \in OpToRel(<, Nat))
  BY <1>1, WFMin
<1>3. \A y \in S : <<y, x>> \in OpToRel(<, Nat) <=> y < x
  BY Zenon DEF OpToRel
<1>4. \A y \in S : ~ (y < x)
  BY <1>2, <1>3, Zenon
<1> QED
  BY <1>4

\* And every non-empty set of naturals below a bound a greatest one.
LEMMA GreatestElement ==
  ASSUME NEW S, S \subseteq Nat, S # {}, NEW n \in Nat, \A x \in S : x <= n
  PROVE  \E x \in S : \A y \in S : y <= x
<1> DEFINE T == {n - x : x \in S}
<1>1. T \subseteq Nat /\ T # {}
  <2>1. \A x \in S : n - x \in Nat
    OBVIOUS
  <2>2. PICK x \in S : TRUE
    OBVIOUS
  <2>3. n - x \in T
    OBVIOUS
  <2> QED
    BY <2>1, <2>3
<1> HIDE DEF T
<1>2. PICK t \in T : \A u \in T : t <= u
  BY <1>1, LeastElement
<1>3. PICK x \in S : t = n - x
  BY <1>2 DEF T
<1>4. \A y \in S : n - x <= n - y
  BY <1>2, <1>3 DEF T
<1> QED
  BY <1>4

\* What holds at 0 and passes from a number to the next.
LEMMA InductionTo ==
  ASSUME NEW n \in Nat, NEW S, 0 \in S, \A k \in 1 .. n : k - 1 \in S => k \in S
  PROVE  \A k \in 0 .. n : k \in S
<1> DEFINE Rest == (0 .. n) \ S
<1>1. SUFFICES ASSUME Rest # {} PROVE FALSE
  OBVIOUS
<1>2. Rest \subseteq Nat
  OBVIOUS
<1> HIDE DEF Rest
<1>3. PICK m \in Rest : \A l \in Rest : m <= l
  BY <1>1, <1>2, LeastElement
<1>4. m \in 1 .. n /\ m \notin S
  BY <1>3 DEF Rest
<1>5. m - 1 \in 0 .. n /\ ~ (m <= m - 1)
  BY <1>4
<1> QED
  BY <1>3, <1>4, <1>5 DEF Rest

\* A number is twice its half, or one more.
LEMMA HalfOf ==
  ASSUME NEW x \in Nat
  PROVE  x % 2 \in {0, 1} /\ x \div 2 \in Nat /\ x = 2 * (x \div 2) + (x % 2)
OBVIOUS

\* And that is the only way to halve it.
LEMMA HalfIs ==
  ASSUME NEW x \in Nat, NEW v \in Nat
  PROVE  /\ x = 2 * v => x % 2 = 0 /\ x \div 2 = v
         /\ x = 2 * v + 1 => x % 2 = 1 /\ x \div 2 = v
<1> DEFINE q == x \div 2
           r == x % 2
<1>1. r \in {0, 1} /\ q \in Nat /\ x = 2 * q + r
  BY HalfOf
<1> HIDE DEF q, r
<1>2. x = 2 * v => r = 0 /\ q = v
  BY <1>1
<1>3. x = 2 * v + 1 => r = 1 /\ q = v
  BY <1>1
<1> QED
  BY <1>2, <1>3 DEF q, r

\* The numbers of a set, the lowest first.
Rising(list, S) ==
  /\ list \in Seq(Nat)
  /\ \A i, j \in DOMAIN list : i < j => list[i] < list[j]
  /\ \A u : u \in S <=> \E i \in DOMAIN list : u = list[i]

\* A set has one list of its numbers.
LEMMA RisingIsUnique ==
  ASSUME NEW S, NEW s, Rising(s, S), NEW t, Rising(t, S)
  PROVE  s = t
<1> DEFINE m == Len(s)
           n == Len(t)
<1>1. /\ s \in Seq(Nat) /\ t \in Seq(Nat) /\ m \in Nat /\ n \in Nat /\ DOMAIN s = 1 .. m /\ DOMAIN t = 1 .. n
      /\ \A i \in 1 .. m : s[i] \in Nat
      /\ \A i \in 1 .. n : t[i] \in Nat
  BY DEF Rising
<1>2. /\ \A i, j \in 1 .. m : i < j => s[i] < s[j]
      /\ \A i, j \in 1 .. n : i < j => t[i] < t[j]
      /\ \A i \in 1 .. m : \E j \in 1 .. n : s[i] = t[j]
      /\ \A i \in 1 .. n : \E j \in 1 .. m : t[i] = s[j]
  BY <1>1 DEF Rising
<1> HIDE DEF m, n
<1> DEFINE Wrong == {k \in 1 .. m : ~ (k \in 1 .. n /\ s[k] = t[k])}
<1>3. ASSUME NEW k \in 1 .. m, \A i \in 1 .. (k - 1) : i \in 1 .. n /\ s[i] = t[i]
      PROVE  k \in 1 .. n /\ s[k] = t[k]
  <2>1. PICK j \in 1 .. n : s[k] = t[j]
    BY <1>2
  <2>2. ~ (j < k)
    <3> SUFFICES ASSUME j < k PROVE FALSE
      OBVIOUS
    <3>1. j \in 1 .. (k - 1) /\ j \in 1 .. m
      BY <1>1
    <3>2. s[j] = t[j] /\ s[j] < s[k] /\ s[j] \in Nat
      BY <1>1, <1>2, <1>3, <3>1
    <3> QED
      BY <2>1, <3>2
  <2>3. k \in 1 .. n
    BY <1>1, <2>2
  <2>4. ~ (k < j)
    <3> SUFFICES ASSUME k < j PROVE FALSE
      OBVIOUS
    <3>1. PICK l \in 1 .. m : t[k] = s[l]
      BY <1>2, <2>3
    <3>2. t[k] < t[j]
      BY <1>2, <2>3
    <3>3. s[l] < s[k]
      BY <2>1, <3>1, <3>2
    <3>4. ~ (k < l) /\ k # l
      <4>1. s[k] \in Nat /\ s[l] \in Nat /\ (k < l => s[k] < s[l])
        BY <1>1, <1>2
      <4> QED
        BY <3>3, <4>1
    <3>5. l \in 1 .. (k - 1)
      BY <1>1, <3>4
    <3>6. l \in 1 .. n /\ s[l] = t[l] /\ l < k
      BY <1>1, <1>3, <3>5
    <3>7. t[l] < t[k] /\ t[l] \in Nat /\ t[k] \in Nat
      BY <1>1, <1>2, <2>3, <3>6
    <3> QED
      BY <3>1, <3>6, <3>7
  <2>5. k = j
    BY <1>1, <2>2, <2>4
  <2> QED
    BY <2>1, <2>3, <2>5
<1>4. \A k \in 1 .. m : k \in 1 .. n /\ s[k] = t[k]
  <2> SUFFICES ASSUME Wrong # {} PROVE FALSE
    OBVIOUS
  <2>1. Wrong \subseteq Nat
    OBVIOUS
  <2>2. PICK k \in Wrong : \A l \in Wrong : k <= l
    <3> HIDE DEF Wrong
    <3> QED
      BY <2>1, LeastElement
  <2>3. \A i \in 1 .. (k - 1) : i \in 1 .. m /\ ~ (k <= i)
    BY <1>1
  <2>4. \A i \in 1 .. (k - 1) : i \in 1 .. n /\ s[i] = t[i]
    BY <2>2, <2>3
  <2> QED
    BY <1>3, <2>4
<1>5. n <= m
  <2> SUFFICES ASSUME m < n PROVE FALSE
    BY <1>1
  <2>1. m + 1 \in 1 .. n
    BY <1>1
  <2>2. PICK j \in 1 .. m : t[m + 1] = s[j]
    BY <1>2, <2>1
  <2>3. j \in 1 .. n /\ s[j] = t[j] /\ j < m + 1
    BY <1>1, <1>4
  <2>4. t[j] < t[m + 1] /\ t[j] \in Nat
    BY <1>1, <1>2, <2>1, <2>3
  <2> QED
    BY <2>2, <2>3, <2>4
<1>6. m = n
  <2>1. m # 0 => m \in 1 .. n
    BY <1>1, <1>4
  <2> QED
    BY <1>1, <1>5, <2>1
<1>7. \A k \in 1 .. m : s[k] = t[k]
  BY <1>4
<1> QED
  BY <1>1, <1>6, <1>7

-----------------------------------------------------------------------------
(* Graphs of n versions.                                                   *)

\* Parents come before their children.
Topological(par, n) ==
  /\ n \in Nat
  /\ DOMAIN par = 0 .. (n - 1)
  /\ \A v \in 0 .. (n - 1) : par[v] \subseteq 0 .. (v - 1)

ClosedUnder(par, S) == \A v \in S : par[v] \subseteq S

\* What every closed set with v has.
Past(par, n, v) == {w \in 0 .. (n - 1) : \A S \in SUBSET (0 .. (n - 1)) : ClosedUnder(par, S) /\ v \in S => w \in S}

\* A version's past is the version and the pasts of its parents.
LEMMA PastEquation ==
  ASSUME NEW par, NEW n, Topological(par, n), NEW v \in 0 .. (n - 1)
  PROVE  Past(par, n, v) = {v} \cup UNION {Past(par, n, p) : p \in par[v]}
<1> DEFINE D == 0 .. (n - 1)
           T == {v} \cup UNION {Past(par, n, p) : p \in par[v]}
<1>1. par[v] \subseteq D /\ n \in Nat
  BY DEF Topological
<1>2. \A p \in D : p \in Past(par, n, p) /\ Past(par, n, p) \subseteq D
  BY DEF Past
<1>3. \A p \in D : ClosedUnder(par, Past(par, n, p))
  <2> SUFFICES ASSUME NEW p \in D, NEW u \in Past(par, n, p), NEW w \in par[u]
               PROVE  w \in Past(par, n, p)
    BY DEF ClosedUnder
  <2>1. u \in D
    BY <1>2
  <2>2. w \in D
    BY <1>1, <2>1 DEF Topological
  <2>3. \A S \in SUBSET D : ClosedUnder(par, S) /\ p \in S => w \in S
    BY DEF Past, ClosedUnder
  <2> QED
    BY <2>2, <2>3 DEF Past
<1>4. T \subseteq D
  BY <1>1, <1>2
<1>5. ClosedUnder(par, T)
  <2> SUFFICES ASSUME NEW u \in T PROVE par[u] \subseteq T
    BY DEF ClosedUnder
  <2>1. CASE u = v
    BY <1>1, <1>2, <2>1
  <2>2. CASE \E p \in par[v] : u \in Past(par, n, p)
    <3>1. PICK p \in par[v] : u \in Past(par, n, p)
      BY <2>2
    <3>2. par[u] \subseteq Past(par, n, p)
      BY <1>1, <1>3, <3>1 DEF ClosedUnder
    <3> QED
      BY <3>1, <3>2
  <2> QED
    BY <2>1, <2>2
<1>6. Past(par, n, v) \subseteq T
  BY <1>4, <1>5 DEF Past
<1>7. ASSUME NEW w \in T PROVE w \in Past(par, n, v)
  <2>1. CASE w = v
    BY <1>2, <2>1
  <2>2. CASE \E p \in par[v] : w \in Past(par, n, p)
    <3>1. PICK p \in par[v] : w \in Past(par, n, p)
      BY <2>2
    <3>2. \A S \in SUBSET D : ClosedUnder(par, S) /\ v \in S => p \in S
      BY <3>1 DEF ClosedUnder
    <3>3. \A S \in SUBSET D : ClosedUnder(par, S) /\ v \in S => w \in S
      BY <3>1, <3>2 DEF Past
    <3>4. w \in D
      BY <1>1, <1>2, <3>1
    <3> QED
      BY <3>3, <3>4 DEF Past
  <2> QED
    BY <2>1, <2>2
<1> QED
  BY <1>6, <1>7

\* The pass computes the past of every version.
LEMMA HistoryIsPast ==
  ASSUME NEW par, NEW n, Topological(par, n)
  PROVE  HistoriesOf(par, n) = [v \in 0 .. (n - 1) |-> Past(par, n, v)]
<1> DEFINE Pass(f) == f = [k \in 0 .. n |-> IF k = 0 THEN <<>> ELSE WithVersion(f[k - 1], par[k - 1])]
           past    == [k \in 0 .. n |-> [i \in 1 .. k |-> Past(par, n, i - 1)]]
           upto    == CHOOSE f : Pass(f)
<1>1. n \in Nat
  BY DEF Topological
<1>2. HistoriesOf(par, n) = [v \in 0 .. (n - 1) |-> upto[n][v + 1]]
  BY DEF HistoriesOf
<1>3. ASSUME NEW k \in 1 .. n
      PROVE  past[k] = WithVersion(past[k - 1], par[k - 1])
  <2> DEFINE h == past[k - 1]
             x == {k - 1} \cup UNION {h[p + 1] : p \in par[k - 1]}
  <2>1. k - 1 \in 0 .. n /\ k - 1 \in 0 .. (n - 1) /\ k \in 0 .. n /\ k - 1 \in Nat
    BY <1>1
  <2>2. h = [i \in 1 .. (k - 1) |-> Past(par, n, i - 1)]
    BY <2>1
  <2>3. h \in Seq(SUBSET Nat) /\ Len(h) = k - 1
    <3>1. \A i \in 1 .. (k - 1) : Past(par, n, i - 1) \in SUBSET Nat
      BY <1>1 DEF Past
    <3> QED
      BY <2>1, <2>2, <3>1
  <2>4. par[k - 1] \subseteq 0 .. (k - 2)
    BY <2>1 DEF Topological
  <2>5. \A p \in par[k - 1] : h[p + 1] = Past(par, n, p)
    BY <2>1, <2>2, <2>4
  <2> HIDE DEF h
  <2>6. x = Past(par, n, k - 1) /\ x \in SUBSET Nat
    <3>1. x = Past(par, n, k - 1)
      BY <2>1, <2>5, PastEquation
    <3>2. Past(par, n, k - 1) \in SUBSET Nat
      BY <1>1 DEF Past
    <3> QED
      BY <3>1, <3>2
  <2> HIDE DEF x
  <2>7. Append(h, x) = [i \in 1 .. k |-> Past(par, n, i - 1)]
    <3>1. Append(h, x) = [i \in 1 .. (Len(h) + 1) |-> IF i = Len(h) + 1 THEN x ELSE h[i]]
      BY <2>3, <2>6
    <3>2. (k - 1) + 1 = k
      BY <2>1
    <3>3. \A i \in 1 .. k : i # k => i \in 1 .. (k - 1)
      BY <2>1
    <3> QED
      BY <2>2, <2>3, <2>6, <3>1, <3>2, <3>3
  <2>8. WithVersion(h, par[k - 1]) = Append(h, x)
    BY <2>3 DEF WithVersion, x
  <2> QED
    BY <2>1, <2>7, <2>8 DEF h
<1>4. past[0] = <<>>
  BY <1>1
<1>5. Pass(past)
  <2>1. \A k \in 0 .. n : past[k] = IF k = 0 THEN <<>> ELSE WithVersion(past[k - 1], par[k - 1])
    <3> SUFFICES ASSUME NEW k \in 0 .. n
                 PROVE  past[k] = IF k = 0 THEN <<>> ELSE WithVersion(past[k - 1], par[k - 1])
      OBVIOUS
    <3> HIDE DEF past
    <3>1. CASE k = 0
      BY <1>4, <3>1
    <3>2. CASE k # 0
      <4>1. k \in 1 .. n
        BY <1>1, <3>2
      <4> QED
        BY <1>3, <3>2, <4>1
    <3> QED
      BY <3>1, <3>2
  <2>2. past = [k \in 0 .. n |-> past[k]]
    OBVIOUS
  <2> HIDE DEF past
  <2> QED
    BY <2>1, <2>2
<1>6. Pass(upto)
  BY <1>5
<1> HIDE DEF upto, past
<1>7. /\ upto[0] = <<>>
      /\ \A k \in 1 .. n : upto[k] = WithVersion(upto[k - 1], par[k - 1])
  <2>1. \A k \in 0 .. n : upto[k] = IF k = 0 THEN <<>> ELSE WithVersion(upto[k - 1], par[k - 1])
    BY <1>6
  <2> HIDE DEF Pass
  <2> QED
    BY <1>1, <2>1
<1>8. \A k \in 0 .. n : upto[k] = past[k]
  <2> DEFINE Differ == {k \in 0 .. n : upto[k] # past[k]}
  <2> SUFFICES ASSUME Differ # {} PROVE FALSE
    OBVIOUS
  <2>1. Differ \subseteq Nat
    OBVIOUS
  <2> HIDE DEF Differ
  <2>2. PICK k \in Differ : \A j \in Differ : k <= j
    BY <2>1, LeastElement
  <2>3. k \in 0 .. n /\ upto[k] # past[k]
    BY <2>2 DEF Differ
  <2>4. k # 0
    BY <1>4, <1>7, <2>3
  <2>5. k \in 1 .. n /\ k - 1 \in 0 .. n /\ ~ (k <= k - 1)
    BY <1>1, <2>3, <2>4
  <2>6. upto[k - 1] = past[k - 1]
    BY <2>2, <2>5 DEF Differ
  <2> QED
    BY <1>3, <1>7, <2>3, <2>5, <2>6
<1>9. past[n] = [i \in 1 .. n |-> Past(par, n, i - 1)]
  BY <1>1 DEF past
<1>10. \A v \in 0 .. (n - 1) : upto[n][v + 1] = Past(par, n, v)
  <2>1. upto[n] = [i \in 1 .. n |-> Past(par, n, i - 1)]
    BY <1>1, <1>8, <1>9
  <2>2. \A v \in 0 .. (n - 1) : v + 1 \in 1 .. n /\ (v + 1) - 1 = v
    BY <1>1
  <2> QED
    BY <2>1, <2>2
<1> QED
  BY <1>2, <1>10

-----------------------------------------------------------------------------
(* What the other proofs use of histories.                                 *)

\* The equation one would define them by.
LEMMA HistoryEquation ==
  ASSUME NEW par, NEW n, Topological(par, n)
  PROVE  LET h == HistoriesOf(par, n)
         IN  /\ DOMAIN h = 0 .. (n - 1)
             /\ \A v \in 0 .. (n - 1) : h[v] = {v} \cup UNION {h[p] : p \in par[v]}
<1> DEFINE h == HistoriesOf(par, n)
<1>1. h = [v \in 0 .. (n - 1) |-> Past(par, n, v)]
  BY HistoryIsPast
<1> HIDE DEF h
<1>2. ASSUME NEW v \in 0 .. (n - 1)
      PROVE  h[v] = {v} \cup UNION {h[p] : p \in par[v]}
  <2>1. \A p \in par[v] : h[p] = Past(par, n, p)
    BY <1>1 DEF Topological
  <2> QED
    BY <1>1, <2>1, PastEquation
<1> QED
  BY <1>1, <1>2 DEF h

\* Histories reach down, and contain the histories of what they contain.
LEMMA HistoryOrder ==
  ASSUME NEW par, NEW n, Topological(par, n), NEW v \in 0 .. (n - 1)
  PROVE  LET h == HistoriesOf(par, n)
         IN  /\ v \in h[v]
             /\ h[v] \subseteq 0 .. v
             /\ \A w \in h[v] : w \in 0 .. (n - 1) /\ h[w] \subseteq h[v]
             /\ \A p \in par[v] : p \in 0 .. (n - 1) /\ h[p] \subseteq h[v]
             /\ \A w \in h[v] : w = v \/ \E p \in par[v] : w \in h[p]
<1> DEFINE h == HistoriesOf(par, n)
<1>1. h = [u \in 0 .. (n - 1) |-> Past(par, n, u)] /\ n \in Nat
  BY HistoryIsPast DEF Topological
<1>2. h[v] = {v} \cup UNION {h[p] : p \in par[v]}
  BY HistoryEquation
<1>3. par[v] \subseteq 0 .. (n - 1)
  BY <1>1 DEF Topological
<1> HIDE DEF h
<1>4. h[v] \subseteq 0 .. v
  <2>1. 0 .. v \in SUBSET (0 .. (n - 1)) /\ v \in 0 .. v
    BY <1>1
  <2>2. ClosedUnder(par, 0 .. v)
    <3> SUFFICES ASSUME NEW u \in 0 .. v PROVE par[u] \subseteq 0 .. v
      BY DEF ClosedUnder
    <3>1. par[u] \subseteq 0 .. (u - 1)
      BY <1>1 DEF Topological
    <3> QED
      BY <3>1
  <2> QED
    BY <1>1, <2>1, <2>2 DEF Past
<1>5. \A w \in h[v] : w \in 0 .. (n - 1) /\ h[w] \subseteq h[v]
  BY <1>1 DEF Past
<1> QED
  BY <1>2, <1>3, <1>4, <1>5 DEF h

\* The frontier of a whole graph is what is nobody's parent.
LEMMA DominatorsAreChildless ==
  ASSUME NEW par, NEW n, Topological(par, n)
  PROVE  DominatorsOf(HistoriesOf(par, n), 0 .. (n - 1)) =
           {v \in 0 .. (n - 1) : \A w \in 0 .. (n - 1) : v \notin par[w]}
<1> DEFINE h == HistoriesOf(par, n)
           D == 0 .. (n - 1)
<1>1. n \in Nat /\ \A w \in D : par[w] \subseteq 0 .. (w - 1)
  BY DEF Topological
<1>2. \A w \in D : /\ w \in h[w]
                   /\ \A p \in par[w] : p \in D /\ h[p] \subseteq h[w]
                   /\ \A u \in h[w] : u = w \/ \E p \in par[w] : u \in h[p]
  BY HistoryOrder
<1> HIDE DEF h
<1>3. ASSUME NEW v \in D, NEW w \in D, v \in par[w]
      PROVE  w # v /\ v \in h[w]
  BY <1>1, <1>2, <1>3
<1>4. ASSUME NEW v \in D, NEW w \in D, w # v, v \in h[w]
      PROVE  \E u \in D : v \in par[u]
  <2> DEFINE After == {u \in D : u # v /\ v \in h[u]}
  <2>1. After \subseteq Nat /\ w \in After
    BY <1>4
  <2> HIDE DEF After
  <2>2. PICK u \in After : \A x \in After : u <= x
    BY <2>1, LeastElement
  <2>3. u \in D /\ u # v /\ v \in h[u]
    BY <2>2 DEF After
  <2>4. PICK p \in par[u] : v \in h[p]
    BY <1>2, <2>3
  <2>5. p \in D /\ p < u
    BY <1>1, <1>2, <2>3
  <2>6. p \notin After
    BY <2>2, <2>3, <2>5
  <2>7. p = v
    BY <2>4, <2>5, <2>6 DEF After
  <2> QED
    BY <2>3, <2>7
<1>5. DominatorsOf(h, D) = {v \in D : \A w \in D \ {v} : v \notin h[w]}
  BY DEF DominatorsOf
<1> QED
  BY <1>3, <1>4, <1>5 DEF h

\* Along a run every version but the first follows the one before it: the
\* history of one is the run up to it, and what the parents of the run have.
LEMMA RunHistory ==
  ASSUME NEW par, NEW n, Topological(par, n), NEW v \in 0 .. (n - 1), NEW s \in 0 .. v,
         \A w \in (s + 1) .. v : par[w] = {w - 1}, NEW t
  PROVE  LET h == HistoriesOf(par, n)
         IN  t \in h[v] <=> t \in s .. v \/ \E p \in par[s] : t \in h[p]
<1> DEFINE h == HistoriesOf(par, n)
           Says(w) == t \in h[w] <=> t \in s .. w \/ \E p \in par[s] : t \in h[p]
           Wrong == {w \in s .. v : ~ Says(w)}
<1>1. n \in Nat /\ v \in Nat /\ s \in Nat /\ v \in s .. v
  BY DEF Topological
<1>2. \A w \in 0 .. (n - 1) : h[w] = {w} \cup UNION {h[p] : p \in par[w]}
  BY HistoryEquation
<1> HIDE DEF h
<1>3. Wrong = {}
  <2> SUFFICES ASSUME Wrong # {} PROVE FALSE
    OBVIOUS
  <2>1. Wrong \subseteq Nat
    BY <1>1
  <2> HIDE DEF Wrong
  <2>2. PICK w \in Wrong : \A u \in Wrong : w <= u
    BY <2>1, LeastElement
  <2>3. w \in s .. v /\ ~ Says(w)
    BY <2>2 DEF Wrong
  <2>4. w \in 0 .. (n - 1) /\ h[w] = {w} \cup UNION {h[p] : p \in par[w]}
    <3>1. w \in 0 .. (n - 1)
      BY <1>1, <2>3
    <3> QED
      BY <1>2, <3>1
  <2>5. CASE w = s
    <3>1. h[w] = {w} \cup UNION {h[p] : p \in par[s]}
      BY <2>4, <2>5
    <3>2. t = w <=> t \in s .. w
      BY <1>1, <2>5
    <3> QED
      BY <2>3, <3>1, <3>2
  <2>6. CASE w # s
    <3>1. w - 1 \in s .. v /\ ~ (w <= w - 1) /\ w \in (s + 1) .. v
      BY <1>1, <2>3, <2>6
    <3>2. Says(w - 1)
      BY <2>2, <3>1 DEF Wrong
    <3>3. h[w] = {w} \cup h[w - 1]
      BY <2>4, <3>1
    <3>4. t = w \/ t \in s .. (w - 1) <=> t \in s .. w
      BY <1>1, <2>3, <3>1
    <3> QED
      BY <2>3, <3>2, <3>3, <3>4
  <2> QED
    BY <2>5, <2>6
<1> QED
  BY <1>1, <1>3 DEF h

-----------------------------------------------------------------------------
(* A search for a target back from a queue of versions, run by run.        *)

\* What it is to find: something queued has the target in its history.
Leads(h, target, q) == \E v \in q : v <= target \/ target \in h[v]

\* From a run that starts above the target, the search goes on with the queue
\* below the run and with the parents of the run.
LEMMA LeadsBelow ==
  ASSUME NEW par, NEW n, Topological(par, n), NEW target \in 0 .. (n - 1),
         NEW q \in SUBSET (0 .. (n - 1)), NEW m \in q, \A v \in q : v <= m,
         NEW s \in 0 .. m, target < s, \A w \in (s + 1) .. m : par[w] = {w - 1}
  PROVE  LET h == HistoriesOf(par, n)
         IN  Leads(h, target, q) <=>
               \/ target \in par[s]
               \/ Leads(h, target, {w \in q : w < s} \cup {p \in par[s] : p > target})
<1> DEFINE h == HistoriesOf(par, n)
           r == {w \in q : w < s} \cup {p \in par[s] : p > target}
<1>1. n \in Nat /\ m \in Nat /\ s \in Nat /\ target \in Nat /\ s \in 0 .. (n - 1)
      /\ \A v \in q : v \in Nat
  BY DEF Topological
<1>2. \A w \in s .. m : target \in h[w] <=> \E p \in par[s] : target \in h[p]
  <2> SUFFICES ASSUME NEW w \in s .. m
               PROVE  target \in h[w] <=> \E p \in par[s] : target \in h[p]
    OBVIOUS
  <2>1. w \in 0 .. (n - 1) /\ s \in 0 .. w /\ ~ (target \in s .. w)
        /\ \A u \in (s + 1) .. w : par[u] = {u - 1}
    BY <1>1
  <2> HIDE DEF h
  <2> QED
    BY <2>1, RunHistory DEF h
<1>3. par[s] \subseteq 0 .. (n - 1)
  BY <1>1 DEF Topological
<1>4. \A v \in 0 .. (n - 1) : v \in h[v] /\ h[v] \subseteq 0 .. v
  BY HistoryOrder
<1>5. m \in s .. m
  BY <1>1
<1> HIDE DEF h
<1>6. ASSUME NEW p \in par[s], target \in h[p]
      PROVE  target = p \/ p \in r
  <2>1. p \in Nat /\ target <= p
    BY <1>1, <1>3, <1>4, <1>6
  <2> QED
    BY <1>1, <2>1
<1>7. ASSUME NEW v \in q, v <= target \/ target \in h[v]
      PROVE  target \in par[s] \/ \E u \in r : u <= target \/ target \in h[u]
  <2>1. CASE v < s
    BY <1>7, <2>1
  <2>2. CASE ~ (v < s)
    <3>1. v \in s .. m /\ ~ (v <= target)
      BY <1>1, <2>2
    <3>2. PICK p \in par[s] : target \in h[p]
      BY <1>2, <1>7, <3>1
    <3> QED
      BY <1>6, <3>2
  <2> QED
    BY <2>1, <2>2
<1>8. ASSUME target \in par[s]
      PROVE  target \in h[m]
  BY <1>2, <1>4, <1>5, <1>8
<1>9. ASSUME NEW u \in r, u <= target \/ target \in h[u]
      PROVE  \E v \in q : v <= target \/ target \in h[v]
  <2>1. CASE u \in q
    BY <1>9, <2>1
  <2>2. CASE u \in par[s] /\ u > target
    <3>1. target \in h[u]
      BY <1>1, <1>3, <1>9, <2>2
    <3>2. target \in h[m]
      BY <1>2, <1>5, <2>2, <3>1
    <3> QED
      BY <3>2
  <2> QED
    BY <2>1, <2>2
<1> HIDE DEF r
<1>10. Leads(h, target, q) <=> target \in par[s] \/ Leads(h, target, r)
  BY <1>7, <1>8, <1>9 DEF Leads
<1> QED
  BY <1>10 DEF h, r

\* Such a search is a recursive function of the queue, which gets lower.
Search(c, Q, stop, below) == \A q \in Q : c[q] <=> q # {} /\ (stop[q] \/ c[below[q]])

Descends(Q, below, height) ==
  /\ \A q \in Q : q # {} => height[q] \in Nat /\ below[q] \in Q
  /\ \A q \in Q : q # {} /\ below[q] # {} => height[below[q]] < height[q]

\* There is one such function at most: one that answers the question is the one.
LEMMA SearchIsUnique ==
  ASSUME NEW Q, NEW height, NEW stop, NEW below, NEW a, NEW b,
         Descends(Q, below, height), Search(a, Q, stop, below), Search(b, Q, stop, below)
  PROVE  \A q \in Q : a[q] <=> b[q]
<1> DEFINE Differ(q) == q # {} /\ ~ (a[q] <=> b[q])
           Heights == {height[q] : q \in {p \in Q : Differ(p)}}
<1> SUFFICES ASSUME NEW x \in Q, ~ (a[x] <=> b[x]) PROVE FALSE
  OBVIOUS
<1>1. Differ(x)
  BY DEF Search
<1>2. Heights \subseteq Nat /\ height[x] \in Heights
  BY <1>1 DEF Descends
<1> HIDE DEF Heights
<1>3. PICK k \in Heights : \A l \in Heights : k <= l
  BY <1>2, LeastElement
<1>4. PICK q \in Q : Differ(q) /\ k = height[q]
  BY <1>3 DEF Heights
<1>5. below[q] \in Q /\ (a[q] <=> stop[q] \/ a[below[q]]) /\ (b[q] <=> stop[q] \/ b[below[q]])
  BY <1>4 DEF Search, Descends
<1>6. Differ(below[q])
  BY <1>4, <1>5 DEF Search
<1>7. height[below[q]] \in Heights /\ height[below[q]] < height[q] /\ height[below[q]] \in Nat /\ height[q] \in Nat
  BY <1>4, <1>5, <1>6 DEF Heights, Descends
<1> QED
  BY <1>3, <1>4, <1>7

-----------------------------------------------------------------------------
(* A walk back from a frontier, run by run.                                *)

\* Below the version l, the versions in Q stand for the frontier X.
Follows(h, X, Q, l) ==
  \A u \in 0 .. (l - 1) : (\E v \in X : u \in h[v]) <=> (\E v \in Q : u \in h[v])

\* Between s and m every version follows the one before it only.
IsRun(par, s, m) == \A w \in (s + 1) .. m : par[w] = {w - 1}

\* When the walk takes the run from s to the highest version m of a queue, what
\* the frontier has of the run is what is below a queued version; and below the
\* run the rest of the queue and, where some of it was passed, the parents ps of
\* the run stand for the frontier.
RunPassed(h, X, Q, ps, s, m, l) ==
  /\ \A u \in (m + 1) .. (l - 1) : ~ \E v \in X : u \in h[v]
  /\ \A u \in s .. m : (\E v \in X : u \in h[v]) <=> (\E q \in Q : u <= q)
  /\ Follows(h, X, {q \in Q : q < s} \cup {p \in ps : \E q \in Q : s <= q}, s)

\* That is so of the highest version of the queue.
LEMMA FollowsBelow ==
  ASSUME NEW par, NEW n, Topological(par, n), NEW X, NEW l \in 0 .. n,
         NEW m \in 0 .. (l - 1), NEW Q \in SUBSET (0 .. m),
         NEW s \in 0 .. m, IsRun(par, s, m),
         Follows(HistoriesOf(par, n), X, Q, l)
  PROVE  RunPassed(HistoriesOf(par, n), X, Q, par[s], s, m, l)
<1> DEFINE h == HistoriesOf(par, n)
<1>1. n \in Nat /\ l \in Nat /\ m \in Nat /\ s \in Nat /\ m < l /\ l <= n /\ s <= m
  BY DEF Topological
<1>2. \A q \in Q : q \in Nat /\ q <= m /\ q \in 0 .. (n - 1) /\ h[q] \subseteq 0 .. q
  <2> SUFFICES ASSUME NEW q \in Q PROVE q \in Nat /\ q <= m /\ q \in 0 .. (n - 1) /\ h[q] \subseteq 0 .. q
    OBVIOUS
  <2>1. q \in Nat /\ q <= m /\ q \in 0 .. (n - 1)
    BY <1>1
  <2> QED
    BY <2>1, HistoryOrder
<1>3. \A q \in Q, u \in 0 .. m :
        s <= q => (u \in h[q] <=> (s <= u /\ u <= q) \/ \E p \in par[s] : u \in h[p])
  <2> SUFFICES ASSUME NEW q \in Q, NEW u \in 0 .. m, s <= q
               PROVE  u \in h[q] <=> (s <= u /\ u <= q) \/ \E p \in par[s] : u \in h[p]
    OBVIOUS
  <2>1. q \in 0 .. (n - 1) /\ s \in 0 .. q /\ \A w \in (s + 1) .. q : par[w] = {w - 1}
    BY <1>1, <1>2 DEF IsRun
  <2>2. u \in s .. q <=> s <= u /\ u <= q
    BY <1>1, <1>2
  <2> HIDE DEF h
  <2>3. u \in h[q] <=> u \in s .. q \/ \E p \in par[s] : u \in h[p]
    BY <2>1, RunHistory DEF h
  <2> QED
    BY <2>2, <2>3
<1>4. \A p \in par[s] : h[p] \subseteq 0 .. (s - 1)
  <2> SUFFICES ASSUME NEW p \in par[s] PROVE h[p] \subseteq 0 .. (s - 1)
    OBVIOUS
  <2>1. s \in 0 .. (n - 1)
    BY <1>1
  <2>2. p \in 0 .. (s - 1) /\ p \in 0 .. (n - 1)
    BY <1>1, <2>1 DEF Topological
  <2>3. h[p] \subseteq 0 .. p
    BY <2>2, HistoryOrder
  <2> HIDE DEF h
  <2> QED
    BY <1>1, <2>2, <2>3
<1>5. \A u \in 0 .. (l - 1) : (\E v \in X : u \in h[v]) <=> (\E q \in Q : u \in h[q])
  BY DEF Follows
<1> HIDE DEF h
<1>6. \A u \in (m + 1) .. (l - 1) : ~ \E v \in X : u \in h[v]
  <2> SUFFICES ASSUME NEW u \in (m + 1) .. (l - 1) PROVE ~ \E v \in X : u \in h[v]
    OBVIOUS
  <2>1. u \in 0 .. (l - 1) /\ m < u
    BY <1>1
  <2>2. \A q \in Q : u \notin h[q]
    <3> SUFFICES ASSUME NEW q \in Q, u \in h[q] PROVE FALSE
      OBVIOUS
    <3>1. u \in 0 .. q /\ q \in Nat /\ q <= m
      BY <1>2
    <3> QED
      BY <1>1, <2>1, <3>1
  <2> QED
    BY <1>5, <2>1, <2>2
<1>7. \A u \in s .. m : (\E v \in X : u \in h[v]) <=> (\E q \in Q : u <= q)
  <2> SUFFICES ASSUME NEW u \in s .. m PROVE (\E v \in X : u \in h[v]) <=> (\E q \in Q : u <= q)
    OBVIOUS
  <2>1. u \in 0 .. (l - 1) /\ u \in 0 .. m /\ s <= u /\ u \in Nat
    BY <1>1
  <2>2. \A p \in par[s] : u \notin h[p]
    <3> SUFFICES ASSUME NEW p \in par[s], u \in h[p] PROVE FALSE
      OBVIOUS
    <3>1. u \in 0 .. (s - 1)
      BY <1>4
    <3> QED
      BY <1>1, <2>1, <3>1
  <2>3. \A q \in Q : u \in h[q] <=> u <= q
    <3> SUFFICES ASSUME NEW q \in Q PROVE u \in h[q] <=> u <= q
      OBVIOUS
    <3>1. q \in Nat /\ (u \in h[q] => u \in 0 .. q)
      BY <1>2
    <3>2. u <= q => s <= q
      BY <1>1, <2>1, <3>1
    <3>3. s <= q => (u \in h[q] <=> (s <= u /\ u <= q) \/ \E p \in par[s] : u \in h[p])
      BY <1>3, <2>1
    <3>4. u \in 0 .. q => u <= q
      BY <2>1, <3>1
    <3> QED
      BY <2>1, <2>2, <3>1, <3>2, <3>3, <3>4
  <2> QED
    BY <1>5, <2>1, <2>3
<1>8. Follows(h, X, {q \in Q : q < s} \cup {p \in par[s] : \E q \in Q : s <= q}, s)
  <2> DEFINE R == {q \in Q : q < s} \cup {p \in par[s] : \E q \in Q : s <= q}
  <2> SUFFICES ASSUME NEW u \in 0 .. (s - 1)
               PROVE  (\E v \in X : u \in h[v]) <=> (\E v \in R : u \in h[v])
    BY DEF Follows
  <2>1. u \in 0 .. (l - 1) /\ u \in 0 .. m /\ ~ (s <= u)
    BY <1>1
  <2>2. \A q \in Q : s <= q => (u \in h[q] <=> \E p \in par[s] : u \in h[p])
    BY <1>3, <2>1
  <2>3. \A q \in Q : q < s \/ s <= q
    <3>1. \A q \in Q : q \in Nat
      BY <1>2
    <3> QED
      BY <1>1, <3>1
  <2> QED
    BY <1>5, <2>1, <2>2, <2>3
<1> QED
  BY <1>6, <1>7, <1>8 DEF h, RunPassed

-----------------------------------------------------------------------------
(* Recursive functions of a number.                                        *)

\* A value passed along n steps.
StepsWithin(step, n, T) == \A k \in 1 .. n, x \in T : step[k][x] \in T

Passed(f, first, step, n, T) ==
  /\ f \in [0 .. n -> T]
  /\ f[0] = first
  /\ \A k \in 1 .. n : f[k] = step[k][f[k - 1]]

\* There is such a function.
LEMMA StepsExist ==
  ASSUME NEW n \in Nat, NEW T, NEW first \in T, NEW step, StepsWithin(step, n, T)
  PROVE  \E f : Passed(f, first, step, n, T)
<1> DEFINE Upto(f, m) == Passed(f, first, step, m, T)
           None == {m \in 0 .. n : ~ \E f : Upto(f, m)}
<1>1. None = {}
  <2> SUFFICES ASSUME None # {} PROVE FALSE
    OBVIOUS
  <2>1. None \subseteq Nat
    OBVIOUS
  <2> HIDE DEF None
  <2>2. PICK m \in None : \A l \in None : m <= l
    BY <2>1, LeastElement
  <2>3. m \in 0 .. n /\ ~ \E f : Upto(f, m)
    BY <2>2 DEF None
  <2>4. CASE m = 0
    <3>1. Upto([k \in 0 .. 0 |-> first], 0)
      BY DEF Passed
    <3> QED
      BY <2>3, <2>4, <3>1
  <2>5. CASE m # 0
    <3>1. m - 1 \in 0 .. n /\ ~ (m <= m - 1) /\ m \in 1 .. n /\ m - 1 \in 0 .. (m - 1)
      BY <2>3, <2>5
    <3>2. PICK f : Upto(f, m - 1)
      BY <2>2, <3>1 DEF None
    <3> DEFINE e == [k \in 0 .. m |-> IF k = m THEN step[m][f[m - 1]] ELSE f[k]]
    <3>3. f[m - 1] \in T
      BY <3>1, <3>2 DEF Passed
    <3>4. step[m][f[m - 1]] \in T
      BY <3>1, <3>3 DEF StepsWithin
    <3>5. \A k \in 0 .. m : k = m \/ k \in 0 .. (m - 1)
      BY <3>1
    <3>6. \A k \in 1 .. m : k - 1 \in 0 .. (m - 1) /\ k - 1 # m /\ (k = m \/ k \in 1 .. (m - 1))
      BY <3>1
    <3>7. e \in [0 .. m -> T]
      BY <3>2, <3>4, <3>5 DEF Passed
    <3>8. e[0] = first
      BY <2>3, <2>5, <3>2 DEF Passed
    <3>9. \A k \in 1 .. m : e[k] = step[k][e[k - 1]]
      BY <3>1, <3>2, <3>6 DEF Passed
    <3>10. Upto(e, m)
      BY <3>7, <3>8, <3>9 DEF Passed
    <3> QED
      BY <2>3, <3>10
  <2> QED
    BY <2>4, <2>5
<1>2. n \in 0 .. n
  OBVIOUS
<1> QED
  BY <1>1, <1>2

\* A loop whose variables have a level of at most n, each iteration of which
\* takes them to a lower one until the loop is done.
Descent(T, step, done, level, n) ==
  \A x \in T :
    /\ level[x] \subseteq 0 .. n /\ level[x] # {}
    /\ x \in done => step[x] = x
    /\ x \notin done => step[x] \in T /\ \A l \in level[x] : \E k \in level[step[x]] : k < l

Iterates(f, first, step, n, T) ==
  /\ f[0] = first
  /\ \A k \in 1 .. n : f[k - 1] \in T => f[k] = step[f[k - 1]]

\* The values its variables take.
Iteration(f, first, step, n, T) ==
  /\ f \in [0 .. n -> T]
  /\ f[0] = first
  /\ \A k \in 1 .. n : f[k] = step[f[k - 1]]

\* It is done after n iterations.
LEMMA IterationEnds ==
  ASSUME NEW n \in Nat, NEW T, NEW first \in T, NEW step, NEW done, NEW level,
         Descent(T, step, done, level, n)
  PROVE  /\ \E f : Iteration(f, first, step, n, T)
         /\ \A f : Iterates(f, first, step, n, T) => f[n] \in T /\ f[n] \in done
<1>1. \A x \in T : step[x] \in T
  BY DEF Descent
<1>2. \E f : Iteration(f, first, step, n, T)
  <2> DEFINE steps == [k \in 1 .. n |-> step]
  <2>1. StepsWithin(steps, n, T) /\ \A k \in 1 .. n : steps[k] = step
    BY <1>1 DEF StepsWithin
  <2> HIDE DEF steps
  <2>2. PICK f : Passed(f, first, steps, n, T)
    BY <2>1, StepsExist
  <2> QED
    BY <2>1, <2>2 DEF Passed, Iteration
<1>3. ASSUME NEW f, Iterates(f, first, step, n, T)
      PROVE  f[n] \in T /\ f[n] \in done
  <2> DEFINE Good(k) == f[k] \in T /\ (f[k] \in done \/ \E l \in level[f[k]] : l <= n - k)
             Bad     == {k \in 0 .. n : ~ Good(k)}
  <2>1. Bad = {}
    <3> SUFFICES ASSUME Bad # {} PROVE FALSE
      OBVIOUS
    <3>1. Bad \subseteq Nat
      OBVIOUS
    <3> HIDE DEF Bad
    <3>2. PICK k \in Bad : \A j \in Bad : k <= j
      BY <3>1, LeastElement
    <3>3. k \in 0 .. n /\ ~ Good(k)
      BY <3>2 DEF Bad
    <3>4. CASE k = 0
      <4>1. f[k] = first /\ f[k] \in T
        BY <1>3, <3>4 DEF Iterates
      <4>2. PICK l \in level[f[k]] : TRUE
        BY <4>1 DEF Descent
      <4>3. l <= n - k
        BY <3>4, <4>1, <4>2 DEF Descent
      <4> QED
        BY <3>3, <4>1, <4>3
    <3>5. CASE k # 0
      <4>1. k - 1 \in 0 .. n /\ ~ (k <= k - 1) /\ k \in 1 .. n
        BY <3>3, <3>5
      <4>2. Good(k - 1)
        BY <3>2, <4>1 DEF Bad
      <4>3. f[k] = step[f[k - 1]]
        BY <1>3, <4>1, <4>2 DEF Iterates
      <4>4. CASE f[k - 1] \in done
        <5>1. f[k] = f[k - 1]
          BY <4>2, <4>3, <4>4 DEF Descent
        <5> QED
          BY <3>3, <4>2, <4>4, <5>1
      <4>5. CASE f[k - 1] \notin done
        <5>1. PICK l \in level[f[k - 1]] : l <= n - (k - 1)
          BY <4>2, <4>5
        <5>2. f[k] \in T /\ \E j \in level[f[k]] : j < l
          BY <4>2, <4>3, <4>5 DEF Descent
        <5>3. PICK j \in level[f[k]] : j < l
          BY <5>2
        <5>4. l \in Nat /\ j \in Nat
          BY <4>2, <5>1, <5>2, <5>3 DEF Descent
        <5>5. j <= n - k
          BY <3>3, <5>1, <5>3, <5>4
        <5> QED
          BY <3>3, <5>2, <5>5
      <4> QED
        BY <4>4, <4>5
    <3> QED
      BY <3>4, <3>5
  <2>2. Good(n)
    BY <2>1
  <2>3. f[n] \in T /\ (f[n] \in done \/ \E l \in level[f[n]] : l <= 0)
    BY <2>2
  <2>4. ASSUME f[n] \notin done PROVE FALSE
    <3>1. PICK l \in level[f[n]] : l <= 0
      BY <2>3, <2>4
    <3>2. step[f[n]] \in T /\ \E j \in level[step[f[n]]] : j < l
      BY <2>3, <2>4 DEF Descent
    <3>3. PICK j \in level[step[f[n]]] : j < l
      BY <3>2
    <3>4. l \in Nat /\ j \in Nat
      BY <2>3, <3>1, <3>2, <3>3 DEF Descent
    <3> QED
      BY <3>1, <3>3, <3>4
  <2> QED
    BY <2>3, <2>4
<1> QED
  BY <1>2, <1>3

\* What a number leads down to, at whose end it stays.
LEMMA DescentExists ==
  ASSUME NEW n \in Nat, NEW next, \A k \in 0 .. n : next[k] \in 0 .. k
  PROVE  \E f : /\ f \in [0 .. n -> 0 .. n]
                /\ \A k \in 0 .. n : f[k] = IF next[k] = k THEN k ELSE f[next[k]]
<1> DEFINE Upto(f, m) == /\ f \in [0 .. m -> 0 .. n]
                         /\ \A k \in 0 .. m : f[k] = IF next[k] = k THEN k ELSE f[next[k]]
           None == {m \in 0 .. n : ~ \E f : Upto(f, m)}
<1>1. None = {}
  <2> SUFFICES ASSUME None # {} PROVE FALSE
    OBVIOUS
  <2>1. None \subseteq Nat
    OBVIOUS
  <2> HIDE DEF None
  <2>2. PICK m \in None : \A l \in None : m <= l
    BY <2>1, LeastElement
  <2>3. m \in 0 .. n /\ ~ \E f : Upto(f, m)
    BY <2>2 DEF None
  <2>4. CASE m = 0
    <3>1. \A k \in 0 .. 0 : k = 0 /\ next[k] = k
      OBVIOUS
    <3>2. Upto([k \in 0 .. 0 |-> 0], 0)
      BY <3>1
    <3> QED
      BY <2>3, <2>4, <3>2
  <2>5. CASE m # 0
    <3>1. m - 1 \in 0 .. n /\ ~ (m <= m - 1) /\ m \in Nat
      BY <2>3, <2>5
    <3>2. PICK f : Upto(f, m - 1)
      BY <2>2, <3>1 DEF None
    <3> DEFINE x == IF next[m] = m THEN m ELSE f[next[m]]
               e == [k \in 0 .. m |-> IF k = m THEN x ELSE f[k]]
    <3>3. next[m] \in 0 .. m /\ (next[m] # m => next[m] \in 0 .. (m - 1))
      BY <2>3, <3>1
    <3>4. x \in 0 .. n
      BY <2>3, <3>2, <3>3
    <3>5. \A k \in 0 .. m : k # m => k \in 0 .. (m - 1) /\ next[k] \in 0 .. (m - 1) /\ next[k] # m
      BY <2>3, <3>1
    <3>6. e \in [0 .. m -> 0 .. n]
      BY <3>2, <3>4, <3>5
    <3>7. \A k \in 0 .. m : e[k] = IF next[k] = k THEN k ELSE e[next[k]]
      <4> SUFFICES ASSUME NEW k \in 0 .. m PROVE e[k] = IF next[k] = k THEN k ELSE e[next[k]]
        OBVIOUS
      <4>1. CASE k = m
        <5>1. next[m] # m => e[next[m]] = f[next[m]]
          BY <3>1, <3>3
        <5> QED
          BY <4>1, <5>1
      <4>2. CASE k # m
        <5>1. k \in 0 .. (m - 1) /\ next[k] \in 0 .. (m - 1) /\ next[k] # m /\ next[k] \in 0 .. m
          BY <3>1, <3>5, <4>2
        <5>2. f[k] = IF next[k] = k THEN k ELSE f[next[k]]
          BY <3>2, <5>1
        <5>3. e[k] = f[k] /\ e[next[k]] = f[next[k]]
          BY <4>2, <5>1
        <5> QED
          BY <5>2, <5>3
      <4> QED
        BY <4>1, <4>2
    <3>8. Upto(e, m)
      BY <3>6, <3>7
    <3> QED
      BY <2>3, <3>8
  <2> QED
    BY <2>4, <2>5
<1>2. n \in 0 .. n
  OBVIOUS
<1> QED
  BY <1>1, <1>2
=============================================================================
