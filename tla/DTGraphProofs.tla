---------------------------- MODULE DTGraphProofs ----------------------------
(***************************************************************************)
(* The graph of diamond-types, for any number of versions: what push()     *)
(* keeps, that the shadow it computes once is what check.rs expects and    *)
(* reaches no further than the history of the entry, and that containment, *)
(* which stops at shadows, is membership in a history.                     *)
(*                                                                         *)
(* The inductive invariant GraphInv is the assertions of dbg_check() with  *)
(* types and with the order of versions.  Frontier and histories need no   *)
(* invariant of their own: they follow from it in every state.             *)
(***************************************************************************)
EXTENDS DTGraphSpec, CausalOrderProofs, SequenceTheorems

Entry == [start : Nat, end : Nat, parents : SUBSET Nat, children : Seq(Nat), shadow : Nat]

Graph == [entries : Seq(Entry), rootChildren : Seq(Nat)]

\* Entries follow their parents, and shadows reach down.
EntryReachesDown(entry) ==
  /\ \A p \in entry.parents : p < entry.start
  /\ entry.shadow <= entry.start

GraphShape(g) ==
  /\ g \in Graph
  /\ CheckPackedFrom0(g)
  /\ \A i \in DOMAIN g.entries : EntryReachesDown(g.entries[i])

GraphInv(g) ==
  /\ GraphShape(g)
  /\ CheckFullyMerged(g)
  /\ CheckChildIndexes(g)
  /\ CheckShadows(g)

-----------------------------------------------------------------------------
(* Entries and versions.                                                   *)

LEMMA ShapeFacts ==
  ASSUME NEW g, GraphShape(g)
  PROVE  /\ g.entries \in Seq(Entry) /\ Len(g.entries) \in Nat /\ DOMAIN g.entries = 1 .. Len(g.entries)
         /\ \A i \in DOMAIN g.entries :
              LET e == g.entries[i]
              IN  /\ e \in Entry
                  /\ e.start \in Nat /\ e.end \in Nat /\ e.shadow \in Nat /\ e.parents \subseteq Nat
                  /\ e.start < e.end
                  /\ e.start = IF i = 1 THEN 0 ELSE g.entries[i - 1].end
                  /\ \A p \in e.parents : p < e.start
                  /\ e.shadow <= e.start
         /\ NextTime(g) \in Nat /\ Versions(g) = 0 .. (NextTime(g) - 1)
         /\ Len(g.entries) = 0 => NextTime(g) = 0
         /\ Len(g.entries) # 0 => NextTime(g) = g.entries[Len(g.entries)].end
<1>1. g.entries \in Seq(Entry) /\ Len(g.entries) \in Nat /\ DOMAIN g.entries = 1 .. Len(g.entries)
  BY DEF GraphShape, Graph
<1>2. \A i \in DOMAIN g.entries : g.entries[i] \in Entry
  BY <1>1
<1>3. ASSUME NEW i \in DOMAIN g.entries
      PROVE  LET e == g.entries[i]
             IN  /\ e.start \in Nat /\ e.end \in Nat /\ e.shadow \in Nat /\ e.parents \subseteq Nat
                 /\ e.start < e.end
                 /\ e.start = IF i = 1 THEN 0 ELSE g.entries[i - 1].end
                 /\ \A p \in e.parents : p < e.start
                 /\ e.shadow <= e.start
  <2>1. g.entries[i] \in Entry
    BY <1>2
  <2> QED
    BY <2>1 DEF GraphShape, CheckPackedFrom0, EntryReachesDown, Entry
<1>4. CASE Len(g.entries) = 0
  <2>1. g.entries = <<>>
    BY <1>1, <1>4
  <2> QED
    BY <1>1, <1>2, <1>3, <1>4, <2>1 DEF NextTime, Versions
<1>5. CASE Len(g.entries) # 0
  <2>1. g.entries # <<>> /\ Len(g.entries) \in DOMAIN g.entries
    BY <1>1, <1>5
  <2>2. NextTime(g) = g.entries[Len(g.entries)].end
    BY <2>1 DEF NextTime, LastEntry
  <2> QED
    BY <1>1, <1>2, <1>3, <1>5, <2>1, <2>2 DEF Versions
<1> QED
  BY <1>4, <1>5

\* Entries do not overlap, near or far.
LEMMA EntriesApart ==
  ASSUME NEW g, GraphShape(g), NEW i \in DOMAIN g.entries, NEW j \in DOMAIN g.entries, i < j
  PROVE  g.entries[i].end <= g.entries[j].start
<1> DEFINE E == g.entries
           Near == {k \in DOMAIN E : i < k /\ ~ (E[i].end <= E[k].start)}
<1>1. DOMAIN E = 1 .. Len(E) /\ Len(E) \in Nat
      /\ \A k \in DOMAIN E : /\ E[k].start \in Nat /\ E[k].end \in Nat /\ E[k].start < E[k].end
                             /\ E[k].start = IF k = 1 THEN 0 ELSE E[k - 1].end
  BY ShapeFacts
<1> HIDE DEF E
<1> SUFFICES ASSUME Near # {} PROVE FALSE
  BY DEF E
<1>2. Near \subseteq Nat
  BY <1>1
<1> HIDE DEF Near
<1>3. PICK k \in Near : \A l \in Near : k <= l
  BY <1>2, LeastElement
<1>4. k \in DOMAIN E /\ i < k /\ ~ (E[i].end <= E[k].start)
  BY <1>3 DEF Near
<1>5. k # 1 /\ k - 1 \in DOMAIN E /\ ~ (k <= k - 1) /\ i \in DOMAIN E
  BY <1>1, <1>4 DEF E
<1>6. E[k].start = E[k - 1].end /\ E[k - 1].start < E[k - 1].end
  BY <1>1, <1>4, <1>5
<1>7. CASE k - 1 = i
  BY <1>1, <1>4, <1>5, <1>6, <1>7
<1>8. CASE k - 1 # i
  <2>1. i < k - 1
    BY <1>1, <1>4, <1>5, <1>8
  <2>2. E[i].end <= E[k - 1].start
    BY <1>3, <1>5, <2>1 DEF Near
  <2> QED
    BY <1>1, <1>4, <1>5, <1>6, <2>2
<1> QED
  BY <1>7, <1>8

\* The search finds the one entry that holds a version.
LEMMA FoundEntry ==
  ASSUME NEW g, GraphShape(g), NEW v \in Versions(g)
  PROVE  /\ v \in Nat
         /\ FindIndex(g, v) \in DOMAIN g.entries
         /\ HoldsVersion(g.entries[FindIndex(g, v)], v)
         /\ \A j \in DOMAIN g.entries : HoldsVersion(g.entries[j], v) => j = FindIndex(g, v)
<1> DEFINE E == g.entries
           Past1 == {k \in DOMAIN E : v < E[k].end}
<1>1. /\ DOMAIN E = 1 .. Len(E) /\ Len(E) \in Nat /\ NextTime(g) \in Nat /\ Versions(g) = 0 .. (NextTime(g) - 1)
      /\ Len(E) = 0 => NextTime(g) = 0
      /\ Len(E) # 0 => NextTime(g) = E[Len(E)].end
      /\ \A k \in DOMAIN E : /\ E[k].start \in Nat /\ E[k].end \in Nat /\ E[k].start < E[k].end
                             /\ E[k].start = IF k = 1 THEN 0 ELSE E[k - 1].end
  BY ShapeFacts
<1>2. \A i, j \in DOMAIN E : i < j => E[i].end <= E[j].start
  BY EntriesApart
<1>3. FindIndex(g, v) = CHOOSE i \in DOMAIN E : HoldsVersion(E[i], v)
  BY DEF FindIndex
<1> HIDE DEF E
<1>4. v \in Nat /\ v < NextTime(g) /\ Len(E) \in DOMAIN E
  BY <1>1
<1>5. Past1 \subseteq Nat /\ Past1 # {}
  BY <1>1, <1>4
<1> HIDE DEF Past1
<1>6. PICK k \in Past1 : \A l \in Past1 : k <= l
  BY <1>5, LeastElement
<1>7. k \in DOMAIN E /\ v < E[k].end
  BY <1>6 DEF Past1
<1>8. E[k].start <= v
  <2>1. CASE k = 1
    BY <1>1, <1>4, <1>7, <2>1
  <2>2. CASE k # 1
    <3>1. k - 1 \in DOMAIN E /\ ~ (k <= k - 1) /\ E[k].start = E[k - 1].end
      BY <1>1, <1>7, <2>2
    <3>2. ~ (v < E[k - 1].end)
      BY <1>6, <3>1 DEF Past1
    <3> QED
      BY <1>1, <1>4, <3>1, <3>2
  <2> QED
    BY <2>1, <2>2
<1>9. HoldsVersion(E[k], v)
  BY <1>1, <1>4, <1>7, <1>8 DEF HoldsVersion
<1>10. ASSUME NEW j \in DOMAIN E, HoldsVersion(E[j], v)
       PROVE  j = k
  <2>1. E[j].start <= v /\ v < E[j].end
    BY <1>1, <1>4, <1>10 DEF HoldsVersion
  <2>2. ~ (j < k) /\ ~ (k < j)
    BY <1>1, <1>2, <1>4, <1>7, <1>8, <2>1
  <2> QED
    BY <1>1, <1>7, <2>2
<1>11. FindIndex(g, v) = k
  BY <1>3, <1>7, <1>9, <1>10
<1> QED
  BY <1>4, <1>7, <1>9, <1>10, <1>11 DEF E

\* What an entry holds is a version, and so are its parents.
LEMMA HeldVersions ==
  ASSUME NEW g, GraphShape(g), NEW i \in DOMAIN g.entries
  PROVE  /\ g.entries[i].end <= NextTime(g)
         /\ \A v \in g.entries[i].start .. (g.entries[i].end - 1) : v \in Versions(g) /\ FindIndex(g, v) = i
         /\ g.entries[i].parents \subseteq Versions(g)
<1> DEFINE E == g.entries
<1>1. /\ DOMAIN E = 1 .. Len(E) /\ Len(E) \in Nat /\ NextTime(g) \in Nat /\ Versions(g) = 0 .. (NextTime(g) - 1)
      /\ Len(E) # 0 => NextTime(g) = E[Len(E)].end
      /\ \A k \in DOMAIN E : /\ E[k].start \in Nat /\ E[k].end \in Nat /\ E[k].start < E[k].end
                             /\ E[k].parents \subseteq Nat /\ \A p \in E[k].parents : p < E[k].start
  BY ShapeFacts
<1>2. \A k, l \in DOMAIN E : k < l => E[k].end <= E[l].start
  BY EntriesApart
<1>3. \A v \in Versions(g) : \A j \in DOMAIN g.entries : HoldsVersion(g.entries[j], v) => j = FindIndex(g, v)
  BY FoundEntry
<1>4. i \in DOMAIN E
  OBVIOUS
<1> HIDE DEF E
<1>5. E[i].end <= NextTime(g)
  <2>1. Len(E) \in DOMAIN E /\ (i = Len(E) \/ i < Len(E))
    BY <1>1, <1>4
  <2> QED
    BY <1>1, <1>2, <1>4, <2>1
<1>6. \A v \in E[i].start .. (E[i].end - 1) : v \in Versions(g) /\ HoldsVersion(E[i], v)
  BY <1>1, <1>4, <1>5 DEF HoldsVersion
<1>7. E[i].parents \subseteq Versions(g)
  BY <1>1, <1>4, <1>5
<1> QED
  BY <1>3, <1>5, <1>6, <1>7 DEF E

-----------------------------------------------------------------------------
(* The partial order.                                                      *)

ParentsIn(g) == [v \in Versions(g) |-> ParentsAtVersion(g, v)]

\* The run of a version: what holds along it down to its start.
LEMMA RunOfVersion ==
  ASSUME NEW g, GraphShape(g), NEW v \in Versions(g)
  PROVE  LET e == FindPacked(g, v)
         IN  /\ v \in Nat /\ e \in Entry
             /\ e.start \in 0 .. v /\ v < e.end /\ e.shadow \in 0 .. e.start
             /\ e.parents \subseteq Versions(g) /\ \A p \in e.parents : p < e.start
             /\ \A w \in e.start .. v : /\ w \in Versions(g)
                                        /\ ParentsIn(g)[w] = IF w = e.start THEN e.parents ELSE {w - 1}
<1> DEFINE i == FindIndex(g, v)
           e == g.entries[i]
<1>1. v \in Nat /\ i \in DOMAIN g.entries /\ HoldsVersion(e, v) /\ FindPacked(g, v) = e
  BY FoundEntry DEF FindPacked
<1> HIDE DEF i
<1>2. /\ e \in Entry /\ e.start \in Nat /\ e.end \in Nat /\ e.shadow \in Nat
      /\ e.shadow <= e.start /\ \A p \in e.parents : p < e.start
  BY <1>1, ShapeFacts
<1>3. /\ \A w \in e.start .. (e.end - 1) : w \in Versions(g) /\ FindIndex(g, w) = i
      /\ e.parents \subseteq Versions(g)
  BY <1>1, HeldVersions
<1>4. \A w \in e.start .. (e.end - 1) : FindPacked(g, w) = e
  BY <1>3 DEF FindPacked
<1> HIDE DEF e
<1>5. e.start <= v /\ v < e.end
  BY <1>1, <1>2 DEF HoldsVersion
<1>6. ASSUME NEW w \in e.start .. v
      PROVE  /\ w \in Versions(g)
             /\ ParentsIn(g)[w] = IF w = e.start THEN e.parents ELSE {w - 1}
  <2>1. w \in e.start .. (e.end - 1)
    BY <1>1, <1>2, <1>5
  <2>2. ParentsIn(g)[w] = IF w > e.start THEN {w - 1} ELSE e.parents
    BY <1>3, <1>4, <2>1 DEF ParentsIn, ParentsAtVersion
  <2> QED
    BY <1>2, <1>3, <2>1, <2>2
<1> QED
  BY <1>1, <1>2, <1>3, <1>5, <1>6

LEMMA GraphIsTopological ==
  ASSUME NEW g, GraphShape(g)
  PROVE  /\ Topological(ParentsIn(g), NextTime(g))
         /\ NextTime(g) \in Nat /\ Versions(g) = 0 .. (NextTime(g) - 1)
         /\ Histories(g) = HistoriesOf(ParentsIn(g), NextTime(g))
<1>1. NextTime(g) \in Nat /\ Versions(g) = 0 .. (NextTime(g) - 1)
  BY ShapeFacts
<1>2. ASSUME NEW v \in Versions(g)
      PROVE  ParentsIn(g)[v] \subseteq 0 .. (v - 1)
  <2> DEFINE e == FindPacked(g, v)
  <2>1. /\ v \in Nat /\ e.start \in 0 .. v
        /\ e.parents \subseteq Versions(g) /\ \A p \in e.parents : p < e.start
        /\ \A w \in e.start .. v : ParentsIn(g)[w] = IF w = e.start THEN e.parents ELSE {w - 1}
    BY RunOfVersion
  <2> HIDE DEF e
  <2>2. ParentsIn(g)[v] = IF v = e.start THEN e.parents ELSE {v - 1}
    BY <2>1
  <2> QED
    BY <1>1, <2>1, <2>2
<1>3. Histories(g) = HistoriesOf(ParentsIn(g), NextTime(g))
  BY DEF Histories, ParentsIn
<1>4. DOMAIN ParentsIn(g) = Versions(g)
  BY DEF ParentsIn
<1> QED
  BY <1>1, <1>2, <1>3, <1>4 DEF Topological
-----------------------------------------------------------------------------
(* Shadows.                                                                *)

\* Where a run with these parents is led from s: on to the shadow of the entry
\* of s - 1 when that is a parent.
ShadowFunction(f, g, parents, start) ==
  /\ f \in [0 .. start -> 0 .. start]
  /\ \A s \in 0 .. start :
       f[s] = IF s >= 1 /\ s - 1 \in parents THEN f[FindPacked(g, s - 1).shadow] ELSE s

\* A version below the start has a shadow, not above it.
LEMMA ShadowBelow ==
  ASSUME NEW g, GraphShape(g), NEW start \in 0 .. NextTime(g), NEW p \in 0 .. (start - 1)
  PROVE  FindPacked(g, p).shadow \in 0 .. p
<1>1. NextTime(g) \in Nat /\ Versions(g) = 0 .. (NextTime(g) - 1)
  BY ShapeFacts
<1>2. p \in Versions(g) /\ p \in Nat
  BY <1>1
<1> DEFINE e == FindPacked(g, p)
<1>3. e.start \in 0 .. p /\ e.shadow \in 0 .. e.start
  BY <1>2, RunOfVersion
<1> HIDE DEF e
<1>4. e.shadow \in 0 .. p
  BY <1>2, <1>3
<1> QED
  BY <1>4 DEF e

LEMMA ShadowFunctionExists ==
  ASSUME NEW g, GraphShape(g), NEW start \in 0 .. NextTime(g), NEW parents
  PROVE  \E f : ShadowFunction(f, g, parents, start)
<1> DEFINE next == [s \in 0 .. start |-> IF s >= 1 /\ s - 1 \in parents THEN FindPacked(g, s - 1).shadow ELSE s]
<1>1. start \in Nat
  BY ShapeFacts
<1>2. ASSUME NEW s \in 0 .. start
      PROVE  next[s] \in 0 .. s /\ (s >= 1 /\ s - 1 \in parents <=> next[s] # s)
  <2>1. CASE s >= 1 /\ s - 1 \in parents
    <3>1. s - 1 \in 0 .. (start - 1)
      BY <1>1, <2>1
    <3>2. next[s] = FindPacked(g, s - 1).shadow /\ FindPacked(g, s - 1).shadow \in 0 .. (s - 1)
      BY <2>1, <3>1, ShadowBelow
    <3> HIDE DEF next
    <3>3. next[s] \in 0 .. (s - 1)
      BY <3>2
    <3> QED
      BY <1>1, <2>1, <3>3
  <2>2. CASE ~ (s >= 1 /\ s - 1 \in parents)
    BY <1>1, <2>2
  <2> QED
    BY <2>1, <2>2
<1>3. \A s \in 0 .. start : s >= 1 /\ s - 1 \in parents => next[s] = FindPacked(g, s - 1).shadow
  OBVIOUS
<1> HIDE DEF next
<1>4. PICK f : /\ f \in [0 .. start -> 0 .. start]
               /\ \A s \in 0 .. start : f[s] = IF next[s] = s THEN s ELSE f[next[s]]
  BY <1>1, <1>2, DescentExists
<1>5. ShadowFunction(f, g, parents, start)
  BY <1>2, <1>3, <1>4 DEF ShadowFunction
<1> QED
  BY <1>5

\* push() computes the end of the chain.
LEMMA PushedShadow ==
  ASSUME NEW g, GraphShape(g), NEW start \in 0 .. NextTime(g), NEW parents,
         NEW f, ShadowFunction(f, g, parents, start)
  PROVE  ShadowOfRun(g, parents, start) = f[start]
<1> DEFINE Chain(x) == x = [s \in 0 .. start |->
                              IF s >= 1 /\ s - 1 \in parents THEN x[FindPacked(g, s - 1).shadow] ELSE s]
           c == CHOOSE x : Chain(x)
           Differ == {s \in 0 .. start : c[s] # f[s]}
<1>1. start \in Nat /\ start \in 0 .. start
  BY ShapeFacts
<1>2. ShadowOfRun(g, parents, start) = c[start]
  BY DEF ShadowOfRun
<1>3. Chain(f)
  BY DEF ShadowFunction
<1>4. Chain(c)
  BY <1>3
<1> HIDE DEF c
<1>5. Differ = {}
  <2> SUFFICES ASSUME Differ # {} PROVE FALSE
    OBVIOUS
  <2>1. Differ \subseteq Nat
    BY <1>1
  <2> HIDE DEF Differ
  <2>2. PICK s \in Differ : \A t \in Differ : s <= t
    BY <2>1, LeastElement
  <2>3. s \in 0 .. start /\ c[s] # f[s]
    BY <2>2 DEF Differ
  <2>4. /\ c[s] = IF s >= 1 /\ s - 1 \in parents THEN c[FindPacked(g, s - 1).shadow] ELSE s
        /\ f[s] = IF s >= 1 /\ s - 1 \in parents THEN f[FindPacked(g, s - 1).shadow] ELSE s
    BY <1>3, <1>4, <2>3
  <2> HIDE DEF Chain
  <2>5. s >= 1 /\ s - 1 \in parents
    BY <2>3, <2>4
  <2>6. s - 1 \in 0 .. (start - 1)
    BY <1>1, <2>3, <2>5
  <2> DEFINE t == FindPacked(g, s - 1).shadow
  <2>7. t \in 0 .. (s - 1)
    BY <2>6, ShadowBelow
  <2>8. c[t] # f[t]
    BY <2>3, <2>4, <2>5
  <2> HIDE DEF t
  <2>9. t \in Differ /\ ~ (s <= t)
    BY <1>1, <2>3, <2>7, <2>8 DEF Differ
  <2> QED
    BY <2>2, <2>9
<1> QED
  BY <1>1, <1>2, <1>5

\* And so does the check, which looks at every parent in turn.
LEMMA CheckedShadow ==
  ASSUME NEW g, GraphShape(g), NEW i \in DOMAIN g.entries,
         NEW f, ShadowFunction(f, g, g.entries[i].parents, g.entries[i].start)
  PROVE  ExpectedShadow(g, i) = f[g.entries[i].start]
<1> DEFINE start == g.entries[i].start
           parents == g.entries[i].parents
           T == 0 .. start
           Steps(x) == x = [k \in 0 .. start |->
                              IF k = 0 THEN start
                              ELSE IF start - k \in parents /\ x[k - 1] = start - k + 1
                              THEN FindPacked(g, start - k).shadow
                              ELSE x[k - 1]]
           after == CHOOSE x : Steps(x)
           step == [k \in 1 .. start |-> [x \in T |-> IF start - k \in parents /\ x = start - k + 1
                                                      THEN FindPacked(g, start - k).shadow
                                                      ELSE x]]
<1>1. start \in Nat /\ start \in 0 .. NextTime(g)
  <2>1. /\ start \in Nat /\ start < g.entries[i].end /\ g.entries[i].end \in Nat
        /\ g.entries[i].end <= NextTime(g) /\ NextTime(g) \in Nat
    BY ShapeFacts, HeldVersions
  <2> HIDE DEF start
  <2> QED
    BY <2>1
<1>2. ExpectedShadow(g, i) = after[start]
  BY DEF ExpectedShadow
<1>3. /\ f \in [T -> T]
      /\ \A s \in T : f[s] = IF s >= 1 /\ s - 1 \in parents THEN f[FindPacked(g, s - 1).shadow] ELSE s
  BY DEF ShadowFunction
<1> HIDE DEF start, parents
<1>4. \A k \in 1 .. start : start - k \in 0 .. (start - 1) /\ FindPacked(g, start - k).shadow \in 0 .. (start - k)
  <2> SUFFICES ASSUME NEW k \in 1 .. start
               PROVE  start - k \in 0 .. (start - 1) /\ FindPacked(g, start - k).shadow \in 0 .. (start - k)
    OBVIOUS
  <2>1. start - k \in 0 .. (start - 1)
    BY <1>1
  <2> QED
    BY <1>1, <2>1, ShadowBelow
<1>5. \A k \in 1 .. start, x \in T :
        step[k][x] = IF start - k \in parents /\ x = start - k + 1 THEN FindPacked(g, start - k).shadow ELSE x
  OBVIOUS
<1>6. StepsWithin(step, start, T)
  BY <1>1, <1>4, <1>5 DEF StepsWithin
<1> HIDE DEF step
<1>7. PICK a : /\ a \in [0 .. start -> T]
               /\ a[0] = start
               /\ \A k \in 1 .. start : a[k] = step[k][a[k - 1]]
  <2>1. start \in T
    BY <1>1
  <2> HIDE DEF T
  <2> QED
    BY <1>1, <1>6, <2>1, StepsExist DEF Passed
<1>8. \A k \in 0 .. start : a[k] = IF k = 0 THEN start
                                   ELSE IF start - k \in parents /\ a[k - 1] = start - k + 1
                                   THEN FindPacked(g, start - k).shadow
                                   ELSE a[k - 1]
  <2> SUFFICES ASSUME NEW k \in 0 .. start, k # 0
               PROVE  a[k] = IF start - k \in parents /\ a[k - 1] = start - k + 1
                             THEN FindPacked(g, start - k).shadow
                             ELSE a[k - 1]
    BY <1>7
  <2>1. k \in 1 .. start /\ k - 1 \in 0 .. start
    BY <1>1
  <2>2. a[k - 1] \in T
    BY <1>7, <2>1
  <2> QED
    BY <1>5, <1>7, <2>1, <2>2
<1>9. Steps(a)
  <2>1. a = [k \in 0 .. start |-> a[k]]
    BY <1>7
  <2> QED
    BY <1>8, <2>1
<1>10. Steps(after)
  BY <1>9
<1> HIDE DEF after
<1>11. /\ after[0] = start
       /\ \A k \in 1 .. start : after[k] = IF start - k \in parents /\ after[k - 1] = start - k + 1
                                           THEN FindPacked(g, start - k).shadow
                                           ELSE after[k - 1]
  <2>1. \A k \in 0 .. start : after[k] = IF k = 0 THEN start
                                         ELSE IF start - k \in parents /\ after[k - 1] = start - k + 1
                                         THEN FindPacked(g, start - k).shadow
                                         ELSE after[k - 1]
    BY <1>10
  <2> HIDE DEF Steps
  <2>2. \A k \in 1 .. start : k \in 0 .. start /\ k # 0
    BY <1>1
  <2> QED
    BY <1>1, <2>1, <2>2
<1> HIDE DEF Steps
\* After k versions: still on the way to the end, and at it if above them.
<1> DEFINE Good(k) == /\ after[k] \in T /\ f[after[k]] = f[start]
                      /\ after[k] <= start - k \/ f[after[k]] = after[k]
           Bad == {k \in 0 .. start : ~ Good(k)}
<1>12. Bad = {}
  <2> SUFFICES ASSUME Bad # {} PROVE FALSE
    OBVIOUS
  <2>1. Bad \subseteq Nat
    BY <1>1
  <2> HIDE DEF Bad
  <2>2. PICK k \in Bad : \A l \in Bad : k <= l
    BY <2>1, LeastElement
  <2>3. k \in 0 .. start /\ ~ Good(k)
    BY <2>2 DEF Bad
  <2>4. k # 0
    BY <1>1, <1>11, <2>3
  <2>5. k \in 1 .. start /\ k - 1 \in 0 .. start /\ ~ (k <= k - 1) /\ k \in Nat
    BY <1>1, <2>3, <2>4
  <2>6. Good(k - 1)
    BY <2>2, <2>5 DEF Bad
  <2> DEFINE d == after[k - 1]
             p == start - k
  <2>7. d \in T /\ d \in Nat /\ f[d] = f[start] /\ (d <= p + 1 \/ f[d] = d)
    BY <1>1, <2>5, <2>6
  <2>8. p \in 0 .. (start - 1) /\ p \in Nat /\ FindPacked(g, p).shadow \in 0 .. p
    BY <1>1, <1>4, <2>5
  <2>9. after[k] = IF p \in parents /\ d = p + 1 THEN FindPacked(g, p).shadow ELSE d
    BY <1>11, <2>5
  <2>10. f[d] = IF d >= 1 /\ d - 1 \in parents THEN f[FindPacked(g, d - 1).shadow] ELSE d
    BY <1>3, <2>7
  <2>11. Good(k) <=> after[k] \in T /\ f[after[k]] = f[start] /\ (after[k] <= p \/ f[after[k]] = after[k])
    OBVIOUS
  <2> HIDE DEF d, p, Good
  <2>12. CASE p \in parents /\ d = p + 1
    <3>1. d >= 1 /\ d - 1 = p
      BY <2>8, <2>12
    <3>2. f[d] = f[FindPacked(g, p).shadow]
      BY <2>10, <2>12, <3>1
    <3>3. FindPacked(g, p).shadow \in T /\ FindPacked(g, p).shadow <= p
      BY <1>1, <2>8
    <3> QED
      BY <2>3, <2>7, <2>9, <2>11, <2>12, <3>2, <3>3
  <2>13. CASE ~ (p \in parents /\ d = p + 1)
    <3>1. d <= p \/ d = p + 1 \/ f[d] = d
      BY <2>7, <2>8
    <3>2. d = p + 1 => f[d] = d
      <4> SUFFICES ASSUME d = p + 1 PROVE f[d] = d
        OBVIOUS
      <4>1. d - 1 = p
        BY <2>8
      <4> QED
        BY <2>10, <2>13, <4>1
    <3>3. after[k] = d
      BY <2>9, <2>13
    <3> QED
      BY <2>3, <2>7, <2>11, <3>1, <3>2, <3>3
  <2> QED
    BY <2>12, <2>13
<1>13. after[start] = f[start]
  <2>1. start \in 0 .. start /\ start - start = 0
    BY <1>1
  <2>2. /\ after[start] \in T /\ f[after[start]] = f[start]
        /\ after[start] <= 0 \/ f[after[start]] = after[start]
    BY <1>12, <2>1
  <2>3. CASE after[start] <= 0
    <3>1. after[start] = 0 /\ 0 \in T
      BY <1>1, <2>2, <2>3
    <3>2. f[0] = 0
      BY <1>3, <3>1
    <3> QED
      BY <2>2, <3>1, <3>2
  <2> QED
    BY <2>2, <2>3
<1> QED
  BY <1>2, <1>13 DEF start
\* What histories have, in terms of entries.
LEMMA HistoryFacts ==
  ASSUME NEW g, GraphShape(g), NEW v \in Versions(g)
  PROVE  LET h == Histories(g)
             e == FindPacked(g, v)
         IN  /\ v \in h[v] /\ h[v] \subseteq 0 .. v
             /\ \A w \in h[v] : w \in Versions(g) /\ h[w] \subseteq h[v]
             /\ e.start .. v \subseteq h[v]
             /\ \A p \in e.parents : p \in h[v]
<1> DEFINE n == NextTime(g)
           par == ParentsIn(g)
           h == HistoriesOf(par, n)
           e == FindPacked(g, v)
<1>1. Topological(par, n) /\ n \in Nat /\ Versions(g) = 0 .. (n - 1) /\ Histories(g) = h
  BY GraphIsTopological
<1> DEFINE s == e.start
<1>2. /\ v \in Nat /\ s \in 0 .. v /\ e.parents \subseteq Versions(g)
      /\ par[s] = e.parents /\ \A w \in (s + 1) .. v : par[w] = {w - 1}
  <2>1. /\ v \in Nat /\ e.start \in 0 .. v /\ e.parents \subseteq Versions(g)
        /\ \A w \in e.start .. v : par[w] = IF w = e.start THEN e.parents ELSE {w - 1}
    BY RunOfVersion
  <2>2. s \in s .. v /\ \A w \in (s + 1) .. v : w \in s .. v /\ w # s
    <3>1. s \in 0 .. v /\ v \in Nat
      BY <2>1
    <3> HIDE DEF s
    <3> QED
      BY <3>1
  <2> HIDE DEF e, par
  <2> QED
    BY <2>1, <2>2
<1> HIDE DEF n, par, e, s
<1>3. /\ v \in h[v]
      /\ h[v] \subseteq 0 .. v
      /\ \A w \in h[v] : w \in 0 .. (n - 1) /\ h[w] \subseteq h[v]
  BY <1>1, HistoryOrder
<1>4. \A t : t \in h[v] <=> t \in s .. v \/ \E p \in par[s] : t \in h[p]
  BY <1>1, <1>2, RunHistory
<1>5. \A p \in e.parents : p \in h[p]
  BY <1>1, <1>2, HistoryOrder
<1> HIDE DEF h
<1>6. s .. v \subseteq h[v] /\ \A p \in e.parents : p \in h[v]
  BY <1>2, <1>4, <1>5
<1> QED
  BY <1>1, <1>3, <1>6 DEF e, s

\* All from the shadow of an entry up to its start is in the history of it.
LEMMA ShadowInHistory ==
  ASSUME NEW g, GraphShape(g), CheckShadows(g), NEW i \in DOMAIN g.entries
  PROVE  g.entries[i].shadow .. g.entries[i].start \subseteq Histories(g)[g.entries[i].start]
<1> DEFINE E == g.entries
           h == Histories(g)
           Within(k) == E[k].shadow .. E[k].start \subseteq h[E[k].start]
           Bad == {k \in DOMAIN E : ~ Within(k)}
<1> SUFFICES ASSUME Bad # {} PROVE FALSE
  OBVIOUS
<1>1. Bad \subseteq Nat
  BY ShapeFacts
<1> HIDE DEF Bad
<1>2. PICK k \in Bad : \A l \in Bad : k <= l
  BY <1>1, LeastElement
<1>3. k \in DOMAIN E /\ ~ Within(k)
  BY <1>2 DEF Bad
<1> DEFINE start == E[k].start
           parents == E[k].parents
<1>4. /\ start \in Nat /\ start \in 0 .. NextTime(g) /\ start \in Versions(g) /\ start \in 0 .. start
      /\ E[k].start .. (E[k].end - 1) \subseteq Versions(g)
      /\ FindPacked(g, start) = E[k]
  <2>1. start \in Nat /\ E[k].end \in Nat /\ start < E[k].end /\ NextTime(g) \in Nat
    BY <1>3, ShapeFacts
  <2>2. /\ E[k].end <= NextTime(g)
        /\ \A v \in start .. (E[k].end - 1) : v \in Versions(g) /\ FindIndex(g, v) = k
    BY <1>3, HeldVersions
  <2>3. start \in start .. (E[k].end - 1)
    BY <2>1
  <2> HIDE DEF start
  <2> QED
    BY <2>1, <2>2, <2>3 DEF FindPacked, start
<1>5. PICK f : ShadowFunction(f, g, parents, start)
  BY <1>4, ShadowFunctionExists
<1>6. E[k].shadow = f[start]
  <2>1. ExpectedShadow(g, k) = f[start]
    BY <1>3, <1>5, CheckedShadow
  <2> QED
    BY <1>3, <2>1 DEF CheckShadows
<1>7. /\ f \in [0 .. start -> 0 .. start]
      /\ \A s \in 0 .. start : f[s] = IF s >= 1 /\ s - 1 \in parents THEN f[FindPacked(g, s - 1).shadow] ELSE s
  BY <1>5 DEF ShadowFunction
<1>8. /\ start \in h[start]
      /\ \A w \in h[start] : h[w] \subseteq h[start]
      /\ parents \subseteq h[start]
  BY <1>4, HistoryFacts
<1>9. \A j \in DOMAIN E : j < k => Within(j)
  <2>1. k \in Nat /\ DOMAIN E \subseteq Nat
    BY <1>3, ShapeFacts
  <2>2. \A j \in DOMAIN E : j < k => ~ (k <= j)
    BY <2>1
  <2> HIDE DEF E, Within
  <2> QED
    BY <1>2, <2>2 DEF Bad
\* A place in the chain down to which the history is known, but no further.
<1> DEFINE Stuck == {s \in 0 .. start : s .. start \subseteq h[start] /\ ~ (f[s] .. start \subseteq h[start])}
<1>10. Stuck = {}
  <2> SUFFICES ASSUME Stuck # {} PROVE FALSE
    OBVIOUS
  <2>1. Stuck \subseteq Nat
    BY <1>4
  <2> HIDE DEF Stuck
  <2>2. PICK s \in Stuck : \A t \in Stuck : s <= t
    BY <2>1, LeastElement
  <2>3. s \in 0 .. start /\ s .. start \subseteq h[start] /\ ~ (f[s] .. start \subseteq h[start])
    BY <2>2 DEF Stuck
  <2>4. s >= 1 /\ s - 1 \in parents /\ f[s] = f[FindPacked(g, s - 1).shadow]
    BY <1>7, <2>3
  <2> DEFINE p == s - 1
             e == FindPacked(g, p)
  <2>5. p \in 0 .. (start - 1) /\ p \in Nat /\ s = p + 1 /\ p < start
    BY <1>4, <2>3, <2>4
  <2>6. p \in Versions(g)
    <3>1. Versions(g) = 0 .. (NextTime(g) - 1) /\ NextTime(g) \in Nat
      BY ShapeFacts
    <3> HIDE DEF start, p
    <3> QED
      BY <1>4, <2>5, <3>1
  <2>7. e.start \in 0 .. p /\ e.shadow \in 0 .. e.start
    BY <2>6, RunOfVersion
  <2>8. e.shadow .. e.start \subseteq h[e.start]
    <3> DEFINE j == FindIndex(g, p)
    <3>1. j \in DOMAIN E /\ HoldsVersion(E[j], p) /\ e = E[j]
      BY <2>6, FoundEntry DEF FindPacked
    <3>2. j < k
      <4>1. j \in Nat /\ k \in Nat /\ E[j].start \in Nat /\ E[j].start <= p
        BY <1>3, <2>7, <3>1, ShapeFacts
      <4>2. \A l \in DOMAIN E : k < l => E[k].end <= E[l].start
        BY <1>3, EntriesApart
      <4>3. start < E[k].end /\ E[k].end \in Nat
        BY <1>3, ShapeFacts
      <4>4. j # k
        BY <1>4, <2>5, <3>1, <4>1
      <4>5. ~ (k < j)
        BY <1>4, <2>5, <3>1, <4>1, <4>2, <4>3
      <4> QED
        BY <4>1, <4>4, <4>5
    <3> QED
      BY <1>9, <3>1, <3>2
  <2>9. e.start .. p \subseteq h[p] /\ e.start \in h[p] /\ h[e.start] \subseteq h[p]
    <3>1. e.start .. p \subseteq h[p] /\ \A w \in h[p] : h[w] \subseteq h[p]
      BY <2>6, HistoryFacts
    <3> HIDE DEF e, h
    <3> QED
      BY <2>5, <2>7, <3>1
  <2>10. h[p] \subseteq h[start]
    BY <1>8, <2>4
  <2> DEFINE t == e.shadow
  <2>11. t \in 0 .. p /\ t .. start \subseteq h[start]
    <3> HIDE DEF e, h, p, start
    <3>1. \A x \in t .. start : x \in t .. e.start \/ x \in e.start .. p \/ x \in s .. start
      BY <1>4, <2>5, <2>7
    <3> QED
      BY <2>3, <2>5, <2>7, <2>8, <2>9, <2>10, <3>1
  <2>12. f[s] = f[t]
    BY <2>4
  <2> HIDE DEF t, e, p, h, start
  <2>13. t \in 0 .. start /\ ~ (s <= t)
    BY <1>4, <2>5, <2>11
  <2>14. t \in Stuck
    BY <2>3, <2>11, <2>12, <2>13 DEF Stuck
  <2> QED
    BY <2>2, <2>13, <2>14
<1>11. start .. start \subseteq h[start]
  <2> HIDE DEF start, h
  <2>1. start .. start = {start}
    BY <1>4
  <2> QED
    BY <1>8, <2>1
<1>12. f[start] .. start \subseteq h[start]
  <2> HIDE DEF start, h
  <2> QED
    BY <1>4, <1>10, <1>11
<1> QED
  BY <1>3, <1>6, <1>12
-----------------------------------------------------------------------------
(* push()                                                                  *)

NewRun(g, parents, end) ==
  [start |-> NextTime(g), end |-> end, parents |-> parents, children |-> <<>>,
   shadow |-> ShadowOfRun(g, parents, NextTime(g))]

\* The run was appended to the last entry.
Extended(g, new, parents, end) ==
  LET n == Len(g.entries)
  IN  /\ n > 0 /\ parents = {NextTime(g) - 1}
      /\ Len(new.entries) = n
      /\ new.rootChildren = g.rootChildren
      /\ \A i \in 1 .. n : /\ new.entries[i].start = g.entries[i].start
                           /\ new.entries[i].parents = g.entries[i].parents
                           /\ new.entries[i].children = g.entries[i].children
                           /\ new.entries[i].shadow = g.entries[i].shadow
                           /\ new.entries[i].end = IF i = n THEN end ELSE g.entries[i].end

\* The run became an entry, and a child.
Added(g, new, parents, end) ==
  LET n == Len(g.entries)
  IN  /\ n > 0 => parents # {NextTime(g) - 1}
      /\ Len(new.entries) = n + 1
      /\ new.rootChildren = IF parents = {} THEN Append(g.rootChildren, n + 1) ELSE g.rootChildren
      /\ \A i \in 1 .. n : /\ new.entries[i].start = g.entries[i].start
                           /\ new.entries[i].end = g.entries[i].end
                           /\ new.entries[i].parents = g.entries[i].parents
                           /\ new.entries[i].shadow = g.entries[i].shadow
                           /\ new.entries[i].children =
                                IF \E p \in parents : HoldsVersion(g.entries[i], p)
                                THEN Append(g.entries[i].children, n + 1) ELSE g.entries[i].children
      /\ new.entries[n + 1] = NewRun(g, parents, end)

\* The shadow of a new run is a version not above it.
LEMMA NewShadow ==
  ASSUME NEW g, GraphShape(g), NEW parents
  PROVE  ShadowOfRun(g, parents, NextTime(g)) \in 0 .. NextTime(g)
<1> DEFINE n == NextTime(g)
<1>1. n \in Nat /\ n \in 0 .. n
  BY ShapeFacts
<1> HIDE DEF n
<1>2. n \in 0 .. NextTime(g)
  BY <1>1 DEF n
<1>3. PICK f : ShadowFunction(f, g, parents, n)
  BY <1>2, ShadowFunctionExists
<1>4. ShadowOfRun(g, parents, n) = f[n]
  BY <1>2, <1>3, PushedShadow
<1>5. f[n] \in 0 .. n
  BY <1>1, <1>3 DEF ShadowFunction
<1> QED
  BY <1>4, <1>5 DEF n

LEMMA PushShape ==
  ASSUME NEW g, GraphShape(g), NEW parents \in SUBSET Versions(g), NEW end \in Nat, NextTime(g) < end
  PROVE  LET new == Push(g, parents, NextTime(g), end)
         IN  /\ new \in Graph
             /\ Extended(g, new, parents, end) \/ Added(g, new, parents, end)
<1> DEFINE E == g.entries
           n == Len(E)
           t == NextTime(g)
           new == Push(g, parents, t, end)
<1>1. /\ g \in Graph /\ E \in Seq(Entry) /\ n \in Nat /\ DOMAIN E = 1 .. n /\ g.rootChildren \in Seq(Nat)
      /\ \A i \in 1 .. n : E[i] \in Entry
      /\ t \in Nat /\ parents \subseteq Nat
  BY ShapeFacts DEF GraphShape, Graph
<1>2. CASE Extends(g, parents, t)
  <2> DEFINE last == [E[n] EXCEPT !.end = end]
  <2>1. new = [g EXCEPT !.entries[Len(g.entries)].end = end]
    BY <1>2 DEF Push
  <2>2. n > 0 /\ n \in 1 .. n /\ parents = {t - 1}
    BY <1>1, <1>2 DEF Extends
  <2>3. last \in Entry /\ last.start = E[n].start /\ last.parents = E[n].parents
        /\ last.children = E[n].children /\ last.shadow = E[n].shadow /\ last.end = end
    BY <1>1, <2>2 DEF Entry
  <2>4. new = [g EXCEPT !.entries = [E EXCEPT ![n] = last]]
    BY <2>1
  <2> HIDE DEF last, E, new
  <2>5. [E EXCEPT ![n] = last] \in Seq(Entry) /\ Len([E EXCEPT ![n] = last]) = n
    BY <1>1, <2>2, <2>3, ExceptSeq DEF n
  <2>6. new.entries = [E EXCEPT ![n] = last] /\ new.rootChildren = g.rootChildren /\ new \in Graph
    BY <1>1, <2>4, <2>5 DEF Graph
  <2>7. \A i \in 1 .. n : new.entries[i] = IF i = n THEN last ELSE E[i]
    BY <1>1, <2>6
  <2>8. Len(new.entries) = n
    BY <2>5, <2>6
  <2>9. Extended(g, new, parents, end)
    BY <2>2, <2>3, <2>6, <2>7, <2>8 DEF Extended, E
  <2> QED
    BY <2>6, <2>9 DEF new
<1>3. CASE ~ Extends(g, parents, t)
  <2> DEFINE run == NewRun(g, parents, end)
             child(i) == [E[i] EXCEPT !.children =
                            IF \E p \in parents : HoldsVersion(E[i], p) THEN Append(@, n + 1) ELSE @]
             wired == [i \in 1 .. n |-> child(i)]
             roots == IF parents = {} THEN Append(g.rootChildren, n + 1) ELSE g.rootChildren
  <2>1. n > 0 => parents # {t - 1}
    BY <1>1, <1>3 DEF Extends
  <2>2. run \in Entry
    <3>1. ShadowOfRun(g, parents, t) \in Nat
      BY <1>1, NewShadow
    <3>2. <<>> \in Seq(Nat)
      OBVIOUS
    <3> QED
      BY <1>1, <3>1, <3>2 DEF NewRun, Entry
  <2>3. \A i \in 1 .. n : /\ child(i) \in Entry
                          /\ child(i).start = E[i].start /\ child(i).end = E[i].end
                          /\ child(i).parents = E[i].parents /\ child(i).shadow = E[i].shadow
                          /\ child(i).children = IF \E p \in parents : HoldsVersion(E[i], p)
                                                 THEN Append(E[i].children, n + 1) ELSE E[i].children
    <3> SUFFICES ASSUME NEW i \in 1 .. n
                 PROVE  /\ child(i) \in Entry
                        /\ child(i).start = E[i].start /\ child(i).end = E[i].end
                        /\ child(i).parents = E[i].parents /\ child(i).shadow = E[i].shadow
                        /\ child(i).children = IF \E p \in parents : HoldsVersion(E[i], p)
                                               THEN Append(E[i].children, n + 1) ELSE E[i].children
      OBVIOUS
    <3> DEFINE e == E[i]
               held == \E p \in parents : HoldsVersion(e, p)
    <3>1. e \in Entry
      BY <1>1
    <3> HIDE DEF e, held
    <3>2. child(i) = [e EXCEPT !.children = IF held THEN Append(e.children, n + 1) ELSE e.children]
      BY <3>1 DEF e, held, Entry
    <3>3. (IF held THEN Append(e.children, n + 1) ELSE e.children) \in Seq(Nat)
      <4>1. e.children \in Seq(Nat) /\ n + 1 \in Nat
        BY <1>1, <3>1 DEF Entry
      <4> QED
        BY <4>1
    <3> HIDE DEF child
    <3>4. /\ child(i) \in Entry
          /\ child(i).start = e.start /\ child(i).end = e.end
          /\ child(i).parents = e.parents /\ child(i).shadow = e.shadow
          /\ child(i).children = IF held THEN Append(e.children, n + 1) ELSE e.children
      BY <3>1, <3>2, <3>3 DEF Entry
    <3> QED
      BY <3>4 DEF e, held
  <2>4. new = PushEntry(WithChild(g, parents, n + 1), run)
    BY <1>3 DEF Push, NewRun
  <2>5. WithChild(g, parents, n + 1) = [entries |-> wired, rootChildren |-> roots]
    BY <1>1 DEF WithChild
  <2> HIDE DEF child, run, new, roots, E
  <2>6. wired \in Seq(Entry) /\ Len(wired) = n /\ \A i \in 1 .. n : wired[i] = child(i)
    BY <1>1, <2>3
  <2> HIDE DEF wired
  <2>7. new = [entries |-> Append(wired, run), rootChildren |-> roots]
    <3> DEFINE w == [entries |-> wired, rootChildren |-> roots]
    <3>1. new = [w EXCEPT !.entries = Append(w.entries, run)]
      BY <2>4, <2>5, Zenon DEF PushEntry
    <3> QED
      BY <3>1
  <2>8. /\ Append(wired, run) \in Seq(Entry) /\ Len(Append(wired, run)) = n + 1
        /\ \A i \in 1 .. n : Append(wired, run)[i] = child(i)
        /\ Append(wired, run)[n + 1] = run
    BY <1>1, <2>2, <2>6, AppendProperties
  <2>9. roots \in Seq(Nat)
    BY <1>1 DEF roots
  <2>10. new \in Graph
    BY <2>7, <2>8, <2>9 DEF Graph
  <2>11. Added(g, new, parents, end)
    BY <2>1, <2>3, <2>7, <2>8 DEF Added, E, run, roots
  <2> QED
    BY <2>10, <2>11 DEF new
<1> QED
  BY <1>2, <1>3

\* What push() leaves as it was: the entries of old versions.
LEMMA PushKeepsOld ==
  ASSUME NEW g, GraphShape(g), NEW parents \in SUBSET Versions(g), NEW end \in Nat, NextTime(g) < end
  PROVE  LET new == Push(g, parents, NextTime(g), end)
         IN  /\ GraphShape(new)
             /\ NextTime(new) = end
             /\ DOMAIN g.entries \subseteq DOMAIN new.entries
             /\ \A i \in DOMAIN g.entries :
                  /\ new.entries[i].start = g.entries[i].start
                  /\ new.entries[i].parents = g.entries[i].parents
                  /\ new.entries[i].shadow = g.entries[i].shadow
                  /\ \A v \in Versions(g) : HoldsVersion(new.entries[i], v) <=> HoldsVersion(g.entries[i], v)
<1> DEFINE E == g.entries
           n == Len(E)
           t == NextTime(g)
           new == Push(g, parents, t, end)
           F == new.entries
<1>1. /\ n \in Nat /\ DOMAIN E = 1 .. n /\ t \in Nat /\ Versions(g) = 0 .. (t - 1)
      /\ n = 0 => t = 0
      /\ n # 0 => t = E[n].end
  BY ShapeFacts
<1>2. \A i \in 1 .. n : /\ E[i].start \in Nat /\ E[i].end \in Nat /\ E[i].shadow \in Nat /\ E[i].parents \subseteq Nat
                        /\ E[i].start < E[i].end /\ E[i].shadow <= E[i].start
                        /\ E[i].start = IF i = 1 THEN 0 ELSE E[i - 1].end
                        /\ \A p \in E[i].parents : p < E[i].start
                        /\ E[i].end <= t
  BY ShapeFacts, HeldVersions
<1>3. new \in Graph /\ (Extended(g, new, parents, end) \/ Added(g, new, parents, end))
  BY PushShape
<1> HIDE DEF new
<1>4. F \in Seq(Entry)
  BY <1>3 DEF Graph
<1>5. CASE Extended(g, new, parents, end)
  <2>1. /\ n > 0 /\ Len(F) = n /\ DOMAIN F = 1 .. n
        /\ \A i \in 1 .. n : /\ F[i].start = E[i].start /\ F[i].parents = E[i].parents /\ F[i].shadow = E[i].shadow
                             /\ F[i].end = IF i = n THEN end ELSE E[i].end
    BY <1>4, <1>5 DEF Extended
  <2> HIDE DEF E, F, t, n
  <2>2. NextTime(new) = end
    <3>1. new.entries # <<>> /\ Len(new.entries) = n
      BY <1>4, <2>1 DEF F
    <3>2. NextTime(new) = F[n].end
      BY <3>1 DEF NextTime, LastEntry, F
    <3>3. n \in 1 .. n
      BY <1>1, <2>1
    <3> QED
      BY <2>1, <3>2, <3>3
  <2>12. t < end
    BY DEF t
  <2>3. \A i \in 1 .. n : F[i].start < F[i].end
    <3> SUFFICES ASSUME NEW i \in 1 .. n PROVE F[i].start < F[i].end
      OBVIOUS
    <3>1. F[i].start = E[i].start /\ F[i].end = IF i = n THEN end ELSE E[i].end
      BY <2>1
    <3>2. E[i].start < E[i].end /\ E[i].end <= t /\ E[i].start \in Nat /\ E[i].end \in Nat
      BY <1>2
    <3> QED
      BY <1>1, <2>12, <3>1, <3>2
  <2>4. \A i \in 1 .. n : F[i].start = IF i = 1 THEN 0 ELSE F[i - 1].end
    <3>1. \A i \in 1 .. n : i # 1 => i - 1 \in 1 .. n /\ i - 1 # n
      BY <1>1
    <3> QED
      BY <1>2, <2>1, <3>1
  <2>5. CheckPackedFrom0(new)
    BY <2>1, <2>3, <2>4 DEF CheckPackedFrom0, F
  <2>6. GraphShape(new)
    BY <1>2, <1>3, <2>1, <2>5 DEF GraphShape, EntryReachesDown, F
  <2>7. \A i \in 1 .. n, v \in Versions(g) : HoldsVersion(F[i], v) <=> HoldsVersion(E[i], v)
    <3> SUFFICES ASSUME NEW i \in 1 .. n, NEW v \in Versions(g)
                 PROVE  HoldsVersion(F[i], v) <=> HoldsVersion(E[i], v)
      OBVIOUS
    <3>1. v \in Nat /\ v < end /\ v < t
      BY <1>1, <2>12
    <3>2. F[i].start = E[i].start /\ F[i].end = IF i = n THEN end ELSE E[i].end
      BY <2>1
    <3>3. i = n => E[i].end = t
      BY <1>1, <2>1
    <3> QED
      BY <3>1, <3>2, <3>3 DEF HoldsVersion
  <2> QED
    BY <1>1, <2>1, <2>2, <2>6, <2>7 DEF E, F, new, t, n
<1>6. CASE Added(g, new, parents, end)
  <2>1. /\ Len(F) = n + 1 /\ DOMAIN F = 1 .. (n + 1)
        /\ \A i \in 1 .. n : /\ F[i].start = E[i].start /\ F[i].parents = E[i].parents /\ F[i].shadow = E[i].shadow
                             /\ F[i].end = E[i].end
        /\ F[n + 1] = NewRun(g, parents, end)
    <3>1. Len(F) = n + 1
      BY <1>6 DEF Added
    <3>2. DOMAIN F = 1 .. Len(F)
      BY <1>4
    <3>3. F[n + 1] = NewRun(g, parents, end)
      BY <1>6 DEF Added
    <3> QED
      BY <1>6, <3>1, <3>2, <3>3, Zenon DEF Added
  <2>2. /\ F[n + 1].start = t /\ F[n + 1].end = end /\ F[n + 1].parents = parents
        /\ F[n + 1].shadow \in 0 .. t
    BY <2>1, NewShadow DEF NewRun
  <2>3. \A p \in parents : p < t
    BY <1>1
  <2> HIDE DEF E, F, t, n
  <2>4. NextTime(new) = end
    <3>1. new.entries # <<>> /\ Len(new.entries) = n + 1
      BY <1>1, <1>4, <2>1 DEF F
    <3> QED
      BY <2>2, <3>1 DEF NextTime, LastEntry, F
  <2>5. \A i \in 1 .. (n + 1) : F[i].start < F[i].end
    <3>1. \A i \in 1 .. (n + 1) : i = n + 1 \/ i \in 1 .. n
      BY <1>1
    <3>2. F[n + 1].start < F[n + 1].end
      BY <2>2 DEF t
    <3> QED
      BY <1>2, <2>1, <3>1, <3>2
  <2>6. \A i \in 1 .. (n + 1) : F[i].start = IF i = 1 THEN 0 ELSE F[i - 1].end
    <3> SUFFICES ASSUME NEW i \in 1 .. (n + 1) PROVE F[i].start = IF i = 1 THEN 0 ELSE F[i - 1].end
      OBVIOUS
    <3>1. CASE i = n + 1
      <4>1. i # 1 => n # 0 /\ n \in 1 .. n /\ i - 1 = n
        BY <1>1, <3>1
      <4>2. i = 1 => n = 0
        BY <1>1, <3>1
      <4> QED
        BY <1>1, <2>1, <2>2, <3>1, <4>1, <4>2
    <3>2. CASE i # n + 1
      <4>1. i \in 1 .. n /\ (i # 1 => i - 1 \in 1 .. n)
        BY <1>1, <3>2
      <4> QED
        BY <1>2, <2>1, <4>1
    <3> QED
      BY <3>1, <3>2
  <2>7. CheckPackedFrom0(new)
    BY <2>1, <2>5, <2>6 DEF CheckPackedFrom0, F
  <2>8. \A i \in 1 .. (n + 1) : EntryReachesDown(F[i])
    <3>1. \A i \in 1 .. (n + 1) : i = n + 1 \/ i \in 1 .. n
      BY <1>1
    <3>2. EntryReachesDown(F[n + 1])
      BY <1>1, <2>2, <2>3 DEF EntryReachesDown
    <3>3. \A i \in 1 .. n : EntryReachesDown(F[i])
      BY <1>2, <2>1 DEF EntryReachesDown
    <3> QED
      BY <3>1, <3>2, <3>3
  <2>9. GraphShape(new)
    BY <1>3, <2>1, <2>7, <2>8 DEF GraphShape, F
  <2>10. \A i \in 1 .. n, v \in Versions(g) : HoldsVersion(F[i], v) <=> HoldsVersion(E[i], v)
    BY <2>1 DEF HoldsVersion
  <2>11. 1 .. n \subseteq 1 .. (n + 1)
    BY <1>1
  <2> QED
    BY <1>1, <2>1, <2>4, <2>9, <2>10, <2>11 DEF E, F, new, t, n
<1> QED
  BY <1>3, <1>5, <1>6
\* A list of indexes gets a higher one.
LEMMA ListsAppend ==
  ASSUME NEW list \in Seq(Nat), NEW S, Lists(list, S), NEW x \in Nat, \A y \in S : y < x
  PROVE  Lists(Append(list, x), S \cup {x})
<1> DEFINE m == Len(list)
           l == Append(list, x)
<1>1. m \in Nat /\ DOMAIN list = 1 .. m
  OBVIOUS
<1>2. DOMAIN l = 1 .. (m + 1) /\ (\A k \in 1 .. m : l[k] = list[k]) /\ l[m + 1] = x
  BY AppendProperties
<1>3. {list[k] : k \in 1 .. m} = S /\ \A k, j \in 1 .. m : k < j => list[k] < list[j]
  BY <1>1 DEF Lists
<1>4. \A k \in 1 .. (m + 1) : k = m + 1 \/ k \in 1 .. m
  BY <1>1
<1> HIDE DEF l, m
<1>5. {l[k] : k \in DOMAIN l} = S \cup {x}
  <2>1. \A k \in 1 .. (m + 1) : l[k] \in S \cup {x}
    BY <1>2, <1>3, <1>4
  <2>2. m + 1 \in 1 .. (m + 1) /\ 1 .. m \subseteq 1 .. (m + 1)
    BY <1>1
  <2>3. \A y \in S : \E k \in 1 .. m : y = l[k]
    BY <1>2, <1>3
  <2> QED
    BY <1>2, <2>1, <2>2, <2>3
<1>6. \A k, j \in DOMAIN l : k < j => l[k] < l[j]
  <2> SUFFICES ASSUME NEW k \in 1 .. (m + 1), NEW j \in 1 .. (m + 1), k < j
               PROVE  l[k] < l[j]
    BY <1>2
  <2>1. k \in 1 .. m
    BY <1>1
  <2>2. CASE j = m + 1
    BY <1>2, <1>3, <2>1, <2>2
  <2>3. CASE j \in 1 .. m
    BY <1>2, <1>3, <2>1, <2>3
  <2> QED
    BY <1>4, <2>2, <2>3
<1> QED
  BY <1>5, <1>6 DEF Lists, l

\* Old versions have their shadows still, so chains lead where they did.
LEMMA PushKeepsChains ==
  ASSUME NEW g, GraphShape(g), NEW parents \in SUBSET Versions(g), NEW end \in Nat, NextTime(g) < end,
         NEW start \in 0 .. NextTime(g), NEW ps, NEW f, ShadowFunction(f, g, ps, start)
  PROVE  ShadowFunction(f, Push(g, parents, NextTime(g), end), ps, start)
<1> DEFINE new == Push(g, parents, NextTime(g), end)
<1>1. /\ GraphShape(new) /\ NextTime(new) = end
      /\ DOMAIN g.entries \subseteq DOMAIN new.entries
      /\ \A i \in DOMAIN g.entries :
           /\ new.entries[i].shadow = g.entries[i].shadow
           /\ \A v \in Versions(g) : HoldsVersion(new.entries[i], v) <=> HoldsVersion(g.entries[i], v)
  BY PushKeepsOld
<1> HIDE DEF new
<1>2. NextTime(g) \in Nat /\ Versions(g) = 0 .. (NextTime(g) - 1) /\ Versions(new) = 0 .. (end - 1)
  BY <1>1, ShapeFacts DEF Versions
<1>3. ASSUME NEW v \in Versions(g)
      PROVE  FindPacked(new, v).shadow = FindPacked(g, v).shadow
  <2>1. FindIndex(g, v) \in DOMAIN g.entries /\ HoldsVersion(g.entries[FindIndex(g, v)], v)
    BY FoundEntry
  <2>2. v \in Versions(new)
    BY <1>2
  <2>3. \A j \in DOMAIN new.entries : HoldsVersion(new.entries[j], v) => j = FindIndex(new, v)
    BY <1>1, <2>2, FoundEntry
  <2>4. FindIndex(new, v) = FindIndex(g, v)
    BY <1>1, <2>1, <2>3
  <2> QED
    BY <1>1, <2>1, <2>4 DEF FindPacked
<1>4. \A s \in 0 .. start : s >= 1 => s - 1 \in Versions(g)
  BY <1>2
<1>5. ShadowFunction(f, new, ps, start)
  BY <1>3, <1>4 DEF ShadowFunction
<1> QED
  BY <1>5 DEF new

\* All that dbg_check() asserts still holds.
LEMMA PushKeepsInv ==
  ASSUME NEW g, GraphInv(g), NEW parents \in SUBSET Versions(g), NEW end \in Nat, NextTime(g) < end
  PROVE  GraphInv(Push(g, parents, NextTime(g), end))
<1> DEFINE E == g.entries
           n == Len(E)
           t == NextTime(g)
           new == Push(g, parents, t, end)
           F == new.entries
<1>1. GraphShape(g) /\ CheckFullyMerged(g) /\ CheckChildIndexes(g) /\ CheckShadows(g)
  BY DEF GraphInv
<1>2. /\ n \in Nat /\ DOMAIN E = 1 .. n /\ t \in Nat /\ Versions(g) = 0 .. (t - 1)
      /\ n = 0 => t = 0
      /\ \A i \in 1 .. n : E[i].start \in Nat /\ E[i].children \in Seq(Nat)
      /\ g.rootChildren \in Seq(Nat)
  BY <1>1, ShapeFacts DEF GraphShape, Graph, Entry
<1>3. \A i \in 1 .. n : E[i].parents \subseteq Versions(g) /\ E[i].start \in 0 .. t
  <2> SUFFICES ASSUME NEW i \in 1 .. n PROVE E[i].parents \subseteq Versions(g) /\ E[i].start \in 0 .. t
    OBVIOUS
  <2>1. E[i].parents \subseteq Versions(g) /\ E[i].end <= t
    BY <1>1, <1>2, HeldVersions
  <2>2. E[i].start \in Nat /\ E[i].end \in Nat /\ E[i].start < E[i].end
    BY <1>1, <1>2, ShapeFacts
  <2> HIDE DEF E, t
  <2> QED
    BY <1>2, <2>1, <2>2
<1>4. GraphShape(new) /\ new \in Graph /\ (Extended(g, new, parents, end) \/ Added(g, new, parents, end))
  BY <1>1, PushShape, PushKeepsOld
<1>5. /\ 1 .. n \subseteq DOMAIN F
      /\ \A i \in 1 .. n : /\ F[i].start = E[i].start /\ F[i].parents = E[i].parents /\ F[i].shadow = E[i].shadow
                           /\ \A v \in Versions(g) : HoldsVersion(F[i], v) <=> HoldsVersion(E[i], v)
  <2>1. /\ DOMAIN E \subseteq DOMAIN F
        /\ \A i \in DOMAIN E :
             /\ F[i].start = E[i].start
             /\ F[i].parents = E[i].parents
             /\ F[i].shadow = E[i].shadow
             /\ \A v \in Versions(g) : HoldsVersion(F[i], v) <=> HoldsVersion(E[i], v)
    BY <1>1, PushKeepsOld, Zenon
  <2> HIDE DEF E, F, n
  <2> QED
    BY <1>2, <2>1
<1>6. \A s \in 0 .. t : \A ps, f : ShadowFunction(f, g, ps, s) => ShadowFunction(f, new, ps, s)
  BY <1>1, PushKeepsChains
<1> HIDE DEF new
<1>7. Len(F) \in Nat /\ DOMAIN F = 1 .. Len(F)
  BY <1>4 DEF Graph
\* What old entries say of old entries is as it was.
<1>8. \A i \in 1 .. n : {j \in 1 .. n : \E p \in F[j].parents : HoldsVersion(F[i], p)} = EntriesAfter(g, E[i])
  <2> HIDE DEF E, F
  <2>1. \A i, j \in 1 .. n : \A p \in E[j].parents : p \in Versions(g)
    BY <1>3
  <2>2. \A i, j \in 1 .. n : (\E p \in F[j].parents : HoldsVersion(F[i], p)) <=> (\E p \in E[j].parents : HoldsVersion(E[i], p))
    BY <1>5, <2>1
  <2> QED
    BY <1>2, <2>2 DEF EntriesAfter, E
<1>9. \A i \in 1 .. n : F[i].shadow = ExpectedShadow(new, i)
  <2> SUFFICES ASSUME NEW i \in 1 .. n PROVE F[i].shadow = ExpectedShadow(new, i)
    OBVIOUS
  <2>1. PICK f : ShadowFunction(f, g, E[i].parents, E[i].start)
    BY <1>1, <1>3, ShadowFunctionExists
  <2>2. ExpectedShadow(g, i) = f[E[i].start]
    BY <1>1, <1>2, <2>1, CheckedShadow
  <2>3. ShadowFunction(f, new, F[i].parents, F[i].start)
    BY <1>3, <1>5, <1>6, <2>1
  <2>4. ExpectedShadow(new, i) = f[F[i].start]
    BY <1>4, <1>5, <2>3, CheckedShadow
  <2>5. E[i].shadow = ExpectedShadow(g, i)
    BY <1>1, <1>2 DEF CheckShadows
  <2> HIDE DEF E, F
  <2> QED
    BY <1>5, <2>2, <2>4, <2>5
<1>10. \A i \in 1 .. n : i # 1 => F[i].parents # {F[i].start - 1}
  <2>1. \A i \in 1 .. n : i # 1 => E[i].parents # {E[i].start - 1}
    BY <1>1, <1>2 DEF CheckFullyMerged
  <2> HIDE DEF E, F
  <2> QED
    BY <1>5, <2>1
<1>11. /\ Lists(g.rootChildren, {i \in 1 .. n : E[i].parents = {}})
       /\ \A i \in 1 .. n : Lists(E[i].children, EntriesAfter(g, E[i]))
  BY <1>1, <1>2 DEF CheckChildIndexes
<1>12. CASE Extended(g, new, parents, end)
  <2>1. DOMAIN F = 1 .. n /\ new.rootChildren = g.rootChildren /\ \A i \in 1 .. n : F[i].children = E[i].children
    BY <1>7, <1>12 DEF Extended
  <2>2. CheckFullyMerged(new)
    BY <1>10, <2>1 DEF CheckFullyMerged
  <2>3. CheckShadows(new)
    BY <1>9, <2>1 DEF CheckShadows
  <2>4. CheckChildIndexes(new)
    <3>1. {i \in 1 .. n : F[i].parents = {}} = {i \in 1 .. n : E[i].parents = {}}
      BY <1>5
    <3>2. \A i \in 1 .. n : EntriesAfter(new, F[i]) = EntriesAfter(g, E[i])
      BY <1>8, <2>1 DEF EntriesAfter
    <3> QED
      BY <1>11, <2>1, <3>1, <3>2 DEF CheckChildIndexes
  <2> QED
    BY <1>4, <2>2, <2>3, <2>4 DEF GraphInv, new
<1>13. CASE Added(g, new, parents, end)
  <2> DEFINE run == NewRun(g, parents, end)
  <2>1. /\ DOMAIN F = 1 .. (n + 1) /\ F[n + 1] = run
        /\ n > 0 => parents # {t - 1}
        /\ new.rootChildren = IF parents = {} THEN Append(g.rootChildren, n + 1) ELSE g.rootChildren
    BY <1>7, <1>13 DEF Added
  <2>2. \A i \in 1 .. n : F[i].children = IF \E p \in parents : HoldsVersion(E[i], p)
                                          THEN Append(E[i].children, n + 1) ELSE E[i].children
    BY <1>13 DEF Added
  <2>3. /\ run.start = t /\ run.parents = parents /\ run.children = <<>>
        /\ run.shadow = ShadowOfRun(g, parents, t)
    BY DEF NewRun
  <2>4. \A i \in 1 .. (n + 1) : i = n + 1 \/ i \in 1 .. n
    BY <1>2
  <2>5. n + 1 \notin 1 .. n /\ n + 1 \in Nat /\ n + 1 \in 1 .. (n + 1) /\ 1 .. n \subseteq 1 .. (n + 1)
    BY <1>2
  <2> HIDE DEF run
  <2>6. CheckFullyMerged(new)
    <3>1. n + 1 # 1 => F[n + 1].parents # {F[n + 1].start - 1}
      BY <1>2, <2>1, <2>3
    <3> QED
      BY <1>10, <2>1, <2>4, <3>1 DEF CheckFullyMerged
  <2>7. CheckShadows(new)
    <3>1. t \in 0 .. t
      BY <1>2
    <3>2. PICK f : ShadowFunction(f, g, parents, t)
      BY <1>1, <3>1, ShadowFunctionExists
    <3>3. ShadowOfRun(g, parents, t) = f[t]
      BY <1>1, <3>1, <3>2, PushedShadow
    <3>4. ShadowFunction(f, new, F[n + 1].parents, F[n + 1].start)
      BY <1>6, <2>1, <2>3, <3>1, <3>2
    <3>5. ExpectedShadow(new, n + 1) = f[F[n + 1].start]
      BY <1>4, <2>1, <2>5, <3>4, CheckedShadow
    <3>6. F[n + 1].shadow = ExpectedShadow(new, n + 1)
      BY <2>1, <2>3, <3>3, <3>5
    <3> QED
      BY <1>9, <2>1, <2>4, <3>6 DEF CheckShadows
  <2>8. CheckChildIndexes(new)
    <3>1. Lists(new.rootChildren, {i \in 1 .. (n + 1) : F[i].parents = {}})
      <4> DEFINE S == {i \in 1 .. n : E[i].parents = {}}
      <4>1. {i \in 1 .. (n + 1) : F[i].parents = {}} = IF parents = {} THEN S \cup {n + 1} ELSE S
        BY <1>5, <2>1, <2>3, <2>4, <2>5
      <4>2. \A y \in S : y < n + 1
        BY <1>2
      <4> HIDE DEF S, E, F
      <4>3. Lists(Append(g.rootChildren, n + 1), S \cup {n + 1})
        BY <1>2, <1>11, <2>5, <4>2, ListsAppend DEF S
      <4> QED
        BY <1>11, <2>1, <4>1, <4>3 DEF S
    <3>2. ASSUME NEW i \in 1 .. n
          PROVE  Lists(F[i].children, EntriesAfter(new, F[i]))
      <4> DEFINE S == EntriesAfter(g, E[i])
                 held == \E p \in parents : HoldsVersion(E[i], p)
      <4>1. EntriesAfter(new, F[i]) = {j \in 1 .. n : \E p \in F[j].parents : HoldsVersion(F[i], p)} \cup
                                      (IF \E p \in F[n + 1].parents : HoldsVersion(F[i], p) THEN {n + 1} ELSE {})
        BY <2>1, <2>4, <2>5 DEF EntriesAfter
      <4>2. (\E p \in F[n + 1].parents : HoldsVersion(F[i], p)) <=> held
        BY <1>5, <2>1, <2>3
      <4>3. EntriesAfter(new, F[i]) = IF held THEN S \cup {n + 1} ELSE S
        BY <1>8, <4>1, <4>2
      <4>4. S \subseteq 1 .. n /\ \A y \in S : y < n + 1
        BY <1>2 DEF EntriesAfter
      <4>5. E[i].children \in Seq(Nat) /\ Lists(E[i].children, S)
        BY <1>2, <1>11
      <4> HIDE DEF S
      <4>6. Lists(Append(E[i].children, n + 1), S \cup {n + 1})
        BY <2>5, <4>4, <4>5, ListsAppend
      <4> HIDE DEF held
      <4>7. F[i].children = IF held THEN Append(E[i].children, n + 1) ELSE E[i].children
        BY <2>2 DEF held
      <4> QED
        BY <4>3, <4>5, <4>6, <4>7
    <3>3. Lists(F[n + 1].children, EntriesAfter(new, F[n + 1]))
      <4>1. \A j \in 1 .. (n + 1) : \A p \in F[j].parents : p < t
        <5> HIDE DEF E, F, n, t
        <5>1. \A j \in 1 .. n : \A p \in F[j].parents : p < t
          <6>1. \A j \in 1 .. n : F[j].parents \subseteq Versions(g)
            BY <1>3, <1>5
          <6>2. \A p \in Versions(g) : p < t
            BY <1>2
          <6> QED
            BY <6>1, <6>2
        <5>2. \A p \in F[n + 1].parents : p < t
          BY <1>2, <2>1, <2>3
        <5> QED
          BY <2>4, <5>1, <5>2
      <4>2. \A j \in 1 .. (n + 1) : \A p \in F[j].parents : p \in Nat /\ ~ HoldsVersion(F[n + 1], p)
        <5>1. \A j \in 1 .. (n + 1) : F[j].parents \subseteq Nat
          BY <1>4, <2>1, ShapeFacts
        <5> QED
          BY <1>2, <2>1, <2>3, <4>1, <5>1 DEF HoldsVersion
      <4>3. EntriesAfter(new, F[n + 1]) = {}
        BY <2>1, <4>2 DEF EntriesAfter
      <4>4. F[n + 1].children = <<>>
        BY <2>1, <2>3
      <4>5. Lists(<<>>, {})
        BY DEF Lists
      <4> QED
        BY <4>3, <4>4, <4>5
    <3> HIDE DEF E, F
    <3> QED
      BY <2>1, <2>4, <3>1, <3>2, <3>3 DEF CheckChildIndexes, F
  <2> QED
    BY <1>4, <2>6, <2>7, <2>8 DEF GraphInv, new
<1> QED
  BY <1>4, <1>12, <1>13

-----------------------------------------------------------------------------
(* The frontier.                                                           *)

\* The versions below m that no version below m follows.
Childless(par, m) == {v \in 0 .. (m - 1) : \A w \in 0 .. (m - 1) : v \notin par[w]}

\* The versions from s up to m are a run, and have their parents below.
RunUpTo(par, s, m) ==
  /\ s < m
  /\ \A w \in 0 .. s : par[w] \subseteq 0 .. (s - 1)
  /\ \A w \in (s + 1) .. (m - 1) : par[w] = {w - 1}

\* A run takes its parents off the frontier and puts its last version on.
LEMMA ChildlessAfterRun ==
  ASSUME NEW par, NEW s \in Nat, NEW m \in Nat, RunUpTo(par, s, m)
  PROVE  Childless(par, m) = (Childless(par, s) \ par[s]) \cup {m - 1}
<1> USE DEF RunUpTo
<1>1. ASSUME NEW v \in Childless(par, m), v # m - 1
      PROVE  v \in Childless(par, s) \ par[s]
  <2>1. v \in Nat /\ v < m - 1 /\ \A w \in 0 .. (m - 1) : v \notin par[w]
    BY <1>1 DEF Childless
  <2>2. v < s
    <3> SUFFICES ASSUME v >= s PROVE FALSE
      BY <2>1
    <3>1. v + 1 \in (s + 1) .. (m - 1) /\ v + 1 \in 0 .. (m - 1) /\ (v + 1) - 1 = v
      BY <2>1
    <3>2. par[v + 1] = {v}
      BY <3>1
    <3> QED
      BY <2>1, <3>1, <3>2
  <2>3. 0 .. s \subseteq 0 .. (m - 1) /\ 0 .. (s - 1) \subseteq 0 .. (m - 1) /\ s \in 0 .. s /\ v \in 0 .. (s - 1)
    BY <2>1, <2>2
  <2> QED
    BY <2>1, <2>3 DEF Childless
<1>2. ASSUME NEW v \in Childless(par, s) \ par[s]
      PROVE  v \in Childless(par, m)
  <2>1. v \in 0 .. (s - 1) /\ v \in 0 .. (m - 1) /\ v \notin par[s] /\ \A w \in 0 .. (s - 1) : v \notin par[w]
    BY DEF Childless
  <2>2. ASSUME NEW w \in 0 .. (m - 1) PROVE v \notin par[w]
    <3>1. CASE w \in 0 .. (s - 1)
      BY <2>1, <3>1
    <3>2. CASE w = s
      BY <2>1, <3>2
    <3>3. CASE w \in (s + 1) .. (m - 1)
      <4>1. par[w] = {w - 1} /\ v # w - 1
        BY <2>1, <3>3
      <4> QED
        BY <4>1
    <3> QED
      BY <3>1, <3>2, <3>3
  <2> QED
    BY <2>1, <2>2 DEF Childless
<1>3. m - 1 \in Childless(par, m)
  <2>1. ASSUME NEW w \in 0 .. (m - 1) PROVE m - 1 \notin par[w]
    <3>1. CASE w \in 0 .. s
      <4>1. par[w] \subseteq 0 .. (s - 1) /\ m - 1 \notin 0 .. (s - 1)
        BY <3>1
      <4> QED
        BY <4>1
    <3>2. CASE w \in (s + 1) .. (m - 1)
      <4>1. par[w] = {w - 1} /\ m - 1 # w - 1
        BY <3>2
      <4> QED
        BY <4>1
    <3> QED
      BY <3>1, <3>2
  <2>2. m - 1 \in 0 .. (m - 1)
    OBVIOUS
  <2> QED
    BY <2>1, <2>2 DEF Childless
<1> QED
  BY <1>1, <1>2, <1>3

\* Entry by entry, the frontier is made of what nothing follows.
LEMMA FrontierIsChildless ==
  ASSUME NEW g, GraphShape(g)
  PROVE  FrontierOfGraph(g) = Childless(ParentsIn(g), NextTime(g))
<1> DEFINE E == g.entries
           n == Len(E)
           par == ParentsIn(g)
           upper(i) == IF i = 0 THEN 0 ELSE E[i].end
           Next1(f, i) == IF i = 0 THEN {} ELSE AdvanceByKnownRun(f[i - 1], E[i].parents, E[i].end - 1)
           Steps(f) == f = [i \in 0 .. n |-> Next1(f, i)]
           upto == CHOOSE f : Steps(f)
           childless == [i \in 0 .. n |-> Childless(par, upper(i))]
           Differ == {i \in 0 .. n : upto[i] # childless[i]}
<1>1. FrontierOfGraph(g) = upto[n]
  BY DEF FrontierOfGraph
<1>2. /\ n \in Nat /\ DOMAIN E = 1 .. n /\ n \in 0 .. n
      /\ NextTime(g) = upper(n)
      /\ \A i \in 1 .. n : /\ E[i].start \in Nat /\ E[i].end \in Nat /\ E[i].start < E[i].end
                           /\ E[i].start = IF i = 1 THEN 0 ELSE E[i - 1].end
                           /\ \A p \in E[i].parents : p < E[i].start
                           /\ E[i].parents \subseteq Nat
  <2>1. /\ n \in Nat /\ DOMAIN E = 1 .. n
        /\ n = 0 => NextTime(g) = 0
        /\ n # 0 => NextTime(g) = E[n].end
    BY ShapeFacts
  <2>2. \A i \in 1 .. n : /\ E[i].start \in Nat /\ E[i].end \in Nat /\ E[i].start < E[i].end
                          /\ E[i].start = IF i = 1 THEN 0 ELSE E[i - 1].end
                          /\ \A p \in E[i].parents : p < E[i].start
                          /\ E[i].parents \subseteq Nat
    BY ShapeFacts
  <2> HIDE DEF n, E
  <2> QED
    BY <2>1, <2>2
<1>3. ASSUME NEW i \in 1 .. n
      PROVE  Childless(par, E[i].end) = (Childless(par, E[i].start) \ E[i].parents) \cup {E[i].end - 1}
  <2> DEFINE s == E[i].start
             m == E[i].end
  <2>1. s \in Nat /\ m \in Nat /\ s < m /\ m <= NextTime(g) /\ NextTime(g) \in Nat /\ Versions(g) = 0 .. (NextTime(g) - 1)
    BY <1>2, ShapeFacts, HeldVersions
  <2>2. \A w \in 0 .. (NextTime(g) - 1) : par[w] \subseteq 0 .. (w - 1)
    BY GraphIsTopological DEF Topological
  <2>3. m - 1 \in Versions(g) /\ HoldsVersion(E[i], m - 1)
    <3>1. m - 1 \in Versions(g) /\ m - 1 >= s /\ m - 1 < m
      <4> HIDE DEF s, m
      <4> QED
        BY <2>1
    <3> QED
      BY <3>1 DEF HoldsVersion
  <2>4. FindPacked(g, m - 1) = E[i]
    BY <1>2, <2>3, FoundEntry DEF FindPacked
  <2>5. \A w \in s .. (m - 1) : par[w] = IF w = s THEN E[i].parents ELSE {w - 1}
    <3>1. LET e == FindPacked(g, m - 1)
          IN  \A w \in e.start .. (m - 1) : ParentsIn(g)[w] = IF w = e.start THEN e.parents ELSE {w - 1}
      BY <2>3, RunOfVersion
    <3> QED
      BY <2>4, <3>1
  <2> HIDE DEF s, m, par
  <2>6. \A w \in 0 .. s : par[w] \subseteq 0 .. (s - 1)
    <3> SUFFICES ASSUME NEW w \in 0 .. s PROVE par[w] \subseteq 0 .. (s - 1)
      OBVIOUS
    <3>1. w \in 0 .. (NextTime(g) - 1) /\ 0 .. (w - 1) \subseteq 0 .. (s - 1)
      BY <2>1
    <3> QED
      BY <2>2, <3>1
  <2>7. par[s] = E[i].parents /\ \A w \in (s + 1) .. (m - 1) : par[w] = {w - 1}
    <3>1. s \in s .. (m - 1) /\ \A w \in (s + 1) .. (m - 1) : w \in s .. (m - 1) /\ w # s
      BY <2>1
    <3> QED
      BY <2>5, <3>1
  <2>8. RunUpTo(par, s, m)
    BY <2>1, <2>6, <2>7 DEF RunUpTo
  <2>9. Childless(par, m) = (Childless(par, s) \ par[s]) \cup {m - 1}
    BY <2>1, <2>8, ChildlessAfterRun
  <2> QED
    BY <2>7, <2>9 DEF s, m
<1>4. Steps(childless)
  <2> HIDE DEF E, n, par
  <2>1. ASSUME NEW i \in 0 .. n PROVE childless[i] = Next1(childless, i)
    <3>1. CASE i = 0
      <4>1. Childless(par, 0) = {}
        BY DEF Childless
      <4> QED
        BY <1>2, <3>1, <4>1
    <3>2. CASE i # 0
      <4>1. i \in 1 .. n /\ i - 1 \in 0 .. n /\ (i = 1 <=> i - 1 = 0)
        BY <1>2, <3>2
      <4>2. upper(i) = E[i].end /\ upper(i - 1) = E[i].start
        BY <1>2, <3>2, <4>1
      <4>3. childless[i] = Childless(par, E[i].end) /\ childless[i - 1] = Childless(par, E[i].start)
        BY <4>1, <4>2
      <4> HIDE DEF childless
      <4> QED
        BY <1>3, <3>2, <4>1, <4>3 DEF AdvanceByKnownRun
    <3> QED
      BY <3>1, <3>2
  <2>2. childless = [i \in 0 .. n |-> childless[i]]
    OBVIOUS
  <2> HIDE DEF childless, Next1
  <2> QED
    BY <2>1, <2>2
<1>5. Steps(upto)
  BY <1>4
<1> HIDE DEF upto, E, par
<1>6. Differ = {}
  <2> SUFFICES ASSUME Differ # {} PROVE FALSE
    OBVIOUS
  <2>1. Differ \subseteq Nat
    OBVIOUS
  <2> HIDE DEF Differ
  <2>2. PICK i \in Differ : \A j \in Differ : i <= j
    BY <2>1, LeastElement
  <2>3. i \in 0 .. n /\ upto[i] # childless[i]
    BY <2>2 DEF Differ
  <2> HIDE DEF n
  <2>4. upto[i] = Next1(upto, i) /\ childless[i] = Next1(childless, i)
    <3> HIDE DEF childless, Next1
    <3> QED
      BY <1>4, <1>5, <2>3
  <2> HIDE DEF childless
  <2>5. i # 0 /\ upto[i - 1] # childless[i - 1]
    BY <2>3, <2>4
  <2>6. i - 1 \in 0 .. n /\ ~ (i <= i - 1)
    BY <1>2, <2>3, <2>5
  <2> QED
    BY <2>2, <2>5, <2>6 DEF Differ
<1>7. upto[n] = childless[n]
  BY <1>2, <1>6
<1> HIDE DEF n
<1>8. childless[n] = Childless(par, NextTime(g))
  BY <1>2
<1> QED
  BY <1>1, <1>7, <1>8 DEF par, n

-----------------------------------------------------------------------------
(* Containment.                                                            *)


\* The highest of some versions.
LEMMA HighestProperties ==
  ASSUME NEW S, NEW n \in Nat, S \subseteq 0 .. (n - 1), S # {}
  PROVE  Highest(S) \in S /\ \A v \in S : v <= Highest(S)
<1>1. S \subseteq Nat /\ \A v \in S : v <= n
  OBVIOUS
<1>2. \E v \in S : \A w \in S : w <= v
  BY <1>1, GreatestElement
<1> QED
  BY <1>2 DEF Highest

\* A shadow settles the question: what it reaches is in the history.
LEMMA ShadowSettles ==
  ASSUME NEW g, GraphShape(g), CheckShadows(g), NEW v \in Versions(g), NEW target \in Nat, target <= v,
         ShadowContains(FindPacked(g, v), target)
  PROVE  target \in Histories(g)[v]
<1> DEFINE i == FindIndex(g, v)
           e == g.entries[i]
           h == Histories(g)
<1>1. i \in DOMAIN g.entries /\ FindPacked(g, v) = e
  BY FoundEntry DEF FindPacked
<1>2. /\ v \in Nat /\ e.start \in 0 .. v /\ e.shadow \in 0 .. e.start
      /\ e.start .. v \subseteq h[v]
      /\ \A w \in h[v] : h[w] \subseteq h[v]
  BY <1>1, RunOfVersion, HistoryFacts
<1>3. e.shadow .. e.start \subseteq h[e.start]
  BY <1>1, ShadowInHistory
<1>4. e.shadow <= target
  BY <1>1 DEF ShadowContains
<1> HIDE DEF e, h
<1>5. CASE target \in e.start .. v
  BY <1>2, <1>5 DEF h
<1>6. CASE target \notin e.start .. v
  <2>1. target \in e.shadow .. e.start /\ e.start \in e.start .. v
    BY <1>2, <1>4, <1>6
  <2> QED
    BY <1>2, <1>3, <2>1 DEF h
<1> QED
  BY <1>5, <1>6

-----------------------------------------------------------------------------
(* frontier_contains_version()                                             *)

\* The queue that follows: the runs below the highest one, and its parents.
Below(g, target, q) ==
  LET e == FindPacked(g, Highest(q))
  IN  {w \in q : w < e.start} \cup {p \in e.parents : p > target}

\* One iteration decides, or passes the question on to the next queue.
LEMMA ContainmentStep ==
  ASSUME NEW g, GraphShape(g), CheckShadows(g), NEW target \in Versions(g),
         NEW q \in SUBSET Versions(g), q # {}
  PROVE  LET e == FindPacked(g, Highest(q))
         IN  Leads(Histories(g), target, q) <=> \/ ShadowContains(e, target)
                                                \/ target \in e.parents
                                                \/ Leads(Histories(g), target, Below(g, target, q))
<1> DEFINE m == Highest(q)
           e == FindPacked(g, m)
           h == Histories(g)
           n == NextTime(g)
           par == ParentsIn(g)
<1>1. Topological(par, n) /\ n \in Nat /\ Versions(g) = 0 .. (n - 1) /\ h = HistoriesOf(par, n)
  BY GraphIsTopological
<1>2. m \in q /\ m \in Versions(g) /\ m \in Nat /\ target \in Nat /\ \A v \in q : v <= m
  <2>1. q \subseteq 0 .. (n - 1)
    BY <1>1
  <2>2. m \in q /\ \A v \in q : v <= m
    BY <1>1, <2>1, HighestProperties
  <2> HIDE DEF m, n
  <2> QED
    BY <1>1, <2>1, <2>2
<1>3. Below(g, target, q) = {w \in q : w < e.start} \cup {p \in e.parents : p > target}
  BY DEF Below
<1> HIDE DEF m, n
<1>4. /\ e.start \in 0 .. m /\ e.shadow \in 0 .. e.start
      /\ par[e.start] = e.parents
      /\ \A w \in (e.start + 1) .. m : par[w] = {w - 1}
  <2>1. /\ e.start \in 0 .. m /\ e.shadow \in 0 .. e.start
        /\ \A w \in e.start .. m : par[w] = IF w = e.start THEN e.parents ELSE {w - 1}
    BY <1>2, RunOfVersion
  <2> HIDE DEF e, par
  <2>2. e.start \in e.start .. m /\ \A w \in (e.start + 1) .. m : w \in e.start .. m /\ w # e.start
    BY <1>2, <2>1
  <2> QED
    BY <2>1, <2>2
<1>5. CASE ShadowContains(e, target)
  <2>1. m <= target \/ target \in h[m]
    <3>1. CASE target <= m
      BY <1>2, <1>5, <3>1, ShadowSettles
    <3>2. CASE ~ (target <= m)
      BY <1>2, <3>2
    <3> QED
      BY <3>1, <3>2
  <2> HIDE DEF h, e
  <2> QED
    BY <1>2, <1>5, <2>1 DEF Leads, e, m, h
<1> HIDE DEF e, par
<1>6. CASE ~ ShadowContains(e, target)
  <2>1. target \in 0 .. (n - 1) /\ q \in SUBSET (0 .. (n - 1)) /\ target < e.start
    BY <1>1, <1>2, <1>4, <1>6 DEF ShadowContains
  <2> HIDE DEF h
  <2>2. Leads(HistoriesOf(par, n), target, q) <=>
               \/ target \in par[e.start]
               \/ Leads(HistoriesOf(par, n), target, {w \in q : w < e.start} \cup {p \in par[e.start] : p > target})
    BY <1>1, <1>2, <1>4, <2>1, LeadsBelow
  <2> QED
    BY <1>1, <1>3, <1>4, <1>6, <2>2 DEF e, m, h
<1> QED
  BY <1>5, <1>6 DEF e, m, h

\* The next queue is a queue, and lower.
LEMMA ContainmentDescends ==
  ASSUME NEW g, GraphShape(g), NEW target \in Versions(g), NEW q \in SUBSET Versions(g), q # {}
  PROVE  /\ Below(g, target, q) \in SUBSET Versions(g)
         /\ Below(g, target, q) # {} => Highest(Below(g, target, q)) < Highest(q)
         /\ Highest(q) \in Nat
<1> DEFINE m == Highest(q)
           e == FindPacked(g, m)
           r == Below(g, target, q)
           n == NextTime(g)
<1>1. n \in Nat /\ Versions(g) = 0 .. (n - 1)
  BY GraphIsTopological
<1> HIDE DEF n
<1>2. m \in Versions(g) /\ m \in Nat
  <2>1. q \subseteq 0 .. (n - 1)
    BY <1>1
  <2>2. m \in q
    BY <1>1, <2>1, HighestProperties
  <2> HIDE DEF m
  <2> QED
    BY <1>1, <2>1, <2>2
<1>3. r = {w \in q : w < e.start} \cup {p \in e.parents : p > target}
  BY DEF Below
<1> HIDE DEF m, r
<1>4. /\ e.start \in Nat /\ e.start <= m /\ e.parents \subseteq Versions(g)
      /\ \A p \in e.parents : p < e.start
  <2>1. /\ e.start \in 0 .. m /\ e.parents \subseteq Versions(g)
        /\ \A p \in e.parents : p < e.start
    BY <1>2, RunOfVersion
  <2> HIDE DEF e
  <2> QED
    BY <1>2, <2>1
<1> HIDE DEF e
<1>5. r \subseteq Versions(g) /\ \A w \in r : w < e.start
  BY <1>3, <1>4
<1>6. ASSUME r # {} PROVE Highest(r) < m
  <2>1. r \subseteq 0 .. (n - 1)
    BY <1>1, <1>5
  <2>2. Highest(r) \in r
    BY <1>1, <2>1, <1>6, HighestProperties
  <2>3. Highest(r) \in Nat /\ Highest(r) < e.start
    <3>1. \A w \in 0 .. (n - 1) : w \in Nat
      BY <1>1
    <3> QED
      BY <1>5, <2>1, <2>2, <3>1, Zenon
  <2> QED
    BY <1>2, <1>4, <2>3
<1> QED
  BY <1>2, <1>5, <1>6 DEF m, r

\* The query answers what the history says, of any versions asked about.
LEMMA ContainmentOfGraph ==
  ASSUME NEW g, GraphShape(g), CheckShadows(g), NEW f \in SUBSET Versions(g), NEW target \in Versions(g)
  PROVE  FrontierContainsVersion(g, f, target) <=> target \in EventsOf(Histories(g), f)
<1> DEFINE Q          == SUBSET Versions(g)
           Next1(c, q) == /\ q # {}
                          /\ LET e == FindPacked(g, Highest(q))
                             IN  \/ ShadowContains(e, target)
                                 \/ target \in e.parents
                                 \/ c[{w \in q : w < e.start} \cup {p \in e.parents : p > target}]
           Loop(c)    == c = [q \in Q |-> Next1(c, q)]
           leads      == [q \in Q |-> Leads(Histories(g), target, q)]
           stop       == [q \in Q |-> LET e == FindPacked(g, Highest(q))
                                      IN  ShadowContains(e, target) \/ target \in e.parents]
           below      == [q \in Q |-> Below(g, target, q)]
           height     == [q \in Q |-> Highest(q)]
           loop       == CHOOSE c : Loop(c)
           above      == {v \in f : v > target}
           settled    == \E v \in f : v > target /\ ShadowContains(FindPacked(g, v), target)
<1>1. FrontierContainsVersion(g, f, target) <=> target \in f \/ settled \/ loop[above]
  BY DEF FrontierContainsVersion
<1>2. \A c : \A q \in Q : Next1(c, q) <=> q # {} /\ (stop[q] \/ c[below[q]])
  BY DEF Below
<1>3. \A q \in Q : leads[q] <=> q # {} /\ (stop[q] \/ leads[below[q]])
  <2> SUFFICES ASSUME NEW q \in Q PROVE leads[q] <=> q # {} /\ (stop[q] \/ leads[below[q]])
    OBVIOUS
  <2>1. leads[q] <=> Leads(Histories(g), target, q)
    OBVIOUS
  <2>2. CASE q = {}
    BY <2>1, <2>2 DEF Leads
  <2>3. CASE q # {}
    <3>1. Below(g, target, q) \in Q
      BY <2>3, ContainmentDescends
    <3>2. leads[below[q]] <=> Leads(Histories(g), target, Below(g, target, q))
      BY <3>1
    <3>3. stop[q] <=> LET e == FindPacked(g, Highest(q)) IN ShadowContains(e, target) \/ target \in e.parents
      OBVIOUS
    <3> HIDE DEF leads, stop, below
    <3> QED
      BY <2>1, <2>3, <3>2, <3>3, ContainmentStep
  <2> QED
    BY <2>2, <2>3
<1>4. Loop(leads)
  <2>1. leads = [q \in Q |-> leads[q]] /\ \A q \in Q : leads[q] \in BOOLEAN
    <3>1. \A q \in Q : leads[q] = Leads(Histories(g), target, q)
      OBVIOUS
    <3>2. \A q \in Q : Leads(Histories(g), target, q) \in BOOLEAN
      BY DEF Leads
    <3>3. leads = [q \in Q |-> leads[q]]
      OBVIOUS
    <3> HIDE DEF leads
    <3> QED
      BY <3>1, <3>2, <3>3
  <2>2. \A q \in Q : Next1(leads, q) \in BOOLEAN
    OBVIOUS
  <2> HIDE DEF leads, Next1, stop, below
  <2>3. \A q \in Q : leads[q] = Next1(leads, q)
    BY <1>2, <1>3, <2>1, <2>2
  <2> QED
    BY <2>1, <2>3
<1>5. Loop(loop)
  BY <1>4
<1> HIDE DEF loop, leads, Next1
<1>6. \A q \in Q : loop[q] = Next1(loop, q)
  BY <1>5
<1>7. \A q \in Q : loop[q] <=> leads[q]
  <2>1. Descends(Q, below, height)
    BY ContainmentDescends DEF Descends
  <2>2. Search(leads, Q, stop, below)
    BY <1>3 DEF Search
  <2>3. Search(loop, Q, stop, below)
    BY <1>2, <1>6 DEF Search
  <2> HIDE DEF Q, stop, below, height
  <2> QED
    BY <2>1, <2>2, <2>3, SearchIsUnique
<1>8. above \in Q
  OBVIOUS
<1>9. leads[above] <=> \E v \in above : v <= target \/ target \in Histories(g)[v]
  BY <1>8 DEF leads, Leads
<1>10. \A v \in Versions(g) : v \in Nat
  BY GraphIsTopological
<1>11. \A v \in Versions(g) : v \in Histories(g)[v] /\ Histories(g)[v] \subseteq 0 .. v
  BY HistoryFacts
<1>12. target \in EventsOf(Histories(g), f) <=> \E v \in f : target \in Histories(g)[v]
  BY DEF EventsOf
<1>13. \A v \in f : target \in Histories(g)[v] => v = target \/ v > target
  BY <1>10, <1>11
<1>14. \A v \in above : ~ (v <= target)
  BY <1>10
<1>15. settled => \E v \in f : target \in Histories(g)[v]
  <2> SUFFICES ASSUME NEW v \in f, v > target, ShadowContains(FindPacked(g, v), target)
               PROVE  target \in Histories(g)[v]
    OBVIOUS
  <2>1. v \in Versions(g) /\ target \in Nat /\ target <= v
    BY <1>10
  <2> QED
    BY <2>1, ShadowSettles
<1> HIDE DEF settled
<1> QED
  BY <1>1, <1>7, <1>8, <1>9, <1>11, <1>12, <1>13, <1>14, <1>15

-----------------------------------------------------------------------------
(* version_cmp() and frontier_cmp()                                        *)

\* Events of frontiers, where frontiers are sets of concurrent versions.
LEMMA FrontierFacts ==
  ASSUME NEW g, GraphShape(g), NEW a \in FrontiersOf(Histories(g))
  PROVE  /\ a \in SUBSET Versions(g)
         /\ \A v, w \in a : v \in Histories(g)[w] => v = w
<1>1. DOMAIN Histories(g) = Versions(g)
  BY GraphIsTopological, HistoryEquation
<1>2. a \in SUBSET Versions(g) /\ DominatorsOf(Histories(g), a) = a
  BY <1>1 DEF FrontiersOf
<1> QED
  BY <1>2 DEF DominatorsOf

\* A frontier is in the history of another when its versions are.
LEMMA EventsWithin ==
  ASSUME NEW g, GraphShape(g), NEW a \in SUBSET Versions(g), NEW b \in SUBSET Versions(g)
  PROVE  EventsOf(Histories(g), b) \subseteq EventsOf(Histories(g), a) <=> b \subseteq EventsOf(Histories(g), a)
<1> DEFINE h == Histories(g)
<1>1. \A v \in Versions(g) : /\ v \in h[v]
                             /\ \A w \in h[v] : h[w] \subseteq h[v]
  BY HistoryFacts
<1> HIDE DEF h
<1>2. b \subseteq EventsOf(h, b)
  BY <1>1 DEF EventsOf
<1>3. ASSUME b \subseteq EventsOf(h, a) PROVE EventsOf(h, b) \subseteq EventsOf(h, a)
  <2> SUFFICES ASSUME NEW w \in b, NEW x \in h[w] PROVE x \in EventsOf(h, a)
    BY DEF EventsOf
  <2>1. PICK v \in a : w \in h[v]
    BY <1>3 DEF EventsOf
  <2> QED
    BY <1>1, <2>1 DEF EventsOf
<1> QED
  BY <1>2, <1>3 DEF h

\* Frontiers with the same events are the same.
LEMMA FrontiersDiffer ==
  ASSUME NEW g, GraphShape(g), NEW a \in FrontiersOf(Histories(g)), NEW b \in FrontiersOf(Histories(g)),
         EventsOf(Histories(g), a) \subseteq EventsOf(Histories(g), b),
         EventsOf(Histories(g), b) \subseteq EventsOf(Histories(g), a)
  PROVE  a \subseteq b
<1> DEFINE h == Histories(g)
<1>1. \A v \in Versions(g) : /\ v \in h[v] /\ h[v] \subseteq 0 .. v
                             /\ \A w \in h[v] : h[w] \subseteq h[v]
  BY HistoryFacts
<1>2. \A v \in Versions(g) : v \in Nat
  BY GraphIsTopological
<1>3. a \subseteq Versions(g) /\ b \subseteq Versions(g) /\ \A v, w \in a : v \in h[w] => v = w
  BY FrontierFacts
<1>4. EventsOf(h, a) \subseteq EventsOf(h, b) /\ EventsOf(h, b) \subseteq EventsOf(h, a)
  OBVIOUS
<1> HIDE DEF h
<1> SUFFICES ASSUME NEW v \in a PROVE v \in b
  OBVIOUS
<1>5. PICK w \in b : v \in h[w]
  BY <1>1, <1>3, <1>4 DEF EventsOf
<1>6. PICK x \in a : w \in h[x]
  BY <1>1, <1>3, <1>4 DEF EventsOf
<1>7. v = x
  BY <1>1, <1>3, <1>5, <1>6
<1>8. v \in 0 .. w /\ w \in 0 .. v
  BY <1>1, <1>3, <1>5, <1>6, <1>7
<1>9. v = w
  BY <1>2, <1>3, <1>8
<1> QED
  BY <1>9

\* One version is less than another when it is in its history.
LEMMA VersionsCompare ==
  ASSUME NEW g, GraphShape(g), CheckShadows(g), NEW v \in Versions(g), NEW w \in Versions(g)
  PROVE  VersionCmp(g, v, w) = OrderOf(Histories(g)[v], Histories(g)[w])
<1> DEFINE h == Histories(g)
<1>1. \A x \in Versions(g) : /\ x \in h[x] /\ h[x] \subseteq 0 .. x
                             /\ \A y \in h[x] : h[y] \subseteq h[x]
  BY HistoryFacts
<1>2. v \in Nat /\ w \in Nat
  BY GraphIsTopological
<1>3. \A x, y \in Versions(g) : FrontierContainsVersion(g, {y}, x) <=> x \in h[y]
  <2> SUFFICES ASSUME NEW x \in Versions(g), NEW y \in Versions(g)
               PROVE  FrontierContainsVersion(g, {y}, x) <=> x \in h[y]
    OBVIOUS
  <2>1. FrontierContainsVersion(g, {y}, x) <=> x \in EventsOf(h, {y})
    BY ContainmentOfGraph
  <2>2. EventsOf(h, {y}) = h[y]
    BY DEF EventsOf
  <2> QED
    BY <2>1, <2>2
<1> HIDE DEF h
<1>4. \A x, y \in Versions(g) : x \in h[y] <=> h[x] \subseteq h[y]
  BY <1>1
<1>5. \A x, y \in Versions(g) : x < y => ~ (h[y] \subseteq h[x])
  <2> SUFFICES ASSUME NEW x \in Versions(g), NEW y \in Versions(g), x < y PROVE y \notin h[x]
    BY <1>1
  <2>1. x \in Nat /\ y \in Nat
    BY GraphIsTopological
  <2>2. y \notin 0 .. x
    BY <2>1
  <2> QED
    BY <1>1, <2>2
<1>6. CASE v = w
  BY <1>2, <1>6 DEF VersionCmp, OrderOf, h
<1>7. CASE v < w
  <2>1. VersionCmp(g, v, w) = IF v \in h[w] THEN "Less" ELSE "None"
    BY <1>2, <1>3, <1>7 DEF VersionCmp
  <2>2. OrderOf(h[v], h[w]) = IF h[v] \subseteq h[w] THEN "Less" ELSE "None"
    BY <1>5, <1>7 DEF OrderOf
  <2> QED
    BY <1>4, <2>1, <2>2 DEF h
<1>8. CASE w < v
  <2>1. VersionCmp(g, v, w) = IF w \in h[v] THEN "Greater" ELSE "None"
    BY <1>2, <1>3, <1>8 DEF VersionCmp
  <2>2. OrderOf(h[v], h[w]) = IF h[w] \subseteq h[v] THEN "Greater" ELSE "None"
    BY <1>5, <1>8 DEF OrderOf
  <2> QED
    BY <1>4, <2>1, <2>2 DEF h
<1> QED
  BY <1>2, <1>6, <1>7, <1>8

\* And so for frontiers.
LEMMA FrontiersCompare ==
  ASSUME NEW g, GraphShape(g), CheckShadows(g),
         NEW a \in FrontiersOf(Histories(g)), NEW b \in FrontiersOf(Histories(g))
  PROVE  FrontierCmp(g, a, b) = OrderOf(EventsOf(Histories(g), a), EventsOf(Histories(g), b))
<1> DEFINE h == Histories(g)
           A == EventsOf(h, a)
           B == EventsOf(h, b)
<1>1. a \in SUBSET Versions(g) /\ b \in SUBSET Versions(g)
  BY FrontierFacts
<1>2. FrontierContainsFrontier(g, a, b) <=> a = b \/ b \subseteq A
  BY <1>1, ContainmentOfGraph DEF FrontierContainsFrontier
<1>3. FrontierContainsFrontier(g, b, a) <=> a = b \/ a \subseteq B
  BY <1>1, ContainmentOfGraph DEF FrontierContainsFrontier
<1>4. B \subseteq A <=> b \subseteq A
  BY <1>1, EventsWithin
<1>5. A \subseteq B <=> a \subseteq B
  BY <1>1, EventsWithin
<1>6. A \subseteq B /\ B \subseteq A => a = b
  <2> SUFFICES ASSUME A \subseteq B, B \subseteq A PROVE a \subseteq b /\ b \subseteq a
    OBVIOUS
  <2> QED
    BY FrontiersDiffer
<1>7. a = b => A = B
  OBVIOUS
<1>8. FrontierCmp(g, a, b) = CASE a = b -> "Equal"
                               [] a # b /\ a = {} -> "Less"
                               [] a # b /\ a # {} /\ FrontierContainsFrontier(g, a, b) -> "Greater"
                               [] OTHER -> IF FrontierContainsFrontier(g, b, a) THEN "Less" ELSE "None"
  BY DEF FrontierCmp
<1> HIDE DEF A, B
<1>9. OrderOf(A, B) = CASE A = B -> "Equal"
                        [] A # B /\ B \subseteq A -> "Greater"
                        [] A # B /\ A \subseteq B -> "Less"
                        [] OTHER -> "None"
  BY DEF OrderOf
<1>10. FrontierCmp(g, a, b) = OrderOf(A, B)
  <2>1. CASE a = b
    BY <1>7, <1>8, <1>9, <2>1
  <2>2. CASE a # b
    <3>1. A # B
      BY <1>6, <2>2
    <3>2. CASE a = {}
      <4>1. A \subseteq B /\ ~ (B \subseteq A)
        BY <1>5, <1>6, <2>2, <3>2
      <4> QED
        BY <1>8, <1>9, <2>2, <3>1, <3>2, <4>1
    <3>3. CASE a # {}
      <4>1. CASE B \subseteq A
        BY <1>2, <1>4, <1>8, <1>9, <2>2, <3>1, <3>3, <4>1
      <4>2. CASE ~ (B \subseteq A)
        BY <1>2, <1>3, <1>4, <1>5, <1>8, <1>9, <2>2, <3>1, <3>3, <4>2
      <4> QED
        BY <4>1, <4>2
    <3> QED
      BY <3>2, <3>3
  <2> QED
    BY <2>1, <2>2
<1> QED
  BY <1>10 DEF A, B

-----------------------------------------------------------------------------
(* The specification.                                                      *)

LEMMA EmptyGraphChecks == GraphInv(EmptyGraph)
<1>1. EmptyGraph.entries = <<>> /\ EmptyGraph.rootChildren = <<>> /\ EmptyGraph \in Graph
  BY DEF EmptyGraph, Graph
<1>2. DOMAIN EmptyGraph.entries = {} /\ DOMAIN EmptyGraph.rootChildren = {}
  BY <1>1
<1>3. CheckChildIndexes(EmptyGraph)
  BY <1>2 DEF CheckChildIndexes, Lists
<1> QED
  BY <1>1, <1>2, <1>3 DEF GraphInv, GraphShape, CheckPackedFrom0, CheckFullyMerged, CheckShadows

\* What dbg_check() asserts holds in every graph push() makes, as the entries
\* state it.
THEOREM GraphInvariance == Spec => []GraphInv(graph)
<1>1. Init => GraphInv(graph)
  BY EmptyGraphChecks DEF Init
<1>2. GraphInv(graph) /\ [Next]_graph => GraphInv(graph)'
  <2> SUFFICES ASSUME GraphInv(graph), [Next]_graph PROVE GraphInv(graph')
    OBVIOUS
  <2>1. CASE UNCHANGED graph
    BY <2>1
  <2>2. CASE Next
    <3>1. PICK parents \in FrontiersOf(Histories(graph)), end \in 1 .. MaxVersions : PushRun(parents, end)
      BY <2>2 DEF Next
    <3>2. end \in Nat
      OBVIOUS
    <3>3. parents \in SUBSET Versions(graph)
      <4>1. Topological(ParentsIn(graph), NextTime(graph)) /\ Versions(graph) = 0 .. (NextTime(graph) - 1)
            /\ Histories(graph) = HistoriesOf(ParentsIn(graph), NextTime(graph))
        BY GraphIsTopological DEF GraphInv
      <4>2. DOMAIN Histories(graph) = Versions(graph)
        BY <4>1, HistoryEquation
      <4> QED
        BY <4>2 DEF FrontiersOf
    <3> QED
      BY <3>1, <3>2, <3>3, PushKeepsInv DEF PushRun
  <2> QED
    BY <2>1, <2>2
<1> QED
  BY <1>1, <1>2, PTL DEF Spec

\* What dbg_check() asserts holds in every graph push() makes, a shadow reaches
\* no further than the history of its entry, and the frontier computed from the
\* entries is that of the partial order.
THEOREM GraphsAreChecked == Spec => []GraphChecks
<1>1. ASSUME GraphInv(graph) PROVE GraphChecks
  <2>1. GraphShape(graph) /\ CheckFullyMerged(graph) /\ CheckChildIndexes(graph) /\ CheckShadows(graph)
        /\ CheckPackedFrom0(graph)
    BY <1>1 DEF GraphInv, GraphShape
  <2>2. \A i \in DOMAIN graph.entries :
          graph.entries[i].shadow .. graph.entries[i].start \subseteq Histories(graph)[graph.entries[i].start]
    BY <2>1, ShadowInHistory
  <2>3. FrontierOfGraph(graph) = DominatorsOf(Histories(graph), Versions(graph))
    <3>1. /\ Topological(ParentsIn(graph), NextTime(graph)) /\ Versions(graph) = 0 .. (NextTime(graph) - 1)
          /\ Histories(graph) = HistoriesOf(ParentsIn(graph), NextTime(graph))
      BY <2>1, GraphIsTopological
    <3>2. DominatorsOf(HistoriesOf(ParentsIn(graph), NextTime(graph)), 0 .. (NextTime(graph) - 1)) =
            Childless(ParentsIn(graph), NextTime(graph))
      BY <3>1, DominatorsAreChildless DEF Childless
    <3> QED
      BY <2>1, <3>1, <3>2, FrontierIsChildless
  <2> QED
    BY <2>1, <2>2, <2>3 DEF GraphChecks
<1> QED
  BY GraphInvariance, <1>1, PTL

\* Containment, which walks entries and stops at shadows, and the comparisons
\* made of it answer what the histories of single versions do.
THEOREM ExactQueries == Spec => []QueriesAreHistories
<1>1. ASSUME GraphInv(graph) PROVE QueriesAreHistories
  <2>1. GraphShape(graph) /\ CheckShadows(graph)
    BY <1>1 DEF GraphInv
  <2>2. \A f \in SUBSET Versions(graph), v \in Versions(graph) :
          FrontierContainsVersion(graph, f, v) <=> v \in EventsOf(Histories(graph), f)
    BY <2>1, ContainmentOfGraph
  <2>3. \A v, w \in Versions(graph) : VersionCmp(graph, v, w) = OrderOf(Histories(graph)[v], Histories(graph)[w])
    BY <2>1, VersionsCompare
  <2>4. \A a, b \in FrontiersOf(Histories(graph)) :
          FrontierCmp(graph, a, b) = OrderOf(EventsOf(Histories(graph), a), EventsOf(Histories(graph), b))
    BY <2>1, FrontiersCompare
  <2> QED
    BY <2>2, <2>3, <2>4 DEF QueriesAreHistories
<1> QED
  BY GraphInvariance, <1>1, PTL
=============================================================================
