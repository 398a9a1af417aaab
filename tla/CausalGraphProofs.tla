-------------------------- MODULE CausalGraphProofs --------------------------
(***************************************************************************)
(* What holds of the causal graph in every reachable state: for any number *)
(* of agents, calls and events.                                            *)
(*                                                                         *)
(* Every action adds a span of which the graph knows a prefix, and so it   *)
(* inserts one run of unknown events or changes nothing.  GraphInv, IdInv  *)
(* and ParentFrontiers are inductive by that, and the properties of the    *)
(* runs follow by the facts about one graph.                               *)
(*                                                                         *)
(* With both indexes the causal graph implements the log of events: adding *)
(* a span, of which a prefix may be known, at whatever place of an agent's *)
(* list it belongs, adds to the events the graph stands for those the span *)
(* describes, and nothing else.  The refinement mapping forgets the local  *)
(* versions: an event is its identity with the identities of its parents.  *)
(***************************************************************************)
EXTENDS CausalFacts, CausalGraphToolsSpec

-----------------------------------------------------------------------------
(* What the moves and the exchange do to any graphs.                       *)

\* add() leaves the graph alone or inserts one run.
LEMMA AddInsertsOrNot ==
  ASSUME NEW g, GraphInv(g),
         NEW agent \in Agents, NEW seqStart \in Nat, NEW seqEnd \in Nat, seqStart < seqEnd,
         NEW parents, parents \subseteq Versions(g)
  PROVE  \/ Add(g, agent, seqStart, seqEnd, parents) = g
         \/ \E e : Insertable(g, e) /\ Add(g, agent, seqStart, seqEnd, parents) = InsertEntry(g, e)
<1>1. CASE UnknownSeqs(g, agent, seqStart, seqEnd) = {}
  BY <1>1 DEF Add
<1>2. CASE UnknownSeqs(g, agent, seqStart, seqEnd) # {}
  <2>1. g \in CG /\ \A a \in Agents : RunsWithin(g.agentToVersion[a], NextLV(g))
    BY DEF GraphInv
  <2>2. Insertable(g, NewEntry(g, agent, seqStart, seqEnd, parents))
    BY <1>2, <2>1, NewEntryInsertable
  <2>3. Add(g, agent, seqStart, seqEnd, parents) =
          InsertEntry(g, NewEntry(g, agent, seqStart, seqEnd, parents))
    BY <1>2 DEF Add
  <2> QED
    BY <2>2, <2>3
<1> QED
  BY <1>1, <1>2

\* How a branch moves from one frontier to another: versions dropped and taken.
LEMMA MovesOfGraph ==
  ASSUME NEW g, GraphInv(g), NEW a \in SUBSET Versions(g), NEW b \in SUBSET Versions(g)
  PROVE  IsAscending(FindDominators(g, Ascending(a) \o Ascending(b)), DominatorsOf(Histories(g), a \cup b))
<1> DEFINE list == Ascending(a) \o Ascending(b)
<1>1. Ascending(a) \in Seq(Versions(g)) /\ Ascending(b) \in Seq(Versions(g))
      /\ VersionsIn(Ascending(a)) = a /\ VersionsIn(Ascending(b)) = b
  BY AscendingOfSet
<1>2. list \in Seq(Versions(g)) /\ VersionsIn(list) = a \cup b
  BY <1>1, VersionsOfBoth
<1> HIDE DEF list
<1>3. IsAscending(FindDominators(g, list), DominatorsOf(Histories(g), VersionsIn(list)))
  BY <1>2, DominatorsOfGraph
<1> QED
  BY <1>2, <1>3 DEF list

\* A history has the parents of its events.
LEMMA ParentsInHistory ==
  ASSUME NEW g, GraphInv(g), NEW f \in SUBSET Versions(g), NEW u \in EventsOf(Histories(g), f)
  PROVE  u \in Versions(g) /\ ParentsOf(g, u) \subseteq EventsOf(Histories(g), f)
<1> DEFINE par == ParentsIn(g)
           n   == NextLV(g)
           h   == Histories(g)
<1>1. Topological(par, n) /\ Versions(g) = 0 .. (n - 1) /\ h = HistoriesOf(par, n)
  BY GraphIsTopological DEF Histories, ParentsIn
<1>2. PICK v \in f : u \in h[v]
  BY DEF EventsOf
<1>3. par[u] = ParentsOf(g, u) /\ u \in Versions(g)
  BY EventsAreVersions DEF ParentsIn
<1> HIDE DEF par, n, h
<1>4. v \in 0 .. (n - 1) /\ u \in 0 .. (n - 1)
  BY <1>1, <1>3
<1>5. h[u] \subseteq h[v]
  BY <1>1, <1>2, <1>4, HistoryOrder
<1>6. \A p \in par[u] : p \in 0 .. (n - 1) /\ h[p] \subseteq h[u]
  BY <1>1, <1>4, HistoryOrder
<1>7. \A p \in par[u] : p \in h[p]
  BY <1>1, <1>6, HistoryOrder
<1>8. par[u] \subseteq h[v]
  BY <1>5, <1>6, <1>7
<1> QED
  BY <1>2, <1>3, <1>8 DEF EventsOf, h

\* Nothing is known to the empty graph.
LEMMA EmptyGraphKnows ==
  ASSUME NEW s
  PROVE  Sound(EmptyCG) /\ Agree(EmptyCG, s) /\ KnownTo(EmptyCG, s) = {} /\ EventSet(EmptyCG) = {}
<1>1. Versions(EmptyCG) = {}
  BY DEF EmptyCG, Versions, NextLV
<1>2. Sound(EmptyCG)
  BY EmptyIds, EmptyFrontiers DEF Sound
<1> QED
  BY <1>1, <1>2 DEF Agree, KnownTo, EventSet

\* The events of a graph that has taken others.
LEMMA ReplayedEvents ==
  ASSUME NEW d, d \in CG, NEW s, Sound(s), Agree(d, s), NEW ord, NEW g, Replays(d, s, ord, g),
         NEW R, Rising(ord, R)
  PROVE  EventSet(g) = EventSet(d) \cup {EventAt(s, u) : u \in R}
<1> DEFINE n == NextLV(d)
           m == Len(ord)
<1>1. /\ n \in Nat /\ m \in Nat /\ Versions(d) \subseteq Versions(g)
      /\ \A i \in 1 .. m : ord[i] \in Versions(s) /\ n + (i - 1) \in Versions(g)
      /\ \A v \in Versions(g) : v \in Versions(d) \/ \E i \in 1 .. m : v = n + (i - 1)
  BY ReplayedFrom
<1>2. /\ \A v \in Versions(d) : EventAt(g, v) = EventAt(d, v)
      /\ \A i \in 1 .. m : EventAt(g, n + (i - 1)) = EventAt(s, ord[i])
  BY DEF Replays
<1>3. \A u : u \in R <=> \E i \in 1 .. m : u = ord[i]
  BY DEF Rising
<1> HIDE DEF n, m
<1>4. ASSUME NEW v \in Versions(g) PROVE EventAt(g, v) \in EventSet(d) \cup {EventAt(s, u) : u \in R}
  <2>1. CASE v \in Versions(d)
    BY <1>2, <2>1 DEF EventSet
  <2>2. CASE \E i \in 1 .. m : v = n + (i - 1)
    <3>1. PICK i \in 1 .. m : v = n + (i - 1)
      BY <2>2
    <3>2. EventAt(g, v) = EventAt(s, ord[i]) /\ ord[i] \in R
      BY <1>2, <1>3, <3>1
    <3> QED
      BY <3>2
  <2> QED
    BY <1>1, <2>1, <2>2
<1>5. ASSUME NEW v \in Versions(d) PROVE EventAt(d, v) \in EventSet(g)
  <2>1. v \in Versions(g) /\ EventAt(g, v) = EventAt(d, v)
    BY <1>1, <1>2
  <2> QED
    BY <2>1 DEF EventSet
<1>6. ASSUME NEW u \in R PROVE EventAt(s, u) \in EventSet(g)
  <2>1. PICK i \in 1 .. m : u = ord[i]
    BY <1>3
  <2>2. n + (i - 1) \in Versions(g) /\ EventAt(g, n + (i - 1)) = EventAt(s, u)
    BY <1>1, <1>2, <2>1
  <2> QED
    BY <2>2 DEF EventSet
<1>7. EventSet(d) = {EventAt(d, v) : v \in Versions(d)} /\ EventSet(g) = {EventAt(g, v) : v \in Versions(g)}
  BY DEF EventSet
<1> QED
  BY <1>4, <1>5, <1>6, <1>7

\* A graph that is sent what it lacks has the events of both.
LEMMA LackingDelivered ==
  ASSUME NEW d, Sound(d), NEW s, Sound(s), Agree(d, s)
  PROVE  LET r == MergePartialVersions(d, SerializeDiff(s, LackingOf(d, s)))
         IN  /\ r.thrown = FALSE
             /\ Replays(d, s, RangesLVs(LackingOf(d, s)), r.cg)
             /\ EventSet(r.cg) = EventSet(d) \cup EventSet(s)
<1> DEFINE rs  == LackingOf(d, s)
           r   == MergePartialVersions(d, SerializeDiff(s, rs))
           R   == Versions(s) \ KnownTo(d, s)
<1>1. IdInv(d) /\ IdInv(s) /\ d \in CG
  BY DEF Sound, IdInv, GraphInv
<1>2. rs \in Seq(Nat \X Nat) /\ Canonical(rs) /\ RangesToSet(rs) = R /\ Sendable(d, s, RangesToSet(rs))
  BY <1>1, LackingIsUnknown
<1> HIDE DEF rs
<1>3. r.thrown = FALSE /\ Replays(d, s, RangesLVs(rs), r.cg) /\ Rising(RangesLVs(rs), RangesToSet(rs))
  BY <1>2, RangesReplay
<1> HIDE DEF r
<1>4. EventSet(r.cg) = EventSet(d) \cup {EventAt(s, u) : u \in R}
  BY <1>1, <1>2, <1>3, ReplayedEvents
<1>5. ASSUME NEW u \in Versions(s), u \notin R PROVE EventAt(s, u) \in EventSet(d)
  <2>1. PICK v \in Versions(d) : LvToRaw(d, v) = LvToRaw(s, u)
    BY <1>5 DEF KnownTo
  <2>2. EventAt(d, v) = EventAt(s, u)
    BY <2>1 DEF Agree
  <2> QED
    BY <2>2 DEF EventSet
<1>6. EventSet(s) = {EventAt(s, u) : u \in Versions(s)} /\ R \subseteq Versions(s)
  BY DEF EventSet
<1> HIDE DEF R
<1>7. EventSet(r.cg) = EventSet(d) \cup EventSet(s)
  BY <1>4, <1>5, <1>6
<1> QED
  BY <1>3, <1>7 DEF r, rs

\* A replica that has the history of a frontier.
LEMMA PartialOfGraph ==
  ASSUME NEW s, Sound(s), NEW f \in SUBSET Versions(s)
  PROVE  LET r == MergePartialVersions(EmptyCG, SerializeDiff(s, Diff(s, {}, f).bOnly))
         IN  /\ r.thrown = FALSE
             /\ Sound(r.cg)
             /\ EventSet(r.cg) = {EventAt(s, v) : v \in EventsOf(Histories(s), f)}
<1> DEFINE h  == Histories(s)
           R  == EventsOf(h, f)
           rs == Diff(s, {}, f).bOnly
           r  == MergePartialVersions(EmptyCG, SerializeDiff(s, rs))
<1>1. GraphInv(s) /\ EmptyCG \in CG
  BY EmptyIds DEF Sound, IdInv, GraphInv
<1>2. RangesToSet(rs) = R /\ Canonical(rs) /\ rs \in Seq(Nat \X Nat)
  <2>1. EventsOf(h, {}) = {}
    BY DEF EventsOf
  <2>2. {} \in SUBSET Versions(s)
    OBVIOUS
  <2>3. RangesToSet(rs) = R \ EventsOf(h, {}) /\ Canonical(rs) /\ rs \in Seq(Nat \X Nat)
    BY <1>1, <2>2, DiffOfGraph
  <2> QED
    BY <2>1, <2>3
<1> HIDE DEF rs
<1>3. Sendable(EmptyCG, s, R)
  <2>1. \A u \in R : u \in Versions(s) /\ ParentsOf(s, u) \subseteq R
    BY <1>1, ParentsInHistory
  <2>2. KnownTo(EmptyCG, s) = {}
    BY EmptyGraphKnows
  <2> HIDE DEF R
  <2> QED
    BY <2>1, <2>2 DEF Sendable
<1> HIDE DEF R
<1>4. Sound(EmptyCG) /\ Agree(EmptyCG, s) /\ EventSet(EmptyCG) = {}
  BY EmptyGraphKnows
<1>5. r.thrown = FALSE /\ Replays(EmptyCG, s, RangesLVs(rs), r.cg) /\ Rising(RangesLVs(rs), R)
  BY <1>2, <1>3, <1>4, RangesReplay
<1> HIDE DEF r
<1>6. EventSet(r.cg) = EventSet(EmptyCG) \cup {EventAt(s, u) : u \in R}
  BY <1>1, <1>4, <1>5, ReplayedEvents
<1>7. EventSet(r.cg) = {EventAt(s, u) : u \in R} /\ Sound(r.cg)
  BY <1>4, <1>5, <1>6 DEF Replays
<1> QED
  BY <1>5, <1>7 DEF r, R, rs

\* Graphs that know parts of a third agree.
LEMMA PartsAgree ==
  ASSUME NEW g, IdInv(g), NEW a, EventSet(a) \subseteq EventSet(g), NEW b, EventSet(b) \subseteq EventSet(g)
  PROVE  Agree(a, b)
<1> SUFFICES ASSUME NEW v \in Versions(a), NEW u \in Versions(b), LvToRaw(a, v) = LvToRaw(b, u)
             PROVE  EventAt(a, v) = EventAt(b, u)
  BY DEF Agree
<1>1. PICK x \in Versions(g) : EventAt(a, v) = EventAt(g, x)
  BY DEF EventSet
<1>2. PICK y \in Versions(g) : EventAt(b, u) = EventAt(g, y)
  BY DEF EventSet
<1>3. LvToRaw(a, v) = LvToRaw(g, x) /\ LvToRaw(b, u) = LvToRaw(g, y)
  BY <1>1, <1>2 DEF EventAt
<1>4. x = y
  BY <1>3, OneVersion
<1> QED
  BY <1>1, <1>2, <1>4

-----------------------------------------------------------------------------
(* Encoding.                                                               *)

LEMMA InitInv == Init => GraphInv(cg)
BY EmptyGraphInv DEF Init

\* A step inserts one run or changes nothing.
LEMMA StepInserts ==
  ASSUME GraphInv(cg), [Next]_vars
  PROVE  cg' = cg \/ \E e : Insertable(cg, e) /\ cg' = InsertEntry(cg, e)
<1>1. CASE UNCHANGED vars
  BY <1>1 DEF vars
<1>2. ASSUME NEW agent \in Agents, NEW seq \in 0 .. MaxSeq, NEW len \in 1 .. MaxLen,
             NEW parents \in Frontiers(cg),
             \/ AddSpan(agent, seq, len, parents)
             \/ AssignLocal(agent, seq, parents, len)
      PROVE  cg' = cg \/ \E e : Insertable(cg, e) /\ cg' = InsertEntry(cg, e)
  <2>1. seq \in Nat /\ seq + len \in Nat /\ seq < seq + len
    BY BoundsAssumption
  <2>2. parents \subseteq Versions(cg)
    BY DEF Frontiers
  <2>3. CASE AddSpan(agent, seq, len, parents)
    <3>1. cg' = Add(cg, agent, seq, seq + len, parents)
      BY <2>3 DEF AddSpan
    <3> QED
      BY <2>1, <2>2, <3>1, AddInsertsOrNot
  <2>4. CASE AssignLocal(agent, seq, parents, len)
    <3>1. cg' = Add(cg, agent, seq, seq + len, parents)
      BY <2>4 DEF AssignLocal
    <3> QED
      BY <2>1, <2>2, <3>1, AddInsertsOrNot
  <2> QED
    BY <1>2, <2>3, <2>4
<1> QED
  BY <1>1, <1>2 DEF Next

LEMMA StepInv == GraphInv(cg) /\ [Next]_vars => GraphInv(cg)'
<1> SUFFICES ASSUME GraphInv(cg), [Next]_vars PROVE GraphInv(cg')
  BY DEF GraphInv, Childless, RunsWithin, Covers
<1> QED
  BY StepInserts, InsertKeepsInv

\* The inductive invariant holds of every reachable graph.
THEOREM Invariance == Spec => []GraphInv(cg)
<1> QED
  BY InitInv, StepInv, PTL DEF Spec

\* Whatever is added, in whatever order, the graph has the shape that
\* causal-graph.ts declares.
THEOREM TypeCorrectness == Spec => []TypeOK
<1>1. GraphInv(cg) => TypeOK
  BY DEF GraphInv, TypeOK
<1> QED
  BY Invariance, <1>1, PTL

\* pushRLE and insertRLEList keep the entries contiguous, and local versions
\* remain a topological order.
THEOREM OrderOfEntries == Spec => []EntriesInOrder
<1>1. GraphInv(cg) => EntriesInOrder
  BY DEF GraphInv, Ordered, EntriesInOrder
<1> QED
  BY Invariance, <1>1, PTL

\* Every binary search for a version succeeds, with the one entry that holds
\* it.
THEOREM CoverOfVersions == Spec => []VersionsCovered
<1>1. GraphInv(cg) => VersionsCovered
  <2> SUFFICES ASSUME GraphInv(cg), NEW v \in Versions(cg)
               PROVE  \E i \in DOMAIN cg.entries :
                        /\ cg.entries[i].version <= v /\ v < cg.entries[i].vEnd
                        /\ \A j \in DOMAIN cg.entries : j # i =>
                             ~ (cg.entries[j].version <= v /\ v < cg.entries[j].vEnd)
    BY DEF VersionsCovered
  <2>1. cg \in CG /\ Disjoint(cg.entries) /\ Covers(cg.entries, NextLV(cg)) /\ cg.entries \in Seq(Entry)
    BY DEF GraphInv, CG
  <2>2. PICK i \in DOMAIN cg.entries : Holds(cg.entries, i, v)
    BY <2>1 DEF Covers, Versions
  <2>3. v \in Nat
    BY <2>1, NextLVType DEF Versions
  <2>4. ASSUME NEW j \in DOMAIN cg.entries, j # i
        PROVE  ~ (cg.entries[j].version <= v /\ v < cg.entries[j].vEnd)
    <3>1. /\ cg.entries[i].version \in Nat /\ cg.entries[i].vEnd \in Nat
          /\ cg.entries[j].version \in Nat /\ cg.entries[j].vEnd \in Nat
      BY <2>1, EntryFields
    <3>2. i < j \/ j < i
      BY <2>1, <2>4
    <3>3. cg.entries[i].vEnd <= cg.entries[j].version \/ cg.entries[j].vEnd <= cg.entries[i].version
      BY <2>1, <3>2 DEF Disjoint
    <3> QED
      BY <2>2, <2>3, <3>1, <3>3 DEF Holds
  <2> QED
    BY <2>2, <2>4 DEF Holds
<1> QED
  BY Invariance, <1>1, PTL

\* The frontier that advanceFrontier() maintains is the set of events without
\* a child.
THEOREM HeadsOfGraph == Spec => []HeadsAreChildless
<1>1. GraphInv(cg) => HeadsAreChildless
  BY DEF GraphInv, Childless, HeadsAreChildless
<1> QED
  BY Invariance, <1>1, PTL

\* Neither an insertion nor the extension of a run in place touches an event
\* that is in the graph.
THEOREM StabilityOfEvents == Spec => EventsAreStable
<1> DEFINE Stable(g) == /\ NextLV(cg) <= NextLV(g)
                        /\ \A v \in Versions(cg) : /\ EventAt(g, v) = EventAt(cg, v)
                                                   /\ ParentsOf(g, v) = ParentsOf(cg, v)
<1>1. ASSUME GraphInv(cg), NEW e, Insertable(cg, e)
      PROVE  Stable(InsertEntry(cg, e))
  <2> DEFINE new == InsertEntry(cg, e)
  <2>1. NextLV(cg) \in Nat /\ e.vEnd \in Nat /\ NextLV(cg) < e.vEnd /\ NextLV(new) = e.vEnd
    BY <1>1, InsertExtends
  <2>2. \A v \in Versions(cg) :
          /\ ParentsOf(new, v) = ParentsOf(cg, v) /\ LvToRaw(new, v) = LvToRaw(cg, v)
          /\ ParentsOf(cg, v) \subseteq Nat /\ \A p \in ParentsOf(cg, v) : p < v
    BY <1>1, OldEventsStay
  <2> HIDE DEF new
  <2>3. \A v \in Versions(cg) : ParentsOf(cg, v) \subseteq Versions(cg)
    BY <2>1, <2>2 DEF Versions
  <2>4. \A v \in Versions(cg) : EventAt(new, v) = EventAt(cg, v)
    <3> SUFFICES ASSUME NEW v \in Versions(cg) PROVE EventAt(new, v) = EventAt(cg, v)
      OBVIOUS
    <3>1. LvToRawList(new, ParentsOf(new, v)) = LvToRawList(cg, ParentsOf(cg, v))
      BY <2>2, <2>3 DEF LvToRawList
    <3> QED
      BY <2>2, <3>1 DEF EventAt
  <2>5. Stable(new)
    BY <2>1, <2>2, <2>4
  <2> QED
    BY <2>5 DEF new
<1>2. GraphInv(cg) => Stable(cg)
  BY NextLVType DEF GraphInv
<1>3. GraphInv(cg) /\ [Next]_vars => Stable(cg')
  BY <1>1, <1>2, StepInserts
<1>4. GraphInv(cg) /\ [Next]_vars =>
        [ /\ NextLV(cg) <= NextLV(cg')
          /\ \A v \in Versions(cg) : EventAt(cg', v) = EventAt(cg, v) /\ ParentsOf(cg', v) = ParentsOf(cg, v)
        ]_vars
  BY <1>3
<1> QED
  BY Invariance, <1>4, PTL DEF Spec, EventsAreStable
-----------------------------------------------------------------------------
(* Identities.                                                             *)

\* Either action adds a span that Receivable() describes, on known parents.
LEMMA ActionsAddSpans ==
  ASSUME IdInv(cg), NEW agent \in Agents, NEW seq \in 0 .. MaxSeq, NEW len \in 1 .. MaxLen,
         NEW parents \in Frontiers(cg),
         AddSpan(agent, seq, len, parents) \/ AssignLocal(agent, seq, parents, len)
  PROVE  /\ parents \in SUBSET Versions(cg)
         /\ Receivable(agent, seq, len, parents)
         /\ cg' = Add(cg, agent, seq, seq + len, parents)
<1>1. parents \in SUBSET Versions(cg)
  BY DEF Frontiers
<1>2. CASE AddSpan(agent, seq, len, parents)
  BY <1>1, <1>2 DEF AddSpan
<1>3. CASE AssignLocal(agent, seq, parents, len)
  <2>1. seq >= NextSeqForAgent(cg, agent) /\ cg' = Add(cg, agent, seq, seq + len, parents)
    BY <1>3 DEF AssignLocal
  <2>2. seq \in Nat /\ len \in Nat
    BY BoundsAssumption
  <2>3. \A s \in Nat : s >= seq => ~ HasVersion(cg, agent, s)
    <3>1. NextSeqForAgent(cg, agent) \in Nat
      BY NextSeqType DEF IdInv, GraphInv
    <3> QED
      BY <2>1, <2>2, <3>1, NothingAfterLast
  <2>4. Receivable(agent, seq, len, parents)
    BY <2>2, <2>3 DEF Receivable
  <2> QED
    BY <1>1, <2>1, <2>4
<1> QED
  BY <1>2, <1>3

LEMMA StepAddsSpan ==
  ASSUME IdInv(cg), Next
  PROVE  \E agent \in Agents, seq \in 0 .. MaxSeq, len \in 1 .. MaxLen, parents \in SUBSET Versions(cg) :
           Receivable(agent, seq, len, parents) /\ cg' = Add(cg, agent, seq, seq + len, parents)
<1>1. PICK agent \in Agents, seq \in 0 .. MaxSeq, len \in 1 .. MaxLen, parents \in Frontiers(cg) :
        AddSpan(agent, seq, len, parents) \/ AssignLocal(agent, seq, parents, len)
  BY DEF Next
<1> QED
  BY <1>1, ActionsAddSpans

\* Of what may be received a prefix is known.
LEMMA ReceivedIsKnownFirst ==
  ASSUME NEW agent, NEW seq \in Nat, NEW len \in Nat, NEW parents, Receivable(agent, seq, len, parents)
  PROVE  KnownFirst(cg, agent, seq, seq + len)
BY DEF Receivable, KnownFirst

LEMMA InitIds == Init => IdInv(cg)
BY EmptyIds DEF Init

LEMMA StepIds ==
  ASSUME IdInv(cg), [Next]_vars
  PROVE  IdInv(cg')
<1>1. CASE UNCHANGED vars
  BY <1>1 DEF vars
<1>2. CASE Next
  <2>1. PICK agent \in Agents, seq \in 0 .. MaxSeq, len \in 1 .. MaxLen, parents \in SUBSET Versions(cg) :
          Receivable(agent, seq, len, parents) /\ cg' = Add(cg, agent, seq, seq + len, parents)
    BY <1>2, StepAddsSpan
  <2>2. seq \in Nat /\ len \in Nat \ {0}
    BY BoundsAssumption
  <2>3. KnownFirst(cg, agent, seq, seq + len)
    BY <2>1, ReceivedIsKnownFirst
  <2> QED
    BY <2>1, <2>2, <2>3, SpanKeepsIds
<1> QED
  BY <1>1, <1>2

\* In every reachable graph each agent's runs are in order, and its list maps
\* an identity to a version exactly when the version's entry has it.
THEOREM IdInvariance == Spec => []IdInv(cg)
<1>1. IdInv(cg) /\ [Next]_vars => IdInv(cg)'
  <2>1. IdInv(cg)' = IdInv(cg')
    BY DEF IdInv, GraphInv, Childless, RunsWithin, Covers, IdsAgree, Maps, RunsApart
  <2> QED
    BY <2>1, StepIds
<1> QED
  BY <1>1, InitIds, PTL DEF Spec

\* insertRLEList() keeps the runs of an agent ordered and disjoint.
THEOREM OrderOfAgentRuns == Spec => []AgentRunsOrdered
<1>1. IdInv(cg) => AgentRunsOrdered
  BY DEF IdInv, RunsApart, AgentRunsOrdered
<1> QED
  BY IdInvariance, <1>1, PTL

\* rawToLV() and lvToRaw() are inverse to each other.
THEOREM AgreementOfMappings == Spec => []MappingsAgree
<1>1. ASSUME IdInv(cg) PROVE MappingsAgree
  <2>1. GraphInv(cg)
    BY <1>1 DEF IdInv
  <2>2. ASSUME NEW v \in Versions(cg)
        PROVE  LET id == LvToRaw(cg, v)
               IN  HasVersion(cg, id[1], id[2]) /\ RawToLV(cg, id[1], id[2]) = v
    <3>1. PICK agent \in Agents, s \in Nat : LvToRaw(cg, v) = <<agent, s>>
      BY <2>1, RawType
    <3>2. HasVersion(cg, agent, s) /\ RawToLV(cg, agent, s) = v
      BY <1>1, <3>1, LookupsInvert
    <3> QED
      BY <3>1, <3>2
  <2>3. ASSUME NEW agent \in Agents, NEW seq \in 0 .. MaxSeq, HasVersion(cg, agent, seq)
        PROVE  LvToRaw(cg, RawToLV(cg, agent, seq)) = <<agent, seq>>
    <3>1. seq \in Nat
      BY BoundsAssumption
    <3> QED
      BY <1>1, <2>3, <3>1, LookupsInvert
  <2> QED
    BY <2>2, <2>3 DEF MappingsAgree
<1> QED
  BY IdInvariance, <1>1, PTL

-----------------------------------------------------------------------------
(* The log of events.                                                      *)

\* Event s of the chain that begins at seq on the parents raw.
Link(agent, seq, raw, s) ==
  [id |-> <<agent, s>>, parents |-> IF s = seq THEN raw ELSE {<<agent, s - 1>>}]

\* The events of a span are a chain of the log of events.
LEMMA ChainIsLinks ==
  ASSUME NEW agent, NEW seq, NEW len, NEW raw
  PROVE  Log!Chain(agent, seq, len, raw) = {Link(agent, seq, raw, s) : s \in seq .. (seq + len - 1)}
BY DEF Log!Chain, Link

\* What is known of a span is known as the span describes it.
LEMMA KnownLink ==
  ASSUME IdInv(cg), NEW agent \in Agents, NEW seq \in Nat, NEW len \in Nat \ {0},
         NEW parents \in SUBSET Versions(cg), Receivable(agent, seq, len, parents),
         NEW s \in seq .. (seq + len - 1), HasVersion(cg, agent, s)
  PROVE  EventAt(cg, RawToLV(cg, agent, s)) = Link(agent, seq, LvToRawList(cg, parents), s)
<1> DEFINE v == RawToLV(cg, agent, s)
<1>1. s \in Nat
  OBVIOUS
<1>2. v \in Versions(cg) /\ LvToRaw(cg, v) = <<agent, s>>
  BY <1>1, LookupsInvert
<1>3. CASE s = seq
  <2>1. parents = ParentsOf(cg, v)
    BY <1>3 DEF Receivable
  <2> QED
    BY <1>2, <1>3, <2>1 DEF EventAt, Link
<1>4. CASE s # seq
  <2>1. s \in (seq + 1) .. (seq + len - 1) /\ s - 1 \in Nat
    BY <1>4
  <2>2. HasVersion(cg, agent, s - 1) /\ ParentsOf(cg, v) = {RawToLV(cg, agent, s - 1)}
    BY <2>1 DEF Receivable
  <2>3. LvToRaw(cg, RawToLV(cg, agent, s - 1)) = <<agent, s - 1>>
    BY <2>1, <2>2, LookupsInvert
  <2>4. LvToRawList(cg, ParentsOf(cg, v)) = {<<agent, s - 1>>}
    BY <2>2, <2>3 DEF LvToRawList
  <2> QED
    BY <1>2, <1>4, <2>4 DEF EventAt, Link
<1> QED
  BY <1>3, <1>4

\* Of a span of which something is unknown, add() keeps what is unknown.
LEMMA SpanSplits ==
  ASSUME NEW agent \in Agents, NEW seq \in Nat, NEW len \in Nat \ {0}, NEW parents,
         Receivable(agent, seq, len, parents), UnknownSeqs(cg, agent, seq, seq + len) # {}
  PROVE  LET start == FirstUnknown(cg, agent, seq, seq + len)
         IN  /\ start \in seq .. (seq + len - 1)
             /\ \A s \in seq .. (start - 1) : HasVersion(cg, agent, s)
<1>1. ASSUME NEW end \in Nat, seq < end, KnownFirst(cg, agent, seq, end),
             UnknownSeqs(cg, agent, seq, end) # {}
      PROVE  LET start == FirstUnknown(cg, agent, seq, end)
             IN  /\ start \in seq .. (end - 1)
                 /\ \A s \in seq .. (start - 1) : HasVersion(cg, agent, s)
  BY <1>1, FirstUnknownSplits
<1>2. KnownFirst(cg, agent, seq, seq + len) /\ seq + len \in Nat /\ seq < seq + len
  BY DEF Receivable, KnownFirst
<1> DEFINE end == seq + len
<1> HIDE DEF end
<1>3. end \in Nat /\ seq < end /\ KnownFirst(cg, agent, seq, end) /\ UnknownSeqs(cg, agent, seq, end) # {}
  BY <1>2 DEF end
<1> QED
  BY <1>1, <1>3 DEF end

\* The events of an inserted run are links of the chain, and the events that
\* were there are left as they were.
LEMMA InsertedLinks ==
  ASSUME IdInv(cg), NEW agent \in Agents, NEW seq \in Nat, NEW len \in Nat \ {0},
         NEW parents \in SUBSET Versions(cg), Receivable(agent, seq, len, parents),
         UnknownSeqs(cg, agent, seq, seq + len) # {}
  PROVE  LET start == FirstUnknown(cg, agent, seq, seq + len)
             new   == InsertEntry(cg, NewEntry(cg, agent, seq, seq + len, parents))
             n     == NextLV(cg)
         IN  /\ NextLV(new) = n + ((seq + len) - start)
             /\ \A v \in Versions(cg) : EventAt(new, v) = EventAt(cg, v)
             /\ \A s \in start .. (seq + len - 1) :
                  EventAt(new, n + (s - start)) = Link(agent, seq, LvToRawList(cg, parents), s)
<1> DEFINE start == FirstUnknown(cg, agent, seq, seq + len)
           e     == NewEntry(cg, agent, seq, seq + len, parents)
           new   == InsertEntry(cg, e)
           n     == NextLV(cg)
           raw   == LvToRawList(cg, parents)
           ps    == IF start = seq THEN parents ELSE {RawToLV(cg, agent, start - 1)}
<1>1. GraphInv(cg) /\ cg \in CG /\ n \in Nat
  BY NextLVType DEF IdInv, GraphInv
<1>2. Insertable(cg, e)
  BY SpanInsertsFresh, ReceivedIsKnownFirst
<1>3. /\ start \in seq .. (seq + len - 1)
      /\ \A s \in seq .. (start - 1) : HasVersion(cg, agent, s)
  BY SpanSplits
<1>4. /\ e.version = n /\ e.vEnd = n + ((seq + len) - start)
      /\ e.agent = agent /\ e.seq = start /\ e.parents = ps
  BY DEF NewEntry
<1>5. /\ NextLV(new) = e.vEnd
      /\ \A v \in Versions(cg) : /\ ParentsOf(new, v) = ParentsOf(cg, v)
                                 /\ LvToRaw(new, v) = LvToRaw(cg, v)
      /\ \A v \in e.version .. (e.vEnd - 1) :
           /\ ParentsOf(new, v) = IF v = e.version THEN e.parents ELSE {v - 1}
           /\ LvToRaw(new, v) = <<e.agent, e.seq + (v - e.version)>>
  <2> HIDE DEF e
  <2>1. NextLV(new) = e.vEnd
    BY <1>1, <1>2, InsertExtends
  <2>2. \A v \in Versions(cg) : ParentsOf(new, v) = ParentsOf(cg, v) /\ LvToRaw(new, v) = LvToRaw(cg, v)
    BY <1>1, <1>2, OldEventsStay
  <2>3. \A v \in e.version .. (e.vEnd - 1) :
          ParentsOf(new, v) = IF v = e.version THEN e.parents ELSE {v - 1}
    BY <1>1, <1>2, ParentsOfNewEvents
  <2>4. \A v \in e.version .. (e.vEnd - 1) : LvToRaw(new, v) = <<e.agent, e.seq + (v - e.version)>>
    BY <1>1, <1>2, RawOfNewEvents
  <2> QED
    BY <2>1, <2>2, <2>3, <2>4
<1> HIDE DEF start, e, new
<1>6. \A vs \in SUBSET Versions(cg) : LvToRawList(new, vs) = LvToRawList(cg, vs)
  BY <1>5 DEF LvToRawList
<1>7. ASSUME NEW v \in Versions(cg) PROVE EventAt(new, v) = EventAt(cg, v)
  <2>1. ParentsOf(cg, v) \in SUBSET Versions(cg)
    BY <1>1, ParentsAreVersions
  <2> QED
    BY <1>5, <1>6, <2>1 DEF EventAt
<1>8. ASSUME NEW s \in start .. (seq + len - 1)
      PROVE  EventAt(new, n + (s - start)) = Link(agent, seq, raw, s)
  <2> DEFINE v == n + (s - start)
  <2>1. /\ v \in n .. (e.vEnd - 1) /\ start + (v - n) = s
        /\ (v = n <=> s = start) /\ v - 1 \in Int
    BY <1>1, <1>3, <1>4
  <2>2. LvToRaw(new, v) = <<agent, s>>
    BY <1>4, <1>5, <2>1
  <2>3. ParentsOf(new, v) = IF s = start THEN ps ELSE {v - 1}
    BY <1>4, <1>5, <2>1
  <2>4. CASE s = start /\ start = seq
    <3>1. ParentsOf(new, v) = parents
      BY <2>3, <2>4
    <3>2. LvToRawList(new, ParentsOf(new, v)) = raw
      BY <1>6, <3>1
    <3> HIDE DEF v, raw
    <3> QED
      BY <2>2, <2>4, <3>2 DEF EventAt, Link, v
  <2>5. CASE s = start /\ start # seq
    <3>1. start - 1 \in seq .. (start - 1) /\ start - 1 \in Nat
      BY <1>3, <2>5
    <3>2. HasVersion(cg, agent, start - 1)
      BY <1>3, <3>1
    <3>3. /\ RawToLV(cg, agent, start - 1) \in Versions(cg)
          /\ LvToRaw(cg, RawToLV(cg, agent, start - 1)) = <<agent, start - 1>>
      BY <3>1, <3>2, LookupsInvert
    <3>4. ParentsOf(new, v) = {RawToLV(cg, agent, start - 1)}
      BY <2>3, <2>5
    <3>5. LvToRawList(new, ParentsOf(new, v)) = {<<agent, start - 1>>}
      BY <1>5, <3>3, <3>4 DEF LvToRawList
    <3> HIDE DEF v, raw
    <3> QED
      BY <2>2, <2>5, <3>5 DEF EventAt, Link, v
  <2>6. CASE s # start
    <3>1. s # seq /\ v - 1 \in n .. (e.vEnd - 1) /\ start + ((v - 1) - n) = s - 1
      BY <1>1, <1>3, <1>4, <2>1, <2>6
    <3>2. LvToRaw(new, v - 1) = <<agent, s - 1>>
      BY <1>4, <1>5, <3>1
    <3>3. ParentsOf(new, v) = {v - 1}
      BY <2>3, <2>6
    <3>4. LvToRawList(new, ParentsOf(new, v)) = {<<agent, s - 1>>}
      BY <3>2, <3>3 DEF LvToRawList
    <3> HIDE DEF v, raw
    <3> QED
      BY <2>2, <3>1, <3>4 DEF EventAt, Link, v
  <2> QED
    BY <2>4, <2>5, <2>6
<1> QED
  BY <1>4, <1>5, <1>7, <1>8 DEF start, e, new

\* The graph then stands for the union of what it stood for and the span.
LEMMA SpanIsUnion ==
  ASSUME IdInv(cg), NEW agent \in Agents, NEW seq \in Nat, NEW len \in Nat \ {0},
         NEW parents \in SUBSET Versions(cg), Receivable(agent, seq, len, parents)
  PROVE  EventSet(Add(cg, agent, seq, seq + len, parents)) =
           EventSet(cg) \cup Log!Chain(agent, seq, len, LvToRawList(cg, parents))
<1> DEFINE raw   == LvToRawList(cg, parents)
           links == {Link(agent, seq, raw, s) : s \in seq .. (seq + len - 1)}
           new   == Add(cg, agent, seq, seq + len, parents)
<1>1. Log!Chain(agent, seq, len, raw) = links
  BY ChainIsLinks
<1>2. \A s \in seq .. (seq + len - 1) : HasVersion(cg, agent, s) => Link(agent, seq, raw, s) \in EventSet(cg)
  <2> SUFFICES ASSUME NEW s \in seq .. (seq + len - 1), HasVersion(cg, agent, s)
               PROVE  Link(agent, seq, raw, s) \in EventSet(cg)
    OBVIOUS
  <2>1. s \in Nat
    OBVIOUS
  <2>2. RawToLV(cg, agent, s) \in Versions(cg)
    BY <2>1, LookupsInvert
  <2>3. EventAt(cg, RawToLV(cg, agent, s)) = Link(agent, seq, raw, s)
    BY KnownLink
  <2> QED
    BY <2>2, <2>3 DEF EventSet
<1>3. CASE UnknownSeqs(cg, agent, seq, seq + len) = {}
  <2>1. new = cg
    BY <1>3, SpanInsertsFresh, ReceivedIsKnownFirst
  <2>2. \A s \in seq .. (seq + len - 1) : HasVersion(cg, agent, s)
    <3>1. seq + len > seq
      OBVIOUS
    <3> QED
      BY <1>3, <3>1 DEF UnknownSeqs
  <2>3. links \subseteq EventSet(cg)
    BY <1>2, <2>2
  <2> QED
    BY <1>1, <2>1, <2>3
<1>4. CASE UnknownSeqs(cg, agent, seq, seq + len) # {}
  <2> DEFINE start == FirstUnknown(cg, agent, seq, seq + len)
             n     == NextLV(cg)
             m     == n + ((seq + len) - start)
  <2>1. new = InsertEntry(cg, NewEntry(cg, agent, seq, seq + len, parents))
    BY <1>4 DEF Add
  <2>2. n \in Nat
    BY NextLVType DEF IdInv, GraphInv
  <2>3. /\ start \in seq .. (seq + len - 1)
        /\ \A s \in seq .. (start - 1) : HasVersion(cg, agent, s)
    BY <1>4, SpanSplits
  <2>4. /\ NextLV(new) = m
        /\ \A v \in Versions(cg) : EventAt(new, v) = EventAt(cg, v)
        /\ \A s \in start .. (seq + len - 1) : EventAt(new, n + (s - start)) = Link(agent, seq, raw, s)
    BY <1>4, <2>1, InsertedLinks
  <2> HIDE DEF new, raw, start, n
  <2>5. Versions(cg) = 0 .. (n - 1) /\ Versions(new) = 0 .. (m - 1)
    BY <2>4 DEF Versions, n
  <2>6. ASSUME NEW v \in Versions(new)
        PROVE  EventAt(new, v) \in EventSet(cg) \cup links
    <3>1. CASE v \in Versions(cg)
      BY <2>4, <3>1 DEF EventSet
    <3>2. CASE v \notin Versions(cg)
      <4> DEFINE s == start + (v - n)
      <4>1. s \in start .. (seq + len - 1) /\ n + (s - start) = v /\ s \in seq .. (seq + len - 1)
        BY <2>2, <2>3, <2>5, <3>2
      <4>2. EventAt(new, v) = Link(agent, seq, raw, s)
        BY <2>4, <4>1
      <4> HIDE DEF s
      <4> QED
        BY <4>1, <4>2
    <3> QED
      BY <3>1, <3>2
  <2>7. ASSUME NEW v \in Versions(cg)
        PROVE  EventAt(cg, v) \in EventSet(new)
    <3>1. v \in Versions(new)
      BY <2>2, <2>3, <2>5
    <3> QED
      BY <2>4, <3>1 DEF EventSet
  <2>8. ASSUME NEW s \in seq .. (seq + len - 1)
        PROVE  Link(agent, seq, raw, s) \in EventSet(new)
    <3>1. CASE s < start
      <4>1. s \in seq .. (start - 1)
        BY <2>3, <3>1
      <4>2. Link(agent, seq, raw, s) \in EventSet(cg)
        BY <1>2, <2>3, <4>1
      <4> QED
        BY <2>7, <4>2 DEF EventSet
    <3>2. CASE ~ (s < start)
      <4>1. s \in start .. (seq + len - 1) /\ n + (s - start) \in Versions(new)
        BY <2>2, <2>3, <2>5, <3>2
      <4> QED
        BY <2>4, <4>1 DEF EventSet
    <3> QED
      BY <3>1, <3>2
  <2>9. EventSet(new) \subseteq EventSet(cg) \cup links
    BY <2>6 DEF EventSet
  <2>10. EventSet(cg) \subseteq EventSet(new)
    BY <2>7 DEF EventSet
  <2>11. links \subseteq EventSet(new)
    BY <2>8
  <2> HIDE DEF links
  <2> QED
    BY <1>1, <2>9, <2>10, <2>11 DEF new, raw
<1> QED
  BY <1>3, <1>4

\* The span is one the log of events accepts.
LEMMA SpanIsAcceptable ==
  ASSUME IdInv(cg), NEW agent \in Agents, NEW seq \in Nat, NEW len \in Nat \ {0},
         NEW parents \in SUBSET Versions(cg), Receivable(agent, seq, len, parents)
  PROVE  /\ LvToRawList(cg, parents) \subseteq Log!Ids(EventSet(cg))
         /\ Log!Agrees(EventSet(cg), Log!Chain(agent, seq, len, LvToRawList(cg, parents)))
<1> DEFINE raw == LvToRawList(cg, parents)
<1>1. raw \subseteq Log!Ids(EventSet(cg))
  <2>1. \A v \in Versions(cg) : LvToRaw(cg, v) \in Log!Ids(EventSet(cg))
    <3>1. \A v \in Versions(cg) : EventAt(cg, v) \in EventSet(cg) /\ EventAt(cg, v).id = LvToRaw(cg, v)
      BY DEF EventSet, EventAt
    <3> QED
      BY <3>1 DEF Log!Ids
  <2> QED
    BY <2>1 DEF LvToRawList
<1>2. ASSUME NEW v \in Versions(cg), NEW s \in seq .. (seq + len - 1),
             EventAt(cg, v).id = Link(agent, seq, raw, s).id
      PROVE  EventAt(cg, v) = Link(agent, seq, raw, s)
  <2>1. s \in Nat /\ LvToRaw(cg, v) = <<agent, s>>
    BY <1>2 DEF EventAt, Link
  <2>2. HasVersion(cg, agent, s) /\ RawToLV(cg, agent, s) = v
    BY <2>1, LookupsInvert
  <2> QED
    BY <2>2, KnownLink
<1> HIDE DEF raw
<1>3. Log!Agrees(EventSet(cg), Log!Chain(agent, seq, len, raw))
  BY <1>2, ChainIsLinks DEF Log!Agrees, EventSet
<1> QED
  BY <1>1, <1>3 DEF raw

\* A span that is added does to the events what the log of events says.
LEMMA SpanIsAdd ==
  ASSUME IdInv(cg), NEW agent \in Agents, NEW seq \in 0 .. MaxSeq, NEW len \in 1 .. MaxLen,
         NEW parents \in SUBSET Versions(cg), Receivable(agent, seq, len, parents),
         cg' = Add(cg, agent, seq, seq + len, parents)
  PROVE  /\ Log!Add(agent, seq, len, LvToRawList(cg, parents))
         /\ LvToRawList(cg, parents) \subseteq Log!Ids(EventSet(cg))
<1> DEFINE raw == LvToRawList(cg, parents)
<1>1. seq \in Nat /\ len \in Nat \ {0}
  BY BoundsAssumption
<1>2. EventSet(cg)' = EventSet(cg')
  BY DEF EventSet, EventAt
<1>3. EventSet(cg') = EventSet(cg) \cup Log!Chain(agent, seq, len, raw)
  BY <1>1, SpanIsUnion
<1>4. raw \subseteq Log!Ids(EventSet(cg)) /\ Log!Agrees(EventSet(cg), Log!Chain(agent, seq, len, raw))
  BY <1>1, SpanIsAcceptable
<1> HIDE DEF raw
<1>5. Log!Add(agent, seq, len, raw)
  BY <1>2, <1>3, <1>4 DEF Log!Add
<1> QED
  BY <1>4, <1>5 DEF raw

\* A call of add() or assignLocal() adds to the events of the graph those its
\* span describes, and nothing else, whatever was known of it.
THEOREM AdditionsAreUnions == Spec => AddsAreUnions
<1> DEFINE Unions ==
      \A agent \in Agents, seq \in 0 .. MaxSeq, len \in 1 .. MaxLen, parents \in Frontiers(cg) :
        AddSpan(agent, seq, len, parents) \/ AssignLocal(agent, seq, parents, len) =>
          Log!Add(agent, seq, len, LvToRawList(cg, parents))
<1>1. IdInv(cg) => Unions
  BY ActionsAddSpans, SpanIsAdd
<1>2. IdInv(cg) /\ [Next]_vars => [Unions]_vars
  BY <1>1
<1> QED
  BY <1>2, IdInvariance, PTL DEF Spec, AddsAreUnions

\* The graph implements the log of events.
THEOREM ImplementsLog == Spec => Log!Spec
<1>1. Init => Log!Init
  BY DEF Init, EmptyCG, Log!Init, EventSet, Versions, NextLV
<1>2. ASSUME IdInv(cg), [Next]_vars
      PROVE  Log!Next \/ UNCHANGED EventSet(cg)
  <2>1. CASE UNCHANGED vars
    <3>1. EventSet(cg)' = EventSet(cg')
      BY DEF EventSet, EventAt
    <3> QED
      BY <2>1, <3>1 DEF vars
  <2>2. CASE Next
    <3>1. PICK agent \in Agents, seq \in 0 .. MaxSeq, len \in 1 .. MaxLen, parents \in SUBSET Versions(cg) :
            Receivable(agent, seq, len, parents) /\ cg' = Add(cg, agent, seq, seq + len, parents)
      BY <1>2, <2>2, StepAddsSpan
    <3>2. /\ Log!Add(agent, seq, len, LvToRawList(cg, parents))
          /\ LvToRawList(cg, parents) \subseteq Log!Ids(EventSet(cg))
      BY <1>2, <3>1, SpanIsAdd
    <3> QED
      BY <3>2 DEF Log!Next
  <2> QED
    BY <1>2, <2>1, <2>2
<1>3. IdInv(cg) /\ [Next]_vars => [Log!Next]_(EventSet(cg))
  BY <1>2
<1> QED
  BY <1>1, <1>3, IdInvariance, PTL DEF Spec, Log!Spec
-----------------------------------------------------------------------------
(* Queries.                                                                *)

\* versionContainsLV() answers by runs what the partial order says of events.
THEOREM ExactContainment == Spec => []ContainmentIsExact
<1>1. GraphInv(cg) => ContainmentIsExact
  BY ContainmentOfGraph DEF ContainmentIsExact
<1> QED
  BY Invariance, <1>1, PTL

\* diff() and findDominators(), by which a branch moves, answer by runs what the
\* partial order says of events.
THEOREM ExactMoves == Spec => []MovesAreExact
<1>1. ASSUME GraphInv(cg) PROVE MovesAreExact
  <2> DEFINE h == Histories(cg)
  <2>1. DOMAIN h = Versions(cg)
    <3>1. Topological(ParentsIn(cg), NextLV(cg)) /\ Versions(cg) = 0 .. (NextLV(cg) - 1)
          /\ Histories(cg) = HistoriesOf(ParentsIn(cg), NextLV(cg))
      BY <1>1, GraphIsTopological DEF Histories, ParentsIn
    <3> QED
      BY <3>1, HistoryEquation
  <2> SUFFICES ASSUME NEW a \in FrontiersOf(h), NEW b \in FrontiersOf(h)
               PROVE  LET d == Diff(cg, a, b)
                      IN  /\ RangesToSet(d.aOnly) = EventsOf(h, a) \ EventsOf(h, b)
                          /\ RangesToSet(d.bOnly) = EventsOf(h, b) \ EventsOf(h, a)
                          /\ Canonical(d.aOnly) /\ Canonical(d.bOnly)
                          /\ IsAscending(FindDominators(cg, Ascending(a) \o Ascending(b)), DominatorsOf(h, a \cup b))
    BY DEF MovesAreExact
  <2>2. a \in SUBSET Versions(cg) /\ b \in SUBSET Versions(cg)
    BY <2>1 DEF FrontiersOf
  <2>3. IsAscending(FindDominators(cg, Ascending(a) \o Ascending(b)), DominatorsOf(h, a \cup b))
    BY <1>1, <2>2, MovesOfGraph
  <2> QED
    BY <1>1, <2>2, <2>3, DiffOfGraph
<1> QED
  BY Invariance, <1>1, PTL

\* The heads are the frontier of the whole graph, in the sense of histories.
THEOREM HeadsAreFrontier == Spec => [](cg.heads = DominatorsOf(Histories(cg), Versions(cg)))
<1>1. ASSUME GraphInv(cg) PROVE cg.heads = DominatorsOf(Histories(cg), Versions(cg))
  <2>1. cg.heads = {v \in Versions(cg) : \A w \in Versions(cg) : v \notin ParentsOf(cg, w)}
    BY <1>1 DEF GraphInv, Childless
  <2>2. \A w \in Versions(cg) : ParentsIn(cg)[w] = ParentsOf(cg, w)
    BY DEF ParentsIn
  <2>3. DominatorsOf(HistoriesOf(ParentsIn(cg), NextLV(cg)), 0 .. (NextLV(cg) - 1)) =
          {v \in 0 .. (NextLV(cg) - 1) : \A w \in 0 .. (NextLV(cg) - 1) : v \notin ParentsIn(cg)[w]}
    BY <1>1, GraphIsTopological, DominatorsAreChildless
  <2>4. Histories(cg) = HistoriesOf(ParentsIn(cg), NextLV(cg)) /\ Versions(cg) = 0 .. (NextLV(cg) - 1)
    BY DEF Histories, ParentsIn, Versions
  <2> QED
    BY <2>1, <2>2, <2>3, <2>4
<1> QED
  BY Invariance, <1>1, PTL
-----------------------------------------------------------------------------
(* Conflicts.                                                              *)

\* The parents of every event are a frontier: what a caller gives add() is one,
\* and so is the single event it puts in its place.
LEMMA StepKeepsFrontiers ==
  GraphInv(cg) /\ ParentFrontiers(cg) /\ [Next]_vars => ParentFrontiers(cg)'
<1> SUFFICES ASSUME GraphInv(cg), ParentFrontiers(cg), [Next]_vars PROVE ParentFrontiers(cg')
  BY DEF ParentFrontiers
<1>1. CASE UNCHANGED vars
  BY <1>1 DEF vars
<1>2. CASE Next
  <2>1. PICK agent \in Agents, seq \in 0 .. MaxSeq, len \in 1 .. MaxLen, parents \in Frontiers(cg) :
               AddSpan(agent, seq, len, parents) \/ AssignLocal(agent, seq, parents, len)
    BY <1>2 DEF Next
  <2>2. seq \in Nat /\ seq + len \in Nat /\ seq < seq + len
    BY BoundsAssumption
  <2>3. cg' = Add(cg, agent, seq, seq + len, parents)
    BY <2>1 DEF AddSpan, AssignLocal
  <2> QED
    BY <2>2, <2>3, AddKeepsFrontiers
<1> QED
  BY <1>1, <1>2

\* The empty graph has no parents.
LEMMA InitFrontiers == Init => ParentFrontiers(cg)
BY EmptyFrontiers DEF Init

\* The parents that entries are stored with, which findConflicting() queues as
\* one point, are never ordered among themselves.
THEOREM FrontiersOfParents == Spec => []ParentFrontiers(cg)
<1> QED
  BY Invariance, InitFrontiers, StepKeepsFrontiers, PTL DEF Spec

\* findConflicting() finds a common version and gives each event after it to the
\* side, or sides, that have it: an event is visited once, a merge sees the
\* events it lacks, and nothing visited is concurrent with what lies before.
THEOREM ExactConflicts == Spec => []ConflictSplitsHistory
<1>1. ASSUME GraphInv(cg), ParentFrontiers(cg) PROVE ConflictSplitsHistory
  <2> DEFINE h == Histories(cg)
  <2>1. DOMAIN h = Versions(cg)
    <3>1. Topological(ParentsIn(cg), NextLV(cg)) /\ Versions(cg) = 0 .. (NextLV(cg) - 1)
          /\ Histories(cg) = HistoriesOf(ParentsIn(cg), NextLV(cg))
      BY <1>1, GraphIsTopological DEF Histories, ParentsIn
    <3> QED
      BY <3>1, HistoryEquation
  <2>2. ASSUME NEW a \in FrontiersOf(h), NEW b \in FrontiersOf(h)
        PROVE  Splits(h, a, b, FindConflicting(cg, a, b))
    <3>1. /\ a \in SUBSET Versions(cg) /\ b \in SUBSET Versions(cg)
          /\ DominatorsOf(h, a) = a /\ DominatorsOf(h, b) = b
      BY <2>1 DEF FrontiersOf
    <3> QED
      BY <1>1, <3>1, ConflictOfGraph
  <2> QED
    BY <2>2 DEF ConflictSplitsHistory, Splits
<1> QED
  BY Invariance, FrontiersOfParents, <1>1, PTL

\* Any two replicas, each with the history of some frontier, of which one tells
\* the other what it knows and is sent the rest: it then has the events of
\* both, no entry of what it is sent is refused, and its heads are the events
\* nothing follows.
THEOREM DeliveryOfExchanges == Spec => []ExchangeDeliversAll
<1>1. ASSUME IdInv(cg), ParentFrontiers(cg) PROVE ExchangeDeliversAll
  <2>1. Sound(cg)
    BY <1>1 DEF Sound
  <2> SUFFICES ASSUME NEW f \in Frontiers(cg), NEW g \in Frontiers(cg)
               PROVE  LET dest == PartialGraph(f)
                          src  == PartialGraph(g)
                          got  == Exchange(dest.cg, src.cg)
                      IN  /\ ~ dest.thrown /\ ~ src.thrown /\ ~ got.thrown
                          /\ EventSet(got.cg) = EventsIn(f) \cup EventsIn(g)
                          /\ got.cg.heads = DominatorsOf(Histories(got.cg), Versions(got.cg))
    BY DEF ExchangeDeliversAll
  <2> DEFINE dest == PartialGraph(f)
             src  == PartialGraph(g)
             got  == Exchange(dest.cg, src.cg)
  <2>2. f \in SUBSET Versions(cg) /\ g \in SUBSET Versions(cg)
    BY DEF Frontiers
  <2>3. /\ dest.thrown = FALSE /\ Sound(dest.cg) /\ EventSet(dest.cg) = EventsIn(f)
        /\ src.thrown = FALSE /\ Sound(src.cg) /\ EventSet(src.cg) = EventsIn(g)
    BY <2>1, <2>2, PartialOfGraph DEF PartialGraph, EventsIn
  <2>4. EventsIn(f) \subseteq EventSet(cg) /\ EventsIn(g) \subseteq EventSet(cg)
    <3>1. EventsOf(Histories(cg), f) \subseteq Versions(cg) /\ EventsOf(Histories(cg), g) \subseteq Versions(cg)
      BY <1>1, <2>2, EventsAreVersions DEF IdInv
    <3> QED
      BY <3>1 DEF EventsIn, EventSet
  <2> HIDE DEF dest, src
  <2>5. Agree(dest.cg, src.cg)
    BY <1>1, <2>3, <2>4, PartsAgree
  <2>6. got = MergePartialVersions(dest.cg, SerializeDiff(src.cg, LackingOf(dest.cg, src.cg)))
    BY DEF Exchange, LackingOf, VersionsIn
  <2>7. /\ got.thrown = FALSE /\ EventSet(got.cg) = EventsIn(f) \cup EventsIn(g)
        /\ Sound(got.cg)
    <3> DEFINE a  == dest.cg
               b  == src.cg
               ra == RangesLVs(LackingOf(a, b))
    <3>1. Sound(a) /\ Sound(b) /\ Agree(a, b) /\ got = MergePartialVersions(a, SerializeDiff(b, LackingOf(a, b)))
      BY <2>3, <2>5, <2>6
    <3> HIDE DEF a, b, got
    <3>2. got.thrown = FALSE /\ Replays(a, b, ra, got.cg) /\ EventSet(got.cg) = EventSet(a) \cup EventSet(b)
      BY <3>1, LackingDelivered
    <3> HIDE DEF ra
    <3>3. Sound(got.cg)
      BY <3>2 DEF Replays
    <3> QED
      BY <2>3, <3>2, <3>3 DEF a, b
  <2>8. got.cg.heads = DominatorsOf(Histories(got.cg), Versions(got.cg))
    BY <2>7, HeadsCover DEF Sound, IdInv
  <2> QED
    BY <2>3, <2>7, <2>8 DEF dest, src
<1> QED
  BY <1>1, IdInvariance, FrontiersOfParents, PTL
=============================================================================
