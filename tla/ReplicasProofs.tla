--------------------------- MODULE ReplicasProofs ---------------------------
(***************************************************************************)
(* The documents implement replicas that exchange sets of events           *)
(* (EventGraph), for any number of documents, agents and operations: an    *)
(* edit is a Write there, docMergeInto() a Receive, although the logs are  *)
(* run-length encoded, number the same events differently and are merged   *)
(* by summary, missing ranges and partial versions. What that abstract     *)
(* exchange promises is proved of it once, and holds of the documents by   *)
(* refinement.                                                             *)
(*                                                                         *)
(* The invariant has every log whole, all of them agreeing on every event  *)
(* (Consistent of CausalFacts), and every id in a log handed out by        *)
(* consumeSeqs(): an agent is shared by documents that do not know of each *)
(* other's edits, so that only the counter it numbers them from keeps its  *)
(* next id new everywhere.                                                 *)
(***************************************************************************)
EXTENDS Replicas, CausalFacts

\* The events of a log are those of its facts.
LEMMA EventsOfFacts ==
  \A log : EventSet(log.cg) = {x[1] : x \in FactsOf(log)}
BY FactFields DEF EventSet, FactsOf, FactsAt

\* What an agent writes is news: events of its own, numbered from seq.
LEMMA WrittenIsNews ==
  ASSUME NEW log, NEW new, NEW agent, NEW seq, NEW len, WrittenTo(log, new, agent, seq, len)
  PROVE  NewsOf(log, new, agent, seq, len)
<1> DEFINE tops == LvToRawList(log.cg, log.cg.heads)
<1>1. \A i : Written(agent, seq, tops, i).id = <<agent, seq + i>>
  BY DEF Written
<1>2. \A x \in FactsOf(new) : x \in FactsOf(log) \/ \E i \in 0 .. (len - 1) : x[1] = Written(agent, seq, tops, i)
  BY DEF WrittenTo
<1> HIDE DEF tops
<1> QED
  BY <1>1, <1>2 DEF NewsOf

\* The log of every document.
Oplogs == [d \in Docs |-> doc[d].oplog]

\* What is told of an agent's events is told of sequence numbers it was given.
Handed(S, seqs) == \A x \in S : /\ x[1].id[1] \in Agents /\ x[1].id[2] \in Nat
                               /\ x[1].id = <<x[1].id[1], x[1].id[2]>>
                               /\ x[1].id[2] < seqs[x[1].id[1]]

\* The inductive invariant.
DocsInv ==
  /\ doc = [d \in Docs |-> doc[d]]
  /\ agentSeq \in [Agents -> Nat]
  /\ Consistent(Docs, Oplogs)
  /\ Handed(Told(Docs, Oplogs), agentSeq)
  /\ IsFiniteSet(IdsHandedOut)

\* The heads of a graph are the events no event was written on.
LEMMA TipsOfGraph ==
  ASSUME NEW g, IdInv(g)
  PROVE  Graph!Tips(EventSet(g)) = LvToRawList(g, g.heads)
<1> DEFINE S == EventSet(g)
           V == Versions(g)
<1>1. GraphInv(g)
  BY DEF IdInv
<1>2. \A v \in V : EventAt(g, v).id = LvToRaw(g, v) /\ EventAt(g, v).parents = LvToRawList(g, ParentsOf(g, v))
  BY DEF EventAt
<1>3. \A v \in V : ParentsOf(g, v) \subseteq V
  BY <1>1, ParentsAreVersions
<1>4. \A v \in V, w \in V : LvToRaw(g, v) \in LvToRawList(g, ParentsOf(g, w)) <=> v \in ParentsOf(g, w)
  <2> SUFFICES ASSUME NEW v \in V, NEW w \in V
               PROVE  LvToRaw(g, v) \in LvToRawList(g, ParentsOf(g, w)) <=> v \in ParentsOf(g, w)
    OBVIOUS
  <2>1. ASSUME LvToRaw(g, v) \in LvToRawList(g, ParentsOf(g, w)) PROVE v \in ParentsOf(g, w)
    <3>1. PICK p \in ParentsOf(g, w) : LvToRaw(g, v) = LvToRaw(g, p)
      BY <2>1 DEF LvToRawList
    <3>2. p \in V
      BY <1>3
    <3>3. v = p
      BY <3>1, <3>2, OneVersion
    <3> QED
      BY <3>3
  <2>2. ASSUME v \in ParentsOf(g, w) PROVE LvToRaw(g, v) \in LvToRawList(g, ParentsOf(g, w))
    BY <2>2 DEF LvToRawList
  <2> QED
    BY <2>1, <2>2
<1>5. g.heads = {v \in V : \A w \in V : v \notin ParentsOf(g, w)}
  BY <1>1 DEF GraphInv, Childless
<1>6. \A e : e \in S <=> \E v \in V : e = EventAt(g, v)
  BY DEF EventSet
<1> HIDE DEF S, V
<1>7. ASSUME NEW id PROVE id \in Graph!Tips(S) <=> \E v \in V : id = LvToRaw(g, v) /\ v \in g.heads
  <2>1. ASSUME id \in Graph!Tips(S) PROVE \E v \in V : id = LvToRaw(g, v) /\ v \in g.heads
    <3>1. PICK e \in S : id = e.id
      BY <2>1 DEF Graph!Tips, Graph!Ids
    <3>2. PICK v \in V : e = EventAt(g, v)
      BY <1>6
    <3>3. id = LvToRaw(g, v)
      BY <1>2, <3>1, <3>2
    <3>4. \A w \in V : v \notin ParentsOf(g, w)
      <4> SUFFICES ASSUME NEW w \in V PROVE v \notin ParentsOf(g, w)
        OBVIOUS
      <4>1. EventAt(g, w) \in S
        BY <1>6
      <4>2. id \notin EventAt(g, w).parents
        BY <2>1, <4>1 DEF Graph!Tips
      <4> QED
        BY <1>2, <1>4, <3>3, <4>2
    <3> QED
      BY <1>5, <3>3, <3>4
  <2>2. ASSUME NEW v \in V, id = LvToRaw(g, v), v \in g.heads PROVE id \in Graph!Tips(S)
    <3>1. EventAt(g, v) \in S /\ EventAt(g, v).id = id
      BY <1>2, <1>6, <2>2
    <3>2. ASSUME NEW e \in S PROVE id \notin e.parents
      <4>1. PICK w \in V : e = EventAt(g, w)
        BY <1>6
      <4>2. v \notin ParentsOf(g, w)
        BY <1>5, <2>2
      <4> QED
        BY <1>2, <1>4, <2>2, <4>1, <4>2
    <3> QED
      BY <3>1, <3>2 DEF Graph!Tips, Graph!Ids
  <2> QED
    BY <2>1, <2>2
<1>8. g.heads \subseteq V
  BY <1>5
<1>9. \A id : id \in LvToRawList(g, g.heads) <=> \E v \in V : id = LvToRaw(g, v) /\ v \in g.heads
  BY <1>8 DEF LvToRawList
<1> QED
  BY <1>7, <1>9 DEF S

\* A run of the abstract graph is what an agent writes.
LEMMA RunIsWritten ==
  ASSUME NEW S, NEW agent, NEW seq \in Nat, NEW len \in Nat
  PROVE  Graph!Run(S, agent, seq, len) = {Written(agent, seq, Graph!Tips(S), i) : i \in 0 .. (len - 1)}
<1> DEFINE tops == Graph!Tips(S)
           ev(s) == [id |-> <<agent, s>>, parents |-> IF s = seq THEN tops ELSE {<<agent, s - 1>>}]
<1>1. Graph!Run(S, agent, seq, len) = {ev(s) : s \in seq .. (seq + len - 1)}
  BY DEF Graph!Run
<1> HIDE DEF tops
<1>2. ASSUME NEW i \in 0 .. (len - 1) PROVE ev(seq + i) = Written(agent, seq, tops, i)
  <2>1. seq + i = seq <=> i = 0
    OBVIOUS
  <2>2. CASE i = 0
    BY <2>1, <2>2 DEF Written
  <2>3. CASE i # 0
    BY <2>1, <2>3 DEF Written
  <2> QED
    BY <2>2, <2>3
<1>3. \A s \in seq .. (seq + len - 1) : s - seq \in 0 .. (len - 1) /\ s = seq + (s - seq)
  OBVIOUS
<1>4. \A i \in 0 .. (len - 1) : seq + i \in seq .. (seq + len - 1)
  OBVIOUS
<1> HIDE DEF ev
<1>5. \A s \in seq .. (seq + len - 1) : \E i \in 0 .. (len - 1) : ev(s) = Written(agent, seq, tops, i)
  BY <1>2, <1>3
<1>6. \A i \in 0 .. (len - 1) : \E s \in seq .. (seq + len - 1) : ev(s) = Written(agent, seq, tops, i)
  BY <1>2, <1>4
<1> QED
  BY <1>1, <1>5, <1>6 DEF tops

\* The log "new" has a run of the abstract graph that "log" has not.
RunAdded(log, new, agent, seq, len) ==
  EventSet(new.cg) = EventSet(log.cg) \cup Graph!Run(EventSet(log.cg), agent, seq, len)

\* What a document knows when an agent has written to it.
LEMMA EventsWritten ==
  ASSUME NEW log, Whole(log, Operations), NEW n, GoesOn(log, n),
         NEW agent, NEW seq \in Nat, NEW len \in Nat, WrittenTo(log, n, agent, seq, len)
  PROVE  RunAdded(log, n, agent, seq, len)
<1> DEFINE tops == LvToRawList(log.cg, log.cg.heads)
<1>1. Graph!Tips(EventSet(log.cg)) = tops
  BY WholeLog, TipsOfGraph
<1>2. Graph!Run(EventSet(log.cg), agent, seq, len) = {Written(agent, seq, tops, i) : i \in 0 .. (len - 1)}
  BY <1>1, RunIsWritten
<1>3. /\ \A x \in FactsOf(n) : x \in FactsOf(log) \/ \E i \in 0 .. (len - 1) : x[1] = Written(agent, seq, tops, i)
      /\ \A i \in 0 .. (len - 1) : \E x \in FactsOf(n) : x[1] = Written(agent, seq, tops, i)
  BY DEF WrittenTo
<1>4. FactsOf(log) \subseteq FactsOf(n)
  BY FactsStay
<1>5. EventSet(n.cg) = {x[1] : x \in FactsOf(n)} /\ EventSet(log.cg) = {x[1] : x \in FactsOf(log)}
  BY EventsOfFacts
<1> HIDE DEF tops
<1>6. EventSet(n.cg) = EventSet(log.cg) \cup Graph!Run(EventSet(log.cg), agent, seq, len)
  BY <1>2, <1>3, <1>4, <1>5
<1> QED
  BY <1>6 DEF RunAdded

\* A document takes what another one has.
LEMMA EventsTaken ==
  ASSUME NEW a, NEW b, NEW n, FactsOf(n) = FactsOf(a) \cup FactsOf(b)
  PROVE  EventSet(n.cg) = EventSet(a.cg) \cup EventSet(b.cg)
<1>1. /\ EventSet(n.cg) = {x[1] : x \in FactsOf(n)} /\ EventSet(a.cg) = {x[1] : x \in FactsOf(a)}
      /\ EventSet(b.cg) = {x[1] : x \in FactsOf(b)}
  BY EventsOfFacts
<1> QED
  BY <1>1

\* An agent's numbers are counted.
LEMMA NumbersBounded ==
  ASSUME DocsInv, NEW agent \in Agents
  PROVE  OpsMade \in Nat /\ agentSeq[agent] \in Nat /\ agentSeq[agent] <= OpsMade
<1> DEFINE mine == {agent} \X (0 .. (agentSeq[agent] - 1))
           k    == agentSeq[agent]
<1>1. k \in Nat /\ IsFiniteSet(IdsHandedOut)
  BY DEF DocsInv
<1>2. mine \subseteq IdsHandedOut
  BY DEF IdsHandedOut
<1>3. OpsMade \in Nat /\ IsFiniteSet(mine) /\ Cardinality(mine) <= OpsMade
  BY <1>1, <1>2, FS_Subset, FS_CardinalityType DEF OpsMade
<1> HIDE DEF k
<1>4. Cardinality(0 .. (k - 1)) = k
  BY <1>1, FS_Interval
<1>5. Cardinality({agent} \X (0 .. (k - 1))) = k
  <2>1. IsFiniteSet({agent}) /\ Cardinality({agent}) = 1
    BY FS_Singleton
  <2>2. IsFiniteSet(0 .. (k - 1))
    BY <1>1, FS_Interval
  <2>3. Cardinality({agent} \X (0 .. (k - 1))) = 1 * Cardinality(0 .. (k - 1))
    BY <2>1, <2>2, FS_Product
  <2> QED
    BY <1>1, <1>4, <2>3
<1> QED
  BY <1>1, <1>3, <1>5 DEF k

\* What is told of a document is what it knows.
LEMMA ToldIsKnown ==
  ASSUME NEW d \in Docs
  PROVE  /\ Oplogs[d] = doc[d].oplog
         /\ \A e \in Known(d) : \E x \in Told(Docs, Oplogs) : e = x[1]
<1>1. Oplogs[d] = doc[d].oplog
  BY DEF Oplogs
<1>2. Known(d) = {x[1] : x \in FactsOf(Oplogs[d])}
  BY <1>1, EventsOfFacts DEF Known
<1> QED
  BY <1>1, <1>2 DEF Told

\* Numbers that were not handed out are unknown everywhere.
LEMMA NextNumbersFresh ==
  ASSUME DocsInv, NEW d \in Docs, NEW agent \in Agents, NEW len \in Nat
  PROVE  /\ agentSeq[agent] \in Nat
         /\ Unwritten(Oplogs[d].cg, agent, agentSeq[agent], len)
         /\ Untold(Told(Docs, Oplogs), agent, agentSeq[agent], len)
<1> DEFINE seq == agentSeq[agent]
           log == Oplogs[d]
           S   == Told(Docs, Oplogs)
<1>1. seq \in Nat /\ Handed(S, agentSeq) /\ Whole(log, Operations)
  BY DEF DocsInv, Consistent
<1>2. \A x \in S, t \in Nat : x[1].id = <<agent, t>> => t < seq
  BY <1>1 DEF Handed
<1>3. Unwritten(log.cg, agent, seq, len)
  <2> SUFFICES ASSUME NEW t \in seq .. (seq + len - 1), HasVersion(log.cg, agent, t) PROVE FALSE
    BY DEF Unwritten
  <2>1. t \in Nat /\ t >= seq
    BY <1>1
  <2>2. PICK v \in Versions(log.cg) : LvToRaw(log.cg, v) = <<agent, t>>
    BY <1>1, <2>1, LookupsInvert, WholeLog
  <2>3. FactAt(log, v) \in S
    BY DEF Told, FactsOf, FactsAt
  <2>4. t < seq
    BY <1>2, <2>1, <2>2, <2>3, FactFields
  <2> QED
    BY <1>1, <2>1, <2>4
<1>4. Untold(S, agent, seq, len)
  <2> SUFFICES ASSUME NEW x \in S, NEW i \in 0 .. (len - 1), x[1].id = <<agent, seq + i>> PROVE FALSE
    BY DEF Untold
  <2>1. seq + i \in Nat /\ seq + i >= seq
    BY <1>1
  <2>2. seq + i < seq
    BY <1>2, <2>1
  <2> QED
    BY <1>1, <2>1, <2>2
<1> QED
  BY <1>1, <1>3, <1>4

\* The ids of what is written are of no event.
LEMMA RunIsApart ==
  ASSUME NEW S, NEW agent, NEW seq \in Nat, NEW len \in Nat, Untold(Told(Docs, Oplogs), agent, seq, len)
  PROVE  Graph!Ids(Graph!Run(S, agent, seq, len)) \cap Graph!Ids(Graph!Everything) = {}
<1> SUFFICES ASSUME NEW id \in Graph!Ids(Graph!Run(S, agent, seq, len)), id \in Graph!Ids(Graph!Everything)
             PROVE  FALSE
  OBVIOUS
<1>1. PICK e \in Graph!Run(S, agent, seq, len) : id = e.id
  BY DEF Graph!Ids
<1>2. PICK i \in 0 .. (len - 1) : e = Written(agent, seq, Graph!Tips(S), i)
  BY <1>1, RunIsWritten
<1>3. id = <<agent, seq + i>>
  BY <1>1, <1>2 DEF Written
<1>4. PICK f \in Graph!Everything : id = f.id
  BY DEF Graph!Ids
<1>5. PICK d \in Docs : f \in Known(d)
  BY <1>4 DEF Graph!Everything
<1>6. PICK x \in Told(Docs, Oplogs) : f = x[1]
  BY <1>5, ToldIsKnown
<1> QED
  BY <1>3, <1>4, <1>6 DEF Untold

\* The document d is replaced by one with the log n.
Replaces(d, n) ==
  /\ doc' = [q \in Docs |-> doc'[q]]
  /\ doc'[d].oplog = n
  /\ \A q \in Docs \ {d} : doc'[q] = doc[q]

\* The other documents stay as they are.
LEMMA LogsReplaced ==
  ASSUME NEW d \in Docs, NEW n, Replaces(d, n)
  PROVE  /\ Oplogs' = [Oplogs EXCEPT ![d] = n]
         /\ Known(d)' = EventSet(n.cg)
         /\ \A q \in Docs : q # d => Known(q)' = Known(q)
<1>1. Oplogs' = [Oplogs EXCEPT ![d] = n]
  BY DEF Oplogs, Replaces
<1>2. Known(d)' = EventSet(n.cg)
  BY DEF Known, Replaces
<1>3. \A q \in Docs : q # d => Known(q)' = Known(q)
  BY DEF Known, Replaces
<1> QED
  BY <1>1, <1>2, <1>3

\* Writing, with numbers handed out for it.
LEMMA WriteStep ==
  ASSUME DocsInv, NEW d \in Docs, NEW agent \in Agents, NEW len \in Nat \ {0},
         NEW ops \in Seq(Operations), Len(ops) = len,
         Replaces(d, [ops |-> doc[d].oplog.ops \o ops,
                      cg  |-> Add(doc[d].oplog.cg, agent, agentSeq[agent], agentSeq[agent] + len,
                                  doc[d].oplog.cg.heads)]),
         Consumes(agent, len)
  PROVE  DocsInv' /\ Graph!Next
<1> DEFINE log == Oplogs[d]
           seq == agentSeq[agent]
           n   == [ops |-> log.ops \o ops, cg |-> Add(log.cg, agent, seq, seq + len, log.cg.heads)]
           S   == Told(Docs, Oplogs)
<1>1. Consistent(Docs, Oplogs) /\ Whole(log, Operations) /\ log = doc[d].oplog
  BY ToldIsKnown DEF DocsInv, Consistent
<1>2. seq \in Nat /\ Unwritten(log.cg, agent, seq, len) /\ Untold(S, agent, seq, len)
  BY NextNumbersFresh
<1>3. Replaces(d, n)
  BY <1>1
<1> HIDE DEF seq, log
<1>4. Whole(n, Operations) /\ GoesOn(log, n) /\ WrittenTo(log, n, agent, seq, len)
  BY <1>1, <1>2, OpsWritten
<1> HIDE DEF n
<1>5. /\ Oplogs' = [Oplogs EXCEPT ![d] = n] /\ Known(d)' = EventSet(n.cg)
      /\ \A q \in Docs : q # d => Known(q)' = Known(q)
  BY <1>3, LogsReplaced
<1>6. NewsOf(log, n, agent, seq, len)
  BY <1>4, WrittenIsNews
<1>7. Consistent(Docs, Oplogs')
  BY <1>1, <1>2, <1>4, <1>5, <1>6, MeaningsWritten DEF log
<1>8. Told(Docs, Oplogs') = S \cup FactsOf(n)
  <2>1. Grown(Docs, Oplogs, d, n, Oplogs')
    BY <1>1, <1>4, <1>5, ToldAfter DEF log
  <2> QED
    BY <2>1 DEF Grown
<1>9. agentSeq' = [agentSeq EXCEPT ![agent] = seq + len] /\ OpsMade + len <= MaxOps /\ agentSeq \in [Agents -> Nat]
  BY DEF Consumes, seq, DocsInv
<1>10. agentSeq' \in [Agents -> Nat] /\ \A a \in Agents : agentSeq[a] <= agentSeq'[a]
  BY <1>2, <1>9 DEF seq
<1>11. Handed(Told(Docs, Oplogs'), agentSeq')
  <2> SUFFICES ASSUME NEW x \in Told(Docs, Oplogs')
               PROVE  /\ x[1].id[1] \in Agents /\ x[1].id[2] \in Nat
                      /\ x[1].id = <<x[1].id[1], x[1].id[2]>>
                      /\ x[1].id[2] < agentSeq'[x[1].id[1]]
    BY DEF Handed
  <2>1. CASE x \in S
    <3>1. /\ x[1].id[1] \in Agents /\ x[1].id[2] \in Nat
          /\ x[1].id = <<x[1].id[1], x[1].id[2]>>
          /\ x[1].id[2] < agentSeq[x[1].id[1]]
      BY <2>1 DEF DocsInv, Handed
    <3> DEFINE who == x[1].id[1]
               at  == x[1].id[2]
    <3> HIDE DEF who, at
    <3>2. who \in Agents /\ at \in Nat /\ at < agentSeq[who]
      BY <3>1 DEF who, at
    <3>3. agentSeq[who] \in Nat /\ agentSeq'[who] \in Nat /\ agentSeq[who] <= agentSeq'[who]
      BY <1>9, <1>10, <3>2
    <3>4. at < agentSeq'[who]
      BY <3>2, <3>3
    <3> QED
      BY <3>1, <3>4 DEF who, at
  <2>2. CASE x \notin S
    <3>1. x \in FactsOf(n) /\ x \notin FactsOf(log)
      BY <1>8, <2>2 DEF Told, log
    <3>2. PICK i \in 0 .. (len - 1) : x[1].id = <<agent, seq + i>>
      BY <1>6, <3>1 DEF NewsOf
    <3>3. x[1].id[1] = agent /\ x[1].id[2] = seq + i
      BY <3>2
    <3>4. seq + i \in Nat /\ seq + i < seq + len
      BY <1>2
    <3>5. agentSeq'[agent] = seq + len
      BY <1>9
    <3> QED
      BY <3>2, <3>3, <3>4, <3>5
  <2> QED
    BY <2>1, <2>2
<1>12. IsFiniteSet(IdsHandedOut')
  <2> DEFINE more == {agent} \X (0 .. (seq + len - 1))
  <2>1. IsFiniteSet(more)
    <3> DEFINE last == seq + len - 1
    <3>1. last \in Int /\ 0 \in Int
      BY <1>2
    <3>2. IsFiniteSet({agent})
      BY FS_Singleton
    <3> HIDE DEF last
    <3>3. IsFiniteSet(0 .. last)
      BY <3>1, FS_Interval
    <3> QED
      BY <3>2, <3>3, FS_Product DEF last
  <2>2. IsFiniteSet(IdsHandedOut)
    BY DEF DocsInv
  <2>3. IsFiniteSet(IdsHandedOut \cup more)
    BY <2>1, <2>2, FS_Union
  <2>4. \A a \in Agents : a # agent => agentSeq'[a] = agentSeq[a]
    BY <1>9
  <2>5. agentSeq'[agent] = seq + len
    BY <1>9
  <2>6. IdsHandedOut' \subseteq IdsHandedOut \cup more
    <3> SUFFICES ASSUME NEW a \in Agents, NEW z \in {a} \X (0 .. (agentSeq'[a] - 1))
                 PROVE  z \in IdsHandedOut \cup more
      BY DEF IdsHandedOut
    <3>1. CASE a = agent
      <4>1. z \in {agent} \X (0 .. (agentSeq'[agent] - 1))
        BY <3>1
      <4>2. 0 .. (agentSeq'[agent] - 1) = 0 .. (seq + len - 1)
        BY <1>2, <2>5
      <4> QED
        BY <4>1, <4>2, Zenon
    <3>2. CASE a # agent
      BY <2>4, <3>2 DEF IdsHandedOut
    <3> QED
      BY <3>1, <3>2
  <2> QED
    BY <2>3, <2>6, FS_Subset
<1>13. DocsInv'
  BY <1>3, <1>7, <1>10, <1>11, <1>12 DEF DocsInv, Replaces
<1>14. Graph!Write(d, agent, seq, len)
  <2>1. Graph!Ids(Graph!Run(Known(d), agent, seq, len)) \cap Graph!Ids(Graph!Everything) = {}
    BY <1>2, RunIsApart
  <2>2. Known(d) = EventSet(log.cg)
    BY <1>1 DEF Known
  <2>3. Known(d)' = Known(d) \cup Graph!Run(Known(d), agent, seq, len)
    <3>1. RunAdded(log, n, agent, seq, len)
      BY <1>1, <1>2, <1>4, EventsWritten
    <3> QED
      BY <1>5, <2>2, <3>1 DEF RunAdded
  <2> HIDE DEF Known
  <2>4. [q \in Docs |-> Known(q)]' = [[q \in Docs |-> Known(q)] EXCEPT ![d] = @ \cup Graph!Run(@, agent, seq, len)]
    BY <1>5, <2>3
  <2> QED
    BY <2>1, <2>4 DEF Graph!Write
<1>15. seq \in 0 .. MaxOps /\ len \in 1 .. MaxOps
  <2>1. OpsMade \in Nat /\ seq <= OpsMade
    BY NumbersBounded DEF seq
  <2> QED
    BY <1>2, <1>9, <2>1, MaxOpsAssumption
<1>16. Graph!Next
  BY <1>14, <1>15 DEF Graph!Next
<1> QED
  BY <1>13, <1>16

\* An insertion is a Write of one event.
LEMMA InsertedByDoc ==
  ASSUME DocsInv, NEW d \in Docs, NEW agent \in Agents, NEW pos \in Nat, DocInsert(d, agent, pos)
  PROVE  DocsInv' /\ Graph!Next
<1> DEFINE seq == agentSeq[agent]
           log == doc[d].oplog
           op  == Ins(pos, <<agent, seq>>)
           ops == <<op>>
           n   == [ops |-> log.ops \o ops, cg |-> Add(log.cg, agent, seq, seq + 1, log.cg.heads)]
           now == doc'[d]
<1>1. doc = [q \in Docs |-> doc[q]] /\ seq \in Nat /\ log.ops \in Seq(Operations)
  BY ToldIsKnown, WholeLog DEF DocsInv, Consistent
<1>2. op \in Operations
  BY <1>1 DEF Ins, Operations
<1>3. ops \in Seq(Operations) /\ Len(ops) = 1 /\ 1 \in Nat \ {0}
  <2> HIDE DEF op
  <2> QED
    BY <1>2
<1>4. Append(log.ops, op) = log.ops \o ops
  <2> DEFINE s == log.ops
  <2>1. s \in Seq(Operations)
    BY <1>1
  <2> HIDE DEF s, op
  <2>2. Append(s, op) = s \o <<op>>
    BY <1>2, <2>1
  <2> QED
    BY <2>2 DEF s
<1>5. Consumes(agent, 1)
  BY DEF DocInsert
<1>6. Replaces(d, n)
  <2>1. doc' = [q \in Docs |-> doc'[q]] /\ \A q \in Docs \ {d} : doc'[q] = doc[q]
    <3> HIDE DEF n, op, ops, seq, log
    <3> QED
      BY <1>1 DEF DocInsert
  <2>2. now.oplog = [ops |-> Append(log.ops, op), cg |-> Add(log.cg, agent, seq, seq + 1, log.cg.heads)]
    BY <1>1 DEF DocInsert
  <2>3. now.oplog = n
    BY <1>4, <2>2
  <2> HIDE DEF n
  <2> QED
    BY <2>1, <2>3 DEF Replaces
<1> HIDE DEF ops
<1> QED
  BY <1>3, <1>5, <1>6, WriteStep

\* A deletion is a Write of a run of events.
LEMMA DeletedByDoc ==
  ASSUME DocsInv, NEW d \in Docs, NEW agent \in Agents, NEW pos \in Nat, NEW len \in Nat \ {0},
         DocDelete(d, agent, pos, len)
  PROVE  DocsInv' /\ Graph!Next
<1> DEFINE seq == agentSeq[agent]
           log == doc[d].oplog
           ops == [i \in 1 .. len |-> Del(pos)]
           n   == [ops |-> log.ops \o ops, cg |-> Add(log.cg, agent, seq, seq + len, log.cg.heads)]
           now == doc'[d]
<1>1. doc = [q \in Docs |-> doc[q]]
  BY DEF DocsInv
<1>2. ops \in Seq(Operations) /\ Len(ops) = len
  BY DeletesAreOperations
<1>3. Consumes(agent, len)
  BY DEF DocDelete
<1>4. Replaces(d, n)
  <2>1. doc' = [q \in Docs |-> doc'[q]] /\ \A q \in Docs \ {d} : doc'[q] = doc[q]
    <3> HIDE DEF n, ops, seq, log
    <3> QED
      BY <1>1 DEF DocDelete
  <2>2. now.oplog = n
    BY <1>1 DEF DocDelete
  <2> HIDE DEF n
  <2> QED
    BY <2>1, <2>2, SMTT(30) DEF Replaces
<1> HIDE DEF ops
<1> QED
  BY <1>2, <1>3, <1>4, WriteStep

\* docMergeInto() is a Receive: every event of the source, and no other.
LEMMA MergedIntoDoc ==
  ASSUME DocsInv, NEW dest \in Docs, NEW src \in Docs, DocMergeInto(dest, src)
  PROVE  DocsInv' /\ Graph!Next
<1> DEFINE n   == MergeOplogInto(doc[dest].oplog, doc[src].oplog)
           now == doc'[dest]
<1>1. /\ doc = [q \in Docs |-> doc[q]] /\ Consistent(Docs, Oplogs)
      /\ Oplogs[dest] = doc[dest].oplog /\ Oplogs[src] = doc[src].oplog
  BY ToldIsKnown DEF DocsInv
<1>2. /\ FactsOf(Oplogs[dest]) \cup FactsOf(Oplogs[src]) \subseteq Told(Docs, Oplogs)
      /\ OneMeaning(FactsOf(Oplogs[dest]) \cup FactsOf(Oplogs[src]))
      /\ Whole(Oplogs[dest], Operations) /\ Whole(Oplogs[src], Operations)
  BY <1>1, ToldByTwo
<1>3. n = MergeOplogInto(Oplogs[dest], Oplogs[src])
  BY <1>1
<1>4. Replaces(dest, n) /\ agentSeq' = agentSeq
  <2> HIDE DEF n
  <2>1. doc' = [q \in Docs |-> doc'[q]] /\ \A q \in Docs \ {dest} : doc'[q] = doc[q]
    BY <1>1, ZenonT(60) DEF DocMergeInto
  <2>2. now.oplog = n /\ agentSeq' = agentSeq
    BY <1>1 DEF DocMergeInto, n
  <2> QED
    BY <2>1, <2>2, SMTT(30) DEF Replaces
<1> HIDE DEF n
<1>5. Whole(n, Operations) /\ GoesOn(Oplogs[dest], n) /\ FactsOf(n) = FactsOf(Oplogs[dest]) \cup FactsOf(Oplogs[src])
  BY <1>2, <1>3, MergedLogs
<1>6. /\ Oplogs' = [Oplogs EXCEPT ![dest] = n] /\ Known(dest)' = EventSet(n.cg)
      /\ \A q \in Docs : q # dest => Known(q)' = Known(q)
  BY <1>4, LogsReplaced
<1>7. Consistent(Docs, Oplogs') /\ Told(Docs, Oplogs') = Told(Docs, Oplogs)
  BY <1>1, <1>2, <1>5, <1>6, MeaningsTaken
<1>8. DocsInv'
  <2>1. IdsHandedOut' = IdsHandedOut
    BY <1>4 DEF IdsHandedOut
  <2> QED
    BY <1>4, <1>7, <2>1 DEF DocsInv, Replaces
<1>9. Graph!Receive(dest, src)
  <2>1. EventSet(n.cg) = EventSet(Oplogs[dest].cg) \cup EventSet(Oplogs[src].cg)
    BY <1>5, EventsTaken
  <2>2. Known(dest) = EventSet(Oplogs[dest].cg) /\ Known(src) = EventSet(Oplogs[src].cg)
    BY <1>1 DEF Known
  <2>3. Known(dest)' = Known(dest) \cup Known(src)
    BY <1>6, <2>1, <2>2
  <2> HIDE DEF Known
  <2>4. [q \in Docs |-> Known(q)]' = [[q \in Docs |-> Known(q)] EXCEPT ![dest] = @ \cup [q \in Docs |-> Known(q)][src]]
    BY <1>6, <2>3
  <2> QED
    BY <2>4 DEF Graph!Receive
<1> QED
  BY <1>8, <1>9 DEF Graph!Next

\* Documents start empty, and know nothing.
LEMMA DocsInit == Init => DocsInv /\ Graph!Init
<1> SUFFICES ASSUME Init PROVE DocsInv /\ Graph!Init
  OBVIOUS
<1>1. doc = [d \in Docs |-> doc[d]] /\ agentSeq \in [Agents -> Nat] /\ \A a \in Agents : agentSeq[a] = 0
  BY DEF Init
<1>2. \A d \in Docs : doc[d].oplog = CreateOpLog
  BY DEF Init, CreateDoc
<1>3. Oplogs = [d \in Docs |-> Oplogs[d]] /\ \A d \in Docs : Oplogs[d] = CreateOpLog
  BY <1>2 DEF Oplogs
<1>4. Consistent(Docs, Oplogs) /\ Told(Docs, Oplogs) = {}
  BY <1>3, EmptyLogsAgree
<1>5. IdsHandedOut = {}
  BY <1>1 DEF IdsHandedOut
<1>6. DocsInv
  BY <1>1, <1>4, <1>5, FS_EmptySet DEF DocsInv, Handed
<1>7. \A d \in Docs : Known(d) = {}
  <2> SUFFICES ASSUME NEW d \in Docs PROVE Known(d) = {}
    OBVIOUS
  <2>1. \A e \in Known(d) : \E x \in Told(Docs, Oplogs) : e = x[1]
    BY ToldIsKnown
  <2> QED
    BY <1>4, <2>1
<1>8. Graph!Init
  BY <1>7 DEF Graph!Init
<1> QED
  BY <1>6, <1>8

\* Every step is a step of the exchange of events.
LEMMA DocsStep == DocsInv /\ Next => DocsInv' /\ Graph!Next
<1> SUFFICES ASSUME DocsInv, Next PROVE DocsInv' /\ Graph!Next
  OBVIOUS
<1>1. ASSUME NEW d \in Docs, NEW agent \in Agents, NEW pos \in 0 .. MaxOps, DocInsert(d, agent, pos)
      PROVE  DocsInv' /\ Graph!Next
  <2>1. pos \in Nat
    OBVIOUS
  <2> QED
    BY <1>1, <2>1, InsertedByDoc
<1>2. ASSUME NEW d \in Docs, NEW agent \in Agents, NEW pos \in 0 .. MaxOps, NEW len \in 1 .. 3,
             DocDelete(d, agent, pos, len)
      PROVE  DocsInv' /\ Graph!Next
  <2>1. pos \in Nat /\ len \in Nat \ {0}
    OBVIOUS
  <2> QED
    BY <1>2, <2>1, DeletedByDoc
<1>3. ASSUME NEW dest \in Docs, NEW src \in Docs, DocMergeInto(dest, src)
      PROVE  DocsInv' /\ Graph!Next
  BY <1>3, MergedIntoDoc
<1> QED
  BY <1>1, <1>2, <1>3 DEF Next

\* A step that changes nothing changes nothing that is known.
LEMMA DocsStutter == DocsInv /\ UNCHANGED vars => DocsInv' /\ UNCHANGED [d \in Docs |-> Known(d)]
<1> SUFFICES ASSUME DocsInv, UNCHANGED vars PROVE DocsInv' /\ UNCHANGED [d \in Docs |-> Known(d)]
  OBVIOUS
<1>1. doc' = doc /\ agentSeq' = agentSeq
  BY DEF vars
<1>2. Oplogs' = Oplogs /\ IdsHandedOut' = IdsHandedOut
  BY <1>1 DEF Oplogs, IdsHandedOut
<1>3. DocsInv'
  BY <1>1, <1>2 DEF DocsInv
<1>4. UNCHANGED [d \in Docs |-> Known(d)]
  BY <1>1 DEF Known
<1> QED
  BY <1>3, <1>4

\* The invariant is inductive, and every step is one of the abstract exchange.
LEMMA DocsInductive == DocsInv /\ [Next]_vars => DocsInv' /\ (Graph!Next \/ UNCHANGED [d \in Docs |-> Known(d)])
BY DocsStep, DocsStutter

\* Logs that are run-length encoded and exchanged by summary, difference and
\* partial merge implement replicas that exchange sets of events.
THEOREM Refinement == Spec => ExchangesEvents
<1>1. DocsInv /\ [Next]_vars => [Graph!Next]_([d \in Docs |-> Known(d)])
  BY DocsInductive
<1> QED
  BY DocsInit, DocsInductive, <1>1, PTL DEF Spec, ExchangesEvents, Graph!Spec

-----------------------------------------------------------------------------
(* What replicas that exchange sets of events promise, and so these do.    *)

GraphHolds == Graph!CausallyClosed /\ Graph!IdsNameEvents

\* A run is closed on top of what it was written on, and its ids differ.
LEMMA RunProperties ==
  ASSUME NEW S, NEW agent, NEW seq \in Nat, NEW n \in Nat
  PROVE  /\ \A e \in Graph!Run(S, agent, seq, n) : e.parents \subseteq Graph!Ids(S \cup Graph!Run(S, agent, seq, n))
         /\ \A e, f \in Graph!Run(S, agent, seq, n) : e.id = f.id => e = f
<1> DEFINE ev(s) == [id      |-> <<agent, s>>,
                     parents |-> IF s = seq THEN Graph!Tips(S) ELSE {<<agent, s - 1>>}]
           R     == Graph!Run(S, agent, seq, n)
<1>1. R = {ev(s) : s \in seq .. (seq + n - 1)}
  BY DEF Graph!Run
<1>2. \A s : ev(s).id = <<agent, s>> /\ ev(s).parents = IF s = seq THEN Graph!Tips(S) ELSE {<<agent, s - 1>>}
  OBVIOUS
<1>3. Graph!Tips(S) \subseteq Graph!Ids(S)
  BY DEF Graph!Tips
<1> HIDE DEF ev, R
<1>4. ASSUME NEW s \in seq .. (seq + n - 1)
      PROVE  ev(s).parents \subseteq Graph!Ids(S \cup R)
  <2>1. CASE s = seq
    BY <1>2, <1>3, <2>1 DEF Graph!Ids
  <2>2. CASE s # seq
    <3>1. s - 1 \in seq .. (seq + n - 1)
      BY <2>2
    <3>2. ev(s - 1) \in R /\ ev(s - 1).id = <<agent, s - 1>>
      BY <1>1, <1>2, <3>1
    <3>3. ev(s).parents = {<<agent, s - 1>>}
      BY <1>2, <2>2
    <3> QED
      BY <3>2, <3>3 DEF Graph!Ids
  <2> QED
    BY <2>1, <2>2
<1>5. ASSUME NEW s \in seq .. (seq + n - 1), NEW t \in seq .. (seq + n - 1), ev(s).id = ev(t).id
      PROVE  ev(s) = ev(t)
  <2>1. <<agent, s>> = <<agent, t>>
    BY <1>2, <1>5
  <2>2. s = t
    BY <2>1
  <2> QED
    BY <2>2
<1>6. /\ \A e \in R : e.parents \subseteq Graph!Ids(S \cup R)
      /\ \A e, f \in R : e.id = f.id => e = f
  BY <1>1, <1>4, <1>5
<1> QED
  BY <1>6 DEF R

\* They hold of replicas that know nothing.
LEMMA GraphStarts == Graph!Init => GraphHolds
BY DEF Graph!Init, GraphHolds, Graph!CausallyClosed, Graph!IdsNameEvents, Graph!Everything

\* They hold after a write: its run is closed on what the replica knew, its ids new.
LEMMA WriteHolds ==
  ASSUME GraphHolds, NEW r \in Docs, NEW agent \in Agents, NEW seq \in Nat, NEW n \in Nat,
         Graph!Write(r, agent, seq, n)
  PROVE  GraphHolds'
<1> DEFINE R == Graph!Run(Known(r), agent, seq, n)
<1>1. /\ \A q \in Docs : Known(q)' = IF q = r THEN Known(r) \cup R ELSE Known(q)
      /\ Graph!Ids(R) \cap Graph!Ids(Graph!Everything) = {}
  BY DEF Graph!Write
<1>2. /\ \A e \in R : e.parents \subseteq Graph!Ids(Known(r) \cup R)
      /\ \A e, f \in R : e.id = f.id => e = f
  BY RunProperties
<1> HIDE DEF R
<1>3. Graph!CausallyClosed'
  <2> SUFFICES ASSUME NEW q \in Docs, NEW e \in Known(q)'
               PROVE  e.parents \subseteq Graph!Ids(Known(q)')
    BY DEF Graph!CausallyClosed
  <2>1. CASE e \in Known(q)
    <3>1. e.parents \subseteq Graph!Ids(Known(q))
      BY <2>1 DEF GraphHolds, Graph!CausallyClosed
    <3>2. Known(q) \subseteq Known(q)'
      BY <1>1
    <3> QED
      BY <3>1, <3>2 DEF Graph!Ids
  <2>2. CASE e \notin Known(q)
    <3>1. q = r /\ e \in R /\ Known(q)' = Known(r) \cup R
      BY <1>1, <2>2
    <3> QED
      BY <1>2, <3>1
  <2> QED
    BY <2>1, <2>2
<1>4. Graph!IdsNameEvents'
  <2>1. Graph!Everything' = Graph!Everything \cup R
    BY <1>1 DEF Graph!Everything
  <2>2. \A e \in R, f \in Graph!Everything : e.id # f.id
    BY <1>1 DEF Graph!Ids
  <2>3. \A e, f \in Graph!Everything : e.id = f.id => e = f
    BY DEF GraphHolds, Graph!IdsNameEvents
  <2> HIDE DEF GraphHolds
  <2>4. \A e, f \in Graph!Everything' : e.id = f.id => e = f
    BY <1>2, <2>1, <2>2, <2>3
  <2> QED
    BY <2>4 DEF Graph!IdsNameEvents
<1> QED
  BY <1>3, <1>4 DEF GraphHolds

\* They hold after an exchange: nothing is known that was not known before.
LEMMA ReceiveHolds ==
  ASSUME GraphHolds, NEW dest \in Docs, NEW src \in Docs, Graph!Receive(dest, src)
  PROVE  GraphHolds'
<1>1. \A q \in Docs : Known(q)' = IF q = dest THEN Known(dest) \cup Known(src) ELSE Known(q)
  BY DEF Graph!Receive
<1>2. Graph!CausallyClosed'
  <2> SUFFICES ASSUME NEW q \in Docs, NEW e \in Known(q)'
               PROVE  e.parents \subseteq Graph!Ids(Known(q)')
    BY DEF Graph!CausallyClosed
  <2>1. PICK p \in Docs : e \in Known(p) /\ Known(p) \subseteq Known(q)'
    BY <1>1
  <2>2. e.parents \subseteq Graph!Ids(Known(p))
    BY <2>1 DEF GraphHolds, Graph!CausallyClosed
  <2> QED
    BY <2>1, <2>2 DEF Graph!Ids
<1>3. Graph!Everything' \subseteq Graph!Everything
  BY <1>1 DEF Graph!Everything
<1>4. Graph!IdsNameEvents'
  BY <1>3 DEF GraphHolds, Graph!IdsNameEvents
<1> QED
  BY <1>2, <1>4 DEF GraphHolds

\* The promises are kept by every step of the exchange.
LEMMA GraphGoesOn == GraphHolds /\ [Graph!Next]_([d \in Docs |-> Known(d)]) => GraphHolds'
<1> SUFFICES ASSUME GraphHolds, [Graph!Next]_([d \in Docs |-> Known(d)]) PROVE GraphHolds'
  OBVIOUS
<1>1. ASSUME NEW dest \in Docs, NEW src \in Docs, Graph!Receive(dest, src) PROVE GraphHolds'
  BY <1>1, ReceiveHolds
<1>2. ASSUME NEW r \in Docs, NEW agent \in Agents, NEW seq \in 0 .. MaxOps, NEW n \in 1 .. MaxOps,
             Graph!Write(r, agent, seq, n)
      PROVE  GraphHolds'
  <2>1. seq \in Nat /\ n \in Nat
    OBVIOUS
  <2> QED
    BY <1>2, <2>1, WriteHolds
<1>3. CASE UNCHANGED [d \in Docs |-> Known(d)]
  BY <1>3 DEF GraphHolds, Graph!CausallyClosed, Graph!IdsNameEvents, Graph!Everything
<1> QED
  BY <1>1, <1>2, <1>3 DEF Graph!Next

\* No replica ever holds an event without its past.
THEOREM Closure == Graph!Spec => []Graph!CausallyClosed
<1>1. GraphHolds => Graph!CausallyClosed
  BY DEF GraphHolds
<1> QED
  BY GraphStarts, GraphGoesOn, <1>1, PTL DEF Graph!Spec

\* An id is never used for two events, though replicas write apart.
THEOREM Identity == Graph!Spec => []Graph!IdsNameEvents
<1>1. GraphHolds => Graph!IdsNameEvents
  BY DEF GraphHolds
<1> QED
  BY GraphStarts, GraphGoesOn, <1>1, PTL DEF Graph!Spec

\* So the documents never hold an event without its past, and agree on every
\* event that two of them know.
THEOREM DocsAreCausal == Spec => [](Graph!CausallyClosed /\ Graph!IdsNameEvents)
<1>1. Graph!Spec => [](Graph!CausallyClosed /\ Graph!IdsNameEvents)
  BY Closure, Identity, PTL
<1> QED
  BY Refinement, <1>1, PTL DEF ExchangesEvents
=============================================================================
