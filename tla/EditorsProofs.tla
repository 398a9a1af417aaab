---------------------------- MODULE EditorsProofs ----------------------------
(***************************************************************************)
(* What travels between editors' logs, and what their branches show, for   *)
(* any number of agents, operations and steps: an event stands for the     *)
(* same operation in every log that has it, whether a whole log or single  *)
(* operations brought it (mergeOplogInto(), pushOp()), however often and   *)
(* in whatever order; and no step takes back an event that a branch shows. *)
(*                                                                         *)
(* The logs of the editors are seen as one set of facts, an event with its *)
(* operation each (FactAt of CausalFacts). The invariant says that no two  *)
(* facts have the same id, and that what any log says of an agent's event  *)
(* the agent's own log says too: without the second part an agent could    *)
(* write under an id that a different event already has elsewhere, since   *)
(* it takes its next number from its own log. Of a branch it says that its *)
(* version is one of its log.                                              *)
(***************************************************************************)
EXTENDS Editors, CausalFacts

\* A fact of a log is of one of its events.
LEMMA FactIsKnown ==
  ASSUME NEW O, NEW log, Whole(log, O), NEW x \in FactsOf(log), NEW agent \in Agents, NEW s \in Nat,
         x[1].id = <<agent, s>>
  PROVE  HasVersion(log.cg, agent, s)
<1>1. PICK v \in Versions(log.cg) : x = FactAt(log, v)
  BY DEF FactsOf, FactsAt
<1>2. LvToRaw(log.cg, v) = <<agent, s>>
  BY <1>1, FactFields
<1> QED
  BY <1>2, LookupsInvert, WholeLog

\* One operation that is pushed.
LEMMA OpPushed ==
  ASSUME NEW O, \A op \in O : op.type = "ins" => "content" \in DOMAIN op,
         NEW d, Whole(d, O), NEW s, Whole(s, O), OneMeaning(FactsOf(d) \cup FactsOf(s)),
         NEW v \in Versions(s.cg)
  PROVE  LET n == PushOp(d, LvToRaw(s.cg, v), LvToRawList(s.cg, ParentsOf(s.cg, v)), OpAt(s, v))
         IN  /\ Whole(n, O)
             /\ GoesOn(d, n)
             /\ FactsOf(n) \subseteq FactsOf(d) \cup FactsOf(s)
<1> DEFINE id  == LvToRaw(s.cg, v)
           ids == LvToRawList(s.cg, ParentsOf(s.cg, v))
           op  == OpAt(s, v)
           n   == PushOp(d, id, ids, op)
           g   == AddRaw(d.cg, id, 1, ids)
           k   == NextLV(d.cg)
<1>1. /\ Sound(d.cg) /\ Sound(s.cg) /\ IdInv(d.cg) /\ IdInv(s.cg) /\ GraphInv(s.cg) /\ Agree(d.cg, s.cg)
      /\ d.ops \in Seq(O) /\ Len(d.ops) = k /\ k \in Nat /\ op \in O /\ v \in Nat
      /\ NextLV(s.cg) \in Nat /\ Versions(s.cg) = 0 .. (NextLV(s.cg) - 1)
      /\ Versions(d.cg) = 0 .. (k - 1)
  BY WholeLog, MeaningsAgree
<1>2. CASE HasVersion(d.cg, id[1], id[2]) \/ ~ KnowsAll(d.cg, ids)
  <2>1. n = d
    BY <1>2 DEF PushOp
  <2>2. GoesOn(d, d)
    BY DEF GoesOn
  <2> QED
    BY <2>1, <2>2
<1>3. CASE ~ HasVersion(d.cg, id[1], id[2]) /\ KnowsAll(d.cg, ids)
  <2>1. PICK agent \in Agents, seq \in Nat : id = <<agent, seq>>
    BY <1>1, RawType
  <2> DEFINE p == [version |-> v, vEnd |-> v + 1, agent |-> agent, seq |-> seq, parents |-> ParentsOf(s.cg, v)]
  <2>2. ParentsOf(s.cg, v) \subseteq Versions(s.cg)
    BY <1>1, ParentsAreVersions
  <2>3. Extent(p) = {v}
    BY <1>1 DEF Extent
  <2>4. PartFits(s.cg, p)
    <3>1. ParentsOf(s.cg, v) \subseteq Nat
      BY <1>1, <2>2
    <3>2. p \in Part
      BY <1>1, <3>1 DEF Part
    <3>3. v + 1 <= NextLV(s.cg) /\ v < v + 1 /\ (v + 1) .. ((v + 1) - 1) = {} /\ seq + (v - v) = seq
      BY <1>1
    <3>4. \A u \in Extent(p) : LvToRaw(s.cg, u) = <<p.agent, p.seq + (u - p.version)>>
      BY <2>1, <2>3, <3>3
    <3> QED
      BY <3>2, <3>3, <3>4 DEF PartFits
  <2>5. p.version = v /\ p.vEnd = v + 1 /\ p.agent = agent /\ p.seq = seq /\ p.parents = ParentsOf(s.cg, v)
    OBVIOUS
  <2> HIDE DEF p
  <2>6. Extent(p) \cap KnownTo(d.cg, s.cg) = {}
    BY <1>1, <1>3, <2>3, KnownById
  <2>7. p.parents \subseteq KnownTo(d.cg, s.cg)
    <3> SUFFICES ASSUME NEW q \in ParentsOf(s.cg, v) PROVE q \in KnownTo(d.cg, s.cg)
      BY <2>5
    <3>1. LvToRaw(s.cg, q) \in ids
      BY DEF LvToRawList
    <3>2. HasVersion(d.cg, LvToRaw(s.cg, q)[1], LvToRaw(s.cg, q)[2])
      BY <1>3, <3>1 DEF KnowsAll
    <3> QED
      BY <1>1, <2>2, <3>2, KnownById
  <2>8. Extended(d.cg, s.cg, p, g)
    <3> DEFINE data == SerializePart(s.cg, p)
    <3>1. Extended(d.cg, s.cg, p, AddRaw(d.cg, <<data.agent, data.seq>>, data.len, data.parents))
      BY <1>1, <2>4, <2>6, <2>7, PartAdds
    <3>2. /\ data.agent = agent /\ data.seq = seq /\ data.len = (v + 1) - v /\ data.parents = ids
      BY <2>5 DEF SerializePart
    <3>3. (v + 1) - v = 1
      BY <1>1
    <3> QED
      BY <2>1, <3>1, <3>2, <3>3
  <2>9. n = [ops |-> d.ops \o <<op>>, cg |-> g]
    <3>1. ~ Refused(d, op)
      BY <1>1 DEF Refused
    <3>2. n = [ops |-> Append(d.ops, op), cg |-> g]
      BY <1>3, <3>1 DEF PushOp
    <3>3. Append(d.ops, op) = d.ops \o <<op>>
      <4> DEFINE A == d.ops
      <4>1. A \in Seq(O)
        BY <1>1
      <4> HIDE DEF A, op
      <4> QED
        BY <1>1, <4>1 DEF A
    <3> QED
      BY <3>2, <3>3
  <2>10. /\ Sound(g) /\ NextLV(g) = k + 1
         /\ \A u \in Versions(d.cg) : EventAt(g, u) = EventAt(d.cg, u)
         /\ EventAt(g, k) = EventAt(s.cg, v)
    <3>1. (v + 1) - v = 1 /\ k + (v - v) = k
      BY <1>1
    <3>2. v \in Extent(p)
      BY <2>3
    <3> QED
      BY <2>5, <2>8, <3>1, <3>2 DEF Extended
  <2> HIDE DEF n, g, op, id, ids
  <2>11. <<op>> \in Seq(O) /\ Len(<<op>>) = 1 /\ <<op>>[1] = op /\ 1 .. 1 = {1} /\ k + (1 - 1) = k
    BY <1>1
  <2>12. /\ Whole(n, O) /\ GoesOn(d, n)
         /\ \A i \in 1 .. 1 : k + (i - 1) \in Versions(g) /\ OpAt(n, k + (i - 1)) = <<op>>[i]
         /\ \A u \in Versions(g) : u \in Versions(d.cg) \/ \E i \in 1 .. 1 : u = k + (i - 1)
    <3> DEFINE one == <<op>>
               c   == [ops |-> d.ops \o one, cg |-> g]
    <3>1. one \in Seq(O) /\ Len(one) = 1 /\ Longer(d.cg, Len(one), g)
      BY <2>10, <2>11 DEF Longer
    <3> HIDE DEF one
    <3>2. Whole(c, O) /\ GoesOn(d, c) /\ OpsFollow(d, one, c)
      BY <3>1, OpsAppended
    <3>3. c = n /\ c.cg = g
      BY <2>9 DEF one
    <3> HIDE DEF c
    <3>4. /\ \A i \in 1 .. Len(one) : k + (i - 1) \in Versions(g) /\ OpAt(c, k + (i - 1)) = one[i]
          /\ \A u \in Versions(g) : u \in Versions(d.cg) \/ \E i \in 1 .. Len(one) : u = k + (i - 1)
      BY <3>2, <3>3 DEF OpsFollow
    <3> QED
      BY <3>1, <3>2, <3>3, <3>4 DEF one
  <2>13. OpAt(n, k) = op /\ n.cg = g
    BY <2>9, <2>11, <2>12
  <2>14. FactAt(n, k) = FactAt(s, v)
    BY <2>10, <2>13 DEF FactAt, op
  <2>15. \A u \in Versions(n.cg) : u \in Versions(d.cg) \/ u = k
    BY <2>11, <2>12, <2>13
  <2>16. FactsOf(n) = FactsOf(d) \cup FactsAt(n, Versions(n.cg) \ Versions(d.cg))
    BY <2>12, FactsGrow
  <2>17. FactsAt(n, Versions(n.cg) \ Versions(d.cg)) \subseteq FactsOf(s)
    BY <2>14, <2>15 DEF FactsAt, FactsOf
  <2> QED
    BY <2>12, <2>16, <2>17 DEF n, id, ids, op
<1> QED
  BY <1>2, <1>3

\* What is told of an agent's events, its own log says.
OwnKnown(logs) == \A r \in Agents : \A x \in Told(Agents, logs) : x[1].id[1] = r => x \in FactsOf(logs[r])

\* The logs are whole, agree on every event, and know their own.
Logs(logs) == Consistent(Agents, logs) /\ OwnKnown(logs)

\* Every branch is at a version of its log.
Branches(logs, shown) ==
  /\ shown = [r \in Agents |-> shown[r]]
  /\ \A r \in Agents : shown[r].version \in Seq(Versions(logs[r].cg))

\* The inductive invariant.
EditorsInv == Logs(oplog) /\ Branches(oplog, branch)

\* A log takes events that are known somewhere.
LEMMA LogTakes ==
  ASSUME NEW logs, Logs(logs), NEW r \in Agents, NEW n, Whole(n, Operations), GoesOn(logs[r], n),
         FactsOf(n) \subseteq Told(Agents, logs)
  PROVE  Logs([logs EXCEPT ![r] = n])
<1> DEFINE new == [logs EXCEPT ![r] = n]
<1>1. Consistent(Agents, logs) /\ OwnKnown(logs)
  BY DEF Logs
<1>2. Consistent(Agents, new) /\ Told(Agents, new) = Told(Agents, logs)
  BY <1>1, MeaningsTaken
<1>3. Grown(Agents, logs, r, n, new)
  BY <1>1, ToldAfter
<1> HIDE DEF new
<1>4. OwnKnown(new)
  BY <1>1, <1>2, <1>3 DEF Grown, OwnKnown
<1> QED
  BY <1>2, <1>4 DEF Logs, new

\* An agent writes to its own log.
LEMMA LogWritten ==
  ASSUME NEW logs, Logs(logs), NEW r \in Agents, NEW n, Whole(n, Operations), GoesOn(logs[r], n),
         NEW seq \in Nat, NEW len \in Nat, NewsOf(logs[r], n, r, seq, len), Unwritten(logs[r].cg, r, seq, len)
  PROVE  Logs([logs EXCEPT ![r] = n])
<1> DEFINE new == [logs EXCEPT ![r] = n]
<1>1. Consistent(Agents, logs) /\ OwnKnown(logs)
  BY DEF Logs
<1>2. Untold(Told(Agents, logs), r, seq, len)
  <2> SUFFICES ASSUME NEW x \in Told(Agents, logs), NEW i \in 0 .. (len - 1), x[1].id = <<r, seq + i>> PROVE FALSE
    BY DEF Untold
  <2>1. seq + i \in Nat /\ seq + i \in seq .. (seq + len - 1)
    OBVIOUS
  <2>2. x \in FactsOf(logs[r])
    BY <1>1 DEF OwnKnown
  <2>3. HasVersion(logs[r].cg, r, seq + i)
    BY <1>1, <2>1, <2>2, FactIsKnown DEF Consistent
  <2> QED
    BY <2>1, <2>3 DEF Unwritten
<1>3. Consistent(Agents, new)
  BY <1>1, <1>2, MeaningsWritten
<1>4. Grown(Agents, logs, r, n, new)
  BY <1>1, ToldAfter
<1> HIDE DEF new
<1>5. OwnKnown(new)
  <2> SUFFICES ASSUME NEW q \in Agents, NEW x \in Told(Agents, new), x[1].id[1] = q PROVE x \in FactsOf(new[q])
    BY DEF OwnKnown
  <2>1. CASE x \in Told(Agents, logs)
    BY <1>1, <1>4, <2>1 DEF OwnKnown, Grown
  <2>2. CASE x \notin Told(Agents, logs)
    <3>1. x \in FactsOf(n) /\ x \notin FactsOf(logs[r])
      BY <1>4, <2>2 DEF Told, Grown
    <3>2. x[1].id[1] = r
      BY <3>1 DEF NewsOf
    <3> QED
      BY <1>4, <3>1, <3>2 DEF Grown
  <2> QED
    BY <2>1, <2>2
<1> QED
  BY <1>3, <1>5 DEF Logs, new

\* Branches stay at versions of logs that go on.
LEMMA BranchesStay ==
  ASSUME NEW logs, Logs(logs), NEW shown, Branches(logs, shown),
         NEW r \in Agents, NEW n, Whole(n, Operations), GoesOn(logs[r], n)
  PROVE  Branches([logs EXCEPT ![r] = n], shown)
<1> DEFINE new == [logs EXCEPT ![r] = n]
<1>0. Grown(Agents, logs, r, n, new)
  BY ToldAfter DEF Logs
<1> HIDE DEF new
<1>1. \A q \in Agents : GoesOn(logs[q], new[q])
  BY <1>0 DEF Grown
<1>2. ASSUME NEW q \in Agents PROVE shown[q].version \in Seq(Versions(new[q].cg))
  <2>1. Versions(logs[q].cg) \subseteq Versions(new[q].cg)
    BY <1>1 DEF GoesOn
  <2>2. shown[q].version \in Seq(Versions(logs[q].cg))
    BY DEF Branches
  <2> QED
    BY <2>1, <2>2
<1> QED
  BY <1>2 DEF Branches, new

\* An agent has no event from its next sequence number on.
LEMMA NextIsFresh ==
  ASSUME NEW O, NEW log, Whole(log, O), NEW r \in Agents, NEW len \in Nat
  PROVE  LET seq == NextSeqForAgent(log.cg, r)
         IN  seq \in Nat /\ Unwritten(log.cg, r, seq, len)
<1> DEFINE seq == NextSeqForAgent(log.cg, r)
<1>1. IdInv(log.cg) /\ log.cg \in CG
  BY WholeLog
<1>2. seq \in Nat
  BY <1>1, NextSeqType
<1>3. \A t \in seq .. (seq + len - 1) : t \in Nat /\ t >= seq
  BY <1>2
<1>4. \A t \in seq .. (seq + len - 1) : ~ HasVersion(log.cg, r, t)
  BY <1>1, <1>3, NothingAfterLast
<1> QED
  BY <1>2, <1>4 DEF Unwritten

\* A call that writes operations at its own agent's next sequence number.
LEMMA CallWrites ==
  ASSUME NEW logs, Logs(logs), NEW r \in Agents, NEW len \in Nat \ {0},
         NEW ops \in Seq(Operations), Len(ops) = len
  PROVE  LET log == logs[r]
             seq == NextSeqForAgent(log.cg, r)
             n   == [ops |-> log.ops \o ops, cg |-> Add(log.cg, r, seq, seq + len, log.cg.heads)]
         IN  Whole(n, Operations) /\ GoesOn(log, n) /\ Logs([logs EXCEPT ![r] = n])
<1> DEFINE log  == logs[r]
           seq  == NextSeqForAgent(log.cg, r)
           n    == [ops |-> log.ops \o ops, cg |-> Add(log.cg, r, seq, seq + len, log.cg.heads)]
           tops == LvToRawList(log.cg, log.cg.heads)
<1>1. Whole(log, Operations)
  BY DEF Logs, Consistent
<1>2. seq \in Nat /\ Unwritten(log.cg, r, seq, len)
  BY <1>1, NextIsFresh
<1> HIDE DEF log, seq
<1>3. Whole(n, Operations) /\ GoesOn(log, n) /\ WrittenTo(log, n, r, seq, len)
  BY <1>1, <1>2, OpsWritten
<1> HIDE DEF n
<1>4. \A i : Written(r, seq, tops, i).id = <<r, seq + i>>
  BY DEF Written
<1>5. NewsOf(log, n, r, seq, len)
  BY <1>3, <1>4 DEF NewsOf, WrittenTo, tops
<1>6. Logs([logs EXCEPT ![r] = n])
  BY <1>2, <1>3, <1>5, LogWritten DEF log
<1> QED
  BY <1>3, <1>6 DEF n, log, seq

\* The content of a call, and its operations.
ItemsOf(agent, seq, len) == [i \in 1 .. len |-> <<agent, seq + i - 1>>]
InsertsOf(pos, content) == [i \in DOMAIN content |-> Ins(pos + i - 1, content[i])]

\* An insertion of several items is a sequence of operations.
LEMMA InsertsAreOperations ==
  ASSUME NEW r \in Agents, NEW seq \in Nat, NEW pos \in Nat, NEW len \in Nat \ {0}
  PROVE  LET content == ItemsOf(r, seq, len)
         IN  /\ Len(content) = len
             /\ InsertsOf(pos, content) \in Seq(Operations) /\ Len(InsertsOf(pos, content)) = len
<1> DEFINE content == ItemsOf(r, seq, len)
           ops     == InsertsOf(pos, content)
<1>1. DOMAIN content = 1 .. len /\ Len(content) = len /\ \A i \in 1 .. len : content[i] \in Agents \X Nat
  BY DEF ItemsOf
<1> HIDE DEF content
<1>2. ASSUME NEW i \in 1 .. len PROVE Ins(pos + i - 1, content[i]) \in Operations
  <2>1. pos + i - 1 \in Nat
    OBVIOUS
  <2> QED
    BY <1>1, <2>1 DEF Ins, Operations
<1>3. ops = [i \in 1 .. len |-> Ins(pos + i - 1, content[i])]
  BY <1>1 DEF InsertsOf
<1>4. ops \in Seq(Operations) /\ Len(ops) = len
  BY <1>2, <1>3
<1> QED
  BY <1>1, <1>4 DEF content

\* localInsert() writes at numbers no log has.
LEMMA InsertMadeStep ==
  ASSUME EditorsInv, NEW r \in Agents, NEW pos \in Nat, NEW len \in Nat \ {0}, MakeInsert(r, pos, len)
  PROVE  EditorsInv' /\ UNCHANGED branch
<1> DEFINE seq     == NextSeqForAgent(oplog[r].cg, r)
           content == ItemsOf(r, seq, len)
           ops     == InsertsOf(pos, content)
           n       == [ops |-> oplog[r].ops \o ops,
                       cg  |-> Add(oplog[r].cg, r, seq, seq + len, oplog[r].cg.heads)]
<1>1. Logs(oplog) /\ Branches(oplog, branch) /\ Whole(oplog[r], Operations)
  BY DEF EditorsInv, Logs, Consistent
<1>2. seq \in Nat
  BY <1>1, NextSeqType, WholeLog
<1>3. ops \in Seq(Operations) /\ Len(ops) = len /\ Len(content) = len
  <2> HIDE DEF seq
  <2> QED
    BY <1>2, InsertsAreOperations
<1>4. LocalInsert(oplog[r], r, pos, content) = n
  <2> HIDE DEF content, seq
  <2> QED
    BY <1>3 DEF LocalInsert, InsertsOf, seq
<1>5. oplog' = [oplog EXCEPT ![r] = n] /\ UNCHANGED branch
  BY <1>4 DEF MakeInsert, ItemsOf
<1> HIDE DEF content, ops
<1>6. Whole(n, Operations) /\ GoesOn(oplog[r], n) /\ Logs([oplog EXCEPT ![r] = n])
  BY <1>1, <1>3, CallWrites
<1> HIDE DEF n
<1>7. Branches([oplog EXCEPT ![r] = n], branch)
  BY <1>1, <1>6, BranchesStay
<1> QED
  BY <1>5, <1>6, <1>7 DEF EditorsInv

\* localDelete() writes at numbers no log has.
LEMMA DeleteMadeStep ==
  ASSUME EditorsInv, NEW r \in Agents, NEW pos \in Nat, NEW len \in Nat \ {0}, MakeDelete(r, pos, len)
  PROVE  EditorsInv' /\ UNCHANGED branch
<1> DEFINE seq == NextSeqForAgent(oplog[r].cg, r)
           ops == [i \in 1 .. len |-> Del(pos)]
           n   == [ops |-> oplog[r].ops \o ops,
                   cg  |-> Add(oplog[r].cg, r, seq, seq + len, oplog[r].cg.heads)]
<1>1. Logs(oplog) /\ Branches(oplog, branch)
  BY DEF EditorsInv
<1>2. ops \in Seq(Operations) /\ Len(ops) = len
  BY DeletesAreOperations
<1>3. oplog' = [oplog EXCEPT ![r] = n] /\ UNCHANGED branch
  BY DEF MakeDelete, LocalDelete
<1> HIDE DEF ops
<1>4. Whole(n, Operations) /\ GoesOn(oplog[r], n) /\ Logs([oplog EXCEPT ![r] = n])
  BY <1>1, <1>2, CallWrites
<1> HIDE DEF n
<1>5. Branches([oplog EXCEPT ![r] = n], branch)
  BY <1>1, <1>4, BranchesStay
<1> QED
  BY <1>3, <1>4, <1>5 DEF EditorsInv

\* mergeOplogInto() brings every event of the other log.
LEMMA LogsMergedStep ==
  ASSUME EditorsInv, NEW dest \in Agents, NEW src \in Agents, MergeLogs(dest, src)
  PROVE  EditorsInv' /\ UNCHANGED branch
<1> DEFINE n == MergeOplogInto(oplog[dest], oplog[src])
<1>1. Logs(oplog) /\ Branches(oplog, branch)
  BY DEF EditorsInv
<1>2. /\ FactsOf(oplog[dest]) \cup FactsOf(oplog[src]) \subseteq Told(Agents, oplog)
      /\ OneMeaning(FactsOf(oplog[dest]) \cup FactsOf(oplog[src]))
      /\ Whole(oplog[dest], Operations) /\ Whole(oplog[src], Operations)
  BY <1>1, ToldByTwo DEF Logs
<1>3. Whole(n, Operations) /\ GoesOn(oplog[dest], n) /\ FactsOf(n) = FactsOf(oplog[dest]) \cup FactsOf(oplog[src])
  BY <1>2, MergedLogs
<1>4. oplog' = [oplog EXCEPT ![dest] = n] /\ UNCHANGED branch
  BY DEF MergeLogs
<1> HIDE DEF n
<1>5. Logs([oplog EXCEPT ![dest] = n])
  BY <1>1, <1>2, <1>3, LogTakes
<1>6. Branches([oplog EXCEPT ![dest] = n], branch)
  BY <1>1, <1>3, BranchesStay
<1> QED
  BY <1>4, <1>5, <1>6 DEF EditorsInv

\* pushOp() brings one event, or nothing, or what is left of it.
LEMMA OpPushedStep ==
  ASSUME EditorsInv, NEW dest \in Agents, NEW src \in Agents, NEW v \in Versions(oplog[src].cg), PushFrom(dest, src, v)
  PROVE  EditorsInv' /\ UNCHANGED branch
<1> DEFINE n == PushOp(oplog[dest], LvToRaw(oplog[src].cg, v),
                       LvToRawList(oplog[src].cg, ParentsOf(oplog[src].cg, v)), OpAt(oplog[src], v))
<1>1. Logs(oplog) /\ Branches(oplog, branch)
  BY DEF EditorsInv
<1>2. /\ FactsOf(oplog[dest]) \cup FactsOf(oplog[src]) \subseteq Told(Agents, oplog)
      /\ OneMeaning(FactsOf(oplog[dest]) \cup FactsOf(oplog[src]))
      /\ Whole(oplog[dest], Operations) /\ Whole(oplog[src], Operations)
  BY <1>1, ToldByTwo DEF Logs
<1>3. \A op \in Operations : op.type = "ins" => "content" \in DOMAIN op
  BY DEF Operations
<1>4. Whole(n, Operations) /\ GoesOn(oplog[dest], n) /\ FactsOf(n) \subseteq FactsOf(oplog[dest]) \cup FactsOf(oplog[src])
  BY <1>2, <1>3, OpPushed
<1>5. oplog' = [oplog EXCEPT ![dest] = n] /\ UNCHANGED branch
  BY DEF PushFrom
<1> HIDE DEF n
<1>6. Logs([oplog EXCEPT ![dest] = n])
  <2>1. FactsOf(n) \subseteq Told(Agents, oplog)
    BY <1>2, <1>4
  <2> QED
    BY <1>1, <1>4, <2>1, LogTakes
<1>7. Branches([oplog EXCEPT ![dest] = n], branch)
  BY <1>1, <1>4, BranchesStay
<1> QED
  BY <1>5, <1>6, <1>7 DEF EditorsInv

\* findDominators() lists some of the versions it was given.
LEMMA DominatorsAreListed ==
  ASSUME NEW g, GraphInv(g), NEW list \in Seq(Versions(g))
  PROVE  FindDominators(g, list) \in Seq(Versions(g))
<1> DEFINE S   == VersionsIn(list)
           new == FindDominators(g, list)
           D   == Versions(g)
<1>1. S \in SUBSET D
  BY DEF VersionsIn
<1>2. VersionsIn(new) \subseteq D
  <2>1. VersionsIn(new) = DominatorsOf(Histories(g), S)
    BY DominatorsOfGraph DEF IsAscending
  <2> QED
    BY <1>1, <2>1 DEF DominatorsOf
<1>3. \E n \in Nat : new = [i \in 1 .. n |-> new[i]]
  <2>1. CASE Len(list) <= 1
    <3>1. new = list
      BY <2>1 DEF FindDominators
    <3> QED
      BY <3>1
  <2>2. CASE Len(list) = 2
    <3> DEFINE v0 == Lower(list[1], list[2])
               v1 == Higher(list[1], list[2])
    <3>0. new = DominatorsOfTwo(g, v0, v1)
      BY <2>2 DEF FindDominators
    <3> HIDE DEF new, v0, v1
    <3>1. new = <<v1>> \/ new = <<v0, v1>>
      BY <3>0 DEF DominatorsOfTwo
    <3>2. CASE new = <<v1>>
      <4>1. 1 \in Nat /\ new = [i \in 1 .. 1 |-> new[i]]
        BY <3>2
      <4> QED
        BY <4>1
    <3>3. CASE new = <<v0, v1>>
      <4>1. 2 \in Nat /\ new = [i \in 1 .. 2 |-> new[i]]
        BY <3>3
      <4> QED
        BY <4>1
    <3> QED
      BY <3>1, <3>2, <3>3
  <2>3. CASE ~ (Len(list) <= 1) /\ Len(list) # 2
    <3> DEFINE loop == DominatorLoop(g, S)
    <3>1. new = Reversed(loop)
      BY <2>3 DEF FindDominators
    <3>2. loop \in Seq(Nat)
      BY <1>1, DominatorLoopOfGraph DEF FallingTo
    <3> HIDE DEF new, loop
    <3>3. Len(loop) \in Nat /\ DOMAIN loop = 1 .. Len(loop)
      BY <3>2
    <3>4. new = [i \in 1 .. Len(loop) |-> new[i]]
      BY <3>1, <3>3 DEF Reversed
    <3> QED
      BY <3>3, <3>4
  <2> QED
    BY <2>1, <2>2, <2>3
<1> HIDE DEF new, D, S
<1>4. PICK n \in Nat : new = [i \in 1 .. n |-> new[i]]
  BY <1>3
<1>5. DOMAIN new = 1 .. n
  BY <1>4
<1>6. \A i \in 1 .. n : new[i] \in D
  BY <1>2, <1>5 DEF VersionsIn
<1>7. new \in [1 .. n -> D]
  BY <1>4, <1>6
<1>8. new \in Seq(D)
  BY <1>7, SeqDef
<1> QED
  BY <1>8 DEF new, D

\* The version a branch is at when it has merged another one.
LEMMA VersionMerged ==
  ASSUME NEW g, GraphInv(g), NEW version \in Seq(Versions(g)), NEW f \in SUBSET Versions(g)
  PROVE  LET new == FindDominators(g, version \o Ascending(f))
         IN  /\ new \in Seq(Versions(g))
             /\ EventsOf(Histories(g), VersionsIn(version)) \subseteq EventsOf(Histories(g), VersionsIn(new))
<1> DEFINE h    == Histories(g)
           list == version \o Ascending(f)
           new  == FindDominators(g, list)
           D    == Versions(g)
           S    == VersionsIn(list)
<1>1. Ascending(f) \in Seq(D)
  BY AscendingOfSet
<1>2. list \in Seq(D) /\ S = VersionsIn(version) \cup VersionsIn(Ascending(f))
  BY <1>1, VersionsOfBoth
<1>3. IsAscending(new, DominatorsOf(h, S))
  BY <1>2, DominatorsOfGraph
<1>4. S \subseteq D
  <2> HIDE DEF list, D
  <2> QED
    BY <1>2 DEF VersionsIn
<1>5. DominatorsOf(h, S) \subseteq S /\ EventsOf(h, DominatorsOf(h, S)) = EventsOf(h, S)
  BY <1>4, DominatorsCover
<1>7. new \in Seq(D)
  BY <1>2, DominatorsAreListed
<1> HIDE DEF new, list, S, h, D
<1>6. VersionsIn(new) = DominatorsOf(h, S)
  BY <1>3 DEF IsAscending
<1>8. EventsOf(h, VersionsIn(version)) \subseteq EventsOf(h, VersionsIn(new))
  BY <1>2, <1>5, <1>6 DEF EventsOf
<1> QED
  BY <1>7, <1>8 DEF new, list, h, D

\* Nothing that a branch shows is lost.
Advances(g, old, new) ==
  EventsOf(Histories(g), VersionsIn(old.version)) \subseteq EventsOf(Histories(g), VersionsIn(new.version))

\* mergeChangesIntoBranch() leaves the branch at a version that covers the old one.
LEMMA CatchUpStep ==
  ASSUME EditorsInv, NEW r \in Agents, NEW f \in Frontiers(oplog[r].cg), CatchUp(r, f)
  PROVE  /\ EditorsInv'
         /\ oplog' = oplog
         /\ \A q \in Agents : branch'[q] = branch[q] \/ Advances(oplog[q].cg, branch[q], branch'[q])
<1> DEFINE g      == oplog[r].cg
           merged == MergeChangesIntoBranch(branch[r], oplog[r], f)
           shown  == [snapshot |-> merged.snapshot, version |-> merged.version]
<1>1. Logs(oplog) /\ Branches(oplog, branch) /\ GraphInv(g)
  BY WholeLog DEF EditorsInv, Logs, Consistent
<1>2. f \in SUBSET Versions(g)
  BY DEF Frontiers
<1>3. branch[r].version \in Seq(Versions(g))
  BY <1>1 DEF Branches
<1>4. merged.version = FindDominators(g, branch[r].version \o Ascending(f))
  BY DEF MergeChangesIntoBranch, Merged
<1>5. branch' = [branch EXCEPT ![r] = shown] /\ oplog' = oplog
  BY DEF CatchUp
<1> HIDE DEF merged
<1>6. shown.version = merged.version
  OBVIOUS
<1> HIDE DEF shown, g
<1>7. shown.version \in Seq(Versions(g)) /\ Advances(g, branch[r], shown)
  BY <1>1, <1>2, <1>3, <1>4, <1>6, VersionMerged DEF Advances
<1>8. branch' = [q \in Agents |-> IF q = r THEN shown ELSE branch[q]]
  BY <1>1, <1>5 DEF Branches
<1>9. \A q \in Agents : branch'[q] = branch[q] \/ Advances(oplog[q].cg, branch[q], branch'[q])
  BY <1>7, <1>8 DEF g
<1>10. Branches(oplog, branch')
  BY <1>1, <1>7, <1>8 DEF Branches, g
<1>11. EditorsInv'
  BY <1>1, <1>5, <1>10 DEF EditorsInv
<1> QED
  BY <1>5, <1>9, <1>11

\* Empty logs agree, and empty branches are at their version.
LEMMA EditorsInit == Init => EditorsInv
<1> SUFFICES ASSUME Init PROVE EditorsInv
  OBVIOUS
<1>1. \A r \in Agents : oplog[r] = CreateOpLog /\ branch[r].version = <<>>
  BY DEF Init, EmptyBranch
<1>4. oplog = [r \in Agents |-> oplog[r]] /\ branch = [r \in Agents |-> branch[r]]
  BY DEF Init
<1>5. Consistent(Agents, oplog) /\ Told(Agents, oplog) = {}
  BY <1>1, <1>4, EmptyLogsAgree
<1>6. Logs(oplog)
  BY <1>5 DEF Logs, OwnKnown
<1>7. Branches(oplog, branch)
  <2>1. \A r \in Agents : branch[r].version \in Seq(Versions(oplog[r].cg))
    <3> SUFFICES ASSUME NEW r \in Agents PROVE branch[r].version \in Seq(Versions(oplog[r].cg))
      OBVIOUS
    <3>1. branch[r].version = <<>>
      BY <1>1
    <3> QED
      BY <3>1
  <2> QED
    BY <1>4, <2>1 DEF Branches
<1> QED
  BY <1>6, <1>7 DEF EditorsInv

\* What every step does: the invariant stays, and so does what is shown.
LEMMA EditorsStep ==
  ASSUME EditorsInv, Next
  PROVE  /\ EditorsInv'
         /\ \/ UNCHANGED branch
            \/ /\ oplog' = oplog
               /\ \A q \in Agents : branch'[q] = branch[q] \/ Advances(oplog[q].cg, branch[q], branch'[q])
<1>1. ASSUME NEW r \in Agents, NEW len \in 1 .. MaxLen, Write(r, len)
      PROVE  EditorsInv' /\ UNCHANGED branch
  <2>1. PICK pos \in 0 .. MaxOps : MakeInsert(r, pos, len) \/ MakeDelete(r, pos, len)
    BY <1>1 DEF Write
  <2>2. pos \in Nat /\ len \in Nat \ {0}
    OBVIOUS
  <2> QED
    BY <2>1, <2>2, InsertMadeStep, DeleteMadeStep
<1>2. ASSUME NEW dest \in Agents, NEW src \in Agents, MergeLogs(dest, src)
      PROVE  EditorsInv' /\ UNCHANGED branch
  BY <1>2, LogsMergedStep
<1>3. ASSUME NEW dest \in Agents, NEW src \in Agents, NEW v \in Versions(oplog[src].cg), PushFrom(dest, src, v)
      PROVE  EditorsInv' /\ UNCHANGED branch
  BY <1>3, OpPushedStep
<1>4. ASSUME NEW r \in Agents, NEW f \in Frontiers(oplog[r].cg), CatchUp(r, f)
      PROVE  /\ EditorsInv' /\ oplog' = oplog
             /\ \A q \in Agents : branch'[q] = branch[q] \/ Advances(oplog[q].cg, branch[q], branch'[q])
  BY <1>4, CatchUpStep
<1> QED
  BY <1>1, <1>2, <1>3, <1>4 DEF Next

\* The invariant is inductive.
LEMMA EditorsInductive == EditorsInv /\ [Next]_vars => EditorsInv'
<1>1. CASE Next
  BY <1>1, EditorsStep
<1>2. CASE UNCHANGED vars
  BY <1>2 DEF vars, EditorsInv
<1> QED
  BY <1>1, <1>2

\* Whatever way an event came, whole log or single operation, repeated or out
\* of order, it is the same event with the same operation in every log.
THEOREM OperationsTravel == Spec => []OpsTravelWithEvents
<1>1. EditorsInv => OpsTravelWithEvents
  <2> SUFFICES ASSUME EditorsInv, NEW r \in Agents, NEW s \in Agents,
                      NEW v \in Versions(oplog[r].cg), NEW w \in Versions(oplog[s].cg),
                      LvToRaw(oplog[r].cg, v) = LvToRaw(oplog[s].cg, w)
               PROVE  /\ OpAt(oplog[r], v) = OpAt(oplog[s], w)
                      /\ EventAt(oplog[r].cg, v) = EventAt(oplog[s].cg, w)
    BY DEF OpsTravelWithEvents
  <2>1. FactAt(oplog[r], v) \in Told(Agents, oplog) /\ FactAt(oplog[s], w) \in Told(Agents, oplog)
    BY DEF Told, FactsOf, FactsAt
  <2>2. OneMeaning(Told(Agents, oplog))
    BY DEF EditorsInv, Logs, Consistent
  <2>3. FactAt(oplog[r], v) = FactAt(oplog[s], w)
    BY <2>1, <2>2, FactFields DEF OneMeaning
  <2> QED
    BY <2>3, FactFields
<1> QED
  BY EditorsInit, EditorsInductive, <1>1, PTL DEF Spec

\* No step takes back an event that a branch shows.
THEOREM BranchesAdvance == Spec => BranchesOnlyAdvance
<1> DEFINE A == \A r \in Agents :
                  LET h == Histories(oplog'[r].cg)
                  IN  EventsOf(h, VersionsIn(branch[r].version)) \subseteq EventsOf(h, VersionsIn(branch'[r].version))
<1>1. EditorsInv /\ [Next]_vars => A
  <2> SUFFICES ASSUME EditorsInv, [Next]_vars PROVE A
    OBVIOUS
  <2>1. \/ UNCHANGED branch
        \/ /\ oplog' = oplog
           /\ \A q \in Agents : branch'[q] = branch[q] \/ Advances(oplog[q].cg, branch[q], branch'[q])
    BY EditorsStep DEF vars
  <2> SUFFICES ASSUME NEW r \in Agents
               PROVE  EventsOf(Histories(oplog'[r].cg), VersionsIn(branch[r].version))
                        \subseteq EventsOf(Histories(oplog'[r].cg), VersionsIn(branch'[r].version))
    OBVIOUS
  <2>2. CASE branch'[r] = branch[r]
    BY <2>2
  <2>3. CASE oplog' = oplog /\ Advances(oplog[r].cg, branch[r], branch'[r])
    BY <2>3 DEF Advances
  <2> QED
    BY <2>1, <2>2, <2>3
<1>2. EditorsInv /\ [Next]_vars => [A]_vars
  BY <1>1
<1> QED
  BY EditorsInit, EditorsInductive, <1>2, PTL DEF Spec, BranchesOnlyAdvance
=============================================================================
