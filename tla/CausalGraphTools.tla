-------------------------- MODULE CausalGraphTools --------------------------
(***************************************************************************)
(* The graph algorithms of eg-walker-reference/src/causal-graph.ts: diff,  *)
(* versionContainsLV, findDominators, findConflicting, the intersection    *)
(* with a version summary, and the serialised form in which two graphs     *)
(* exchange what one of them lacks.                                        *)
(*                                                                         *)
(* A loop of the code is a recursive function over the loop's variables,   *)
(* or over the number of its iterations where these are few, one step of   *)
(* the function for one iteration.  A priority queue is a set: the code    *)
(* never depends on an element being queued twice.                         *)
(***************************************************************************)
EXTENDS CausalGraph

Highest(S) == CHOOSE v \in S : \A w \in S : w <= v
Lowest(S)  == CHOOSE v \in S : \A w \in S : v <= w

\* A set of versions as the sorted array the code keeps.
Ascending(S) ==
  LET below[k \in 0 .. Highest(S) + 1] ==
        IF k = 0 THEN <<>>
        ELSE IF k - 1 \in S THEN Append(below[k - 1], k - 1)
        ELSE below[k - 1]
  IN  IF S = {} THEN <<>> ELSE below[Highest(S) + 1]

\* Array.reverse()
Reversed(list) == [i \in DOMAIN list |-> list[Len(list) + 1 - i]]

VersionsIn(list) == {list[i] : i \in DOMAIN list}

\* Ranges are half open, <<start, end>>.
Range2Set(r) == r[1] .. (r[2] - 1)
RangesToSet(ranges) == UNION {Range2Set(ranges[i]) : i \in DOMAIN ranges}

\* Every version of a range, and of a list of them, one by one.
RangeLVs(r) == [i \in 1 .. (r[2] - r[1]) |-> r[1] + i - 1]
RangesLVs(ranges) ==
  LET upTo[k \in 0 .. Len(ranges)] ==
        IF k = 0 THEN <<>> ELSE upTo[k - 1] \o RangeLVs(ranges[k])
  IN  upTo[Len(ranges)]

\* Ranges in ascending order, none empty, and none that touches the next.
Canonical(ranges) ==
  /\ \A i \in DOMAIN ranges : ranges[i][1] < ranges[i][2]
  /\ \A i \in DOMAIN ranges \ {1} : ranges[i - 1][2] < ranges[i][1]

\* The list is the set in ascending order.
IsAscending(list, S) ==
  /\ VersionsIn(list) = S
  /\ \A i \in DOMAIN list \ {1} : list[i - 1] < list[i]

Lower(a, b)  == IF a < b THEN a ELSE b
Higher(a, b) == IF a > b THEN a ELSE b

\* Ranges arrive from the highest down; one that ends where the last one
\* starts extends it.
PushReversedRLE(list, start, end) ==
  IF list # <<>> /\ LastOf(list)[1] = end
  THEN [list EXCEPT ![Len(list)] = <<start, @[2]>>]
  ELSE Append(list, <<start, end>>)

-----------------------------------------------------------------------------
(* diff(): what is in the history of one frontier only.                    *)

DiffFlags == {"A", "B", "Shared"}

EnqAll_FirstFlag(st, vs, flag) ==
  LET new == {v \in vs : st.flags[v] = "None"}
  IN  [st EXCEPT !.queue     = @ \cup new,
                 !.flags     = [v \in DOMAIN @ |-> IF v \in new THEN flag ELSE @[v]],
                 !.numShared = IF flag = "Shared" THEN @ + Cardinality(new) ELSE @]

\* enq() of every one of vs.  A version that was queued with another flag is
\* shared; one that was never queued has the flag "None".
EnqAll(st, vs, flag) ==
  LET flags == [v \in DOMAIN st.flags |->
                  IF v \notin vs THEN st.flags[v]
                  ELSE IF st.flags[v] \in {"None", flag} THEN flag ELSE "Shared"]
  IN  [queue     |-> st.queue \cup {v \in vs : st.flags[v] = "None"},
       flags     |-> flags,
       numShared |-> st.numShared + Cardinality({v \in vs : flags[v] = "Shared" /\ st.flags[v] # "Shared"}),
       aOnly     |-> st.aOnly,
       bOnly     |-> st.bOnly]

\* The versions "within" are taken off the queue, and the run they lead is
\* marked from start to the highest of them.
MarkRun(st, within, start, endInclusive, flag) ==
  [queue     |-> st.queue \ within,
   flags     |-> st.flags,
   numShared |-> st.numShared - Cardinality({w \in within : st.flags[w] = "Shared"}),
   aOnly     |-> IF flag = "A" THEN PushReversedRLE(st.aOnly, start, endInclusive + 1) ELSE st.aOnly,
   bOnly     |-> IF flag = "B" THEN PushReversedRLE(st.bOnly, start, endInclusive + 1) ELSE st.bOnly]

\* The entry e is consumed from v, the highest queued version, to its start.
\* Where a queued version of e has another flag than v, the run above it is
\* marked, and all that is left of e is shared.
ConsumeEntry(st, v, e) ==
  LET flag   == st.flags[v]
      within == {w \in st.queue : w >= e.version}
      others == {w \in within : st.flags[w] # flag}
      start  == IF others = {} THEN e.version ELSE Highest(others) + 1
      left   == IF others = {} THEN flag ELSE "Shared"
  IN  EnqAll(MarkRun(st, within, start, v, flag), e.parents, left)

DiffStep(cg, st) ==
  ConsumeEntry(st, Highest(st.queue), FindEntryContaining(cg, Highest(st.queue)))

DiffStart(cg, a, b) ==
  LET empty == [queue |-> {}, flags |-> [v \in Versions(cg) |-> "None"],
                numShared |-> 0, aOnly |-> <<>>, bOnly |-> <<>>]
  IN  EnqAll(EnqAll(empty, a, "A"), b, "B")

DiffDone(st) == Cardinality(st.queue) <= st.numShared

DiffResult(st) == [aOnly |-> Reversed(st.aOnly), bOnly |-> Reversed(st.bOnly)]

DiffIterate(cg, st) == IF DiffDone(st) THEN st ELSE DiffStep(cg, st)

\* Every iteration takes the highest version off the queue and queues lower
\* ones: there are no more iterations than versions.
Diff(cg, a, b) ==
  LET after[k \in 0 .. NextLV(cg)] ==
        IF k = 0 THEN DiffStart(cg, a, b)
        ELSE DiffIterate(cg, after[k - 1])
  IN  DiffResult(after[NextLV(cg)])

-----------------------------------------------------------------------------
(* Containment and dominators.                                             *)

VersionContainsLV_OneRun(cg, frontier, target) ==
  \/ target \in frontier
  \/ \E v \in frontier : LET e == FindEntryContaining(cg, v)
                         IN  v > target /\ (e.version <= target \/ target \in e.parents)

VersionContainsLV(cg, frontier, target) ==
  LET loop[queue \in SUBSET Versions(cg)] ==
        /\ queue # {}
        /\ LET e == FindEntryContaining(cg, Highest(queue))
           IN  \/ e.version <= target
               \/ target \in e.parents
               \/ loop[{w \in queue : w < e.version} \cup {p \in e.parents : p > target}]
  IN  target \in frontier \/ loop[{v \in frontier : v > target}]

\* The queue of findDominators2 holds an input v as 2v and a parent p as 2p+1.
\* Nothing else in the entry of the highest one is dominant.
DominatorStep(st, top, e) ==
  LET within == {x \in st.queue : x >= 2 * e.version}
  IN  [queue     |-> (st.queue \ within) \cup {2 * p + 1 : p \in e.parents},
       remaining |-> st.remaining - Cardinality({x \in within : x % 2 = 0}),
       found     |-> IF top % 2 = 0 THEN Append(st.found, top \div 2) ELSE st.found]

DominatorIterate(cg, st) ==
  IF st.queue = {} \/ st.remaining <= 0 THEN st
  ELSE DominatorStep(st, Highest(st.queue), FindEntryContaining(cg, Highest(st.queue) \div 2))

DominatorStart(inputs) ==
  [queue |-> {2 * v : v \in inputs}, remaining |-> Cardinality(inputs), found |-> <<>>]

DominatorLoop(cg, inputs) ==
  LET after[k \in 0 .. NextLV(cg)] ==
        IF k = 0 THEN DominatorStart(inputs) ELSE DominatorIterate(cg, after[k - 1])
  IN  after[NextLV(cg)].found

\* The shorter way, for two.
DominatorsOfTwo(cg, v0, v1) ==
  IF v0 = v1 \/ VersionContainsLV(cg, {v1}, v0) THEN <<v1>> ELSE <<v0, v1>>

FindDominators_Highest(cg, versions) ==
  IF Len(versions) <= 1 THEN versions ELSE <<Highest(VersionsIn(versions))>>

FindDominators(cg, versions) ==
  IF Len(versions) <= 1 THEN versions
  ELSE IF Len(versions) = 2
  THEN DominatorsOfTwo(cg, Lower(versions[1], versions[2]), Higher(versions[1], versions[2]))
  ELSE Reversed(DominatorLoop(cg, VersionsIn(versions)))

-----------------------------------------------------------------------------
(* findConflicting(): walk back from two frontiers to a common ancestor    *)
(* frontier, reporting every range passed with the side it belongs to.     *)

FlagRank == [f \in DiffFlags |-> CASE f = "A" -> 0 [] f = "B" -> 1 [] f = "Shared" -> 2]

Differing(S, T) == (S \ T) \cup (T \ S)

\* The heap compares descending lists item by item and then the flags: the
\* list with the highest version that is not in both is the higher one.
HigherPoint(p, q) ==
  IF p.v = q.v THEN FlagRank[p.flag] > FlagRank[q.flag] ELSE Highest(Differing(p.v, q.v)) \in p.v

TopPoint(queue) == CHOOSE p \in queue : \A q \in queue \ {p} : HigherPoint(p, q)

\* A merge of several versions is taken apart after its highest one.
Shatter(point, flag) == {[v |-> {w}, flag |-> flag] : w \in point.v \ {Highest(point.v)}}

Blend_First(flag, other) == flag

Blend(flag, other) == IF other = flag THEN flag ELSE "Shared"

\* The range that is being consumed ends at "end" and has the flag; "found"
\* says that nothing is left to meet in its entry.
ConflictStart(a, b) ==
  [queue   |-> {[v |-> a, flag |-> "A"], [v |-> b, flag |-> "B"]},
   end     |-> 0,
   flag    |-> "A",
   visited |-> <<>>,
   found   |-> FALSE]

\* The highest time point starts a range; the sides that have it are blended.
StartRange(st, top, same) ==
  LET flag == IF \E q \in same : q.flag # top.flag THEN "Shared" ELSE top.flag
  IN  [queue   |-> (st.queue \ same) \cup Shatter(top, flag),
       end     |-> Highest(top.v) + 1,
       flag    |-> flag,
       visited |-> st.visited,
       found   |-> st.found]

\* The next time point, which lies within the entry being consumed, is taken
\* off the queue; "end" is where the range that is left ends.
AbsorbTo(st, peek, end) ==
  [queue   |-> (st.queue \ {peek}) \cup Shatter(peek, peek.flag),
   end     |-> Lower(st.end, end),
   flag    |-> Blend(st.flag, peek.flag),
   visited |-> IF end < st.end THEN Append(st.visited, <<end, st.end, st.flag>>) ELSE st.visited,
   found   |-> st.found]

LiesWithin(point, e) == point.v # {} /\ Highest(point.v) >= e.version

AbsorbNext(e, st) ==
  LET peek == TopPoint(st.queue)
  IN  IF st.queue # {} /\ LiesWithin(peek, e) THEN AbsorbTo(st, peek, Highest(peek.v) + 1) ELSE st

\* With nothing else queued an ancestor is found.
PassEntry(e, st) ==
  IF st.queue = {} THEN [st EXCEPT !.found = TRUE]
  ELSE [queue   |-> st.queue \cup {[v |-> e.parents, flag |-> st.flag]},
        end     |-> st.end,
        flag    |-> st.flag,
        visited |-> Append(st.visited, <<e.version, st.end, st.flag>>),
        found   |-> st.found]

\* Consumes what is queued within the entry e.  No time point has two versions
\* in one entry: what a merge is taken apart into lies below.
ConflictWithin(e, start) ==
  LET after[k \in 0 .. Cardinality(start.queue)] ==
        IF k = 0 THEN start ELSE AbsorbNext(e, after[k - 1])
  IN  PassEntry(e, after[Cardinality(start.queue)])

ConflictStep(cg, st, top) ==
  ConflictWithin(FindEntryContaining(cg, Highest(top.v)),
                 StartRange(st, top, {q \in st.queue : q.v = top.v}))

ConflictDone(st) ==
  LET top == TopPoint(st.queue)
  IN  st.found \/ top.v = {} \/ \A q \in st.queue : q.v = top.v

ConflictIterate(cg, st) == IF ConflictDone(st) THEN st ELSE ConflictStep(cg, st, TopPoint(st.queue))

ConflictResult(st) ==
  [common  |-> IF st.found THEN {st.end - 1} ELSE TopPoint(st.queue).v,
   visited |-> st.visited]

\* Every iteration passes the entry of the highest queued version.
FindConflicting(cg, a, b) ==
  LET after[k \in 0 .. NextLV(cg)] ==
        IF k = 0 THEN ConflictStart(a, b) ELSE ConflictIterate(cg, after[k - 1])
  IN  ConflictResult(after[NextLV(cg)])

\* What is visited with one of the flags.
VisitedWith(visited, flags) ==
  UNION {Range2Set(visited[i]) : i \in {j \in DOMAIN visited : visited[j][3] \in flags}}

-----------------------------------------------------------------------------
(* Exchanging what another graph lacks.                                    *)

\* The runs of sequence numbers known of every agent.
TryRangeAppend(list, r) ==
  IF list # <<>> /\ LastOf(list)[2] = r[1]
  THEN [list EXCEPT ![Len(list)] = <<@[1], r[2]>>]
  ELSE Append(list, r)

SummarizeVersion_OneRun(cg) ==
  [agent \in Agents |->
     LET av == cg.agentToVersion[agent]
     IN  IF av = <<>> THEN <<>> ELSE << <<av[1].seq, LastOf(av).seqEnd>> >>]

\* Runs that meet in their sequence numbers are one, whatever their versions.
SummaryOf(av) ==
  LET upTo[k \in 0 .. Len(av)] ==
        IF k = 0 THEN <<>> ELSE TryRangeAppend(upTo[k - 1], <<av[k].seq, av[k].seqEnd>>)
  IN  upTo[Len(av)]

SummarizeVersion(cg) == [agent \in Agents |-> SummaryOf(cg.agentToVersion[agent])]

\* The last version of every run of the graph that the summary holds, entry
\* by entry, and the identities of the summary that the graph lacks.
CommonRunEnds(cg, summary) ==
  UNION {UNION {LET r     == summary[agent][i]
                    from  == Higher(r[1], ce.seq)
                    to    == Lower(r[2], ce.seqEnd)
                    start == ce.version + (from - ce.seq)
                    end   == start + (to - from)
                IN  IF from >= to THEN {}
                    ELSE {Lower(end, cg.entries[j].vEnd) - 1 :
                            j \in {k \in DOMAIN cg.entries : /\ cg.entries[k].version < end
                                                             /\ start < cg.entries[k].vEnd}} :
                i \in DOMAIN summary[agent],
                ce \in {cg.agentToVersion[agent][k] : k \in DOMAIN cg.agentToVersion[agent]}} :
         agent \in Agents}

Remainder(cg, summary) ==
  {id \in UNION {{agent} \X RangesToSet(summary[agent]) : agent \in Agents} :
     ~ HasVersion(cg, id[1], id[2])}

IntersectWithSummary(cg, summary) ==
  [common    |-> FindDominators(cg, Ascending(CommonRunEnds(cg, summary))),
   remainder |-> Remainder(cg, summary)]

\* What an entry has of a range, with its own parents.
SliceOf(cg, e, vStart, vEnd) ==
  LET start == Higher(vStart, e.version)
  IN  [version |-> start,
       vEnd    |-> Lower(vEnd, e.vEnd),
       agent   |-> e.agent,
       seq     |-> e.seq + (start - e.version),
       parents |-> ParentsOf(cg, start)]

\* The parts of a range, entry by entry.
IterVersionsBetween(cg, vStart, vEnd) ==
  LET upTo[k \in 0 .. Len(cg.entries)] ==
        IF k = 0 THEN <<>>
        ELSE IF Higher(vStart, cg.entries[k].version) < Lower(vEnd, cg.entries[k].vEnd)
        THEN Append(upTo[k - 1], SliceOf(cg, cg.entries[k], vStart, vEnd))
        ELSE upTo[k - 1]
  IN  upTo[Len(cg.entries)]

\* What is sent: every part by its identity, with the identities of its parents.
SerializePart(cg, e) ==
  [agent |-> e.agent, seq |-> e.seq, len |-> e.vEnd - e.version,
   parents |-> LvToRawList(cg, e.parents)]

SerializeRange(cg, r) ==
  LET es == IterVersionsBetween(cg, r[1], r[2])
  IN  [i \in DOMAIN es |-> SerializePart(cg, es[i])]

SerializeDiff(cg, ranges) ==
  LET upTo[k \in 0 .. Len(ranges)] ==
        IF k = 0 THEN <<>> ELSE upTo[k - 1] \o SerializeRange(cg, ranges[k])
  IN  upTo[Len(ranges)]

SerializeFromVersion(cg, v) == SerializeDiff(cg, Diff(cg, v, cg.heads).bOnly)

\* addRaw() throws at the first entry with an unknown parent; the entries
\* before it stay merged.
MergePart(g, d) ==
  IF g.thrown \/ ~ KnowsAll(g.cg, d.parents)
  THEN [g EXCEPT !.thrown = TRUE]
  ELSE [g EXCEPT !.cg = AddRaw(@, <<d.agent, d.seq>>, d.len, d.parents)]

MergePartialVersions(cg, data) ==
  LET upTo[k \in 0 .. Len(data)] ==
        IF k = 0 THEN [cg |-> cg, thrown |-> FALSE] ELSE MergePart(upTo[k - 1], data[k])
  IN  upTo[Len(data)]
=============================================================================
