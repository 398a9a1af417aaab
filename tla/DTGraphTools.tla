---------------------------- MODULE DTGraphTools ----------------------------
(***************************************************************************)
(* diamond-types: causalgraph/graph/tools.rs, and the operations of        *)
(* frontier.rs that ask the graph.                                         *)
(*                                                                         *)
(* A heap is a set.  The code never depends on an element being queued     *)
(* twice: a loop takes repeated elements off together.  A loop is a        *)
(* recursive function of its variables, one application an iteration.      *)
(***************************************************************************)
EXTENDS DTGraph

LOCAL INSTANCE FiniteSetsExt
LOCAL INSTANCE SequencesExt
LOCAL INSTANCE FiniteSets

Least(a, b) == IF a < b THEN a ELSE b
Greatest(a, b) == IF a > b THEN a ELSE b

Ascending(S) == SetToSortSeq(S, <)
Descending(S) == SetToSortSeq(S, >)

\* Ranges are half open, <<start, end>>.
RangeSet(r) == r[1] .. (r[2] - 1)
RangesSet(ranges) == UNION {RangeSet(ranges[i]) : i \in DOMAIN ranges}

\* push_reversed_rle()
PushReversed(list, range) ==
  IF list # <<>> /\ list[Len(list)][1] = range[2]
  THEN [list EXCEPT ![Len(list)] = <<range[1], @[2]>>]
  ELSE Append(list, range)

-----------------------------------------------------------------------------
(* Comparing versions.                                                     *)

IsDirectDescendantCoarse(g, a, b) == a = b \/ (a > b /\ HoldsVersion(FindPacked(g, a), b))

FrontierContainsVersion_NoShadow(g, frontier, target) ==
  target \in frontier \/ \E v \in frontier : v > target /\ HoldsVersion(FindPacked(g, v), target)

Highest(S) == CHOOSE v \in S : \A w \in S : w <= v

\* The entries above the target, from the highest; one whose shadow holds the
\* target settles it.
FrontierContainsVersion(g, frontier, target) ==
  LET loop[queue \in SUBSET Versions(g)] ==
        /\ queue # {}
        /\ LET entry == FindPacked(g, Highest(queue))
           IN  \/ ShadowContains(entry, target)
               \/ target \in entry.parents
               \/ loop[{v \in queue : v < entry.start} \cup {p \in entry.parents : p > target}]
  IN  \/ target \in frontier
      \/ \E v \in frontier : v > target /\ ShadowContains(FindPacked(g, v), target)
      \/ loop[{v \in frontier : v > target}]

FrontierContainsFrontier(g, a, b) == a = b \/ \A v \in b : FrontierContainsVersion(g, a, v)

\* version_cmp() and frontier_cmp(): "None" is for concurrent versions.
VersionCmp(g, v, w) ==
  CASE v = w -> "Equal"
    [] v < w -> IF FrontierContainsVersion(g, {w}, v) THEN "Less" ELSE "None"
    [] v > w -> IF FrontierContainsVersion(g, {v}, w) THEN "Greater" ELSE "None"

FrontierCmp(g, a, b) ==
  CASE a = b -> "Equal"
    [] a # b /\ a = {} -> "Less"
    [] a # b /\ a # {} /\ FrontierContainsFrontier(g, a, b) -> "Greater"
    [] OTHER -> IF FrontierContainsFrontier(g, b, a) THEN "Less" ELSE "None"

-----------------------------------------------------------------------------
(* diff()                                                                  *)

DiffFlags == {"OnlyA", "OnlyB", "Shared"}
FlagRank(flag) == CASE flag = "OnlyA" -> 0 [] flag = "OnlyB" -> 1 [] flag = "Shared" -> 2

Flagged == [v : Nat, flag : DiffFlags]
HigherFlagged(p, q) == p.v > q.v \/ (p.v = q.v /\ FlagRank(p.flag) > FlagRank(q.flag))

Blend(flag, other) == IF other = flag THEN flag ELSE "Shared"

\* The queue and what was marked: runs <<start, end, flag>> from the highest.
DiffLoops == [queue : SUBSET Flagged, marks : Seq(Nat \X Nat \X DiffFlags)]

\* num_shared_entries counts the queued entries that are shared; the loop ends
\* when it is their number.
DiffDone(queue) == \A q \in queue : q.flag = "Shared"

\* The next queued version lies in the entry that is being marked down from v.
MarkTo(r, q) ==
  IF q.flag = r.flag THEN r
  ELSE [v |-> q.v, flag |-> "Shared",
        marks |-> IF q.v = r.v THEN r.marks ELSE Append(r.marks, <<q.v + 1, r.v + 1, r.flag>>)]

DiffWithin(st, entry, top) ==
  LET within == {q \in st.queue : q.v >= entry.start}
      r == FoldLeft(MarkTo, [v |-> top.v, flag |-> top.flag, marks |-> st.marks],
                    SetToSortSeq(within \ {top}, HigherFlagged))
  IN  [queue |-> (st.queue \ within) \cup {[v |-> p, flag |-> r.flag] : p \in entry.parents},
       marks |-> Append(r.marks, <<entry.start, r.v + 1, r.flag>>)]

HighestFlagged(queue) == CHOOSE q \in queue : \A o \in queue \ {q} : HigherFlagged(q, o)

DiffSlowInternal(g, a, b) ==
  LET step(st, top) == DiffWithin(st, FindPacked(g, top.v), top)
      loop[st \in DiffLoops] ==
        IF DiffDone(st.queue) THEN st.marks ELSE loop[step(st, HighestFlagged(st.queue))]
  IN  loop[[queue |-> {[v |-> v, flag |-> "OnlyA"] : v \in a} \cup {[v |-> v, flag |-> "OnlyB"] : v \in b},
            marks |-> <<>>]]

\* diff_rev_2(): the short ways first, where one version follows the other in
\* one entry.
DiffMarks(g, a, b) ==
  IF a = b THEN <<>>
  ELSE IF Cardinality(a) = 1 /\ Cardinality(b) = 1 /\ IsDirectDescendantCoarse(g, Max(a), Max(b))
  THEN << <<Max(b) + 1, Max(a) + 1, "OnlyA">> >>
  ELSE IF Cardinality(a) = 1 /\ Cardinality(b) = 1 /\ IsDirectDescendantCoarse(g, Max(b), Max(a))
  THEN << <<Max(a) + 1, Max(b) + 1, "OnlyB">> >>
  ELSE DiffSlowInternal(g, a, b)

MarkedOnly(marks, flag) ==
  FoldLeft(LAMBDA list, m : IF m[3] = flag THEN PushReversed(list, <<m[1], m[2]>>) ELSE list, <<>>, marks)

DiffRev(g, a, b) ==
  LET marks == DiffMarks(g, a, b)
  IN  [onlyA |-> MarkedOnly(marks, "OnlyA"), onlyB |-> MarkedOnly(marks, "OnlyB")]

Diff(g, a, b) ==
  LET rev == DiffRev(g, a, b) IN [onlyA |-> Reverse(rev.onlyA), onlyB |-> Reverse(rev.onlyB)]

-----------------------------------------------------------------------------
(* find_conflicting(): back from two frontiers to a common version.        *)

\* A time point is a frontier, the empty one for the root; the highest has the
\* highest version, then the fewest others, then the highest flag.  The heap
\* leaves open which of two that agree in all these is first.
TimePoints == [f : SUBSET Nat, flag : DiffFlags]

HigherPoint(p, q) ==
  \/ p.f # {} /\ q.f = {}
  \/ /\ p.f # {} /\ q.f # {}
     /\ \/ Max(p.f) > Max(q.f)
        \/ /\ Max(p.f) = Max(q.f)
           /\ \/ Cardinality(p.f) < Cardinality(q.f)
              \/ Cardinality(p.f) = Cardinality(q.f) /\ FlagRank(p.flag) > FlagRank(q.flag)

TopPoint(queue) == CHOOSE p \in queue : \A q \in queue : ~ HigherPoint(q, p)

\* A merge is taken apart; its highest version is dealt with at once.
Shatter(point, flag) == {[f |-> {v}, flag |-> flag] : v \in point.f \ {Max(point.f)}}

\* The range being consumed ends at "end" and has the flag; "met" says that
\* nothing is queued any more.
ConflictLoops == [queue : SUBSET TimePoints, end : Nat, flag : DiffFlags,
                  visited : Seq(Nat \X Nat \X DiffFlags), met : BOOLEAN]

Visit(st, start) == [st EXCEPT !.visited = Append(@, <<start, st.end, st.flag>>)]

AbsorbPoint_KeepFlag(st, point) ==
  [st EXCEPT !.queue = (@ \ {point}) \cup Shatter(point, point.flag)]

AbsorbPoint(st, point) ==
  LET cut == Max(point.f) + 1
  IN  [(IF cut < st.end THEN Visit(st, cut) ELSE st) EXCEPT
         !.queue = (@ \ {point}) \cup Shatter(point, point.flag),
         !.end   = Least(@, cut),
         !.flag  = Blend(@, point.flag)]

LeaveEntry(st, entry) ==
  [Visit(st, entry.start) EXCEPT !.queue = @ \cup {[f |-> entry.parents, flag |-> st.flag]}]

\* Everything queued within one entry is consumed.
ConflictWithin(entry, start) ==
  LET within(p) == p.f # {} /\ Max(p.f) >= entry.start
      loop[st \in ConflictLoops] ==
        IF st.queue = {} THEN [st EXCEPT !.met = TRUE]
        ELSE IF within(TopPoint(st.queue)) THEN loop[AbsorbPoint(st, TopPoint(st.queue))]
        ELSE LeaveEntry(st, entry)
  IN  loop[start]

StartRange(st, top, same) ==
  LET flag == IF \E q \in same : q.flag # top.flag THEN "Shared" ELSE top.flag
  IN  [st EXCEPT !.queue = (@ \ same) \cup Shatter(top, flag), !.end = Max(top.f) + 1, !.flag = flag]

ConflictStep(g, st, top) ==
  ConflictWithin(FindPacked(g, Max(top.f)), StartRange(st, top, {q \in st.queue : q.f = top.f}))

ConflictDone(queue, top) == top.f = {} \/ \A q \in queue : q.f = top.f

FindConflictingSlow(g, a, b) ==
  LET loop[st \in ConflictLoops] ==
        IF st.met THEN [common |-> {st.end - 1}, visited |-> st.visited]
        ELSE IF ConflictDone(st.queue, TopPoint(st.queue))
        THEN [common |-> TopPoint(st.queue).f, visited |-> st.visited]
        ELSE loop[ConflictStep(g, st, TopPoint(st.queue))]
  IN  loop[[queue |-> {[f |-> a, flag |-> "OnlyA"], [f |-> b, flag |-> "OnlyB"]},
            end |-> 0, flag |-> "OnlyA", visited |-> <<>>, met |-> FALSE]]

FindConflicting(g, a, b) ==
  IF a = b THEN [common |-> a, visited |-> <<>>]
  ELSE IF Cardinality(a) = 1 /\ Cardinality(b) = 1 /\ IsDirectDescendantCoarse(g, Max(a), Max(b))
  THEN [common |-> b, visited |-> << <<Max(b) + 1, Max(a) + 1, "OnlyA">> >>]
  ELSE IF Cardinality(a) = 1 /\ Cardinality(b) = 1 /\ IsDirectDescendantCoarse(g, Max(b), Max(a))
  THEN [common |-> a, visited |-> << <<Max(a) + 1, Max(b) + 1, "OnlyB">> >>]
  ELSE FindConflictingSlow(g, a, b)

-----------------------------------------------------------------------------
(* find_dominators() and its relatives.                                    *)

\* The queue holds an input v as 2v and a parent p as 2p + 1.  What else is
\* queued within the entry of the highest one is an ancestor of it.
DominatorLoops == [queue : SUBSET Nat, found : Seq(Nat)]

\* With no other input queued the loop ends; parents alone dominate nothing.
NoInputs(queue) == \A x \in queue : x % 2 = 1

DominatorStep(st, top, entry) ==
  [queue |-> {x \in st.queue : x < 2 * entry.start} \cup {2 * p + 1 : p \in entry.parents},
   found |-> IF top % 2 = 0 THEN Append(st.found, top \div 2) ELSE st.found]

\* find_dominators_full_internal(): the inputs that dominate, highest first.
\* It stops at an entry whose shadow reaches down to stopAtShadow, which is
\* -1 for a search that does not stop.
DominatorsInternal(g, inputs, stopAtShadow) ==
  LET stops(top) == FindPacked(g, top \div 2).shadow <= stopAtShadow
      emit(st, top) == IF top % 2 = 0 THEN Append(st.found, top \div 2) ELSE st.found
      loop[st \in DominatorLoops] ==
        IF NoInputs(st.queue) THEN st.found
        ELSE IF stops(Max(st.queue)) THEN emit(st, Max(st.queue))
        ELSE loop[DominatorStep(st, Max(st.queue), FindPacked(g, Max(st.queue) \div 2))]
  IN  loop[[queue |-> {2 * v : v \in inputs}, found |-> <<>>]]

NoShadow == -1

FindDominatorsWideRev(g, versions) ==
  IF Cardinality(versions) <= 1 THEN Descending(versions)
  ELSE IF FindPacked(g, Max(versions)).shadow <= Min(versions) THEN <<Max(versions)>>
  ELSE DominatorsInternal(g, versions, Min(versions))

FindDominators(g, versions) == ToSet(FindDominatorsWideRev(g, versions))

\* For two frontiers, none of which has a version that dominates another of it.
FindDominators2(g, a, b) ==
  IF a = {} THEN b
  ELSE IF b = {} THEN a
  ELSE IF Cardinality(a) = 1 /\ Cardinality(b) = 1
  THEN CASE VersionCmp(g, Max(a), Max(b)) = "None" -> a \cup b
         [] VersionCmp(g, Max(a), Max(b)) \in {"Equal", "Less"} -> b
         [] VersionCmp(g, Max(a), Max(b)) = "Greater" -> a
  ELSE ToSet(DominatorsInternal(g, a \cup b, Least(Min(a), Min(b))))

VersionUnion(g, a, b) == ToSet(DominatorsInternal(g, a \cup b, NoShadow))

-----------------------------------------------------------------------------
(* Frontiers that move.                                                    *)

\* merge_union()
MergeUnion(g, frontier, other) ==
  IF \/ other = {} \/ other = frontier
     \/ Cardinality(other) = 1 /\ FrontierContainsVersion(g, frontier, Max(other))
  THEN frontier
  ELSE VersionUnion(g, frontier, other)

AdvanceSparseKnownRun(g, frontier, parents, last) ==
  IF frontier = parents THEN {last} ELSE FindDominators2(g, frontier, {last})

\* advance_sparse(): the versions of the range need not follow the frontier.
AdvanceSparse(g, frontier, start, end) ==
  IF FindPacked(g, start).end >= end
  THEN AdvanceSparseKnownRun(g, frontier, ParentsAtVersion(g, start), end - 1)
  ELSE FindDominators2(g, frontier, Advance(g, {}, start, end))

\* The part of retreat() in one entry: the range is taken off its end.
AddIfNew(g, frontier, p) == IF FrontierContainsVersion(g, frontier, p) THEN frontier ELSE frontier \cup {p}

RetreatRun_AllParents(g, frontier, run) == (frontier \ {run.end - 1}) \cup run.parents

RetreatRun(g, frontier, run) ==
  IF Cardinality(frontier) = 1 THEN run.parents
  ELSE FoldLeft(LAMBDA f, p : AddIfNew(g, f, p), frontier \ {run.end - 1}, Ascending(run.parents))

\* retreat(): the range is the latest of what the frontier holds.
Retreat(g, frontier, start, end) ==
  FoldLeft(LAMBDA f, run : RetreatRun(g, f, run), frontier, Reverse(IterRange(g, start, end)))
=============================================================================
