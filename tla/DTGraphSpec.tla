----------------------------- MODULE DTGraphSpec -----------------------------
(***************************************************************************)
(* Every graph diamond-types can build, and what its queries must return,  *)
(* stated over the partial order the graph stands for.                     *)
(***************************************************************************)
EXTENDS DTGraphTools, CausalOrder

LOCAL INSTANCE SequencesExt

CONSTANT MaxVersions   \* bound: versions in a graph

ASSUME MaxVersionsAssumption == MaxVersions \in Nat

VARIABLE graph

-----------------------------------------------------------------------------
(* The partial order.                                                      *)

Histories(g) == HistoriesOf([v \in Versions(g) |-> ParentsAtVersion(g, v)], NextTime(g))

\* Questions about frontiers without the last version were asked of the graph
\* before it was pushed; the entries that answer them have not changed since.
LastFrontiers(h) == {f \in FrontiersOf(h) : h = <<>> \/ NextTime(graph) - 1 \in f}
LastPairs(h) ==
  {p \in FrontiersOf(h) \X FrontiersOf(h) : h = <<>> \/ NextTime(graph) - 1 \in p[1] \cup p[2]}

-----------------------------------------------------------------------------

Init == graph = EmptyGraph

\* push(): a run is written on, or received with, any known version.
PushRun(parents, end) ==
  /\ NextTime(graph) < end
  /\ graph' = Push(graph, parents, NextTime(graph), end)

Next == \E parents \in FrontiersOf(Histories(graph)), end \in 1 .. MaxVersions : PushRun(parents, end)

Spec == Init /\ [][Next]_graph

-----------------------------------------------------------------------------

\* The assertions of dbg_check(): entries are packed and fully merged, child
\* indexes and roots name exactly the entries that name the entry, and the
\* shadow of every entry reaches as far down as its parents let it.  The
\* frontier that the entries give is the set of versions nothing follows.
GraphChecks ==
  LET h == Histories(graph)
  IN  /\ CheckPackedFrom0(graph)
      /\ CheckFullyMerged(graph)
      /\ CheckChildIndexes(graph)
      /\ CheckShadows(graph)
      /\ \A i \in DOMAIN graph.entries :
           graph.entries[i].shadow .. graph.entries[i].start \subseteq h[graph.entries[i].start]
      /\ FrontierOfGraph(graph) = DominatorsOf(h, Versions(graph))

\* How two sets of events compare: the answer of a comparison of versions.
OrderOf(A, B) ==
  CASE A = B -> "Equal"
    [] A # B /\ B \subseteq A -> "Greater"
    [] A # B /\ A \subseteq B -> "Less"
    [] OTHER -> "None"

\* What containment answers, stopping where a shadow settles it, is what the
\* histories answer, of any set of versions; and two versions, or two frontiers,
\* compare as their histories do.
QueriesAreHistories ==
  LET h == Histories(graph)
  IN  /\ \A f \in SUBSET Versions(graph), v \in Versions(graph) :
           FrontierContainsVersion(graph, f, v) <=> v \in EventsOf(h, f)
      /\ \A v, w \in Versions(graph) : VersionCmp(graph, v, w) = OrderOf(h[v], h[w])
      /\ \A a, b \in FrontiersOf(h) : FrontierCmp(graph, a, b) = OrderOf(EventsOf(h, a), EventsOf(h, b))

\* The ranges of diff() are what lies between two frontiers, in ascending runs
\* that do not touch; and a frontier that retreats over the first and then
\* advances over the second, range by range, arrives at the other one.
DiffMoves(h, a, b, d) ==
  LET back == FoldLeft(LAMBDA f, r : Retreat(graph, f, r[1], r[2]), a, Reverse(d.onlyA))
      ahead == FoldLeft(LAMBDA f, r : Advance(graph, f, r[1], r[2]), back, d.onlyB)
  IN  /\ RangesSet(d.onlyA) = EventsOf(h, a) \ EventsOf(h, b)
      /\ RangesSet(d.onlyB) = EventsOf(h, b) \ EventsOf(h, a)
      /\ \A i \in DOMAIN d.onlyA \ {1} : d.onlyA[i - 1][2] < d.onlyA[i][1]
      /\ \A i \in DOMAIN d.onlyB \ {1} : d.onlyB[i - 1][2] < d.onlyB[i][1]
      /\ ahead = b

\* Wherever a frontier is computed it is the right one: the dominators of any
\* set, of two frontiers, the union of two versions, the dominators of a
\* frontier and a range of versions that need not follow it, and what a frontier
\* becomes on the way that diff() names.
FrontiersMoveExactly ==
  LET h == Histories(graph)
  IN  /\ \A S \in SUBSET Versions(graph) : FindDominators(graph, S) = DominatorsOf(h, S)
      /\ \A f \in FrontiersOf(h) \ {{}}, from, to \in Versions(graph) :
           from <= to => AdvanceSparse(graph, f, from, to + 1) = DominatorsOf(h, f \cup (from .. to))
      /\ \A p \in LastPairs(h) : LET a == p[1] b == p[2] IN
           /\ FindDominators2(graph, a, b) = DominatorsOf(h, a \cup b)
           /\ VersionUnion(graph, a, b) = DominatorsOf(h, a \cup b)
           /\ MergeUnion(graph, a, b) = DominatorsOf(h, a \cup b)
           /\ DiffMoves(h, a, b, Diff(graph, a, b))

\* find_conflicting() visits what two frontiers hold beyond a common version,
\* every version once and from the highest down; a version is visited as the
\* second one's exactly when the first lacks it, and as shared only if both
\* hold it.
VisitedWith(c, flags) == RangesSet(SelectSeq(c.visited, LAMBDA r : r[3] \in flags))

ConflictsCoverBoth ==
  LET h == Histories(graph)
  IN  \A p \in LastPairs(h) :
        LET a == p[1]
            b == p[2]
            c == FindConflicting(graph, a, b)
            past == EventsOf(h, c.common)
        IN  /\ DominatorsOf(h, c.common) = c.common
            /\ VisitedWith(c, DiffFlags) = (EventsOf(h, a) \cup EventsOf(h, b)) \ past
            /\ past \subseteq EventsOf(h, a) \cap EventsOf(h, b)
            /\ VisitedWith(c, {"OnlyA"}) = EventsOf(h, a) \ EventsOf(h, b)
            /\ VisitedWith(c, {"OnlyB"}) = EventsOf(h, b) \ EventsOf(h, a)
            /\ \A i \in DOMAIN c.visited : /\ c.visited[i][1] < c.visited[i][2]
                                           /\ i > 1 => c.visited[i][2] <= c.visited[i - 1][1]
=============================================================================
