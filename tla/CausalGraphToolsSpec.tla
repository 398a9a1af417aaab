------------------------ MODULE CausalGraphToolsSpec ------------------------
(***************************************************************************)
(* What the graph algorithms must return, stated over the partial order of *)
(* CausalHistory and checked on every graph CausalGraphMachine can build.  *)
(***************************************************************************)
EXTENDS CausalGraphMachine, CausalGraphTools

CONSTANT MaxPaired   \* bound: events of the graphs two replicas exchange

ASSUME MaxPairedAssumption == MaxPaired \in Nat

\* A branch moves from one frontier to another.  diff() returns what is in the
\* history of one and not of the other, as ascending runs: the walker retreats
\* and advances by exactly these.  findDominators() on the concatenation of the
\* two, repetitions and all, returns the frontier of the union in ascending
\* order: it is how a branch gets its version after a merge.
MovesAreExact ==
  LET h         == Histories(cg)
      frontiers == FrontiersOf(h) IN
  \A a, b \in frontiers :
    LET d == Diff(cg, a, b)
    IN  /\ RangesToSet(d.aOnly) = EventsOf(h, a) \ EventsOf(h, b)
        /\ RangesToSet(d.bOnly) = EventsOf(h, b) \ EventsOf(h, a)
        /\ Canonical(d.aOnly) /\ Canonical(d.bOnly)
        /\ IsAscending(FindDominators(cg, Ascending(a) \o Ascending(b)), DominatorsOf(h, a \cup b))

\* versionContainsLV() answers by entries what the history answers by events.
ContainmentIsExact ==
  LET h == Histories(cg)
  IN  \A f \in SUBSET Versions(cg), v \in Versions(cg) :
        VersionContainsLV(cg, f, v) <=> v \in EventsOf(h, f)

\* findConflicting() splits the two histories into the common version and the
\* ranges it visits, visits every event once and from the highest down, and
\* gives the flags A and B to exactly the events one frontier has.  Every event
\* visited comes after the whole common version: a merge stands placeholders in
\* for the document at that version, and no event may be concurrent with what
\* the placeholders hide.
ConflictSplitsHistory ==
  LET h         == Histories(cg)
      frontiers == FrontiersOf(h) IN
  \A a, b \in frontiers :
    LET c    == FindConflicting(cg, a, b)
        all  == VisitedWith(c.visited, DiffFlags)
        past == EventsOf(h, c.common)
    IN  /\ DominatorsOf(h, c.common) = c.common
        /\ all \cap past = {}
        /\ all \cup past = EventsOf(h, a) \cup EventsOf(h, b)
        /\ VisitedWith(c.visited, {"A"}) = EventsOf(h, a) \ EventsOf(h, b)
        /\ VisitedWith(c.visited, {"B"}) = EventsOf(h, b) \ EventsOf(h, a)
        /\ VisitedWith(c.visited, {"Shared"}) = (EventsOf(h, a) \cap EventsOf(h, b)) \ past
        /\ \A v \in all : past \subseteq h[v]
        /\ \A i \in DOMAIN c.visited :
             /\ c.visited[i][1] < c.visited[i][2]
             /\ i > 1 => c.visited[i][2] <= c.visited[i - 1][1]

-----------------------------------------------------------------------------
(* Exchange between two graphs.                                            *)

\* A graph that knows the history of a frontier, received in one go.
PartialGraph(f) ==
  MergePartialVersions(EmptyCG, SerializeDiff(cg, Diff(cg, {}, f).bOnly))

\* What dest holds after src sends it what a summary of dest shows missing:
\* the causal graph half of mergeOplogInto().
Exchange(dest, src) ==
  LET common == IntersectWithSummary(src, SummarizeVersion(dest)).common
      lacking == Diff(src, {common[i] : i \in DOMAIN common}, src.heads).bOnly
  IN  MergePartialVersions(dest, SerializeDiff(src, lacking))

EventsIn(f) == {EventAt(cg, v) : v \in EventsOf(Histories(cg), f)}

\* A replica that sent its version summary is sent all it lacks and no entry
\* whose parents it does not know, whichever parts of each agent's sequence
\* numbers the two replicas hold and however their runs are split.
ExchangeDeliversAll ==
  NextLV(cg) <= MaxPaired =>
  \A f, g \in Frontiers(cg) :
    LET dest == PartialGraph(f)
        src  == PartialGraph(g)
        got  == Exchange(dest.cg, src.cg)
    IN  /\ ~ dest.thrown /\ ~ src.thrown /\ ~ got.thrown
        /\ EventSet(got.cg) = EventsIn(f) \cup EventsIn(g)
        /\ got.cg.heads = DominatorsOf(Histories(got.cg), Versions(got.cg))

-----------------------------------------------------------------------------
\* A constraint for model checking.  The algorithms never compare agents, they
\* only see where runs end: the first event may as well be agent 0's.
FirstByAgentZero == cg.entries # <<>> => cg.entries[1].agent = 0

=============================================================================
