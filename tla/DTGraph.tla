------------------------------- MODULE DTGraph -------------------------------
(***************************************************************************)
(* diamond-types: the graph of versions (causalgraph/graph/mod.rs) and the *)
(* frontiers that move over it (frontier.rs).                              *)
(*                                                                         *)
(* A graph is a value: runs of versions in order, each with the parents of *)
(* its first version, a shadow and the indexes of the entries that name    *)
(* one of its versions as a parent.  A frontier is a set.                  *)
(***************************************************************************)
EXTENDS Integers, Sequences

LOCAL INSTANCE FiniteSets
LOCAL INSTANCE SequencesExt

EmptyGraph == [entries |-> <<>>, rootChildren |-> <<>>]

LastEntry(g) == g.entries[Len(g.entries)]

\* get_next_time(): versions are 0 .. NextTime(g) - 1.
NextTime(g) == IF g.entries = <<>> THEN 0 ELSE LastEntry(g).end

Versions(g) == 0 .. NextTime(g) - 1

HoldsVersion(entry, v) == v >= entry.start /\ v < entry.end

\* RleVec::find_index and find_packed, for a version the graph has.
FindIndex(g, v) == CHOOSE i \in DOMAIN g.entries : HoldsVersion(g.entries[i], v)
FindPacked(g, v) == g.entries[FindIndex(g, v)]

ShadowContains(entry, v) == v >= entry.shadow

ParentsAtVersion(g, v) ==
  LET entry == FindPacked(g, v) IN IF v > entry.start THEN {v - 1} ELSE entry.parents

-----------------------------------------------------------------------------
(* push()                                                                  *)

\* A run whose only parent is the last version is appended to the last entry.
Extends(g, parents, start) ==
  /\ g.entries # <<>>
  /\ start = NextTime(g)
  /\ parents = {start - 1}

\* Everything from the shadow up to a version is in the history of it.
ShadowOfRun_NoChain(g, parents, start) ==
  IF start >= 1 /\ start - 1 \in parents THEN start - 1 ELSE start

ShadowOfRun(g, parents, start) ==
  LET shadow[s \in 0 .. start] ==
        IF s >= 1 /\ s - 1 \in parents THEN shadow[FindPacked(g, s - 1).shadow] ELSE s
  IN  shadow[start]

\* The new entry becomes a child of every entry that holds one of its parents.
WithChild(g, parents, index) ==
  [entries |-> [i \in DOMAIN g.entries |->
                  [g.entries[i] EXCEPT !.children =
                     IF \E p \in parents : HoldsVersion(g.entries[i], p) THEN Append(@, index) ELSE @]],
   rootChildren |-> IF parents = {} THEN Append(g.rootChildren, index) ELSE g.rootChildren]

PushEntry(g, entry) == [g EXCEPT !.entries = Append(@, entry)]

Push(g, parents, start, end) ==
  IF Extends(g, parents, start)
  THEN [g EXCEPT !.entries[Len(g.entries)].end = end]
  ELSE PushEntry(WithChild(g, parents, Len(g.entries) + 1),
                 [start |-> start, end |-> end, parents |-> parents, children |-> <<>>,
                  shadow |-> ShadowOfRun(g, parents, start)])

\* iter_range(): a range in pieces of one entry each, with their parents.
IterRange(g, start, end) ==
  LET es == SelectSeq(g.entries, LAMBDA e : e.start < end /\ start < e.end)
  IN  [i \in DOMAIN es |->
         LET from == IF start > es[i].start THEN start ELSE es[i].start
         IN  [start |-> from, end |-> IF end < es[i].end THEN end ELSE es[i].end,
              parents |-> ParentsAtVersion(g, from)]]

-----------------------------------------------------------------------------
(* Frontiers.                                                              *)

\* advance_by_known_run(): the run has these parents, and they are known.
AdvanceByKnownRun(frontier, parents, last) == (frontier \ parents) \cup {last}

\* advance(): the events of the range are added one entry at a time.
Advance(g, frontier, start, end) ==
  FoldLeft(LAMBDA f, run : AdvanceByKnownRun(f, run.parents, run.end - 1),
           frontier, IterRange(g, start, end))

-----------------------------------------------------------------------------
(* graph/check.rs: dbg_check_internal() on a graph with all its versions.  *)

\* How far down the parents of an entry take its shadow, from the highest
\* parent to the lowest: after[k] is what the k versions below its start do.
ExpectedShadow(g, i) ==
  LET start == g.entries[i].start
      after[k \in 0 .. start] ==
        IF k = 0 THEN start
        ELSE IF start - k \in g.entries[i].parents /\ after[k - 1] = start - k + 1
        THEN FindPacked(g, start - k).shadow
        ELSE after[k - 1]
  IN  after[start]

CheckPackedFrom0(g) ==
  \A i \in DOMAIN g.entries :
    /\ g.entries[i].start = IF i = 1 THEN 0 ELSE g.entries[i - 1].end
    /\ g.entries[i].start < g.entries[i].end

CheckFullyMerged(g) ==
  \A i \in DOMAIN g.entries \ {1} : g.entries[i].parents # {g.entries[i].start - 1}

\* The list has the elements of S, in order and once each.
Lists(list, S) ==
  /\ {list[k] : k \in DOMAIN list} = S
  /\ \A k, l \in DOMAIN list : k < l => list[k] < list[l]

\* The entries with a parent in this one.
EntriesAfter(g, entry) == {i \in DOMAIN g.entries : \E p \in g.entries[i].parents : HoldsVersion(entry, p)}

CheckChildIndexes(g) ==
  /\ Lists(g.rootChildren, {i \in DOMAIN g.entries : g.entries[i].parents = {}})
  /\ \A i \in DOMAIN g.entries : Lists(g.entries[i].children, EntriesAfter(g, g.entries[i]))

CheckShadows(g) == \A i \in DOMAIN g.entries : g.entries[i].shadow = ExpectedShadow(g, i)

\* The frontier of all versions, from the entries.
FrontierOfGraph(g) ==
  LET upto[i \in 0 .. Len(g.entries)] ==
        IF i = 0 THEN {} ELSE AdvanceByKnownRun(upto[i - 1], g.entries[i].parents, g.entries[i].end - 1)
  IN  upto[Len(g.entries)]
=============================================================================
