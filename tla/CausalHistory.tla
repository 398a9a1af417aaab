---------------------------- MODULE CausalHistory ----------------------------
(***************************************************************************)
(* What the causal graph stands for: a partial order of events.  These are *)
(* the definitions the algorithms of CausalGraphTools are compared with;   *)
(* none of them looks at the run-length encoding.                          *)
(***************************************************************************)
EXTENDS CausalGraph, CausalOrder

\* For every event v, all that happened up to and including v.
Histories(cg) == HistoriesOf([v \in Versions(cg) |-> ParentsOf(cg, v)], NextLV(cg))

Frontiers(cg) ==
  LET h == Histories(cg) IN {S \in SUBSET Versions(cg) : DominatorsOf(h, S) = S}

\* An event by its identity, with the identities of its parents: what the
\* graph says of it independently of the local numbering.
EventAt(cg, v) == [id |-> LvToRaw(cg, v), parents |-> LvToRawList(cg, ParentsOf(cg, v))]

EventSet(cg) == {EventAt(cg, v) : v \in Versions(cg)}
=============================================================================
