----------------------------- MODULE CausalOrder -----------------------------
(***************************************************************************)
(* The partial order a graph of versions stands for: what its algorithms   *)
(* are compared with.  A graph of n versions is given by the function par  *)
(* from 0 .. n - 1 to sets of lower versions; run-length encodings, indexes *)
(* and shadows do not appear here.                                         *)
(***************************************************************************)
EXTENDS Integers, Sequences

\* The histories of the versions before one, and of that one.
WithVersion(h, parents) == Append(h, {Len(h)} \cup UNION {h[p + 1] : p \in parents})

\* For every version, all that happened up to and including it.  Versions are
\* a topological order, so one pass over them is enough.
HistoriesOf(par, n) ==
  LET upto[k \in 0 .. n] == IF k = 0 THEN <<>> ELSE WithVersion(upto[k - 1], par[k - 1])
      all == upto[n]
  IN  [v \in 0 .. (n - 1) |-> all[v + 1]]

\* Below, h is the histories of a graph.

\* The events of a frontier.
EventsOf(h, frontier) == UNION {h[v] : v \in frontier}

\* The events of S that no other event of S comes after.
DominatorsOf(h, S) == {v \in S : \A w \in S \ {v} : v \notin h[w]}

\* Sets of pairwise concurrent events: the versions a document may be at.
FrontiersOf(h) == {S \in SUBSET DOMAIN h : DominatorsOf(h, S) = S}
=============================================================================
