----------------------------- MODULE DTPartsSpec -----------------------------
(***************************************************************************)
(* What the parts of a graph must be: subgraphs, projections, scopes,      *)
(* simple graphs and conflict graphs, over every graph of DTGraphSpec.     *)
(***************************************************************************)
EXTENDS DTGraphSpec, DTSubgraph, DTMergePlan

LOCAL INSTANCE SequencesExt
LOCAL INSTANCE FiniteSets
LOCAL INSTANCE FiniteSetsExt

\* The ranges of a set of versions, none of which touch.
RunsOf(S) ==
  {<<from, to + 1>> : <<from, to>> \in
     {p \in S \X S : /\ p[1] <= p[2] /\ p[1] .. p[2] \subseteq S
                     /\ p[1] - 1 \notin S /\ p[2] + 1 \notin S}}

\* A graph of entries in order: the history of every version in it, within it.
SparseHistories(entries) ==
  LET below(h, parents) == UNION {h[p] : p \in parents}
      add(h, e) == [v \in DOMAIN h \cup e.start .. e.end - 1 |->
                      IF v \in DOMAIN h THEN h[v] ELSE (e.start .. v) \cup below(h, e.parents)]
  IN  FoldLeft(add, [v \in {} |-> {}], entries)

\* make_simple_graph() holds the history of a version, in the same order of
\* causes, and no parent lies inside an entry.
SimpleGraphIsSplit(h, f, es) ==
  LET sh == SparseHistories(es)
  IN  /\ DOMAIN sh = EventsOf(h, f)
      /\ \A v \in DOMAIN sh : sh[v] = h[v]
      /\ \A i, j \in DOMAIN es : \A p \in es[j].parents : p < es[i].start \/ p >= es[i].end - 1

SubgraphAgrees(h, kept, S, sub, sh) ==
  LET es == sub.graph.entries IN
  /\ DOMAIN sh = kept
  /\ \A v \in kept : sh[v] = h[v] \cap S
  /\ \A i \in DOMAIN es :
       /\ i > 1 => es[i].start >= es[i - 1].end
       /\ {j \in DOMAIN es : \E p \in es[j].parents : HoldsVersion(es[i], p)} \subseteq ToSet(es[i].children)
       /\ \A p, q \in es[i].parents : p # q => p \notin h[q]
  /\ sub.frontier = DominatorsOf(h, kept)

SubgraphKeepsOrder(h, kept, S, sub) == SubgraphAgrees(h, kept, S, sub, SparseHistories(sub.graph.entries))

\* The assertions of check_subgraph() and dbg_check_subgraph(), those about
\* superfluous child indexes aside: a subgraph holds what a version and the
\* filter share, in the same order of causes; every entry knows its children,
\* and names no parent that follows another; and the projection of the version
\* is the version of the subgraph.
PartsKeepOrder ==
  LET h == Histories(graph)
  IN  \A f \in LastFrontiers(h) :
        /\ SimpleGraphIsSplit(h, f, MakeSimpleGraph(graph, f))
        /\ \A S \in SUBSET Versions(graph) :
             LET kept == S \cap EventsOf(h, f)
             IN  /\ SubgraphKeepsOrder(h, kept, S, Subgraph(graph, RunsOf(S), f))
                 /\ ProjectOntoSubgraph(graph, RunsOf(S), f) = DominatorsOf(h, kept)

\* version_in_scope(): what an object owns of a version, by its last operations.
ScopeIsProjection ==
  LET h == Histories(graph)
  IN  \A f \in LastFrontiers(h), created \in Versions(graph) :
        \A rest \in SUBSET {v \in Versions(graph) : created \in h[v] /\ v # created} :
          LET found == VersionInScope(graph, f, created, rest \cup {created})
              held == (rest \cup {created}) \cap EventsOf(h, f)
          IN  IF f = {} \/ Max(f) < created THEN found = NoVersion ELSE found = DominatorsOf(h, held)

-----------------------------------------------------------------------------
(* Conflict graphs.                                                        *)

\* All entries an entry of a conflict graph follows.
Ancestors(entries) ==
  FoldRight(LAMBDA i, anc : [j \in DOMAIN entries |->
                               IF j = i THEN ToSet(entries[i].parents) \cup UNION {anc[p] : p \in ToSet(entries[i].parents)}
                               ELSE anc[j]],
            [i \in DOMAIN entries |-> i], [i \in DOMAIN entries |-> {}])

\* The assertions of ConflictSubgraph::dbg_check().
ConflictGraphChecks(c, anc) ==
  LET es == c.entries
      parents(i) == ToSet(es[i].parents)
  IN  /\ c.aRoot # NoIndex /\ c.bRoot # NoIndex
      /\ \A i, j \in DOMAIN es : i < j /\ ~ IsMerge(es[i]) /\ ~ IsMerge(es[j]) => es[i].span[1] >= es[j].span[2]
      /\ \A i \in DOMAIN es :
           /\ i \in {c.aRoot, c.bRoot} \/ \E j \in DOMAIN es : i \in parents(j)
           /\ parents(i) = {} => i = Len(es)
           /\ IsMerge(es[i]) => i = 1 \/ Len(es[i].parents) # 1
           /\ ~ IsMerge(es[i]) => Len(es[i].parents) <= 1
           /\ Len(es[i].parents) = Cardinality(parents(i))
           /\ \A p, q \in parents(i) : p \notin anc[q]
           /\ \A p \in parents(i) : p > i /\ (i > 1 => es[p].flag \in {es[i].flag, "Shared"})

\* anc: what each entry follows; past: the events below the common version.
ConflictGraphAgrees(h, a, b, c, anc, conflict, past) ==
  LET es == c.entries
      held(I) == UNION {RangeSet(es[i].span) : i \in I}
  IN  /\ c.base = conflict.common
      /\ \A flag \in DiffFlags : held({i \in DOMAIN es : es[i].flag = flag}) = VisitedWith(conflict, {flag})
      /\ a # b =>
           /\ ConflictGraphChecks(c, anc)
           /\ held(anc[c.aRoot] \cup {c.aRoot}) = EventsOf(h, a) \ past
           /\ held(anc[c.bRoot] \cup {c.bRoot}) = EventsOf(h, b) \ past
           /\ \A i \in DOMAIN es : ~ IsMerge(es[i]) => held(anc[i] \cup {i}) = h[es[i].span[2] - 1] \ past

ConflictsAgree(h, a, b, c, conflict) ==
  ConflictGraphAgrees(h, a, b, c, Ancestors(c.entries), conflict, EventsOf(h, conflict.common))

\* A conflict graph is well formed and holds what find_conflicting() visits, flag
\* by flag, above the same common version; and an entry follows exactly the
\* entries of what its versions follow in the graph, down to that version.
ConflictGraphsAgree ==
  LET h == Histories(graph)
  IN  \A <<a, b>> \in LastPairs(h) :
        ConflictsAgree(h, a, b, MakeConflictGraph(graph, a, b), FindConflicting(graph, a, b))

-----------------------------------------------------------------------------
(* Merge plans.                                                            *)

\* One action, on the versions that are in the document the tracker shows
\* (current), that were ever applied (done) and that were when it was last
\* cleared.  The last field is whether the action may be taken.
PlanAction(h, a, st, action) ==
  LET S == RangeSet(action.span)
      first == action.span[1]
      fits == S # {} /\ st.ok /\ (action.kind = "Clear" \/ st.cleared \subseteq h[first])
      closed(V) == \A v \in V : h[v] \subseteq V
      past == h[first] \ {first}
  IN  CASE action.kind = "BeginOutput" ->
             [st EXCEPT !.output = TRUE, !.ok = @ /\ ~ st.output /\ st.done = EventsOf(h, a)]
        [] action.kind = "Clear" -> [st EXCEPT !.cleared = st.done, !.current = st.done]
        [] action.kind = "Apply" ->
             [st EXCEPT !.current = @ \cup S, !.done = @ \cup S,
                        !.ok = /\ fits /\ S \cap st.done = {} /\ past = st.current
                               /\ st.output \/ S \subseteq EventsOf(h, a)]
        [] action.kind = "FF" ->
             [st EXCEPT !.current = @ \cup S, !.done = @ \cup S, !.cleared = @ \cup S,
                        !.ok = fits /\ st.output /\ S \cap st.done = {} /\ past = st.current /\ past = st.done]
        [] action.kind = "Retreat" ->
             [st EXCEPT !.current = @ \ S, !.ok = fits /\ S \subseteq st.current /\ closed(st.current \ S)]
        [] action.kind = "Advance" ->
             [st EXCEPT !.current = @ \cup S,
                        !.ok = fits /\ S \subseteq st.done \ st.current /\ closed(st.current \cup S)]

PlanWalk(h, a, plan, past) ==
  FoldLeft(LAMBDA st, action : PlanAction(h, a, st, action),
           [current |-> past, done |-> past, cleared |-> past, output |-> FALSE, ok |-> TRUE],
           plan.actions)

PlanIsWalk(h, a, b, plan) ==
  /\ plan.end = "done"
  /\ IF plan.actions = <<>> THEN EventsOf(h, b) \subseteq EventsOf(h, a)
     ELSE LET end == PlanWalk(h, a, plan, EventsOf(h, plan.base))
          IN  end.ok /\ end.done = EventsOf(h, a) \cup EventsOf(h, b)

\* M1Plan::dbg_check(): a plan comes to an end; it applies every version after
\* exactly what it follows, first of all what a holds; it never takes back, puts
\* back or applies what a cleared tracker cannot know; it fast-forwards only what
\* follows all that was applied; and in the end both sides are applied.
PlansAreWalks ==
  LET h == Histories(graph)
  IN  \A <<a, b>> \in LastPairs(h), allowFF \in BOOLEAN : PlanIsWalk(h, a, b, MakePlan(graph, a, b, allowFF))
=============================================================================
