----------------------------- MODULE DTSubgraph -----------------------------
(***************************************************************************)
(* diamond-types: parts of a graph.  subgraph() and                        *)
(* project_onto_subgraph() keep the versions a filter names                *)
(* (graph/subgraph.rs), version_in_scope() the operations of one object    *)
(* (graph/scope.rs), and make_simple_graph() splits entries at every parent*)
(* (graph/simple.rs).                                                      *)
(*                                                                         *)
(* A filter is a set of ranges that do not touch: Filter merges the ranges *)
(* it is given.  It is read downwards, and so is the graph; what it yields *)
(* at a version is its highest range that starts no later.                 *)
(***************************************************************************)
EXTENDS DTGraphTools

LOCAL INSTANCE FiniteSetsExt
LOCAL INSTANCE SequencesExt
LOCAL INSTANCE FiniteSets

FilterBelow(filter, v) == {r \in filter : r[1] <= v}
HighestRange(ranges) == CHOOSE r \in ranges : \A o \in ranges : o[1] <= r[1]

-----------------------------------------------------------------------------
(* subgraph_raw()                                                          *)

\* target is a version whose entries below are to be found for the children,
\* indexes of what was put out.
QueueEntries == [target : Nat, children : Seq(Nat), inFrontier : BOOLEAN]

LexLess(s, t) == \/ IsStrictPrefix(s, t)
                 \/ \E i \in DOMAIN s \cap DOMAIN t : /\ s[i] < t[i]
                                                      /\ \A j \in 1 .. i - 1 : s[j] = t[j]

HigherEntry(p, q) ==
  \/ p.target > q.target
  \/ p.target = q.target /\ LexLess(q.children, p.children)
  \/ p.target = q.target /\ p.children = q.children /\ p.inFrontier /\ ~ q.inFrontier

TopEntry(queue) == CHOOSE p \in queue : \A q \in queue \ {p} : HigherEntry(p, q)

OutEntries == [start : Nat, end : Nat, shadow : Nat, parents : Seq(Nat), children : Seq(Nat)]
SubgraphLoops == [queue : SUBSET QueueEntries, out : Seq(OutEntries), frontier : Seq(Nat)]

PushLightDedup(list, v) == IF list # <<>> /\ list[Len(list)] = v THEN list ELSE Append(list, v)

AppendNew(list, more) == FoldLeft(LAMBDA l, x : IF x \in ToSet(l) THEN l ELSE Append(l, x), list, more)

UpdateParents(st, entry, p) ==
  [st EXCEPT !.frontier = IF entry.inFrontier THEN PushLightDedup(@, p) ELSE @,
             !.out = [i \in DOMAIN @ |-> IF i \in ToSet(entry.children)
                                         THEN [@[i] EXCEPT !.parents = PushLightDedup(@, p)]
                                         ELSE @[i]]]

QueueAll(st, parents, children, inFrontier) ==
  [st EXCEPT !.queue = @ \cup {[target |-> p, children |-> children, inFrontier |-> inFrontier] : p \in parents}]

\* The range of the filter overlaps the entry: what is queued within both has
\* the version below it as a parent, and a part of the entry is put out.
PutOut(st, entry, txn, range, within) ==
  LET below(q) == Least(q.target, range[2] - 1)
      base == Greatest(range[1], txn.start)
      done == FoldLeft(LAMBDA s, q : UpdateParents(s, q, below(q)), st, <<entry>> \o within)
  IN  [done EXCEPT
         !.queue = @ \ ToSet(within),
         !.out = Append(@, [start |-> base, end |-> below(entry) + 1, shadow |-> txn.shadow, parents |-> <<>>,
                            children |-> FoldLeft(LAMBDA l, q : AppendNew(l, q.children),
                                                  entry.children, within)])]

QueuedFrom(st, v) == SetToSortSeq({q \in st.queue : q.target >= v}, HigherEntry)

\* Nothing more of the entry is in the filter: its parents take its place.
SkipRest(st, entry, txn, within) ==
  QueueAll([st EXCEPT !.queue = @ \ ToSet(within)],
           txn.parents,
           FoldLeft(LAMBDA l, q : AppendNew(l, q.children), entry.children, within),
           entry.inFrontier \/ \E i \in DOMAIN within : within[i].inFrontier)

\* One entry of the graph, from the target down.
SubgraphEntry(filter, txn, start, first) ==
  LET put(st, entry, range) ==
        PutOut(st, entry, txn, range, QueuedFrom(st, Greatest(range[1], txn.start)))
      loop[st \in SubgraphLoops, entry \in QueueEntries] ==
        LET ranges == FilterBelow(filter, entry.target) IN
        IF ranges = {} THEN [st EXCEPT !.queue = {}]
        ELSE LET range == HighestRange(ranges) IN
             IF range[2] <= txn.start THEN SkipRest(st, entry, txn, QueuedFrom(st, txn.start))
             ELSE LET next == put(st, entry, range) IN
                  IF range[1] > txn.start
                  THEN loop[next, [target |-> range[1] - 1, children |-> <<Len(next.out)>>, inFrontier |-> FALSE]]
                  ELSE QueueAll(next, txn.parents, <<Len(next.out)>>, FALSE)
  IN  loop[start, first]

CleanFrontier(g, list) == IF Len(list) >= 2 THEN FindDominators(g, ToSet(list)) ELSE ToSet(list)

\* The result was put out backwards.
SubgraphResult(g, st) ==
  LET n == Len(st.out)
      entries == [i \in 1 .. n |->
                    [st.out[n + 1 - i] EXCEPT
                       !.parents = CleanFrontier(g, @),
                       !.children = Reverse([j \in DOMAIN @ |-> n + 1 - @[j]])]]
  IN  [graph |-> [entries |-> entries,
                  rootChildren |-> SelectSeq([i \in 1 .. n |-> i], LAMBDA i : entries[i].parents = {})],
       frontier |-> CleanFrontier(g, st.frontier)]

Subgraph(g, filter, frontier) ==
  LET step(st, top) == SubgraphEntry(filter, FindPacked(g, top.target), [st EXCEPT !.queue = @ \ {top}], top)
      loop[st \in SubgraphLoops] == IF st.queue = {} THEN st ELSE loop[step(st, TopEntry(st.queue))]
  IN  SubgraphResult(g, loop[QueueAll([queue |-> {}, out |-> <<>>, frontier |-> <<>>], frontier, <<>>, TRUE)])

-----------------------------------------------------------------------------
(* project_onto_subgraph_raw(): the queue holds 2v + 1 for a version still *)
(* to be projected and 2v for one that lies under the result.              *)

ProjectLoops == [queue : SUBSET Nat, found : SUBSET Nat]

ProjectEntry_Uncovered(st, top, txn, mark) == top % 2 = 1

\* Whether the version is still to be projected after all in its entry is read.
ProjectEntry(st, top, txn, mark) ==
  /\ top % 2 = 1
  /\ \A x \in st.queue \ {top} : x % 2 = 0 => x \div 2 < Greatest(txn.start, mark)

ProjectStep(st, top, txn, range) ==
  LET mark == Least(top \div 2, range[2] - 1)
      active == ProjectEntry(st, top, txn, mark)
      hit == active /\ range[2] > txn.start
      rest == {x \in st.queue : x < 2 * txn.start}
  IN  [found |-> IF hit THEN st.found \cup {mark} ELSE st.found,
       queue |-> IF (~ active \/ hit) /\ \A x \in rest : x % 2 = 0 THEN {}
                 ELSE rest \cup {2 * p + (IF active /\ ~ hit THEN 1 ELSE 0) : p \in txn.parents}]

ProjectOntoSubgraph(g, filter, frontier) ==
  LET step(st, top, ranges) ==
        IF ranges = {} THEN [st EXCEPT !.queue = {}]
        ELSE ProjectStep(st, top, FindPacked(g, top \div 2), HighestRange(ranges))
      loop[st \in ProjectLoops] ==
        IF st.queue = {} THEN st.found
        ELSE loop[step(st, Max(st.queue), FilterBelow(filter, Max(st.queue) \div 2))]
  IN  loop[[queue |-> {2 * v + 1 : v \in frontier}, found |-> {}]]

-----------------------------------------------------------------------------
(* make_simple_graph(): entries end where another one's parents begin.     *)

SimpleLoops == [queue : SUBSET Nat, out : Seq([start : Nat, end : Nat, parents : SUBSET Nat])]

\* The entry from v down, cut above every queued version in it.
SimpleCuts(txn, v, within) ==
  LET cuts == Descending({v} \cup within)
  IN  [i \in DOMAIN cuts |->
         IF i = Len(cuts) THEN [start |-> txn.start, end |-> cuts[i] + 1, parents |-> txn.parents]
         ELSE [start |-> cuts[i + 1] + 1, end |-> cuts[i] + 1, parents |-> {cuts[i + 1]}]]

MakeSimpleGraph(g, frontier) ==
  LET step(st, v, txn) ==
        [queue |-> {w \in st.queue : w < txn.start} \cup txn.parents,
         out |-> st.out \o SimpleCuts(txn, v, {w \in st.queue : w >= txn.start})]
      loop[st \in SimpleLoops] ==
        IF st.queue = {} THEN Reverse(st.out)
        ELSE loop[step(st, Max(st.queue), FindPacked(g, Max(st.queue)))]
  IN  loop[[queue |-> frontier, out |-> <<>>]]

-----------------------------------------------------------------------------
(* version_in_scope(): the last operations of one object that a version    *)
(* holds.  The object has a version it was created at and owns versions;   *)
(* NoVersion stands for None.                                              *)

NoVersion == {-1}

ScopeLoops == [queue : SUBSET Flagged, found : SUBSET Nat]

\* The versions from v down to the one after the next owned one.
GapStart(owned, v) == IF \E o \in owned : o < v THEN Max({o \in owned : o < v}) + 1 ELSE 0

ScopeFlag_Kept(queue, flag) == flag

ScopeFlag(queue, flag) == IF flag = "OnlyA" /\ \E q \in queue : q.flag = "Shared" THEN "Shared" ELSE flag

ScopeExpand(g, st, v, flag, base) ==
  LET eaten == {q \in st.queue : q.v >= base}
  IN  [st EXCEPT !.queue = (@ \ eaten) \cup {[v |-> p, flag |-> ScopeFlag(eaten, flag)] : p \in ParentsAtVersion(g, base)}]

ScopeStep(g, owned, st, top) ==
  LET same == {q \in st.queue : q.v = top.v}
      seen == ScopeFlag(same, top.flag)
      hit == seen = "OnlyA" /\ top.v \in owned
      flag == IF hit THEN "Shared" ELSE seen
      next == [queue |-> st.queue \ same, found |-> IF hit THEN st.found \cup {top.v} ELSE st.found]
  IN  IF flag = "Shared" /\ DiffDone(next.queue) THEN [next EXCEPT !.queue = {}]
      ELSE ScopeExpand(g, next, top.v, flag,
                       Greatest(IF flag = "Shared" THEN 0 ELSE GapStart(owned, top.v),
                                FindPacked(g, top.v).start))

VersionInScope(g, version, created, owned) ==
  LET loop[st \in ScopeLoops] ==
        IF DiffDone(st.queue) THEN st.found ELSE loop[ScopeStep(g, owned, st, HighestFlagged(st.queue))]
  IN  IF version = {} THEN NoVersion
      ELSE IF Max(version) < created THEN NoVersion
      ELSE IF Cardinality(version) = 1 /\ owned # {} /\ IsDirectDescendantCoarse(g, Max(version), Max(owned))
      THEN {Max(owned)}
      ELSE IF Cardinality(version) = 1 /\ version \subseteq owned
      THEN version
      ELSE loop[[queue |-> {[v |-> v, flag |-> "OnlyA"] : v \in {w \in version : w >= created}}, found |-> {}]]
=============================================================================
