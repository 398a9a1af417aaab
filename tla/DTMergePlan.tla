----------------------------- MODULE DTMergePlan -----------------------------
(***************************************************************************)
(* diamond-types: listmerge/plan.rs.  The order in which a merge visits a  *)
(* conflict graph: which spans it takes back, puts back, applies, or       *)
(* applies without a look at anything concurrent, and when it forgets all  *)
(* it has kept.  Everything of a comes before anything only b has.         *)
(***************************************************************************)
EXTENDS DTConflictGraph

LOCAL INSTANCE FiniteSetsExt
LOCAL INSTANCE SequencesExt
LOCAL INSTANCE FiniteSets

PlanActions == [kind : {"Retreat", "Advance", "Clear", "Apply", "FF", "BeginOutput"}, span : Nat \X Nat]

Action(kind, span) == [kind |-> kind, span |-> span]

\* A retreat grows downwards, what else has a span upwards.
CanAppendAction(last, a) ==
  /\ last.kind = a.kind
  /\ \/ a.kind = "Retreat" /\ a.span[2] = last.span[1]
     \/ a.kind \in {"Advance", "FF", "Apply"} /\ last.span[2] = a.span[1]

AppendAction(last, a) ==
  Action(a.kind, IF a.kind = "Retreat" THEN <<a.span[1], last.span[2]>> ELSE <<last.span[1], a.span[2]>>)

PushAction(actions, a) ==
  IF actions # <<>> /\ CanAppendAction(actions[Len(actions)], a)
  THEN [actions EXCEPT ![Len(actions)] = AppendAction(@, a)]
  ELSE Append(actions, a)

-----------------------------------------------------------------------------
(* diff_trace(): what lies between an entry that was visited and the place *)
(* where another one is to be, from the latest entry down.                 *)

TraceLoops == [queue : SUBSET [i : Nat, flag : DiffFlags], only : [DiffFlags -> Seq(Nat \X Nat)]]

TraceStep(entry, flag, rest, only) ==
  [queue |-> IF flag = "Shared" /\ \A q \in rest : q.flag = "Shared" THEN {}
             ELSE rest \cup {[i |-> p, flag |-> flag] : p \in ToSet(entry.parents)},
   only  |-> IF IsMerge(entry) THEN only ELSE [only EXCEPT ![flag] = Append(@, entry.span)]]

DiffTrace(entries, from, to) ==
  LET step(st, i) == TraceStep(entries[i], BlendAll({q.flag : q \in {p \in st.queue : p.i = i}}),
                               {q \in st.queue : q.i # i}, st.only)
      loop[st \in TraceLoops] == IF st.queue = {} THEN st.only ELSE loop[step(st, Min({q.i : q \in st.queue}))]
  IN  loop[[queue |-> {[i |-> p, flag |-> "OnlyB"] : p \in ToSet(entries[to].parents)}
                      \cup (IF from = NoIndex THEN {} ELSE {[i |-> from, flag |-> "OnlyA"]}),
            only |-> [f \in DiffFlags |-> <<>>]]]

Teleport_AdvanceAll(entries, actions, to, from) == actions

\* teleport(): retreats first, then advances from the lowest up.
Teleport(entries, actions, to, from) ==
  IF entries[to].parents = <<from>> THEN actions
  ELSE LET only == DiffTrace(entries, from, to)
           back == FoldLeft(LAMBDA l, span : PushAction(l, Action("Retreat", span)), actions, only["OnlyA"])
           ahead == Reverse(FoldLeft(PushReversed, <<>>, only["OnlyB"]))
       IN  back \o [i \in DOMAIN ahead |-> Action("Advance", ahead[i])]

-----------------------------------------------------------------------------
(* Preparations.                                                           *)

CriticalLoops == [queue : SUBSET Nat, critical : SUBSET Nat]

\* prepare(): the entries nothing in the graph is concurrent with.
CriticalPath(c) ==
  LET step(st, i) == [queue |-> (st.queue \ {i}) \cup ToSet(c.entries[i].parents),
                      critical |-> IF st.queue = {i} THEN st.critical \cup {i} ELSE st.critical]
      loop[st \in CriticalLoops] == IF st.queue = {} THEN st.critical ELSE loop[step(st, Min(st.queue))]
  IN  loop[[queue |-> {i \in {c.aRoot} : c.entries[i].flag = "OnlyA"} \cup {i \in {c.bRoot} : c.entries[i].flag = "OnlyB"},
            critical |-> {}]]

ChildrenOf(entries, i) ==
  SelectSeq([j \in DOMAIN entries |-> j], LAMBDA j : i \in ToSet(entries[j].parents))

\* A cost is a set of 127 slots, each for as many versions as the graph needs,
\* and slot 127 for what leads to the root of b, which outweighs all others.
TopSlot == 127
TopWeight == 1000

CostHere(c, i, lowest, perSlot) ==
  LET span == c.entries[i].span
      slots == ((span[1] - lowest) \div perSlot) .. (Least(127, ((span[2] - lowest) + perSlot - 1) \div perSlot) - 1)
  IN  IF IsMerge(c.entries[i]) THEN {} ELSE slots \cup (IF i = c.bRoot THEN {TopSlot} ELSE {})

\* calc_costs_estimate(): of each entry and all that follows it, which comes
\* before it in the graph.
CostSets(c, lowest, perSlot) ==
  FoldLeft(LAMBDA costs, e : Append(costs, CostHere(c, Len(costs) + 1, lowest, perSlot)
                               \cup UNION {costs[j] : j \in ToSet(ChildrenOf(c.entries, Len(costs) + 1))}),
           <<>>, c.entries)

CostEstimates(c) ==
  LET lowest == IF c.base = {} THEN 0 ELSE Min(c.base)
      perSlot == (Max({e.span[2] : e \in ToSet(c.entries)}) - lowest + 126) \div 127
      costs == CostSets(c, lowest, perSlot)
  IN  [i \in DOMAIN c.entries |-> Cardinality(costs[i]) + (IF TopSlot \in costs[i] THEN TopWeight ELSE 0)]

\* The children of each entry, the cheapest first.
SortedChildren(c, costs) ==
  [i \in DOMAIN c.entries |->
     SetToSortSeq(ToSet(ChildrenOf(c.entries, i)),
                  LAMBDA j, k : costs[j] < costs[k] \/ (costs[j] = costs[k] /\ j < k))]

-----------------------------------------------------------------------------
(* The walk.                                                               *)

\* next counts the children of an entry that were descended to, satisfied its
\* parents that were visited; later holds what only b has, seen too early.
PlanWalks == [at : Nat, visited : SUBSET Nat, next : Seq(Nat), satisfied : Seq(Nat), children : Seq(Seq(Nat)),
              stack : Seq(Nat), later : Seq(Nat), last : Nat, left : Int, leftOfA : Int,
              dirty : BOOLEAN, activated : BOOLEAN, actions : Seq(PlanActions), end : {"no", "done", "panic"}]

\* What visiting an entry with a span does.
ApplyEntry(c, st, critical) ==
  LET e == c.entries[st.at]
      begin == ~ st.activated /\ e.flag = "OnlyB"
      begun == IF begin THEN Append(st.actions, Action("BeginOutput", NoSpan)) ELSE st.actions
      clean == IF st.dirty THEN Append(begun, Action("Clear", NoSpan)) ELSE begun
  IN  [st EXCEPT !.activated = @ \/ begin,
                 !.dirty     = ~ critical,
                 !.actions   = IF critical THEN Append(clean, Action("FF", e.span))
                               ELSE PushAction(Teleport(c.entries, begun, st.at, st.last), Action("Apply", e.span)),
                 !.left      = @ - 1,
                 !.leftOfA   = IF e.flag # "OnlyB" /\ st.left > 1 THEN @ - 1 ELSE @,
                 !.last      = st.at,
                 !.end       = IF st.left = 1 THEN "done" ELSE @]

SatisfyChildren(st) ==
  [st EXCEPT !.visited = @ \cup {st.at},
             !.satisfied = [j \in DOMAIN @ |-> @[j] + (IF j \in ToSet(st.children[st.at]) THEN 1 ELSE 0)]]

VisitEntry(c, st, critical) ==
  IF st.at \in st.visited THEN st
  ELSE SatisfyChildren(IF IsMerge(c.entries[st.at]) THEN st ELSE ApplyEntry(c, st, critical))

\* A merge waits for all of its parents.
Ready(c, st, j) == st.satisfied[j] = Len(c.entries[j].parents)

Postponed(c, st, j) == st.leftOfA > 0 /\ c.entries[j].flag = "OnlyB"

\* Down to child number k: it takes the place of the first that is left.
Descend(st, k) ==
  LET kids == st.children[st.at]
      first == st.next[st.at] + 1
  IN  [st EXCEPT !.children[st.at] = [@ EXCEPT ![first] = kids[k], ![k] = kids[first]],
                 !.next[st.at] = first,
                 !.stack = IF first < Len(kids) THEN Append(@, st.at) ELSE @,
                 !.at = kids[k]]

Ascend(st) ==
  IF st.stack # <<>>
  THEN [st EXCEPT !.at = st.stack[Len(st.stack)], !.stack = Front(@)]
  ELSE IF st.later # <<>> /\ st.leftOfA = 0
  THEN [st EXCEPT !.at = st.later[Len(st.later)], !.later = Front(@)]
  ELSE [st EXCEPT !.end = "panic"]

\* On to the first child that can be visited now, else up; no child is visited
\* before.
MoveOn(c, st) ==
  LET kids == st.children[st.at]
      ready == {k \in st.next[st.at] + 1 .. Len(kids) : Ready(c, st, kids[k])}
      down == {k \in ready : ~ Postponed(c, st, kids[k])}
      early == {k \in ready : Postponed(c, st, kids[k]) /\ \A d \in down : k < d}
      noted == [st EXCEPT !.later = @ \o [n \in 1 .. Cardinality(early) |-> kids[Ascending(early)[n]]]]
      scanned == {kids[k] : k \in {n \in st.next[st.at] + 1 .. Len(kids) : \A d \in down : n <= Min(down)}}
  IN  IF scanned \cap st.visited # {} THEN [st EXCEPT !.end = "panic"]
      ELSE IF down = {} THEN Ascend(noted) ELSE Descend(noted, Min(down))

PlanStep(c, st, critical) ==
  LET visited == VisitEntry(c, st, critical) IN IF visited.end = "no" THEN MoveOn(c, visited) ELSE visited

NonEmpty(c, flags) == {i \in DOMAIN c.entries : ~ IsMerge(c.entries[i]) /\ c.entries[i].flag \in flags}

StartWalk(c, children) ==
  LET n == Len(c.entries)
      zero == [i \in 1 .. n |-> 0]
  IN  SatisfyChildren(
        [at |-> n, visited |-> {}, next |-> zero, satisfied |-> zero, children |-> children,
         stack |-> <<>>, later |-> <<>>, last |-> NoIndex,
         left |-> Cardinality(NonEmpty(c, DiffFlags)), leftOfA |-> Cardinality(NonEmpty(c, {"OnlyA", "Shared"})),
         dirty |-> FALSE, activated |-> FALSE, actions |-> <<>>, end |-> "no"])

\* make_m1_plan() of a conflict graph, which says how it ended, too.
PlanOf(c, allowFF) ==
  LET critical == IF allowFF THEN CriticalPath(c) ELSE {}
      loop[st \in PlanWalks] == IF st.end # "no" THEN st ELSE loop[PlanStep(c, st, st.at \in critical)]
  IN  IF NonEmpty(c, {"OnlyB"}) = {} THEN [actions |-> <<>>, end |-> "done"]
      ELSE loop[StartWalk(c, SortedChildren(c, CostEstimates(c)))]

\* make_m1_plan() of two frontiers.
PlanBetween(c, plan) == [actions |-> plan.actions, base |-> c.base, end |-> plan.end]

MakePlan(g, a, b, allowFF) ==
  LET plan(c) == PlanBetween(c, PlanOf(c, allowFF))
  IN  IF FrontierContainsFrontier(g, a, b) THEN [actions |-> <<>>, base |-> a, end |-> "done"]
      ELSE plan(MakeConflictGraph(g, a, b))
=============================================================================
