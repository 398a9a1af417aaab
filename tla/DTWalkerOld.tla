----------------------------- MODULE DTWalkerOld -----------------------------
(***************************************************************************)
(* diamond-types: the merger before plans (listmerge/xf_old.rs), and the   *)
(* walk over a graph it is built on (list/encoding/txn_trace.rs), which    *)
(* visits runs of versions one branch after the other.                     *)
(***************************************************************************)
EXTENDS DTListMerge

LOCAL INSTANCE SequencesExt
LOCAL INSTANCE FiniteSets

-----------------------------------------------------------------------------
(* SpanningTreeWalker.                                                     *)

\* new(): the ranges in pieces of one entry each, with those among them that
\* hold a parent.
WalkInputs(graph, revSpans) ==
  FlattenSeq([i \in DOMAIN revSpans |->
    LET r == revSpans[Len(revSpans) + 1 - i] IN IterRange(graph, r[1], r[2])])

InputParents(inputs, i) ==
  {j \in 1 .. (i - 1) : \E p \in inputs[i].parents : p >= inputs[j].start /\ p < inputs[j].end}

InputChildren(inputs, i) == {j \in DOMAIN inputs : i \in InputParents(inputs, j)}

StartTree(graph, revSpans, frontier) ==
  LET inputs == WalkInputs(graph, revSpans)
  IN  [inputs |-> inputs, frontier |-> frontier, visited |-> {}, items |-> <<>>,
       todo |-> Descending({i \in DOMAIN inputs : InputParents(inputs, i) = {}})]

\* What is not a merge goes first; the place it was taken from is filled by
\* the last.
NextTodo(st) ==
  LET simple == {k \in DOMAIN st.todo : Cardinality(st.inputs[st.todo[k]].parents) < 2}
  IN  IF simple = {} THEN Len(st.todo) ELSE CHOOSE k \in simple : \A j \in simple : j <= k

SwapRemove(list, k) == Front([list EXCEPT ![k] = Last(list)])

NewlyReady(st, i) ==
  Ascending({c \in InputChildren(st.inputs, i) \ st.visited :
               InputParents(st.inputs, c) \subseteq st.visited})

Moved(graph, frontier, diff) ==
  LET back == FoldLeft(LAMBDA f, r : Retreat(graph, f, r[1], r[2]), frontier, diff.onlyA)
  IN  FoldLeft(LAMBDA f, r : Advance(graph, f, r[1], r[2]), back, Reverse(diff.onlyB))

WalkTo(graph, st, i, todo, diff) ==
  LET here == st.inputs[i]
      seen == [st EXCEPT !.visited = @ \cup {i}]
  IN  [seen EXCEPT
         !.todo = todo \o NewlyReady(seen, i),
         !.frontier = AdvanceByKnownRun(Moved(graph, @, diff), here.parents, here.end - 1),
         !.items = Append(@, [retreat |-> diff.onlyA, advance |-> Reverse(diff.onlyB),
                              start |-> here.start, end |-> here.end])]

WalkAt(graph, st, k) ==
  WalkTo(graph, st, st.todo[k], SwapRemove(st.todo, k),
         DiffRev(graph, st.frontier, st.inputs[st.todo[k]].parents))

RECURSIVE WalkTree(_, _)
WalkTree(graph, st) == IF st.todo = <<>> THEN st ELSE WalkTree(graph, WalkAt(graph, st, NextTodo(st)))

-----------------------------------------------------------------------------
(* M2Tracker::walk(), and the second half of TransformedOpsIterOld, which  *)
(* is the same walk with what it applies put out.                          *)

MoveTo(tr, item) ==
  LET back == FoldLeft(LAMBDA t, r : RetreatByRange(t, r[1], r[2]), tr, item.retreat)
  IN  FoldLeft(LAMBDA t, r : AdvanceByRange(t, r[1], r[2]), back, item.advance)

WalkItem(cg, ops, st, item) ==
  ReplayApplied(st, ApplyRange(MoveTo(st.tr, item), cg, ops, item.start, item.end))

TrackerWalk(cg, ops, st, tree) == FoldLeft(LAMBDA s, item : WalkItem(cg, ops, s, item), st, tree.items)

Recorded(tr) == [Replay(tr) EXCEPT !.applying = TRUE]

-----------------------------------------------------------------------------
(* TransformedOpsIterOld.                                                  *)

NotOnlyB(visited) == SelectSeq(visited, LAMBDA x : x[3] # "OnlyB")
OnlyB(visited) == SelectSeq(visited, LAMBDA x : x[3] = "OnlyB")
AsRanges(visited) == FoldLeft(LAMBDA l, x : PushReversed(l, <<x[1], x[2]>>), <<>>, visited)

\* As long as the next new operations follow what there is, they are applied
\* as they are.
Forwarded(frontier, news, out) == [frontier |-> frontier, news |-> news, out |-> out]

RECURSIVE FastForward(_, _)
ForwardRun(graph, st, span, run) ==
  IF run.parents # st.frontier THEN st
  ELSE FastForward(graph,
         Forwarded({run.end - 1},
                   Front(st.news) \o (IF run.end < span[2] THEN << <<run.end, span[2]>> >> ELSE <<>>),
                   Append(st.out, FFItem(<<run.start, run.end>>))))

FastForward(graph, st) ==
  IF st.news = <<>> THEN st
  ELSE ForwardRun(graph, st, Last(st.news), IterRange(graph, Last(st.news)[1], Last(st.news)[2])[1])

\* The rest is walked, over what is in conflict with it.
NewsOut(st, run, frontier) == [tr |-> run.tr, out |-> st.out \o run.out, frontier |-> frontier]

WalkBoth(log, st, old, new) ==
  NewsOut(st, TrackerWalk(log.cg, log.ops, Recorded(TrackerWalk(log.cg, log.ops, Replay(NewTracker), old).tr), new),
          FoldLeft(LAMBDA f, i : Advance(log.cg.graph, f, i.start, i.end), st.frontier, new.items))

WalkNew(log, st, old) == WalkBoth(log, st, old, WalkTree(log.cg.graph, StartTree(log.cg.graph, st.news, old.frontier)))

WalkNews(log, st, conflict) ==
  LET graph == log.cg.graph
  IN  WalkNew(log, st, WalkTree(graph, StartTree(graph, AsRanges(NotOnlyB(conflict.visited)), conflict.common)))

WalkRest(log, to, st, conflict) ==
  IF st.news = <<>> THEN [tr |-> NewTracker, out |-> st.out, frontier |-> st.frontier]
  ELSE WalkNews(log, st, IF st.out = <<>> THEN conflict ELSE FindConflicting(log.cg.graph, st.frontier, to))

TransformedOpsFrom(log, from, to, conflict) ==
  WalkRest(log, to, FastForward(log.cg.graph, Forwarded(from, AsRanges(OnlyB(conflict.visited)), <<>>)), conflict)

TransformedOpsOld(log, from, to) ==
  TransformedOpsFrom(log, from, to, FindConflicting(log.cg.graph, from, to))

\* ListBranch::merge_old()
MergedOld(log, branch, run) ==
  Merged(run, run.frontier, ApplyAll(log, branch.text, WithoutFF(log.ops, run.out)))

MergeOld(log, branch, to) == MergedOld(log, branch, TransformedOpsOld(log, branch.version, to))
=============================================================================
