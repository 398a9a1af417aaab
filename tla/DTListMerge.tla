----------------------------- MODULE DTListMerge -----------------------------
(***************************************************************************)
(* diamond-types: merging into a text (listmerge/merge.rs, list/merge.rs). *)
(* The plan of a merge moves the tracker, and what it applies comes out as *)
(* operations on the text at hand.  An iterator is the sequence of all it  *)
(* yields.                                                                 *)
(*                                                                         *)
(* A log here is what a merge reads of it: a causal graph cg, the          *)
(* operations ops and the inserted content ins, a sequence of characters.  *)
(***************************************************************************)
EXTENDS DTTracker, DTMergePlan

LOCAL INSTANCE SequencesExt
LOCAL INSTANCE FiniteSets

Sub == INSTANCE DTSubgraph

-----------------------------------------------------------------------------
(* TransformedOpsIterRaw.  An item is an operation moved to where it lands *)
(* here, a range that is applied as it is, or one that does nothing.       *)

MovedTo(op, pos) == [op EXCEPT !.start = pos, !.end = pos + OpLen(op)]

Item(part) ==
  IF part.xf = {} THEN [kind |-> "gone", op |-> part.op, old |-> part.old]
  ELSE [kind |-> "apply", op |-> MovedTo(part.op, The(part.xf)), old |-> part.old]

Items(parts) == [i \in DOMAIN parts |-> Item(parts[i])]

FFItem(span) == [kind |-> "ff", span |-> span]

Replay(tr) == [tr |-> tr, applying |-> FALSE, out |-> <<>>]

ReplayApplied(st, r) == [st EXCEPT !.tr = r.tr, !.out = IF st.applying THEN @ \o Items(r.parts) ELSE @]

ReplayAction(cg, ops, st, a) ==
  CASE a.kind = "Retreat"     -> [st EXCEPT !.tr = RetreatByRange(@, a.span[1], a.span[2])]
    [] a.kind = "Advance"     -> [st EXCEPT !.tr = AdvanceByRange(@, a.span[1], a.span[2])]
    [] a.kind = "Apply"       -> ReplayApplied(st, ApplyRange(st.tr, cg, ops, a.span[1], a.span[2]))
    [] a.kind = "FF"          -> [st EXCEPT !.tr = Expect(@, st.applying), !.out = Append(@, FFItem(a.span))]
    [] a.kind = "Clear"       -> [st EXCEPT !.tr = Expect(NewTracker, @.ok)]
    [] a.kind = "BeginOutput" -> [st EXCEPT !.applying = TRUE]

ReplayPlan(cg, ops, plan) ==
  FoldLeft(LAMBDA st, a : ReplayAction(cg, ops, st, a), Replay(NewTracker), plan.actions)

TransformedOpsRaw(cg, ops, from, to, allowFF) == ReplayPlan(cg, ops, MakePlan(cg.graph, from, to, allowFF))

\* merge(): a range that was only forwarded stands for the operations it is of.
ApplyItem(op) == [kind |-> "apply", op |-> op]

WithoutFF(ops, out) ==
  FlattenSeq([i \in DOMAIN out |->
    IF out[i].kind = "ff"
    THEN LET them == OpsIn(ops, out[i].span[1], out[i].span[2]) IN [j \in DOMAIN them |-> ApplyItem(them[j])]
    ELSE <<out[i]>>])

\* TransformedOpsIter, the older one, follows the frontier too.
MaxFrontier(graph, plan) ==
  FoldLeft(LAMBDA f, a : CASE a.kind = "Apply" -> Advance(graph, f, a.span[1], a.span[2])
                           [] a.kind = "FF"    -> {a.span[2] - 1}
                           [] OTHER            -> f,
           plan.base, plan.actions)

ReplayDone(run, ops, frontier) == [tr |-> run.tr, out |-> WithoutFF(ops, run.out), frontier |-> frontier]

TransformedOpsOf(graph, cg, ops, plan) ==
  ReplayDone(ReplayPlan(cg, ops, plan), ops, MaxFrontier(graph, plan))

TransformedOps(graph, cg, ops, from, to) ==
  TransformedOpsOf(graph, cg, ops, MakePlan(graph, from, to, TRUE))

-----------------------------------------------------------------------------
(* Texts.  A text is a sequence of characters, and ok turns false where an *)
(* operation is out of it.                                                 *)

Text(chars) == [chars |-> chars, ok |-> TRUE]

InsertChars(text, pos, chars) ==
  IF pos <= Len(text.chars)
  THEN [text EXCEPT !.chars = SubSeq(@, 1, pos) \o chars \o SubSeq(@, pos + 1, Len(@))]
  ELSE [text EXCEPT !.ok = FALSE]

RemoveChars(text, start, end) ==
  IF end <= Len(text.chars)
  THEN [text EXCEPT !.chars = SubSeq(@, 1, start) \o SubSeq(@, end + 1, Len(@))]
  ELSE [text EXCEPT !.ok = FALSE]

ContentOf(log, op) == SubSeq(log.ins, op.content[1] + 1, op.content[2])

\* apply_op_at(); a reversed insertion has its content reversed.
ApplyOpAt(log, text, op) ==
  IF op.kind = "Ins"
  THEN InsertChars(text, op.start, IF op.fwd THEN ContentOf(log, op) ELSE Reverse(ContentOf(log, op)))
  ELSE RemoveChars(text, op.start, op.end)

ApplyAll(log, text, out) ==
  FoldLeft(LAMBDA t, x : IF x.kind = "apply" THEN ApplyOpAt(log, t, x.op) ELSE t, text, out)

\* A branch is a text at a version; sound says that no assertion failed.
Branch(version, text) == [version |-> version, text |-> text]

Merged(run, version, text) == [version |-> version, text |-> [text EXCEPT !.ok = @ /\ TrackerChecks(run.tr)]]

\* ListBranch::merge()
MergedRaw(log, branch, to, run) ==
  Merged(run, FindDominators2(log.cg.graph, branch.version, to),
         ApplyAll(log, branch.text, WithoutFF(log.ops, run.out)))

Merge(log, branch, to) ==
  IF FrontierContainsFrontier(log.cg.graph, branch.version, to) THEN branch
  ELSE MergedRaw(log, branch, to, TransformedOpsRaw(log.cg, log.ops, branch.version, to, TRUE))

\* ListBranch::merge_()
MergedOps(log, branch, run) == Merged(run, run.frontier, ApplyAll(log, branch.text, run.out))

Merge_(log, branch, to) ==
  MergedOps(log, branch, TransformedOps(log.cg.graph, log.cg, log.ops, branch.version, to))

Checkout(log, version) == Merge(log, Branch({}, Text(<<>>)), version)

-----------------------------------------------------------------------------
(* TextInfo: the operations of one text among all there are.  The merge    *)
(* works on the part of the graph that has them and is in conflict.        *)

\* with_xf_iter()
OpsInRanges(ops, ranges) ==
  LET have(v) == \E i \in DOMAIN ops : ops[i].lv <= v /\ v < OpEnd(ops[i])
      kept == {v \in RangesSet(ranges) : have(v)}
      starts == {v \in kept : v - 1 \notin kept}
      end(v) == CHOOSE w \in {u + 1 : u \in kept} : w > v /\ w \notin kept /\ v .. (w - 1) \subseteq kept
  IN  {<<v, end(v)>> : v \in starts}

ConflictRanges(graph, from, to) ==
  LET visited == FindConflicting(graph, from, to).visited
  IN  FoldLeft(LAMBDA l, x : PushReversed(l, <<x[1], x[2]>>), <<>>, visited)

TextOpsIn(cg, ops, from, to, filter, final) ==
  TransformedOps(Sub!Subgraph(cg.graph, filter, final).graph, cg, ops,
                 Sub!ProjectOntoSubgraph(cg.graph, filter, from),
                 Sub!ProjectOntoSubgraph(cg.graph, filter, to))

TextOps(cg, ops, from, to) ==
  TextOpsIn(cg, ops, from, to, OpsInRanges(ops, ConflictRanges(cg.graph, from, to)),
            FindDominators2(cg.graph, from, to))

\* merge_into()
MergedInto(log, branch, to, run) ==
  Merged(run, FindDominators2(log.cg.graph, branch.version, to), ApplyAll(log, branch.text, run.out))

MergeInto(log, branch, to) == MergedInto(log, branch, to, TextOps(log.cg, log.ops, branch.version, to))
=============================================================================
