------------------------------ MODULE DTListOps ------------------------------
(***************************************************************************)
(* diamond-types: the operations of a list as an operation log keeps them  *)
(* (list/op_metrics.rs, list/op_iter.rs, rev_range.rs): runs of insertions *)
(* or deletions of one item each, with the place in the log's content of   *)
(* the items.  A deletion may leave its content out.                       *)
(***************************************************************************)
EXTENDS Integers, Sequences

LOCAL INSTANCE SequencesExt

NoContent == <<>>

\* KVPair<ListOpMetrics>: an operation that starts at a local version.
Op(lv, kind, start, end, fwd, content) ==
  [lv |-> lv, kind |-> kind, start |-> start, end |-> end, fwd |-> fwd, content |-> content]

OpLen(op) == op.end - op.start
OpEnd(op) == op.lv + OpLen(op)

-----------------------------------------------------------------------------
(* truncate_tagged_span() and truncate_ctx(): insertions run forwards or   *)
(* stay, deletions stay or run backwards.                                  *)

ContentUpto(content, at) == IF content = NoContent THEN NoContent ELSE <<content[1], content[1] + at>>
ContentFrom(content, at) == IF content = NoContent THEN NoContent ELSE <<content[1] + at, content[2]>>

FirstStart_Fwd(op, at) == op.start

FirstStart(op, at) == IF op.kind = "Del" /\ ~ op.fwd THEN op.end - at ELSE op.start

RestStart(op, at) == IF op.kind = "Ins" /\ op.fwd THEN op.start + at ELSE op.start

FirstOps(op, at) ==
  [op EXCEPT !.start = FirstStart(op, at), !.end = FirstStart(op, at) + at,
             !.content = ContentUpto(@, at)]

RestOps(op, at) ==
  [op EXCEPT !.lv = @ + at, !.start = RestStart(op, at), !.end = RestStart(op, at) + OpLen(op) - at,
             !.content = ContentFrom(@, at)]

\* The operation on the range of versions only, which it touches.
OpWithin(op, start, end) ==
  LET upto == IF OpEnd(op) > end THEN FirstOps(op, end - op.lv) ELSE op
  IN  IF op.lv < start THEN RestOps(upto, start - op.lv) ELSE upto

-----------------------------------------------------------------------------
(* can_append_ops() and append_ops()                                       *)

GoesFwd(op)  == OpLen(op) = 1 \/ op.fwd
GoesBack(op) == OpLen(op) = 1 \/ ~ op.fwd

AppendsFwd(a, b) ==
  /\ GoesFwd(a) /\ GoesFwd(b)
  /\ b.start = IF a.kind = "Ins" THEN a.end ELSE a.start

AppendsBack(a, b) == a.kind = "Del" /\ GoesBack(a) /\ GoesBack(b) /\ b.end = a.start

ContentAppends(c, d) == IF c = NoContent \/ d = NoContent THEN c = d ELSE d[1] = c[2]

CanAppendOp(a, b) ==
  /\ b.lv = OpEnd(a)
  /\ a.kind = b.kind
  /\ ContentAppends(a.content, b.content)
  /\ AppendsFwd(a, b) \/ AppendsBack(a, b)

AppendOp(a, b) ==
  LET fwd == b.start >= a.start /\ (b.start # a.start \/ a.kind = "Del")
  IN  [a EXCEPT !.fwd = fwd,
                !.start = IF a.kind = "Del" /\ ~ fwd THEN b.start ELSE @,
                !.end = IF a.kind = "Del" /\ ~ fwd THEN @ ELSE @ + OpLen(b),
                !.content = IF @ = NoContent THEN @ ELSE <<@[1], b.content[2]>>]

PushOp(ops, op) ==
  IF ops # <<>> /\ CanAppendOp(Last(ops), op)
  THEN [ops EXCEPT ![Len(ops)] = AppendOp(@, op)]
  ELSE Append(ops, op)

\* OpMetricsIter: the operations of a range of versions.
OpsIn(ops, start, end) ==
  LET touched == SelectSeq(ops, LAMBDA op : op.lv < end /\ start < OpEnd(op))
  IN  [i \in DOMAIN touched |-> OpWithin(touched[i], start, end)]

\* What each version of an operation does on its own: where, and to which item.
UnitOps(op) ==
  [i \in 1 .. OpLen(op) |->
     [lv   |-> op.lv + i - 1,
      kind |-> op.kind,
      pos  |-> CASE op.kind = "Ins" /\ op.fwd -> op.start + i - 1
                 [] op.kind = "Del" /\ ~ op.fwd -> op.end - i
                 [] OTHER -> op.start,
      at   |-> IF op.content = NoContent THEN -1 ELSE op.content[1] + i - 1]]
=============================================================================
