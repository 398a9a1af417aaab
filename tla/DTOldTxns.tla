------------------------------ MODULE DTOldTxns ------------------------------
(***************************************************************************)
(* diamond-types: a log of operations as txns of the older crate, with     *)
(* which its conformance test feeds that crate (listmerge/to_old.rs,       *)
(* get_crdt_items() in listmerge/merge.rs, crates/run_on_old).             *)
(***************************************************************************)
EXTENDS DTListLog

LOCAL INSTANCE SequencesExt

Old == INSTANCE DTOldList

\* OldCRDTOpInternal: an insertion with its origins, or a deletion of the items
\* op runs over.
OldIns(op, origins) ==
  [op |-> Op(op.lv, "Ins", op.lv, OpEnd(op), TRUE, op.content),
   left |-> origins.left, right |-> IF origins.right = Underwater THEN Nowhere ELSE origins.right]

OldDel(op, origins) ==
  [op |-> Op(op.lv, "Del", origins.target, origins.target + OpLen(op), op.fwd, NoContent),
   left |-> Nowhere, right |-> Nowhere]

OldItem(x) == IF x.op.kind = "Ins" THEN OldIns(x.op, x.old) ELSE OldDel(x.op, x.old)

OldAppends(a, b) ==
  CanAppendOp(a.op, b.op) /\ (a.op.kind = "Ins" => b.left = b.op.lv - 1 /\ b.right = a.right)

PushOldItem(items, b) ==
  IF items # <<>> /\ OldAppends(Last(items), b)
  THEN [items EXCEPT ![Len(items)].op = AppendOp(@, b.op)]
  ELSE Append(items, b)

\* get_crdt_items() and dbg_items()
OldItems(log, version) ==
  FoldLeft(LAMBDA items, x : PushOldItem(items, OldItem(x)), <<>>,
           TransformedOpsRaw(log.cg, log.ops, {}, version, FALSE).out)

\* OldCRDTOp::truncate_h()
FirstOld(item, at) == [item EXCEPT !.op = FirstOps(@, at)]
RestOld_KeepLeft(item, at) == [item EXCEPT !.op = RestOps(@, at)]

RestOld(item, at)  == [item EXCEPT !.op = RestOps(@, at), !.left = item.op.lv + at - 1]

\* simple_entry_at(): how much of a range is in one entry and of one agent.
SimpleEntryLen(cg, lv, len) == SpanLen(cg, lv, Least(len, FindPacked(cg.graph, lv).end - lv))

\* time_to_remote_id()
RemoteIdOf(cg, lv) == IF lv = Nowhere THEN Old!RootId ELSE AgentVersion(cg, lv)

\* A deletion's items one by one, from its last if it runs backwards.
TargetsOf(op) == [i \in 1 .. OpLen(op) |-> IF op.fwd THEN op.start + i - 1 ELSE op.end - i]

PushOldDel(ops, id) ==
  IF ops # <<>> /\ id = <<Last(ops).id[1], Last(ops).id[2] + Last(ops).len>>
  THEN [ops EXCEPT ![Len(ops)].len = @ + 1]
  ELSE Append(ops, Old!RemoteDel(id, 1))

OldOps(cg, item) ==
  IF item.op.kind = "Ins"
  THEN <<Old!RemoteIns(RemoteIdOf(cg, item.left), RemoteIdOf(cg, item.right), OpLen(item.op), TRUE)>>
  ELSE FoldLeft(LAMBDA ops, t : PushOldDel(ops, AgentVersion(cg, t)), <<>>, TargetsOf(item.op))

OldTxn(log, item) ==
  [id      |-> AgentVersion(log.cg, item.op.lv),
   parents |-> {AgentVersion(log.cg, p) : p \in ParentsAtVersion(log.cg.graph, item.op.lv)},
   ops     |-> OldOps(log.cg, item),
   chars   |-> IF item.op.kind = "Ins" THEN ContentOf(log, item.op) ELSE <<>>]

\* get_txns_from_oplog()
RECURSIVE OldTxnsOfItem(_, _)
OldTxnsFrom(log, item, len) ==
  IF len = OpLen(item.op) THEN <<OldTxn(log, item)>>
  ELSE <<OldTxn(log, FirstOld(item, len))>> \o OldTxnsOfItem(log, RestOld(item, len))

OldTxnsOfItem(log, item) == OldTxnsFrom(log, item, SimpleEntryLen(log.cg, item.op.lv, OpLen(item.op)))

OldTxnsAt(log, version) ==
  LET items == OldItems(log, version) IN FlattenSeq([i \in DOMAIN items |-> OldTxnsOfItem(log, items[i])])

\* The older list at a version.
OldList(log, version) == Old!ApplyTxns(Old!NewList, OldTxnsAt(log, version))
=============================================================================
