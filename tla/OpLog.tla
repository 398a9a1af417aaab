-------------------------------- MODULE OpLog --------------------------------
(***************************************************************************)
(* The operation log of eg-walker-reference/src/index.ts: the causal graph *)
(* and, for every local version, the list operation it stands for.         *)
(***************************************************************************)
EXTENDS CausalGraphTools

Ins(pos, content) == [type |-> "ins", pos |-> pos, content |-> content]
Del(pos)          == [type |-> "del", pos |-> pos]

\* ops[v + 1] is the operation of local version v.
CreateOpLog == [ops |-> <<>>, cg |-> EmptyCG]

OpAt(oplog, v) == oplog.ops[v + 1]

\* localInsert(): successive items go to successive positions.  An empty
\* content is not refused: add() is then called with an empty span.
LocalInsert(oplog, agent, pos, content) ==
  LET seq == NextSeqForAgent(oplog.cg, agent)
  IN  [ops |-> oplog.ops \o [i \in DOMAIN content |-> Ins(pos + i - 1, content[i])],
       cg  |-> Add(oplog.cg, agent, seq, seq + Len(content), oplog.cg.heads)]

\* localDelete(): every item of the run is deleted at the same position.
LocalDelete(oplog, agent, pos, len) ==
  LET seq == NextSeqForAgent(oplog.cg, agent)
  IN  [ops |-> oplog.ops \o [i \in 1 .. len |-> Del(pos)],
       cg  |-> Add(oplog.cg, agent, seq, seq + len, oplog.cg.heads)]

Refused(oplog, op) ==
  \/ op.type = "ins" /\ "content" \notin DOMAIN op
  \/ NextLV(oplog.cg) # Len(oplog.ops)

\* pushOp(): an operation that is known is dropped; one whose parents are not
\* known throws, and nothing has changed.  An insertion without content, and a
\* log whose length does not match its graph, throw when the graph has been
\* extended.
PushOp(oplog, id, parents, op) ==
  IF HasVersion(oplog.cg, id[1], id[2]) \/ ~ KnowsAll(oplog.cg, parents)
  THEN oplog
  ELSE [ops |-> IF Refused(oplog, op) THEN oplog.ops ELSE Append(oplog.ops, op),
        cg  |-> AddRaw(oplog.cg, id, 1, parents)]

\* mergeOplogInto(): what dest lacks is the difference between the common
\* version of the two logs and the heads of src; the graph takes it entry by
\* entry, and the operations are copied in the same order.
MissingRanges(dest, src) ==
  Diff(src.cg, VersionsIn(IntersectWithSummary(src.cg, SummarizeVersion(dest.cg)).common),
       src.cg.heads).bOnly

\* The operations of the ranges, by their numbers in src.
CopiedOps(src, ranges) ==
  LET lvs == RangesLVs(ranges) IN [i \in DOMAIN lvs |-> OpAt(src, lvs[i])]

CopyRanges_LastFirst(dest, src, ranges) ==
  [ops |-> dest.ops \o CopiedOps(src, Reversed(ranges)),
   cg  |-> MergePartialVersions(dest.cg, SerializeDiff(src.cg, ranges)).cg]

CopyRanges(dest, src, ranges) ==
  [ops |-> dest.ops \o CopiedOps(src, ranges),
   cg  |-> MergePartialVersions(dest.cg, SerializeDiff(src.cg, ranges)).cg]

MergeOplogInto(dest, src) == CopyRanges(dest, src, MissingRanges(dest, src))
=============================================================================
