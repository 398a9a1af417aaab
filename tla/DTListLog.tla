------------------------------ MODULE DTListLog ------------------------------
(***************************************************************************)
(* diamond-types: the operation log of a list (list/oplog.rs,              *)
(* list/list.rs), what it takes from another log (list/oplog_merge.rs),    *)
(* and when two logs are equal (list/eq.rs).                               *)
(*                                                                         *)
(* A log is a causal graph, runs of operations, and the content inserted   *)
(* and deleted.  An edit is an operation with its content: a sequence of   *)
(* characters, or none, as a set.                                          *)
(***************************************************************************)
EXTENDS DTWalkerOld

LOCAL INSTANCE SequencesExt
LOCAL INSTANCE FiniteSets

NewLog == [cg |-> EmptyCG, ops |-> <<>>, ins |-> <<>>, del |-> <<>>]

\* An inserted character is the name and number of who inserted it.
CharsBy(name, seq, len) == [i \in 1 .. len |-> <<name, seq + i - 1>>]

Edit(kind, start, end, fwd, chars) == [kind |-> kind, start |-> start, end |-> end, fwd |-> fwd, chars |-> chars]

EditLen(edit) == edit.end - edit.start

\* push_op_internal()
PushOpInternal(log, lv, edit) ==
  LET old   == IF edit.kind = "Ins" THEN log.ins ELSE log.del
      more  == IF edit.chars = {} THEN <<>> ELSE The(edit.chars)
      place == IF edit.chars = {} THEN NoContent ELSE <<Len(old), Len(old) + Len(more)>>
  IN  [log EXCEPT !.ops = PushOp(@, Op(lv, edit.kind, edit.start, edit.end, edit.fwd, place)),
                  !.ins = IF edit.kind = "Ins" THEN @ \o more ELSE @,
                  !.del = IF edit.kind = "Del" THEN @ \o more ELSE @]

PushEdits(log, lv, edits) ==
  FoldLeft(LAMBDA st, e : [log |-> PushOpInternal(st.log, st.lv, e), lv |-> st.lv + EditLen(e)],
           [log |-> log, lv |-> lv], edits).log

\* iter_range_simple(): the operations of a range with their content.
CharsOf(log, op) ==
  IF op.content = NoContent THEN {}
  ELSE {SubSeq(IF op.kind = "Ins" THEN log.ins ELSE log.del, op.content[1] + 1, op.content[2])}

EditsIn(log, start, end) ==
  LET ops == OpsIn(log.ops, start, end)
  IN  [i \in DOMAIN ops |->
         Edit(ops[i].kind, ops[i].start, ops[i].end, ops[i].fwd, CharsOf(log, ops[i]))]

-----------------------------------------------------------------------------
(* Local edits.                                                            *)

\* insert_history_local(): on the last version the last entry grows.
InsertHistoryLocal(graph, version, start, end) ==
  IF version = {start - 1} /\ graph.entries # <<>>
  THEN [graph EXCEPT !.entries[Len(graph.entries)].end = end]
  ELSE Push(graph, version, start, end)

\* apply_local_operations(), of one operation.
ApplyEdit(text, edit) ==
  IF edit.kind = "Ins" THEN InsertChars(text, edit.start, The(edit.chars))
                       ELSE RemoveChars(text, edit.start, edit.end)

LocalCG(cg, agent, version, start, end) ==
  LET assigned == AssignSpan(cg, start, agent, NextSeqOf(cg, agent), end - start)
  IN  [assigned EXCEPT !.graph = InsertHistoryLocal(@, version, start, end),
                       !.version = AdvanceByKnownRun(@, version, end - 1)]

ApplyLocalOperation(log, branch, name, edit) ==
  LET named == [log EXCEPT !.cg = WithAgent(@, name)]
      start == NextTime(log.cg.graph)
      end   == start + EditLen(edit)
  IN  [log |-> [PushOpInternal(named, start, edit) EXCEPT
                  !.cg = LocalCG(@, AgentId(@, name), branch.version, start, end)],
       branch |-> Branch({end - 1}, ApplyEdit(branch.text, edit))]

\* add_operations_at(), of one operation: by an agent, at a version.
AddOperationAt(log, name, parents, edit) ==
  LET cg == WithAgent(log.cg, name)
  IN  [PushOpInternal(log, NextTime(cg.graph), edit) EXCEPT
         !.cg = AssignLocal(cg, parents, AgentId(cg, name), EditLen(edit))]

-----------------------------------------------------------------------------
(* add_operations_remote(): a run of one agent, parts of which may be      *)
(* known.  The first operation that is not known is cut with RangeRev's    *)
(* own split, which takes positions for absolute.                          *)

DropFirst(edit, skip) ==
  [edit EXCEPT !.start = IF edit.fwd THEN @ + skip ELSE @,
               !.end   = IF edit.fwd THEN @ ELSE @ - skip,
               !.chars = {SubSeq(c, skip + 1, Len(c)) : c \in @}]

SkipEdits(edits, skip) ==
  FoldLeft(LAMBDA st, e : IF st.skip >= EditLen(e) THEN [st EXCEPT !.skip = @ - EditLen(e)]
                          ELSE [skip |-> 0, left |-> Append(st.left, IF st.skip = 0 THEN e ELSE DropFirst(e, st.skip))],
           [skip |-> skip, left |-> <<>>], edits).left

EditsLen(edits) == FoldLeft(LAMBDA n, e : n + EditLen(e), 0, edits)

AddOperationsRemote(log, name, parents, seq, edits) ==
  LET cg    == WithAgent(log.cg, name)
      len   == EditsLen(edits)
      known == KnownUpto(cg, AgentId(cg, name), seq, len) - seq
  IN  [PushEdits(log, LenAssigned(cg), SkipEdits(edits, known)) EXCEPT
         !.cg = MergeAndAssign(cg, parents, AgentId(cg, name), seq, len)]

-----------------------------------------------------------------------------
(* add_missing_operations_from()                                           *)

\* The versions another log has for versions of this one.
LVsIn(other, cg, lv) == LVsOf(other, AgentVersion(cg, lv)[1], AgentVersion(cg, lv)[2])

\* find_sparse(): how far a number lies from the start of the gap it is in.
GapOffset(cg, name, seq) ==
  LET ends == {r.seq + r.len : r \in {s \in UNION {ToSet(cg.agents[a].runs) : a \in AgentIds(cg, name)} : s.seq < seq}}
  IN  seq - (IF ends = {} THEN 0 ELSE CHOOSE e \in ends : \A f \in ends : f <= e)

\* to_merge(): back through an entry of other, as long as self has nothing of
\* it.  How far is told from the gap in what self has of the agent.
TakeStart(self, other, lv) ==
  lv - GapOffset(self, AgentVersion(other, lv)[1], AgentVersion(other, lv)[2])

Missing(queue, out) == [queue |-> queue, out |-> out]

RECURSIVE TakeFromEntry(_, _, _, _, _)
TakeFromEntry(self, other, entry, lv, st) ==
  LET start == TakeStart(self, other, lv)
  IN  IF LVsIn(self, other, lv) # {} THEN st
      ELSE IF entry.start >= start
      THEN Missing(st.queue \cup entry.parents, PushReversed(st.out, <<entry.start, lv + 1>>))
      ELSE TakeFromEntry(self, other, entry, start - 1,
                         Missing(st.queue, PushReversed(st.out, <<start, lv + 1>>)))

RECURSIVE ToMergeFrom(_, _, _)
ToMergeStep(self, other, st, lv, entry) ==
  ToMergeFrom(self, other,
              TakeFromEntry(self, other, entry, lv, [st EXCEPT !.queue = {v \in @ : v < entry.start}]))

ToMergeFrom(self, other, st) ==
  IF st.queue = {} THEN st.out
  ELSE LET lv == Descending(st.queue)[1] IN ToMergeStep(self, other, st, lv, FindPacked(other.graph, lv))

ToMerge(self, other) == ToMergeFrom(self, other, Missing(other.version, <<>>))

WithAgentsOf(cg, other) == FoldLeft(LAMBDA c, a : WithAgent(c, a.name), cg, other.agents)

\* The pieces of a range that one agent made in one run: <<name, seq, start, end>>.
AgentPieces(cg, start, end) ==
  LET runs == SelectSeq(cg.byLV, LAMBDA r : r.lv < end /\ start < r.lv + r.len)
  IN  [i \in DOMAIN runs |->
         LET from == Greatest(start, runs[i].lv)
         IN  <<AgentName(cg, runs[i].agent), runs[i].seq + from - runs[i].lv, from,
               Least(end, runs[i].lv + runs[i].len)>>]

AddAssignments(cg, other, start, end) ==
  FoldLeft(LAMBDA c, p : AssignSpan(c, LenAssigned(c), AgentId(c, p[1]), p[2], p[4] - p[3]),
           cg, AgentPieces(other, start, end))

AddHistory(cg, other, start, end) ==
  FoldLeft(LAMBDA c, run :
             LET parents == UNION {LVsIn(c, other, p) : p \in run.parents}
                 at == NextTime(c.graph)
             IN  AddRun(c, parents, at, at + run.end - run.start),
           cg, IterRange(other.graph, start, end))

AddSpan(log, other, start, end) ==
  [PushEdits(log, NextTime(log.cg.graph), EditsIn(other, start, end)) EXCEPT
     !.cg = AddHistory(AddAssignments(@, other.cg, start, end), other.cg, start, end)]

AddMissingOperationsFrom(log, other) ==
  LET named == [log EXCEPT !.cg = WithAgentsOf(@, other.cg)]
  IN  FoldLeft(LAMBDA l, r : AddSpan(l, other, r[1], r[2]), named, Reverse(ToMerge(named.cg, other.cg)))

-----------------------------------------------------------------------------
(* PartialEq for ListOpLog.  Runs are cut so that they match; here each    *)
(* version is compared.                                                    *)

UnitOpOf(log, lv) ==
  LET op == CHOOSE o \in ToSet(log.ops) : o.lv <= lv /\ lv < OpEnd(o)
      unit(u) == [kind |-> u.kind, pos |-> u.pos,
                  char |-> IF u.at = -1 THEN {} ELSE {(IF u.kind = "Ins" THEN log.ins ELSE log.del)[u.at + 1]}]
  IN  unit(UnitOps(op)[lv - op.lv + 1])

SameAgents(a, b) ==
  \A i \in DOMAIN a.agents :
    IF AgentIds(b, a.agents[i].name) = {} THEN a.agents[i].runs = <<>>
    ELSE NextSeqOf(b, AgentId(b, a.agents[i].name)) = NextSeqOf(a, i)

ParentsIn(b, a, lv) == UNION {LVsIn(b, a, p) : p \in ParentsAtVersion(a.graph, lv)}

SameVersion(a, b, v, w) ==
  /\ UnitOpOf(a, v) = UnitOpOf(b, w)
  /\ ParentsIn(b.cg, a.cg, v) = ParentsAtVersion(b.cg.graph, w)

LogsEqual(a, b) ==
  /\ Cardinality(a.cg.version) = Cardinality(b.cg.version)
  /\ SameAgents(a.cg, b.cg)
  /\ \A v \in a.cg.version : \E w \in LVsIn(b.cg, a.cg, v) : w \in b.cg.version
  /\ \A v \in Versions(a.cg.graph) : \E w \in LVsIn(b.cg, a.cg, v) : SameVersion(a, b, v, w)
=============================================================================
