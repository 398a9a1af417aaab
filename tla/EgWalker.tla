------------------------------- MODULE EgWalker -------------------------------
(***************************************************************************)
(* The merge algorithm of eg-walker-reference/src/index.ts.  A walk visits *)
(* the operations of a log in local order; before each it moves the items  *)
(* to the version the operation was made at, by retreating and advancing   *)
(* operations it has walked already, and then applies it there.            *)
(*                                                                         *)
(* The walk is a record: the four fields of EditContext, where the objects *)
(* that items and itemsByLV share are split into their order ("items") and *)
(* their fields by id ("item"); "doc", the snapshot; "writes", whether the *)
(* snapshot was passed or null; and "ok", false once an assertion threw.   *)
(***************************************************************************)
EXTENDS OpLog

LOCAL INSTANCE SequencesExt

Root == -1

NotYetInserted == -1
Inserted       == 0
Deleted        == 1    \* or more: the number of times it was deleted

Item(originLeft, rightParent) ==
  [curState |-> Inserted, endState |-> Inserted,
   originLeft |-> originLeft, rightParent |-> rightParent]

NewWalk(curVersion, doc, writes) ==
  [items |-> <<>>, item |-> [o \in {} |-> Item(Root, Root)],
   delTargets |-> [o \in {} |-> Root], curVersion |-> curVersion,
   doc |-> doc, writes |-> writes, ok |-> TRUE]

Throw(w) == [w EXCEPT !.ok = FALSE]

Put(f, x, y) == [z \in DOMAIN f \cup {x} |-> IF z = x THEN y ELSE f[z]]

-----------------------------------------------------------------------------
(* Moving between versions.                                                *)

\* The item an operation is about, unless the walk never saw the operation.
Targets(w, oplog, opId) ==
  IF OpAt(oplog, opId).type = "del"
  THEN {w.delTargets[d] : d \in DOMAIN w.delTargets \cap {opId}}
  ELSE {opId} \cap DOMAIN w.item

AdvanceAllowed(w, oplog, opId) ==
  \E t \in Targets(w, oplog, opId) :
    IF OpAt(oplog, opId).type = "del"
    THEN w.item[t].curState >= Inserted /\ w.item[t].endState >= Deleted
    ELSE w.item[t].curState = NotYetInserted

RetreatAllowed(w, oplog, opId) ==
  \E t \in Targets(w, oplog, opId) :
    IF OpAt(oplog, opId).type = "del"
    THEN w.item[t].curState >= Deleted /\ w.item[t].endState >= Deleted
    ELSE w.item[t].curState = Inserted

Shift_Saturating(w, oplog, opId, by) ==
  LET t == CHOOSE t \in Targets(w, oplog, opId) : TRUE
  IN  [w EXCEPT !.item[t].curState = Lower(@ + by, Deleted)]

\* An advance raises the state of the item by one, a retreat lowers it.
Shift(w, oplog, opId, by) ==
  LET t == CHOOSE t \in Targets(w, oplog, opId) : TRUE
  IN  [w EXCEPT !.item[t].curState = @ + by]

Advance1(w, oplog, opId) ==
  IF AdvanceAllowed(w, oplog, opId) THEN Shift(w, oplog, opId, 1) ELSE Throw(w)

Retreat1(w, oplog, opId) ==
  IF RetreatAllowed(w, oplog, opId) THEN Shift(w, oplog, opId, -1) ELSE Throw(w)

-----------------------------------------------------------------------------
(* Finding a place.  A cursor is the number of items before it.  The code  *)
(* adds up the end position along with every item a cursor passes; here it *)
(* is counted where it is used.                                            *)

CurPos(w, idx) == Cardinality({i \in 1 .. idx : w.item[w.items[i]].curState = Inserted})
EndPos(w, idx) == Cardinality({i \in 1 .. idx : w.item[w.items[i]].endState = Inserted})

\* The cursors at a position; the code takes the first and throws if the
\* document is too short.
CursorsAt(w, pos) == {i \in 0 .. Len(w.items) : CurPos(w, i) >= pos}

ItemIdx(w, opId) == CHOOSE i \in DOMAIN w.items : w.items[i] = opId

LeftIdx(w, opId)  == IF opId = Root THEN 0 ELSE ItemIdx(w, opId)
RightIdx(w, opId) == IF opId = Root THEN Len(w.items) + 1 ELSE ItemIdx(w, opId)

\* The scan past the item "other", concurrent with the new one: whether the new
\* item goes before it, and whether the place found so far is still open.
StopsBefore(cg, opId, leftIdx, rightIdx, other, oleft, oright) ==
  \/ oleft < leftIdx
  \/ oleft = leftIdx /\ oright = rightIdx /\ LvLess(cg, opId, other)

StillScanning(leftIdx, rightIdx, oleft, oright, scanning) ==
  IF oleft = leftIdx THEN oright < rightIdx ELSE scanning

\* The item at the index is passed, unless the scan stops there.
ScanNext(w, cg, opId, leftIdx, rightIdx, idx, scan) ==
  LET other  == w.items[idx]
      oleft  == LeftIdx(w, w.item[other].originLeft)
      oright == RightIdx(w, w.item[other].rightParent)
  IN  IF \/ scan.stopped
         \/ w.item[other].curState # NotYetInserted
         \/ StopsBefore(cg, opId, leftIdx, rightIdx, other, oleft, oright)
      THEN [best |-> scan.best, scanning |-> FALSE, stopped |-> TRUE]
      ELSE IF StillScanning(leftIdx, rightIdx, oleft, oright, scan.scanning)
      THEN [best |-> scan.best, scanning |-> TRUE, stopped |-> FALSE]
      ELSE [best |-> idx, scanning |-> FALSE, stopped |-> FALSE]

\* Where a new item goes among the concurrent items to the right of leftIdx.
IntegrateBetween(w, cg, opId, leftIdx, rightIdx) ==
  LET after[k \in 0 .. Len(w.items) - leftIdx] ==
        IF k = 0 THEN [best |-> leftIdx, scanning |-> FALSE, stopped |-> FALSE]
        ELSE ScanNext(w, cg, opId, leftIdx, rightIdx, leftIdx + k, after[k - 1])
  IN  after[Len(w.items) - leftIdx].best

Integrate(w, cg, opId, new, cursor) ==
  IntegrateBetween(w, cg, opId, cursor, RightIdx(w, new.rightParent))

-----------------------------------------------------------------------------
(* Applying an operation at its own version.                               *)

\* The items behind the cursor that are inserted, or at least were.
InsertedAfter(w, cursor) ==
  {i \in DOMAIN w.items : i > cursor /\ w.item[w.items[i]].curState = Inserted}
PresentAfter(w, cursor) ==
  {i \in DOMAIN w.items : i > cursor /\ w.item[w.items[i]].curState # NotYetInserted}

\* Only an item that no operation has deleted is in the snapshot.
DeleteItem(w, opId, at, t) ==
  [w EXCEPT !.item[t] = [@ EXCEPT !.curState = Deleted, !.endState = Deleted],
            !.delTargets = Put(@, opId, t),
            !.doc = IF w.writes /\ w.item[t].endState = Inserted
                    THEN RemoveAt(@, EndPos(w, at - 1) + 1)
                    ELSE @]

DeleteNext(w, opId, after) ==
  IF after = {} THEN Throw(w) ELSE DeleteItem(w, opId, Lowest(after), w.items[Lowest(after)])

ApplyDel(w, opId, pos) ==
  IF CursorsAt(w, pos) = {}
  THEN Throw(w)
  ELSE DeleteNext(w, opId, InsertedAfter(w, Lowest(CursorsAt(w, pos))))

\* The right parent is the next present item, if it has the same left origin.
ItemAfter(w, originLeft, present) ==
  Item(originLeft,
       IF present # {} /\ w.item[w.items[Lowest(present)]].originLeft = originLeft
       THEN w.items[Lowest(present)]
       ELSE Root)

ItemAt(w, cursor) ==
  ItemAfter(w, IF cursor = 0 THEN Root ELSE w.items[cursor], PresentAfter(w, cursor))

InsertItem(w, opId, new, place, content) ==
  [w EXCEPT !.items = Splice(@, place, opId),
            !.item  = Put(@, opId, new),
            !.doc   = IF w.writes THEN Splice(@, EndPos(w, place), content) ELSE @]

InsertBehind(w, cg, opId, cursor, new, content) ==
  InsertItem(w, opId, new, Integrate(w, cg, opId, new, cursor), content)

InsertAtCursor(w, cg, opId, cursor, content) ==
  InsertBehind(w, cg, opId, cursor, ItemAt(w, cursor), content)

ApplyIns(w, cg, opId, pos, content) ==
  IF CursorsAt(w, pos) = {}
  THEN Throw(w)
  ELSE InsertAtCursor(w, cg, opId, Lowest(CursorsAt(w, pos)), content)

Apply1(w, oplog, opId) ==
  LET op == OpAt(oplog, opId)
  IN  IF op.type = "del" THEN ApplyDel(w, opId, op.pos)
                         ELSE ApplyIns(w, oplog.cg, opId, op.pos, op.content)

-----------------------------------------------------------------------------
(* The walk.                                                               *)

Tagged(kind, vs) == [i \in DOMAIN vs |-> <<kind, vs[i]>>]

StepsAfter_NoRetreat(d, part) ==
  Tagged("advance", RangesLVs(d.bOnly)) \o Tagged("apply", RangeLVs(<<part.version, part.vEnd>>))

\* The steps of a walk over one part of an entry, in the order they are made:
\* retreat, the last operation first; advance; apply.
StepsAfter(d, part) ==
  Tagged("retreat", Reversed(RangesLVs(d.aOnly)))
    \o Tagged("advance", RangesLVs(d.bOnly))
    \o Tagged("apply", RangeLVs(<<part.version, part.vEnd>>))

StepsFor(w, cg, part) == StepsAfter(Diff(cg, w.curVersion, part.parents), part)

WalkStep(w, oplog, step) ==
  CASE ~ w.ok              -> w
    [] step[1] = "retreat" -> Retreat1(w, oplog, step[2])
    [] step[1] = "advance" -> Advance1(w, oplog, step[2])
    [] step[1] = "apply"   -> Apply1(w, oplog, step[2])

WalkPart_KeepVersion(w, oplog, part) ==
  FoldLeft(LAMBDA x, step : WalkStep(x, oplog, step), w, StepsFor(w, oplog.cg, part))

WalkPart(w, oplog, part) ==
  [FoldLeft(LAMBDA x, step : WalkStep(x, oplog, step), w, StepsFor(w, oplog.cg, part))
     EXCEPT !.curVersion = {part.vEnd - 1}]

TraverseAndApply(w, oplog, fromOp, toOp) ==
  FoldLeft(LAMBDA x, part : WalkPart(x, oplog, part), w,
           IterVersionsBetween(oplog.cg, fromOp, toOp))

TraverseRanges(w, oplog, ranges) ==
  FoldLeft(LAMBDA x, r : TraverseAndApply(x, oplog, r[1], r[2]), w, ranges)

CheckedOut(w, oplog) ==
  [snapshot |-> w.doc, version |-> Ascending(oplog.cg.heads), ok |-> w.ok]

Checkout(oplog) ==
  CheckedOut(TraverseAndApply(NewWalk({}, <<>>, TRUE), oplog, 0, NextLV(oplog.cg)), oplog)

-----------------------------------------------------------------------------
(* Merging into a branch.                                                  *)

EmptyBranch == [snapshot |-> <<>>, version |-> <<>>]

\* The visited ranges with one of the flags, in ascending order.
RangesFlagged(visited, flags) ==
  LET upTo[k \in 0 .. Len(visited)] ==
        IF k = 0 THEN <<>>
        ELSE IF visited[k][3] \in flags
        THEN PushReversedRLE(upTo[k - 1], visited[k][1], visited[k][2])
        ELSE upTo[k - 1]
  IN  Reversed(upTo[Len(visited)])

Placeholders(w, first, n) ==
  [w EXCEPT !.items = [i \in 1 .. n |-> first + i - 1],
            !.item  = [o \in first .. (first + n - 1) |-> Item(Root, Root)]]

WithPlaceholders_Short(w, oplog, version) ==
  Placeholders(w, NextLV(oplog.cg), IF version = <<>> THEN 0 ELSE Highest(VersionsIn(version)))

\* The document at the common ancestor is not known: as many items as it can
\* hold stand for it.  Their ids, 10^12 and up in the code, start here where
\* the local versions of the log end.
WithPlaceholders(w, oplog, version) ==
  Placeholders(w, NextLV(oplog.cg), IF version = <<>> THEN 0 ELSE Highest(VersionsIn(version)) + 1)

\* The two walks of a merge: what the branch has only moves the items, what it
\* lacks is written to the snapshot as well.
Rewalk(branch, oplog, c) ==
  TraverseRanges(WithPlaceholders(NewWalk(c.common, branch.snapshot, FALSE), oplog, branch.version),
                 oplog, RangesFlagged(c.visited, {"A", "Shared"}))

MergeWalk(branch, oplog, c) ==
  TraverseRanges([Rewalk(branch, oplog, c) EXCEPT !.writes = TRUE], oplog,
                 RangesFlagged(c.visited, {"B"}))

Merged(w, branch, oplog, mergeVersion) ==
  [snapshot |-> w.doc,
   version  |-> FindDominators(oplog.cg, branch.version \o Ascending(mergeVersion)),
   ok       |-> w.ok]

MergeChangesIntoBranch(branch, oplog, mergeVersion) ==
  Merged(MergeWalk(branch, oplog, FindConflicting(oplog.cg, VersionsIn(branch.version), mergeVersion)),
         branch, oplog, mergeVersion)
=============================================================================
