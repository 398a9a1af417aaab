------------------------------ MODULE DTTracker ------------------------------
(***************************************************************************)
(* diamond-types: the tracker of a merge (listmerge/merge.rs,              *)
(* listmerge/advance_retreat.rs).  It holds the items of the operations    *)
(* applied so far, in document order, in a state that moves back and       *)
(* forward between versions, and the index of which leaf each item is in.  *)
(* ok turns false where the code asserts or panics.                        *)
(***************************************************************************)
EXTENDS DTSpans, DTAgents, DTListOps

LOCAL INSTANCE SequencesExt

CONSTANT LE   \* DEFAULT_LE: entries in a leaf of the item tree

ASSUME LEAssumption == LE \in Nat /\ LE > 1

\* The changes to items.
Changed(how, e) ==
  CASE how = "insert"   -> MarkInserted(e)
    [] how = "delete"   -> DeleteSpan(e)
    [] how = "uninsert" -> MarkNotInserted(e)
    [] how = "undelete" -> Undelete(e)

Tree == INSTANCE ContentTree

\* notify_for(): the index follows what the tree tells.
Settle_First(tr, tree) ==
  [tr EXCEPT !.tree = [tree EXCEPT !.told = <<>>],
             !.index = FoldLeft(LAMBDA ix, n : SetRange(ix, n.e.id, n.e.id + 1, InsPtr(n.at)), @, tree.told)]

Settle(tr, tree) ==
  [tr EXCEPT !.tree = [tree EXCEPT !.told = <<>>],
             !.index = FoldLeft(LAMBDA ix, n : SetRange(ix, n.e.id, n.e.id + n.e.len, InsPtr(n.at)),
                                @, tree.told)]

\* new() and clear().
NewTracker ==
  Settle([tree |-> Tree!TreeOf(NewUnderwater), index |-> NewIndex, ok |-> TRUE], Tree!TreeOf(NewUnderwater))

Expect(tr, b) == [tr EXCEPT !.ok = @ /\ b]

-----------------------------------------------------------------------------
(* Cursors.                                                                *)

MarkerAt(tr, lv) == GetEntry(tr.index, lv).val.leaf

CursorBefore(tr, lv) ==
  IF lv = Nowhere THEN Tree!CursorAtEnd(tr.tree)
  ELSE Tree!CursorBeforeItem(tr.tree, MarkerAt(tr, lv), lv)

CursorAfter(tr, lv) ==
  IF lv = Nowhere THEN Tree!CursorAtStart(tr.tree)
  ELSE Tree!Roll(tr.tree, [CursorBefore(tr, lv) EXCEPT !.off = @ + 1])

\* upstream_cursor_pos()
UpstreamPos(tr, c) == Tree!CountPos(tr.tree, c, 2)

-----------------------------------------------------------------------------
(* integrate(): where among concurrent items an item goes.                 *)

\* Between two items with the same origins: by name, then by number.
InsertsHere_ByLV(cg, agent, lv, other) == lv < other

InsertsHere_Always(cg, agent, lv, other) == TRUE

InsertsHere(cg, agent, lv, other) ==
  LET mine   == <<AgentName(cg, agent), AgentVersion(cg, lv)[2]>>
      theirs == AgentVersion(cg, other)
  IN  mine[1] < theirs[1] \/ (mine[1] = theirs[1] /\ mine[2] < theirs[2])

\* What another item at the place means: stop here, or go on, with the place
\* to come back to if there is one.
StopHere == [stop |-> TRUE, scan |-> {}]
GoOn(scan) == [stop |-> FALSE, scan |-> scan]

BesideSameLeft(tr, cg, agent, item, other, c, scan) ==
  IF item.right = other.right
  THEN IF InsertsHere(cg, agent, item.id, other.id) THEN [stop |-> TRUE, scan |-> scan] ELSE GoOn({})
  ELSE IF Tree!CursorLess(tr.tree, CursorBefore(tr, other.right), CursorBefore(tr, item.right))
  THEN GoOn(IF scan = {} THEN {c} ELSE scan)
  ELSE GoOn({})

Beside(tr, cg, agent, item, other, left, c, scan) ==
  LET after == CursorAfter(tr, OriginLeftAt(other, c.off))
  IN  CASE Tree!CursorLess(tr.tree, after, left) -> [stop |-> TRUE, scan |-> scan]
        [] Tree!CursorLess(tr.tree, left, after) -> GoOn(scan)
        [] OTHER -> BesideSameLeft(tr, cg, agent, item, other, c, scan)

\* The result: the cursor to insert at, and whether the assertion held.
Found(c, scan, ok) == [c |-> IF scan = {} THEN c ELSE The(scan), ok |-> ok]

RECURSIVE ScanFrom(_, _, _, _, _, _, _)
ScanFrom(tr, cg, agent, item, left, c, scan) ==
  LET here  == Tree!Roll(tr.tree, c)
      other == Tree!Here(tr.tree, here)
      beside == Beside(tr, cg, agent, item, other, left, here, scan)
      end   == [here EXCEPT !.off = other.len]
  IN  IF c.off > 0 /\ c.off < Tree!Here(tr.tree, c).len THEN Found(c, scan, TRUE)
      ELSE IF ~ Tree!Rolls(tr.tree, c) THEN Found(c, scan, TRUE)
      ELSE IF other.id = item.right THEN Found(here, scan, TRUE)
      ELSE IF other.state # NotInsertedYet THEN Found(here, scan, FALSE)
      ELSE IF beside.stop THEN Found(here, beside.scan, TRUE)
      ELSE IF Tree!HasNextEntry(tr.tree, here)
      THEN ScanFrom(tr, cg, agent, item, left, Tree!NextEntry(tr.tree, here), beside.scan)
      ELSE Found(end, beside.scan, TRUE)

IntegrateAt(tr, item, found) ==
  [tr  |-> Expect(Settle(tr, Tree!Insert(tr.tree, found.c, item)), found.ok),
   len |-> item.len,
   pos |-> {UpstreamPos(tr, found.c)},
   old |-> [left |-> item.left, right |-> item.right]]

Integrate(tr, cg, agent, item, c) ==
  LET left == Tree!Roll(tr.tree, c)
  IN  IntegrateAt(tr, item, ScanFrom(tr, cg, agent, item, left, left, {}))

-----------------------------------------------------------------------------
(* apply(): an operation at the version the tracker is at.  pos is where   *)
(* it lands in the document merged into: nowhere if it deletes what is     *)
(* deleted there.  len of it were applied.  old is what the older crate is *)
(* told of it (dbg_ops): the origins, or the first of the items deleted.   *)

RECURSIVE OriginRight(_, _)
OriginRight(tree, c) ==
  IF Tree!Here(tree, c).state # NotInsertedYet THEN Tree!Here(tree, c).id + c.off
  ELSE IF Tree!HasNextEntry(tree, c) THEN OriginRight(tree, Tree!NextEntry(tree, c)) ELSE Nowhere

ItemAt(tree, c) == Tree!Here(tree, c).id + c.off

OriginRightFrom(tree, c) ==
  IF Tree!Rolls(tree, c) THEN OriginRight(tree, Tree!Roll(tree, c)) ELSE Nowhere

InsertionPoint(tree, pos, before) ==
  IF pos = 0 THEN [left |-> Nowhere, c |-> Tree!CursorAtStart(tree)]
  ELSE [left |-> ItemAt(tree, before), c |-> Tree!NextItem(tree, before)]

ApplyInsPoint(tr, cg, agent, op, len, point) ==
  Integrate(tr, cg, agent, Span(op.lv, len, point.left, OriginRightFrom(tr.tree, point.c)),
            Tree!Roll(tr.tree, point.c))

ApplyIns(tr, cg, agent, op, len) ==
  ApplyInsPoint(tr, cg, agent, op, len,
                InsertionPoint(tr.tree, op.start, Tree!CursorAtContent(tr.tree, op.start - 1)))

\* The deletion starts at the cursor and takes what it can of one entry.
ApplyDelTo(tr, tr2, op, c, len, done) ==
  LET e      == Tree!Here(tr.tree, c)
      target == e.id + c.off
      marker == DelRange(IF op.fwd THEN target ELSE target + done, op.fwd)
  IN  [tr  |-> Expect([tr2 EXCEPT !.index = SetRange(@, op.lv, op.lv + done, marker)],
                      e.state = Inserted /\ (op.fwd \/ done = len)),
       len |-> done,
       pos |-> IF e.deleted THEN {} ELSE {UpstreamPos(tr, c)},
       old |-> [target |-> target]]

ApplyDelAt(tr, op, p) ==
  ApplyDelTo(tr, Settle(tr, Tree!Mutate("delete", tr.tree, p.c, p.len)), op, p.c, p.len,
             Tree!MutateLen(tr.tree, p.c, p.len))

\* A reversed deletion starts with its last item: back in that item's entry as
\* far as it goes, then forwards.
BackFrom(last, len) ==
  LET n == Least(last.off + 1, len) IN [c |-> [last EXCEPT !.off = @ - (n - 1)], len |-> n]

ApplyDel(tr, op, len) ==
  ApplyDelAt(tr, op, IF op.fwd THEN [c |-> Tree!CursorAtContent(tr.tree, op.start), len |-> len]
                               ELSE BackFrom(Tree!CursorAtContent(tr.tree, op.end - 1), len))

\* The length is cut to what one agent did in one run.
ApplyOp(tr, cg, op) ==
  LET len == SpanLen(cg, op.lv, OpLen(op))
  IN  IF ~ Tree!CountsReach(tr.tree, IF op.kind = "Ins" THEN op.start - 1 ELSE op.end - 1)
      THEN [tr |-> Expect(tr, FALSE), len |-> OpLen(op), pos |-> {}, old |-> <<>>]
      ELSE IF op.kind = "Ins" THEN ApplyIns(tr, cg, AgentOf(cg, op.lv), op, len)
      ELSE ApplyDel(tr, op, len)

\* next_from() and apply_to(), until the operation is used up: the tracker then,
\* and each part of the operation with where it lands.
Part(op, r) == [op |-> op, xf |-> r.pos, old |-> r.old]

RECURSIVE ApplyWhole(_, _, _, _)
ApplyRest(cg, op, r, parts) ==
  IF r.len = OpLen(op) THEN [tr |-> r.tr, parts |-> Append(parts, Part(op, r))]
  ELSE ApplyWhole(r.tr, cg, RestOps(op, r.len), Append(parts, Part(FirstOps(op, r.len), r)))

ApplyWhole(tr, cg, op, parts) == ApplyRest(cg, op, ApplyOp(tr, cg, op), parts)

\* apply_range()
ApplyRange(tr, cg, ops, start, end) ==
  FoldLeft(LAMBDA st, op : ApplyWhole(st.tr, cg, op, st.parts), [tr |-> tr, parts |-> <<>>],
           OpsIn(ops, start, end))

-----------------------------------------------------------------------------
(* Back and forward.                                                       *)

Allowed(how, e) ==
  CASE how = "insert"   -> MayInsert(e)
    [] how = "delete"   -> MayDelete(e)
    [] how = "uninsert" -> MayUninsert(e)
    [] how = "undelete" -> MayUndelete(e)

\* index_query(): the items a version inserted or deleted, with those of the
\* versions around it in the index.
Query(tr, lv) ==
  LET r   == GetEntry(tr.index, lv)
      len == r.end - r.start
  IN  CASE r.val.kind = "ins" -> [tag |-> "Ins", from |-> r.start, len |-> len, fwd |-> TRUE, at |-> r.start]
        [] OTHER -> [tag |-> "Del", len |-> len, fwd |-> r.val.fwd, at |-> r.start,
                     from |-> IF r.val.fwd THEN r.val.target ELSE r.val.target - len]

\* RangeRev::range(): the items of the versions from one offset to another.
TargetFrom(q, from, to) == IF q.fwd THEN q.from + from ELSE q.from + q.len - to

RECURSIVE ChangeItems(_, _, _, _)
ChangeAt(tr, how, from, to, c) ==
  ChangeItems(Expect(Settle(tr, Tree!Mutate(how, tr.tree, c, to - from)),
                     Allowed(how, Tree!Here(tr.tree, c))),
              how, from + Tree!MutateLen(tr.tree, c, to - from), to)

ChangeItems(tr, how, from, to) ==
  IF from >= to \/ ~ tr.ok THEN tr
  ELSE IF Tree!HasItem(tr.tree, MarkerAt(tr, from), from)
  THEN ChangeAt(tr, how, from, to, CursorBefore(tr, from))
  ELSE Expect(tr, FALSE)

ChangeRange(tr, how, q, from, to) ==
  ChangeItems(tr, how, TargetFrom(q, from, to), TargetFrom(q, from, to) + (to - from))

RECURSIVE AdvanceByRange(_, _, _), RetreatByRange(_, _, _)

AdvanceOver(tr, q, start, end) ==
  LET to == Least(q.at + q.len, end)
  IN  AdvanceByRange(ChangeRange(tr, IF q.tag = "Ins" THEN "insert" ELSE "delete", q, start - q.at, to - q.at),
                     to, end)

AdvanceByRange(tr, start, end) ==
  IF start >= end \/ ~ tr.ok THEN tr ELSE AdvanceOver(tr, Query(tr, start), start, end)

\* From the end of the range, so that a deletion goes before what it deleted.
RetreatOver(tr, q, start, end) ==
  LET from == Greatest(start, q.at)
  IN  RetreatByRange(ChangeRange(tr, IF q.tag = "Ins" THEN "uninsert" ELSE "undelete", q, from - q.at, end - q.at),
                     start, from)

RetreatByRange_Fwd(tr, start, end) ==
  IF start >= end \/ ~ tr.ok THEN tr
  ELSE LET over(q) == RetreatOver(tr, q, start, Least(end, q.at + q.len)) IN over(Query(tr, start))

RetreatByRange(tr, start, end) ==
  IF start >= end \/ ~ tr.ok THEN tr ELSE RetreatOver(tr, Query(tr, end - 1), start, end)

-----------------------------------------------------------------------------

\* check_index(): every entry is in the leaf the index has for its first item;
\* with the tree's own check.
TrackerChecks(tr) ==
  /\ tr.ok
  /\ Tree!TreeChecks(tr.tree)
  /\ \A i \in DOMAIN tr.tree.order :
       \A e \in ToSet(Tree!EntriesOf(tr.tree, tr.tree.order[i])) :
         LET r == GetEntry(tr.index, e.id).val IN r.kind = "ins" /\ r.leaf = tr.tree.order[i]
=============================================================================
