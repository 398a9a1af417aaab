------------------------------- MODULE DTSpans -------------------------------
(***************************************************************************)
(* The runs of items the merge works on (listmerge/yjsspan.rs), the        *)
(* markers that say where they are (listmerge/markers.rs), and the index   *)
(* of markers by local version (ost/index_tree.rs), a run-length encoded   *)
(* map from every version, kept as the list of its runs: where each starts *)
(* and its value.  The index's leaves and nodes are left out: runs are not *)
(* joined over the border of two leaves in the code.                       *)
(***************************************************************************)
EXTENDS Integers, Sequences

LOCAL INSTANCE SequencesExt

Nowhere    == 9999    \* usize::MAX: no origin on that side
Underwater == 500     \* UNDERWATER_START: the document before the walk,
UnderLen   == 40      \* with more items than any document has here

NotInsertedYet == 0
Inserted       == 1
DeletedOnce    == 2

\* CRDTSpan: the items id .. id + len - 1.
Span(id, len, left, right) ==
  [id |-> id, len |-> len, left |-> left, right |-> right, state |-> Inserted, deleted |-> FALSE]

NewUnderwater == Span(Underwater, UnderLen, Nowhere, Nowhere)

LenOf(e) == e.len

OriginLeftAt(e, offset) == IF offset = 0 THEN e.left ELSE e.id + offset - 1

Upto(e, offset) == [e EXCEPT !.len = offset]

From(e, offset) == [e EXCEPT !.id = @ + offset, !.len = @ - offset, !.left = e.id + offset - 1]

CanAppend(e, f) ==
  /\ f.id = e.id + e.len
  /\ f.left = f.id - 1
  /\ f.right = e.right
  /\ f.state = e.state
  /\ f.deleted = e.deleted

Joined(e, f) == [e EXCEPT !.len = @ + f.len]

InSpan(e, lv) == e.id <= lv /\ lv < e.id + e.len

OffsetIn(e, lv) == lv - e.id

\* MarkerMetrics: the items there are now, and those that are in the document
\* merged into.
Counts(e) == <<IF e.state = Inserted THEN e.len ELSE 0, IF e.deleted THEN 0 ELSE e.len>>

\* SpanState: what each change asks of the state before it; the rest panics.
MayDelete(e)   == e.state # NotInsertedYet
MayUndelete(e) == e.state >= DeletedOnce
MayInsert(e)   == e.state = NotInsertedYet
MayUninsert(e) == e.state = Inserted

DeleteSpan(e)       == [e EXCEPT !.state = @ + 1, !.deleted = TRUE]
Undelete(e)         == [e EXCEPT !.state = @ - 1]
MarkInserted(e)     == [e EXCEPT !.state = Inserted]
MarkNotInserted(e)  == [e EXCEPT !.state = NotInsertedYet]

-----------------------------------------------------------------------------
(* Markers: an insertion's is the leaf it is in, a deletion's the items it *)
(* deleted, from the first up or from the last down.                       *)

InsPtr(leaf) == [kind |-> "ins", leaf |-> leaf]

DelRange(target, fwd) == [kind |-> "del", target |-> target, fwd |-> fwd]

Dangling == InsPtr(0)

AtOffset(a, offset) ==
  IF a.kind = "ins" THEN a
  ELSE [a EXCEPT !.target = IF a.fwd THEN @ + offset ELSE @ - offset]

\* try_append(): a, which is offset long, and b as one value: none, or one.
BackwardsFrom(a, offset, len) ==
  IF ~ a.fwd THEN {a.target + offset} ELSE IF len = 1 THEN {a.target + 1 + offset} ELSE {}

TryAppend(a, offset, b, len) ==
  IF a.kind = "ins" \/ b.kind = "ins"
  THEN IF a = b THEN {a} ELSE {}
  ELSE IF a.fwd /\ b.fwd /\ a.target + offset = b.target
  THEN {a}
  ELSE {DelRange(target, FALSE) : target \in BackwardsFrom(a, 0, offset) \cap BackwardsFrom(b, offset, len)}

The(S) == CHOOSE x \in S : TRUE

-----------------------------------------------------------------------------
(* The index.                                                              *)

Run(start, val) == [start |-> start, val |-> val]

NewIndex == <<Run(0, Dangling)>>

RunAt(ix, lv) ==
  CHOOSE i \in DOMAIN ix : ix[i].start <= lv /\ (i = Len(ix) \/ lv < ix[i + 1].start)

EndOf(ix, i) == IF i = Len(ix) THEN Nowhere ELSE ix[i + 1].start

GetEntry(ix, lv) ==
  LET i == RunAt(ix, lv) IN [start |-> ix[i].start, end |-> EndOf(ix, i), val |-> ix[i].val]

\* What the index has from lv on.
Beyond(ix, lv) ==
  IF lv = Nowhere THEN <<>>
  ELSE LET i == RunAt(ix, lv)
       IN  <<Run(lv, AtOffset(ix[i].val, lv - ix[i].start))>> \o SubSeq(ix, i + 1, Len(ix))

\* set_range(): the value joins what is in front of it.  It joins what is
\* behind it only where it ends inside the run it starts in, or inside the
\* next one; it is then taken to go on from where that run started.
SetBehind(ix, front, run, end, i) ==
  LET j        == RunAt(ix, end - 1)
      rest     == Beyond(ix, end)
      from     == IF j = i THEN end ELSE ix[j].start
      inside   == end < EndOf(ix, j) /\ (j = i \/ (j = i + 1 /\ ix[i].start < run.start))
      appended == IF ~ inside THEN {}
                  ELSE TryAppend(run.val, from - run.start,
                                 AtOffset(ix[j].val, from - ix[j].start), EndOf(ix, j) - from)
  IN  IF appended = {} THEN front \o <<run>> \o rest
      ELSE front \o <<Run(run.start, The(appended))>> \o Tail(rest)

SetRange(ix, start, end, val) ==
  LET i    == RunAt(ix, start)
      p    == IF ix[i].start < start THEN i ELSE i - 1
      with == IF p = 0 THEN {} ELSE TryAppend(ix[p].val, start - ix[p].start, val, end - start)
  IN  IF with = {}
      THEN SetBehind(ix, SubSeq(ix, 1, p), Run(start, val), end, i)
      ELSE IF p < i
      THEN SubSeq(ix, 1, p - 1) \o <<Run(ix[p].start, The(with))>> \o Beyond(ix, end)
      ELSE SetBehind(ix, SubSeq(ix, 1, p - 1), Run(ix[p].start, The(with)), end, i)
=============================================================================
