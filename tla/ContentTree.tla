----------------------------- MODULE ContentTree -----------------------------
(***************************************************************************)
(* The order-statistic tree of the content-tree crate, over entries that   *)
(* are runs of items: entries are split where an item is inserted or       *)
(* changed, and joined where neighbours continue each other.               *)
(*                                                                         *)
(* A tree is a sequence of leaves; a leaf holds entries, and the counts    *)
(* its parent has for it.  Counts are kept by differences: a change adds   *)
(* to a marker, and the marker is flushed to the leaf the cursor is at, so *)
(* every move to another leaf must flush first.  Inner nodes are left out: *)
(* they sum the counts of their leaves and give their order.  told lists   *)
(* what the owner was notified of: an entry and the leaf it is in now.     *)
(* Positions in leaves start at 1.                                         *)
(***************************************************************************)
EXTENDS Integers, Sequences

LOCAL INSTANCE SequencesExt
LOCAL INSTANCE TLC

CONSTANTS LE,                \* DEFAULT_LE: entries of a leaf
          LenOf(_),          \* the length of an entry,
          Counts(_),         \* the counts of an entry, a pair,
          Upto(_, _),        \* an entry up to an offset,
          From(_, _),        \* and from an offset;
          CanAppend(_, _),   \* whether the second continues the first,
          Joined(_, _),      \* and both as one entry;
          Changed(_, _),     \* what a change makes of an entry;
          InSpan(_, _),      \* whether an item is in an entry,
          OffsetIn(_, _)     \* and where

Plus(m, n)  == <<m[1] + n[1], m[2] + n[2]>>
Minus(m, n) == <<m[1] - n[1], m[2] - n[2]>>
Zero == <<0, 0>>

SumCounts(entries) == FoldLeft(LAMBDA m, e : Plus(m, Counts(e)), Zero, entries)

Leaf(entries) == [entries |-> entries, count |-> SumCounts(entries)]

\* ContentTreeRaw::new() with its first entry.
TreeOf(e) == [order |-> <<1>>, leaf |-> [l \in {1} |-> Leaf(<<e>>)], told |-> <<[e |-> e, at |-> 1]>>]

EntriesOf(t, l) == t.leaf[l].entries

\* Everything in the tree, in order: raw_iter().
AllEntries(t) == FlattenSeq([i \in DOMAIN t.order |-> EntriesOf(t, t.order[i])])

Place(t, l) == CHOOSE i \in DOMAIN t.order : t.order[i] = l

-----------------------------------------------------------------------------
(* Cursors.                                                                *)

At(l, i, o) == [leaf |-> l, idx |-> i, off |-> o]

Here(t, c) == EntriesOf(t, c.leaf)[c.idx]

CursorAtStart(t) == At(t.order[1], 1, 0)

CursorAtEnd(t) ==
  LET l == Last(t.order)
      n == Len(EntriesOf(t, l))
  IN  At(l, n, LenOf(EntriesOf(t, l)[n]))

HasNextEntry(t, c) == c.idx < Len(EntriesOf(t, c.leaf)) \/ Place(t, c.leaf) < Len(t.order)

NextEntry(t, c) ==
  IF c.idx < Len(EntriesOf(t, c.leaf)) THEN At(c.leaf, c.idx + 1, 0)
                                       ELSE At(t.order[Place(t, c.leaf) + 1], 1, 0)

\* roll_to_next_entry(): off the end of an entry; whether there is one there.
Rolls(t, c) == c.off < LenOf(Here(t, c)) \/ HasNextEntry(t, c)

Roll(t, c) == IF c.off < LenOf(Here(t, c)) \/ ~ HasNextEntry(t, c) THEN c ELSE NextEntry(t, c)

NextItem(t, c) == [Roll(t, c) EXCEPT !.off = @ + 1]

\* The first position whose entry ends beyond n in the counts' component k.
\* The descent trusts the counts of the leaves, the scan the entries.
CountsBefore(t, i, k) ==
  FoldLeft(LAMBDA n, l : n + t.leaf[l].count[k], 0, SubSeq(t.order, 1, i - 1))

InLeafAt(es, l, rest) ==
  LET upto(j) == SumCounts(SubSeq(es, 1, j))[1]
      at(j) == At(l, j, rest - upto(j - 1))
  IN  at(CHOOSE j \in DOMAIN es : upto(j) > rest /\ upto(j - 1) <= rest)

CursorAtContent(t, pos) ==
  LET in(i) == InLeafAt(EntriesOf(t, t.order[i]), t.order[i], pos - CountsBefore(t, i, 1))
  IN  in(CHOOSE i \in DOMAIN t.order :
           /\ CountsBefore(t, i + 1, 1) > pos
           /\ \A j \in 1 .. (i - 1) : CountsBefore(t, j + 1, 1) <= pos)

CountsReach(t, pos) == CountsBefore(t, Len(t.order) + 1, 1) > pos

\* count_pos_raw(): the counts in front of a cursor, in component k.
CountPos(t, c, k) ==
  LET es == EntriesOf(t, c.leaf)
  IN  CountsBefore(t, Place(t, c.leaf), k)
        + SumCounts(SubSeq(es, 1, c.idx - 1))[k]
        + IF c.off = 0 THEN 0 ELSE Counts(Upto(es[c.idx], c.off))[k]

\* unsafe_cmp() = Less.
CursorLess(t, c, d) ==
  IF c.leaf # d.leaf THEN Place(t, c.leaf) < Place(t, d.leaf)
  ELSE c.idx < d.idx \/ (c.idx = d.idx /\ c.off < d.off)

-----------------------------------------------------------------------------
(* Changes.  A hand is what a change works on: the tree, the cursor, and   *)
(* the counts that are not flushed yet.                                    *)

Hand(t, c) == [t |-> t, c |-> c, m |-> Zero]

Flush(h) == [h EXCEPT !.t.leaf[h.c.leaf].count = Plus(@, h.m), !.m = Zero]

Put(h, entries) == [h EXCEPT !.t.leaf[h.c.leaf].entries = entries]

Tell(h, entries) ==
  [h EXCEPT !.t.told = @ \o [i \in DOMAIN entries |-> [e |-> entries[i], at |-> h.c.leaf]]]

Count(h, entries) == [h EXCEPT !.m = Plus(@, SumCounts(entries))]

\* next_entry_marker(), prev_entry_marker(): a move to another leaf flushes.
Forward(h) ==
  LET n == NextEntry(h.t, h.c)
  IN  [(IF n.leaf = h.c.leaf THEN h ELSE Flush(h)) EXCEPT !.c = n]

PrevEntry(t, c) ==
  LET l == IF c.idx > 1 THEN c.leaf ELSE t.order[Place(t, c.leaf) - 1]
      i == IF c.idx > 1 THEN c.idx - 1 ELSE Len(EntriesOf(t, l))
  IN  At(l, i, LenOf(EntriesOf(t, l)[i]))

Backward(h) ==
  LET p == PrevEntry(h.t, h.c)
  IN  [(IF p.leaf = h.c.leaf THEN h ELSE Flush(h)) EXCEPT !.c = p]

RECURSIVE MoveForward(_, _), MoveBack(_, _)

MoveForward(h, n) ==
  LET here == LenOf(Here(h.t, h.c)) - h.c.off
  IN  IF n <= here THEN [h EXCEPT !.c.off = @ + n] ELSE MoveForward(Forward(h), n - here)

MoveBack(h, n) ==
  IF h.c.off < n THEN MoveBack(Backward(h), n - h.c.off) ELSE [h EXCEPT !.c.off = @ - n]

\* How many of items, one after the other, e takes onto its end; and how many
\* of their last ones go in front of e.
RECURSIVE TakenAfter(_, _), TakenBefore(_, _)

TakenAfter(e, items) ==
  IF items # <<>> /\ CanAppend(e, items[1]) THEN 1 + TakenAfter(Joined(e, items[1]), Tail(items))
                                           ELSE 0

TakenBefore(e, items) ==
  IF items # <<>> /\ CanAppend(Last(items), e)
  THEN 1 + TakenBefore(Joined(Last(items), e), Front(items))
  ELSE 0

Dropped(items, n) == SubSeq(items, n + 1, Len(items))

JoinAll(e, items) == FoldLeft(Joined, e, items)

LenOfAll(items) == FoldLeft(LAMBDA n, e : n + LenOf(e), 0, items)

FreshLeaf(t) == CHOOSE l \in 1 .. (Len(t.order) + 1) : l \notin DOMAIN t.leaf

\* insert_after(): the new leaf follows the old one; where the inner nodes hang
\* it, and which of them split, is left out.
InsertAfter(order, i, l) == InsertAt(order, i + 1, l)

\* split_at(): what is at idx and behind moves to a new leaf, behind new ones
\* if they go there too, and the owner is told.
SplitAt(h, front, back, new) ==
  LET old  == h.c.leaf
      next == FreshLeaf(h.t)
      t    == [h.t EXCEPT
                !.order = InsertAfter(@, Place(h.t, old), next),
                !.leaf  = (next :> [entries |-> new \o back, count |-> SumCounts(back)]) @@
                          [@ EXCEPT ![old] = [entries |-> front,
                                              count   |-> Minus(@.count, SumCounts(back))]]]
  IN  Tell([h EXCEPT !.t = t, !.c = At(next, 1, 0)], back)

\* Items, and what was cut off to let them in, are put in front of entry idx.
IntoHalf(split, c, front, low, new) == IF low THEN Put([split EXCEPT !.c = c], front \o new) ELSE split

IntoLeaf(h, front, new, back, fits, low) ==
  IF fits THEN Put(h, front \o new \o back)
  ELSE IntoHalf(SplitAt(Flush(h), front, back, IF low THEN <<>> ELSE new), h.c, front, low, new)

ToLast(h, items) ==
  IF items = <<>> THEN h ELSE [h EXCEPT !.c.idx = @ + Len(items) - 1, !.c.off = LenOf(Last(items))]

PlaceItems(h, items, cut, notify) ==
  LET es   == EntriesOf(h.t, h.c.leaf)
      i    == h.c.idx - 1
      low  == i < LE \div 2
      fits == Len(es) + Len(items \o cut) <= LE
      news == IF ~ fits /\ ~ low THEN items \o cut ELSE IF notify THEN items ELSE <<>>
      put  == IntoLeaf(h, SubSeq(es, 1, i), items \o cut, Dropped(es, i), fits, low)
  IN  ToLast(Count(Tell(put, news), items \o cut), items)

\* The cursor is at the end of an entry: as many items as go onto it are
\* joined to it, as many as go in front of the next one to that.
PlaceRest(h, i, whole, rest, ahead, cut, notify) ==
  IF rest = <<>> /\ cut = <<>> THEN [h EXCEPT !.c.off = LenOf(whole)]
  ELSE IF rest # <<>> /\ ahead = rest
  THEN [h EXCEPT !.c = At(h.c.leaf, i + 1, LenOfAll(ahead))]
  ELSE MoveForward(PlaceItems([h EXCEPT !.c = At(h.c.leaf, i + 1, 0)],
                              SubSeq(rest, 1, Len(rest) - Len(ahead)), cut, notify),
                   LenOfAll(ahead))

JoinRest(h, taken, rest, ahead, whole, cut, notify) ==
  LET i   == h.c.idx
      put == [EntriesOf(h.t, h.c.leaf) EXCEPT ![i] = whole]
      put2 == IF ahead = <<>> THEN put ELSE [put EXCEPT ![i + 1] = JoinAll(ahead[1], Append(Tail(ahead), @))]
      joined == taken \o ahead
  IN  PlaceRest(Count(Tell(Put(h, put2), IF notify THEN joined ELSE <<>>), joined),
                i, whole, rest, ahead, cut, notify)

InsertBehind(h, items, cut, notify) ==
  LET es   == EntriesOf(h.t, h.c.leaf)
      i    == h.c.idx
      n    == TakenAfter(es[i], items)
      rest == Dropped(items, n)
      k    == IF cut = <<>> /\ i < Len(es) THEN TakenBefore(es[i + 1], rest) ELSE 0
      taken == SubSeq(items, 1, n)
  IN  JoinRest(h, taken, rest, Dropped(rest, Len(rest) - k), JoinAll(es[i], taken), cut, notify)

\* insert_internal(): a cursor at the start of an entry stands at the end of
\* the one before it, if the leaf has one; one inside an entry splits it.
Parted(h, es, i, o) ==
  CASE o = 0           -> [h |-> [h EXCEPT !.c = At(h.c.leaf, i - 1, LenOf(es[i - 1]))], cut |-> <<>>]
    [] o = LenOf(es[i]) -> [h |-> h, cut |-> <<>>]
    [] OTHER -> [h |-> [Put(h, [es EXCEPT ![i] = Upto(@, o)]) EXCEPT !.m = Minus(@, Counts(From(es[i], o)))],
                 cut |-> <<From(es[i], o)>>]

InsertParted(p, items, notify) == InsertBehind(p.h, items, p.cut, notify)

InsertInternal(h, items, notify) ==
  IF items = <<>> THEN h
  ELSE IF h.c.off = 0 /\ h.c.idx = 1 THEN PlaceItems(h, items, <<>>, notify)
  ELSE InsertParted(Parted(h, EntriesOf(h.t, h.c.leaf), h.c.idx, h.c.off), items, notify)

\* unsafe_insert_notify()
Insert(t, c, e) == Flush(InsertInternal(Hand(t, c), <<e>>, TRUE)).t

\* replace_entry(): the entry under the cursor becomes items, the first of
\* which may join the entry before it.
EntryRemoved(h, es, i) ==
  [Put(h, es) EXCEPT !.c = IF i <= Len(es) THEN At(h.c.leaf, i, 0) ELSE At(h.c.leaf, i - 1, LenOf(es[i - 1]))]

EntryReplaced(h, es, i, item) ==
  [Count(Put(h, [es EXCEPT ![i] = item]), <<item>>) EXCEPT !.c.off = LenOf(item)]

ReplaceJoined(h, es, i, n, items) ==
  IF n = Len(items) THEN EntryRemoved(h, RemoveAt(es, i), i)
  ELSE InsertInternal(EntryReplaced(h, es, i, items[n + 1]), Dropped(items, n + 1), FALSE)

ReplaceEntry(h, items) ==
  LET es  == EntriesOf(h.t, h.c.leaf)
      i   == h.c.idx
      n   == IF i > 1 THEN TakenAfter(es[i - 1], items) ELSE 0
      put == IF n = 0 THEN es ELSE [es EXCEPT ![i - 1] = JoinAll(@, SubSeq(items, 1, n))]
  IN  ReplaceJoined([Count(h, SubSeq(items, 1, n)) EXCEPT !.m = Minus(@, Counts(es[i]))], put, i, n, items)

\* unsafe_mutate_entry_internal(): at most max items of the entry from the
\* cursor on are changed, the rest is split off on either side.
MutateEntry(how, h, max) ==
  LET e     == Here(h.t, h.c)
      o     == h.c.off
      left  == LenOf(e) - o
      n     == IF max < left THEN max ELSE left
      a     == IF o > 0 THEN <<Upto(e, o)>> ELSE <<>>
      e2    == IF o > 0 THEN From(e, o) ELSE e
      b     == Changed(how, IF n < left THEN Upto(e2, n) ELSE e2)
      c     == IF n < left THEN <<From(e2, n)>> ELSE <<>>
  IN  IF a = <<>> /\ c = <<>>
      THEN [Count(Put(h, [EntriesOf(h.t, h.c.leaf) EXCEPT ![h.c.idx] = b]), <<b>>)
              EXCEPT !.m = Minus(@, Counts(e)), !.c.off = n]
      ELSE MoveBack(ReplaceEntry(h, a \o <<b>> \o c), LenOfAll(c))

\* unsafe_mutate_single_entry_notify(), and how many items it changes.
MutateLen(t, c, max) ==
  LET left == LenOf(Here(t, c)) - c.off IN IF max < left THEN max ELSE left

Mutate(how, t, c, max) == Flush(MutateEntry(how, Hand(t, c), max)).t

\* NodeLeaf::find() on the leaf the owner remembers: a cursor before an item.
HasItem(t, l, item) ==
  l \in DOMAIN t.leaf /\ \E i \in DOMAIN EntriesOf(t, l) : InSpan(EntriesOf(t, l)[i], item)

CursorBeforeItem(t, l, item) ==
  LET i == CHOOSE i \in DOMAIN EntriesOf(t, l) :
             /\ InSpan(EntriesOf(t, l)[i], item)
             /\ \A j \in 1 .. (i - 1) : ~ InSpan(EntriesOf(t, l)[j], item)
  IN  At(l, i, OffsetIn(EntriesOf(t, l)[i], item))

\* check(): no empty entry or leaf, and counts that are those of the entries.
TreeChecks(t) ==
  \A i \in DOMAIN t.order :
    LET l == t.order[i]
    IN  /\ EntriesOf(t, l) # <<>> /\ Len(EntriesOf(t, l)) <= LE
        /\ t.leaf[l].count = SumCounts(EntriesOf(t, l))
        /\ \A j \in DOMAIN EntriesOf(t, l) : LenOf(EntriesOf(t, l)[j]) > 0
=============================================================================
