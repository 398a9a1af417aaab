------------------------------ MODULE DTOldList ------------------------------
(***************************************************************************)
(* diamond-types-crdt, the older crate (crates/diamond-types-crdt): a list *)
(* whose operations travel with the origins of what they insert and the    *)
(* ids of what they delete (list/doc.rs, list/external_txn.rs).            *)
(*                                                                         *)
(* A list is a value.  Its items are kept one by one, in document order,   *)
(* with no tree and no index of leaves; so are its deletions (deletes, a   *)
(* function from versions to items) and the deletions of what was deleted  *)
(* already (twice).  ids names every version, from 0, by agent and number. *)
(* ok turns false where the code asserts or panics.                        *)
(***************************************************************************)
EXTENDS Integers, Sequences

LOCAL INSTANCE SequencesExt
LOCAL INSTANCE FiniteSets
LOCAL INSTANCE TLC

Root   == 9999    \* ROOT_LV
RootId == <<Root, Root>>

NewList ==
  [ids |-> <<>>, items |-> <<>>, text |-> <<>>, frontier |-> {Root}, txns |-> <<>>,
   deletes |-> <<>>, twice |-> <<>>, ok |-> TRUE]

\* get_next_lv()
NextLV(list) == Len(list.ids)

Known(list, id) == id = RootId \/ id \in ToSet(list.ids)

\* remote_id_to_order(), and order_to_remote_id().
OrderOf(list, id) == IF id = RootId THEN Root ELSE (CHOOSE i \in DOMAIN list.ids : list.ids[i] = id) - 1

IdOf(list, lv) == IF lv = Root THEN RootId ELSE list.ids[lv + 1]

OrdersOf(list, ids) == {OrderOf(list, id) : id \in ids}

Must(list, b) == [list EXCEPT !.ok = @ /\ b]

-----------------------------------------------------------------------------
(* integrate()                                                             *)

\* Places in the document are the number of items in front: get_cursor_after()
\* and get_cursor_before().
PlaceOf(list, lv) == CHOOSE i \in DOMAIN list.items : list.items[i].lv = lv

PlaceAfter(list, lv)  == IF lv = Root THEN 0 ELSE PlaceOf(list, lv)
PlaceBefore(list, lv) == IF lv = Root THEN Len(list.items) ELSE PlaceOf(list, lv) - 1

\* Items with the same origins are in the order of names, then of numbers.
ComesFirst(list, lv, other) ==
  LET mine == IdOf(list, lv)  theirs == IdOf(list, other)
  IN  mine[1] < theirs[1] \/ (mine[1] = theirs[1] /\ mine[2] < theirs[2])

StopsAt(list, item, other, left) ==
  \/ PlaceAfter(list, other.left) < left
  \/ PlaceAfter(list, other.left) = left /\ item.right = other.right /\ ComesFirst(list, item.lv, other.lv)

\* The place to come back to, past another item: none, or one.
ScanPast(list, item, other, left, at, scan) ==
  CASE PlaceAfter(list, other.left) > left -> scan
    [] item.right # other.right /\ PlaceBefore(list, other.right) < PlaceBefore(list, item.right) ->
         IF scan = {} THEN {at} ELSE scan
    [] OTHER -> {}

RECURSIVE ScanOn(_, _, _, _, _)
ScanOn(list, item, left, at, scan) ==
  IF \/ at = Len(list.items)
     \/ list.items[at + 1].lv = item.right
     \/ StopsAt(list, item, list.items[at + 1], left)
  THEN IF scan = {} THEN at ELSE CHOOSE x \in scan : TRUE
  ELSE ScanOn(list, item, left, at + 1, ScanPast(list, item, list.items[at + 1], left, at, scan))

IsLive(e) == ~ e.deleted

\* unsafe_count_content_pos()
CountLive(list, at) == Len(SelectSeq(SubSeq(list.items, 1, at), IsLive))

Put(s, at, new) == SubSeq(s, 1, at) \o new \o SubSeq(s, at + 1, Len(s))

Items(item, len) ==
  [i \in 1 .. len |-> [item EXCEPT !.lv = @ + i - 1, !.left = IF i = 1 THEN @ ELSE item.lv + i - 2]]

IntegrateAt(list, item, len, chars, at) ==
  [list EXCEPT !.items = Put(@, at, Items(item, len)), !.text = Put(@, CountLive(list, at), chars)]

Integrate(list, item, len, chars) ==
  LET left == PlaceAfter(list, item.left)
  IN  IntegrateAt(Must(list, left <= PlaceBefore(list, item.right)), item, len, chars,
                  ScanOn(list, item, left, left, {}))

-----------------------------------------------------------------------------
(* internal_mark_deleted() and increment_delete_range(), of one item.      *)

MarkDeleted(list, lv, target, i) ==
  LET marked == [list EXCEPT !.deletes = @ @@ (lv :> target)]
      pos    == CountLive(list, i - 1)
  IN  IF list.items[i].deleted
      THEN [marked EXCEPT !.twice = (target :> (1 + IF target \in DOMAIN @ THEN @[target] ELSE 0)) @@ @]
      ELSE [marked EXCEPT !.items[i].deleted = TRUE, !.text = RemoveAt(@, pos + 1)]

-----------------------------------------------------------------------------
(* insert_txn_full() and insert_txn_internal()                             *)

LastTime(txn) == txn.time + txn.len - 1

TxnIndex(txns, lv) == CHOOSE i \in DOMAIN txns : txns[i].time <= lv /\ lv <= LastTime(txns[i])

\* Down through the txns whose last version is a parent.
RECURSIVE ShadowFrom(_, _, _)
ShadowFrom(txns, parents, s) ==
  IF s >= 1 /\ s - 1 \in parents THEN ShadowFrom(txns, parents, txns[TxnIndex(txns, s - 1)].shadow) ELSE s

OrRoot(s) == IF s = 0 THEN Root ELSE s

WithChildren(txns, indexes) ==
  [i \in DOMAIN txns |-> IF i \in indexes THEN [txns[i] EXCEPT !.children = @ \cup {Len(txns) + 1}] ELSE txns[i]]

PushTxn(txns, parents, start, len, indexes) ==
  IF txns # <<>> /\ parents = {LastTime(Last(txns))}
  THEN [txns EXCEPT ![Len(txns)].len = @ + len]
  ELSE Append(WithChildren(txns, indexes),
              [time |-> start, len |-> len, shadow |-> OrRoot(ShadowFrom(txns, parents, start)),
               parents |-> parents, pidx |-> indexes, children |-> {}])

InsertTxn(list, parents, start, len) ==
  [list EXCEPT !.frontier = (@ \ parents) \cup {start + len - 1},
               !.txns = PushTxn(@, parents, start, len, {TxnIndex(@, p) : p \in parents \ {Root}})]

-----------------------------------------------------------------------------
(* apply_remote_txn().  A txn is a run of one agent: its first id, the ids *)
(* of its parents, operations, and the characters of the insertions whose  *)
(* content is known; "x" stands for the others'.                           *)

RemoteIns(left, right, len, known) == [kind |-> "Ins", left |-> left, right |-> right, len |-> len, known |-> known]
RemoteDel(id, len) == [kind |-> "Del", id |-> id, len |-> len]

NewItem(list, op, lv) ==
  [lv |-> lv, left |-> OrderOf(list, op.left), right |-> OrderOf(list, op.right), deleted |-> FALSE]

ApplyRemoteIns(st, op) ==
  [list |-> Integrate(st.list, NewItem(st.list, op, st.lv), op.len,
                      IF op.known THEN SubSeq(st.chars, 1, op.len) ELSE [i \in 1 .. op.len |-> "x"]),
   lv |-> st.lv + op.len,
   chars |-> IF op.known THEN SubSeq(st.chars, op.len + 1, Len(st.chars)) ELSE st.chars]

DeleteNext(st, id) ==
  LET target == OrderOf(st.list, id)
  IN  [st EXCEPT !.list = MarkDeleted(@, st.lv, target, PlaceOf(@, target)), !.lv = @ + 1]

ApplyRemoteDel(st, op) ==
  FoldLeft(DeleteNext, st, [i \in 1 .. op.len |-> <<op.id[1], op.id[2] + i - 1>>])

TxnLen(txn) == FoldLeft(LAMBDA n, op : n + op.len, 0, txn.ops)

TxnIds(txn) == [i \in 1 .. TxnLen(txn) |-> <<txn.id[1], txn.id[2] + i - 1>>]

ApplyRemoteTxn(list, txn) ==
  LET first == NextLV(list)
      named == [Must(list, ~ Known(list, txn.id)) EXCEPT !.ids = @ \o TxnIds(txn)]
      done  == FoldLeft(LAMBDA st, op : IF op.kind = "Ins" THEN ApplyRemoteIns(st, op) ELSE ApplyRemoteDel(st, op),
                        [list |-> named, lv |-> first, chars |-> txn.chars], txn.ops)
  IN  InsertTxn(Must(done.list, done.chars = <<>>), OrdersOf(done.list, txn.parents), first, TxnLen(txn))

ApplyTxns(list, txns) == FoldLeft(ApplyRemoteTxn, list, txns)

-----------------------------------------------------------------------------
(* get_vector_clock(), get_time_spans_since(): what a list misses, by the  *)
(* number each agent has come to.  An agent's versions go out in the order *)
(* of its numbers, and of all agents' next ones the lowest is first.       *)

Names(list) == {id[1] : id \in ToSet(list.ids)}

SeqsOfAgent(list, name) == {id[2] : id \in {x \in ToSet(list.ids) : x[1] = name}}

ClockOf(list, name) ==
  LET seqs == SeqsOfAgent(list, name)
  IN  IF seqs = {} THEN 0 ELSE 1 + CHOOSE s \in seqs : \A t \in seqs : t <= s

QueueOf(list, name, from) ==
  LET seqs == SetToSortSeq({s \in SeqsOfAgent(list, name) : s >= from}, <)
  IN  [i \in DOMAIN seqs |-> OrderOf(list, <<name, seqs[i]>>)]

RECURSIVE MergeQueues(_)
MergeQueues(queues) ==
  IF queues = {} THEN <<>>
  ELSE LET q == CHOOSE p \in queues : \A r \in queues : p[1] <= r[1]
       IN  <<q[1]>> \o MergeQueues((queues \ {q}) \cup (IF Len(q) = 1 THEN {} ELSE {Tail(q)}))

TimesSince(list, other) ==
  MergeQueues({QueueOf(list, n, ClockOf(other, n)) : n \in Names(list)} \ {<<>>})

-----------------------------------------------------------------------------
(* next_remote_id_span(), next_remote_txn_from_order()                     *)

\* A run to send is of one agent and one txn.
SameRun(list, v, w) ==
  /\ w = v + 1
  /\ TxnIndex(list.txns, v) = TxnIndex(list.txns, w)
  /\ IdOf(list, w) = <<IdOf(list, v)[1], IdOf(list, v)[2] + 1>>

RunsOfTimes(list, times) ==
  FoldLeft(LAMBDA runs, v : IF runs # <<>> /\ SameRun(list, Last(Last(runs)), v)
                            THEN [runs EXCEPT ![Len(runs)] = Append(@, v)]
                            ELSE Append(runs, <<v>>),
           <<>>, times)

\* remote_parents_at_txn()
RemoteParents(list, lv) ==
  LET txn == list.txns[TxnIndex(list.txns, lv)]
  IN  IF lv > txn.time THEN {IdOf(list, lv - 1)} ELSE {IdOf(list, p) : p \in txn.parents}

\* The operation of one version.  The content of what is deleted is not sent.
RemoteOpAt(list, lv) ==
  IF lv \in DOMAIN list.deletes THEN RemoteDel(IdOf(list, list.deletes[lv]), 1)
  ELSE LET e == list.items[PlaceOf(list, lv)]
       IN  RemoteIns(IdOf(list, e.left), IdOf(list, e.right), 1, ~ e.deleted)

CharsAt(list, lv) ==
  IF lv \in DOMAIN list.deletes \/ list.items[PlaceOf(list, lv)].deleted THEN <<>>
  ELSE <<list.text[CountLive(list, PlaceOf(list, lv))]>>

\* RemoteCRDTOp::can_append(): id is of the next operation.
RemoteAppends(a, b, id) ==
  /\ a.kind = b.kind
  /\ IF a.kind = "Ins"
     THEN a.right = b.right /\ a.known = b.known /\ b.left = <<id[1], id[2] - 1>>
     ELSE b.id = <<a.id[1], a.id[2] + a.len>>

PushRemoteOp(ops, op, id) ==
  IF ops # <<>> /\ RemoteAppends(Last(ops), op, id)
  THEN [ops EXCEPT ![Len(ops)].len = @ + op.len]
  ELSE Append(ops, op)

TxnOfRun(list, run) ==
  [id      |-> IdOf(list, run[1]),
   parents |-> RemoteParents(list, run[1]),
   ops     |-> FoldLeft(LAMBDA ops, v : PushRemoteOp(ops, RemoteOpAt(list, v), IdOf(list, v)), <<>>, run),
   chars   |-> FlattenSeq([i \in DOMAIN run |-> CharsAt(list, run[i])])]

TxnsSince(list, other) ==
  LET runs == RunsOfTimes(list, TimesSince(list, other)) IN [i \in DOMAIN runs |-> TxnOfRun(list, runs[i])]

ReplicateInto(list, other) == ApplyTxns(other, TxnsSince(list, other))

-----------------------------------------------------------------------------
(* PartialEq for ListCRDT: frontiers, items, the parents of txns, texts.   *)

SameItem(a, b, e, f) ==
  /\ e.deleted = f.deleted
  /\ \A field \in {"lv", "left", "right"} : IdOf(a, e[field]) = IdOf(b, f[field])

ListsEqual(a, b) ==
  /\ {IdOf(a, v) : v \in a.frontier} = {IdOf(b, v) : v \in b.frontier}
  /\ Len(a.items) = Len(b.items)
  /\ \A i \in DOMAIN a.items : SameItem(a, b, a.items[i], b.items[i])
  /\ \A i \in DOMAIN a.txns :
       LET id == IdOf(a, a.txns[i].time)
       IN  Known(b, id) /\ RemoteParents(a, a.txns[i].time) = RemoteParents(b, OrderOf(b, id))
  /\ a.text = b.text

-----------------------------------------------------------------------------
(* check(): what a list asserts of itself.                                 *)

OriginsChecked(list) ==
  \A i \in DOMAIN list.items :
    LET e == list.items[i]
    IN  /\ \A origin \in {e.left, e.right} : origin = Root \/ origin < e.lv
        /\ PlaceAfter(list, e.left) <= i - 1
        /\ i - 1 < PlaceBefore(list, e.right)

ExpectShadow(txns, txn) ==
  IF txn.parents \subseteq {Root} THEN OrRoot(txn.time)
  ELSE FoldLeft(LAMBDA s, p : IF p + 1 = s THEN txns[TxnIndex(txns, p)].shadow ELSE s,
                txn.time, SetToSortSeq(txn.parents, >))

TxnsChecked(list) ==
  \A i \in DOMAIN list.txns :
    LET txn == list.txns[i]
    IN  /\ txn.len > 0
        /\ txn.shadow = ExpectShadow(list.txns, txn)
        /\ txn.pidx = {TxnIndex(list.txns, p) : p \in txn.parents \ {Root}}
        /\ \A p \in txn.pidx : i \in list.txns[p].children
        /\ \A c \in txn.children : \E p \in list.txns[c].parents : txn.time <= p /\ p <= LastTime(txn)

ListChecks(list) ==
  /\ list.ok
  /\ Len(list.text) = CountLive(list, Len(list.items))
  /\ OriginsChecked(list)
  /\ TxnsChecked(list)
=============================================================================
