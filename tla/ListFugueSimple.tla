--------------------------- MODULE ListFugueSimple ---------------------------
(***************************************************************************)
(* The list CRDT that eg-walker-reference/test/list-fugue-simple.ts ports, *)
(* and whose order of concurrent insertions the walker has to reproduce.   *)
(* It keeps every element for ever and integrates each once, where the     *)
(* walker rebuilds the elements it needs at each merge.                    *)
(*                                                                         *)
(* A list is a record: "list", the linked list between its two ends;       *)
(* "elem", elementsByID; "msgs", msgsInCausalOrder; and "ok", false once an*)
(* unknown id or index threw.  The cached _length is the number of         *)
(* elements that are not deleted.                                          *)
(***************************************************************************)
EXTENDS Integers, Sequences

LOCAL INSTANCE SequencesExt

\* Ids are <<sender, counter>>; the ends have a sender no replica has.
Start == <<-1, 0>>
End   == <<-1, 1>>

InsertMsg(id, value, lo, ro) ==
  [type |-> "insert", id |-> id, value |-> value, leftOrigin |-> lo, rightOrigin |-> ro]
DeleteMsg(id) == [type |-> "delete", id |-> id]

NewList == [list |-> <<>>, elem |-> [id \in {} |-> {}], msgs |-> <<>>, ok |-> TRUE]

Fails(f) == [f EXCEPT !.ok = FALSE]

\* Places in the linked list, Start at 0.
Place(f, id) ==
  CASE id = Start -> 0
    [] id = End   -> Len(f.list) + 1
    [] OTHER      -> CHOOSE i \in DOMAIN f.list : f.list[i] = id

LessThan(f, a, b) == Place(f, a) < Place(f, b)

IdLess(a, b) == a[1] < b[1] \/ (a[1] = b[1] /\ a[2] < b[2])

RightParent(f, lo, ro) ==
  IF ro = End \/ f.elem[ro].leftOrigin # lo THEN End ELSE ro

\* The place a new element goes behind.
ComputeLeft(f, id, lo, ro) ==
  LET parent == RightParent(f, lo, ro)
      stop   == Place(f, ro)
      scan[o \in Nat, left \in Nat, scanning \in BOOLEAN] ==
        IF o = stop
        THEN left
        ELSE LET e       == f.elem[f.list[o]]
                 same    == e.leftOrigin = lo
                 oParent == RightParent(f, e.leftOrigin, e.rightOrigin)
                 next    == IF same THEN LessThan(f, oParent, parent) ELSE scanning
             IN  IF \/ LessThan(f, e.leftOrigin, lo)
                    \/ same /\ oParent = parent /\ IdLess(id, f.list[o])
                 THEN left
                 ELSE scan[o + 1, IF next THEN left ELSE o, next]
  IN  scan[Place(f, lo) + 1, Place(f, lo), FALSE]

HasID(f, id) == id \in DOMAIN f.elem

ReceiveInsert(f, msg) ==
  CASE HasID(f, msg.id) -> f
    [] ~ {msg.leftOrigin, msg.rightOrigin} \subseteq DOMAIN f.elem \cup {Start, End} -> Fails(f)
    [] OTHER ->
         LET left == ComputeLeft(f, msg.id, msg.leftOrigin, msg.rightOrigin)
             new  == [value |-> msg.value, isDeleted |-> FALSE,
                      leftOrigin |-> msg.leftOrigin, rightOrigin |-> msg.rightOrigin]
         IN  [f EXCEPT !.list = InsertAt(@, left + 1, msg.id),
                       !.elem = [id \in DOMAIN @ \cup {msg.id} |-> IF id = msg.id THEN new ELSE @[id]],
                       !.msgs = Append(@, msg)]

ReceiveDelete(f, msg) ==
  CASE ~ HasID(f, msg.id)       -> Fails(f)
    [] f.elem[msg.id].isDeleted -> f
    [] OTHER -> [f EXCEPT !.elem[msg.id].isDeleted = TRUE, !.msgs = Append(@, msg)]

ReceivePrimitive(f, msg) ==
  CASE ~ f.ok               -> f
    [] msg.type = "insert" -> ReceiveInsert(f, msg)
    [] msg.type = "delete" -> ReceiveDelete(f, msg)

\* The elements that are not deleted, and their values.
VisibleIds(f) == SelectSeq(f.list, LAMBDA id : ~ f.elem[id].isDeleted)
ToArray(f) == [i \in DOMAIN VisibleIds(f) |-> f.elem[VisibleIds(f)[i]].value]

InsertOneWithReplica(f, id, index, value) ==
  IF index > Len(VisibleIds(f))
  THEN Fails(f)
  ELSE LET lo == IF index = 0 THEN Start ELSE VisibleIds(f)[index]
           at == Place(f, lo) + 1
           ro == IF at > Len(f.list) THEN End ELSE f.list[at]
       IN  ReceivePrimitive(f, InsertMsg(id, value, lo, ro))

DeleteOne(f, index) ==
  IF index >= Len(VisibleIds(f))
  THEN Fails(f)
  ELSE ReceivePrimitive(f, DeleteMsg(VisibleIds(f)[index + 1]))

\* delete(): each deletion moves what follows to the same index.
Delete(f, index, count) ==
  FoldLeft(LAMBDA g, i : DeleteOne(g, index), f, [i \in 1 .. count |-> i])

MergeFrom(f, other) == FoldLeft(ReceivePrimitive, f, other.msgs)
=============================================================================
