----------------------------- MODULE WalkerProofs -----------------------------
(***************************************************************************)
(* The walk of a merge keeps its items at the version it is at, whatever   *)
(* log was written, whichever two versions are merged, and between any two *)
(* of its steps.                                                           *)
(*                                                                         *)
(* The state of an item is a count that steps raise and lower.  That it is *)
(* right is not inductive: a retreat lowers it whoever raised it.  The     *)
(* invariant says at which events the items stand: within a part, those of *)
(* the version the walk comes from, less the retreats made, and with the   *)
(* advances and the operations applied.  They are always closed under what *)
(* comes before an event, because the steps left are in an order: so an    *)
(* event that is left is one that nothing in force has seen, and it counts *)
(* for exactly one item.  That every event is applied once, and where it   *)
(* was written, is what diff() and findConflicting() promise of the parts  *)
(* that are left.                                                          *)
(***************************************************************************)
EXTENDS Walker, CausalFacts

-----------------------------------------------------------------------------
(* The items.                                                              *)

\* The fields of an item; a state counts deletions from below zero up.
ItemType == [curState : Int, endState : Int, originLeft : Int, rightParent : Int]

\* What the code's records hold; the document may be anything.
IsWalk(x) ==
  /\ x = [items |-> x.items, item |-> x.item, delTargets |-> x.delTargets,
          curVersion |-> x.curVersion, doc |-> x.doc, writes |-> x.writes, ok |-> x.ok]
  /\ x.items \in Seq(Nat)
  /\ x.item \in [DOMAIN x.item -> ItemType] /\ DOMAIN x.item \subseteq Nat
  /\ x.delTargets \in [DOMAIN x.delTargets -> Nat]

\* The operation of a version is a deletion.
IsDel(log, v) == OpAt(log, v).type = "del"

\* What the walk knows of a deletion: its item was there for it to delete.
TargetFits(log, x, d) ==
  LET t == x.delTargets[d]
  IN  /\ d \in Versions(log.cg) /\ IsDel(log, d)
      /\ t \in DOMAIN x.item /\ x.item[t].endState >= Deleted
      /\ t >= NextLV(log.cg) \/ t \in Histories(log.cg)[d]

\* The deletions the walk knows to be about an item.
Deletes(x, t) == {d \in DOMAIN x.delTargets : x.delTargets[d] = t}

\* The state of an item when the events of act are in force.
StateAt(log, x, act, t) ==
  IF t >= NextLV(log.cg) \/ t \in act THEN Cardinality(Deletes(x, t) \cap act) ELSE NotYetInserted

\* What the walk keeps, whatever version it is at.
Stored(log, x) ==
  /\ IsWalk(x)
  /\ \A i \in DOMAIN x.items : x.items[i] \in DOMAIN x.item
  /\ \A v \in DOMAIN x.item : v < NextLV(log.cg) => ~ IsDel(log, v)
  /\ \A d \in DOMAIN x.delTargets : TargetFits(log, x, d)

\* The items of the walk stand at the events of act.
StandsAt(log, x, act) ==
  /\ Stored(log, x)
  /\ \A t \in DOMAIN x.item : x.item[t].curState = StateAt(log, x, act, t)

\* The operations the walk has applied.
Walked(log, x) == {v \in DOMAIN x.item : v < NextLV(log.cg)} \cup DOMAIN x.delTargets

-----------------------------------------------------------------------------
(* The parts.                                                              *)

\* What is walked before a part.
Earlier(parts, i) == UNION {Extent(parts[j].part) : j \in 1 .. (i - 1)}

\* A part is written on nothing but the common version and what is walked before
\* it, and nothing is walked twice.
TodoFits(g, past, walked, parts) ==
  \A i \in DOMAIN parts :
    LET p == parts[i].part
        E == EventsOf(Histories(g), p.parents)
    IN  /\ PartFits(g, p)
        /\ past \subseteq E /\ E \subseteq past \cup walked \cup Earlier(parts, i)
        /\ Extent(p) \cap Earlier(parts, i) = {}

-----------------------------------------------------------------------------
(* The steps of a part.                                                    *)

\* The steps of a part are of three kinds, in this order.
Kinds == {"retreat", "advance", "apply"}
Rank == [k \in Kinds |-> CASE k = "retreat" -> 0 [] k = "advance" -> 1 [] k = "apply" -> 2]

\* Retreats go down, the other two kinds up.
Precedes(s, t) ==
  \/ Rank[s[1]] < Rank[t[1]]
  \/ s[1] = t[1] /\ IF s[1] = "retreat" THEN t[2] < s[2] ELSE s[2] < t[2]

\* The versions the list has steps of one kind for.
Of(list, kind) == {list[i][2] : i \in {j \in DOMAIN list : list[j][1] = kind}}

\* The steps that are left on the way from the events C to E and on over X.
StepsFit(list, C, E, X) ==
  /\ list \in Seq(Kinds \X Nat)
  /\ \A i, j \in DOMAIN list : i < j => Precedes(list[i], list[j])
  /\ Of(list, "retreat") \subseteq C \ E /\ Of(list, "advance") \subseteq E \ C /\ Of(list, "apply") \subseteq X
  /\ \A v \in (C \ E) \ Of(list, "retreat") : \A u \in Of(list, "retreat") : u < v
  /\ \A v \in (E \ C) \ Of(list, "advance") :
       Of(list, "retreat") = {} /\ \A u \in Of(list, "advance") : v < u
  /\ \A v \in X \ Of(list, "apply") :
       Of(list, "retreat") = {} /\ Of(list, "advance") = {} /\ \A u \in Of(list, "apply") : v < u

\* The events in force on the way: what E and X have, but for the steps left.
ForceOf(list, E, X) == ((E \cup X) \ (Of(list, "advance") \cup Of(list, "apply"))) \cup Of(list, "retreat")

-----------------------------------------------------------------------------
(* The invariant.                                                          *)

\* The events the items are to stand at: those of the current version, or, within
\* a part, what the steps made so far have made of them.
InForce(log, x, parts, list) ==
  LET h == Histories(log.cg)
  IN  IF list = <<>>
      THEN EventsOf(h, x.curVersion)
      ELSE ForceOf(list, EventsOf(h, parts[1].part.parents), Extent(parts[1].part))

\* What is walked of the part p is what its steps have applied.
OnTheWay(log, x, p, list) ==
  LET h == Histories(log.cg)
  IN  /\ StepsFit(list, EventsOf(h, x.curVersion), EventsOf(h, p.parents), Extent(p))
      /\ Of(list, "apply") \cap Walked(log, x) = {}
      /\ Extent(p) \subseteq Walked(log, x) \cup Of(list, "apply")

\* The parts from one on are not walked.
Ahead(log, x, parts, first) ==
  \A i \in DOMAIN parts : first <= i => Extent(parts[i].part) \cap Walked(log, x) = {}

\* The walk is at a version that has the common version, and has walked all else.
Arrived(log, x, past) ==
  LET here == EventsOf(Histories(log.cg), x.curVersion)
  IN  /\ x.curVersion \subseteq Versions(log.cg)
      /\ past \subseteq here /\ here \subseteq past \cup Walked(log, x)

\* What a walk that is going on has: where it came from (past), where its items
\* stand, and that all that is left of it can be walked in order, once.
WalkFits(log, x, parts, list, past) ==
  /\ Arrived(log, x, past)
  /\ StandsAt(log, x, InForce(log, x, parts, list))
  /\ parts \in Seq([part : Part, writes : BOOLEAN])
  /\ TodoFits(log.cg, past, Walked(log, x), parts)
  /\ IF list = <<>>
     THEN Ahead(log, x, parts, 1)
     ELSE parts # <<>> /\ OnTheWay(log, x, parts[1].part, list) /\ Ahead(log, x, parts, 2)

\* The graph of the log is sound, and parents are frontiers.
GraphFits == IdInv(oplog.cg) /\ ParentFrontiers(oplog.cg)

\* No merge has begun.
Idle == w = NewWalk({}, <<>>, FALSE) /\ todo = <<>> /\ steps = <<>>

\* The inductive invariant.
IInv ==
  /\ GraphFits
  /\ from = <<>> => Idle
  /\ w.ok => \E past \in SUBSET Versions(oplog.cg) : WalkFits(oplog, w, todo, steps, past)

-----------------------------------------------------------------------------
(* What one step does to the walk.                                         *)

\* A shift moves the state of one item.
Shifted(x, y, t, by) ==
  /\ IsWalk(y)
  /\ y.items = x.items /\ y.delTargets = x.delTargets /\ DOMAIN y.item = DOMAIN x.item
  /\ y.curVersion = x.curVersion /\ y.ok = x.ok
  /\ \A u \in DOMAIN x.item :
       /\ y.item[u].curState = IF u = t THEN x.item[u].curState + by ELSE x.item[u].curState
       /\ y.item[u].endState = x.item[u].endState

\* Shift changes the state of its one target, and no more.
LEMMA ShiftShifts ==
  ASSUME NEW x, IsWalk(x), NEW log, NEW v, NEW t \in DOMAIN x.item, Targets(x, log, v) = {t}, NEW by \in Int
  PROVE  Shifted(x, Shift(x, log, v, by), t, by)
<1> DEFINE it == [x.item[t] EXCEPT !.curState = @ + by]
           y  == Shift(x, log, v, by)
<1>1. (CHOOSE u \in Targets(x, log, v) : TRUE) = t
  OBVIOUS
<1>2. y = [x EXCEPT !.item[t].curState = @ + by]
  BY <1>1 DEF Shift
<1>3. x = [items |-> x.items, item |-> x.item, delTargets |-> x.delTargets,
          curVersion |-> x.curVersion, doc |-> x.doc, writes |-> x.writes, ok |-> x.ok]
  BY DEF IsWalk
<1> DEFINE item == [x.item EXCEPT ![t] = it]
<1>4. y = [items |-> x.items, item |-> item, delTargets |-> x.delTargets,
           curVersion |-> x.curVersion, doc |-> x.doc, writes |-> x.writes, ok |-> x.ok]
  BY <1>2, <1>3
<1>5. x.item[t] \in ItemType /\ x.item \in [DOMAIN x.item -> ItemType]
  BY DEF IsWalk
<1>6. it \in ItemType /\ it.curState = x.item[t].curState + by /\ it.endState = x.item[t].endState
  BY <1>5 DEF ItemType
<1> HIDE DEF it
<1>7. item \in [DOMAIN x.item -> ItemType] /\ DOMAIN item = DOMAIN x.item
      /\ \A u \in DOMAIN x.item : item[u] = IF u = t THEN it ELSE x.item[u]
  BY <1>5, <1>6
<1> HIDE DEF item, y
<1>8. IsWalk(y)
  BY <1>4, <1>7 DEF IsWalk
<1> QED
  BY <1>4, <1>6, <1>7, <1>8 DEF Shifted, y

\* A deletion that is applied marks one item, and is kept with it.
Removed(x, y, t, v) ==
  /\ IsWalk(y)
  /\ y.items = x.items /\ y.delTargets = Put(x.delTargets, v, t) /\ DOMAIN y.item = DOMAIN x.item
  /\ y.curVersion = x.curVersion /\ y.ok = x.ok
  /\ \A u \in DOMAIN x.item :
       /\ y.item[u].curState = IF u = t THEN Deleted ELSE x.item[u].curState
       /\ y.item[u].endState = IF u = t THEN Deleted ELSE x.item[u].endState

\* DeleteItem marks the item as deleted, and knows who deleted it.
LEMMA DeleteRemoves ==
  ASSUME NEW x, IsWalk(x), NEW v \in Nat, NEW at, NEW t \in DOMAIN x.item
  PROVE  Removed(x, DeleteItem(x, v, at, t), t, v)
<1> DEFINE it   == [x.item[t] EXCEPT !.curState = Deleted, !.endState = Deleted]
           item == [x.item EXCEPT ![t] = it]
           y    == DeleteItem(x, v, at, t)
<1>1. x = [items |-> x.items, item |-> x.item, delTargets |-> x.delTargets,
          curVersion |-> x.curVersion, doc |-> x.doc, writes |-> x.writes, ok |-> x.ok]
  BY DEF IsWalk
<1>2. x.item \in [DOMAIN x.item -> ItemType] /\ x.item[t] \in ItemType /\ t \in Nat
      /\ x.delTargets \in [DOMAIN x.delTargets -> Nat]
  BY DEF IsWalk
<1>3. it \in ItemType /\ it.curState = Deleted /\ it.endState = Deleted
  <2>1. x.item[t] = [curState |-> x.item[t].curState, endState |-> x.item[t].endState,
                     originLeft |-> x.item[t].originLeft, rightParent |-> x.item[t].rightParent]
        /\ x.item[t].originLeft \in Int /\ x.item[t].rightParent \in Int
    BY <1>2 DEF ItemType
  <2> DEFINE old == x.item[t]
             one == [old EXCEPT !.curState = Deleted]
  <2> HIDE DEF old
  <2>3. old = [curState |-> old.curState, endState |-> old.endState,
               originLeft |-> old.originLeft, rightParent |-> old.rightParent]
    BY <2>1 DEF old
  <2>4. one = [curState |-> Deleted, endState |-> old.endState,
               originLeft |-> old.originLeft, rightParent |-> old.rightParent]
    BY <2>3
  <2> HIDE DEF one
  <2>5. it = [one EXCEPT !.endState = Deleted]
    BY DEF one, old
  <2> HIDE DEF it
  <2>2. it = [curState |-> Deleted, endState |-> Deleted,
              originLeft |-> x.item[t].originLeft, rightParent |-> x.item[t].rightParent]
    BY <2>4, <2>5 DEF old
  <2> QED
    BY <2>1, <2>2 DEF ItemType, Deleted
<1> DEFINE doc == DeleteItem(x, v, at, t).doc
<1>4. y = [items |-> x.items, item |-> item, delTargets |-> Put(x.delTargets, v, t),
           curVersion |-> x.curVersion, doc |-> doc, writes |-> x.writes, ok |-> x.ok]
  <2> HIDE DEF it
  <2>1. y = [x EXCEPT !.item = item, !.delTargets = Put(x.delTargets, v, t), !.doc = doc]
    BY <1>1 DEF DeleteItem, it
  <2> HIDE DEF doc
  <2> HIDE DEF y, item
  <2> QED
    BY <1>1, <2>1
<1> HIDE DEF doc
<1> HIDE DEF it
<1>5. item \in [DOMAIN x.item -> ItemType] /\ DOMAIN item = DOMAIN x.item
      /\ \A u \in DOMAIN x.item : item[u] = IF u = t THEN it ELSE x.item[u]
  BY <1>2, <1>3
<1>6. Put(x.delTargets, v, t) \in [DOMAIN Put(x.delTargets, v, t) -> Nat]
  BY <1>2 DEF Put
<1> HIDE DEF item, y
<1>7. IsWalk(y)
  BY <1>4, <1>5, <1>6 DEF IsWalk
<1> QED
  BY <1>3, <1>4, <1>5, <1>7 DEF Removed, y

\* An insertion that is applied is a new item.
Placed(x, y, v, new) ==
  /\ IsWalk(y)
  /\ \A i \in DOMAIN y.items : y.items[i] = v \/ \E j \in DOMAIN x.items : y.items[i] = x.items[j]
  /\ y.item = Put(x.item, v, new) /\ y.delTargets = x.delTargets
  /\ y.curVersion = x.curVersion /\ y.ok = x.ok

\* InsertItem gives the operation an item of its own.
LEMMA InsertPlaces ==
  ASSUME NEW x, IsWalk(x), NEW v \in Nat, NEW new \in ItemType, NEW place \in 0 .. Len(x.items), NEW content
  PROVE  Placed(x, InsertItem(x, v, new, place, content), v, new)
<1> DEFINE y     == InsertItem(x, v, new, place, content)
           items == Splice(x.items, place, v)
           n     == Len(x.items)
<1>1. x = [items |-> x.items, item |-> x.item, delTargets |-> x.delTargets,
          curVersion |-> x.curVersion, doc |-> x.doc, writes |-> x.writes, ok |-> x.ok]
  BY DEF IsWalk
<1>2. /\ x.item \in [DOMAIN x.item -> ItemType] /\ DOMAIN x.item \subseteq Nat /\ x.items \in Seq(Nat)
      /\ x.delTargets \in [DOMAIN x.delTargets -> Nat] /\ n \in Nat /\ DOMAIN x.items = 1 .. n
  BY DEF IsWalk
<1> DEFINE doc == IF x.writes THEN Splice(x.doc, EndPos(x, place), content) ELSE x.doc
<1>3. y = [items |-> items, item |-> Put(x.item, v, new), delTargets |-> x.delTargets,
           curVersion |-> x.curVersion, doc |-> doc, writes |-> x.writes, ok |-> x.ok]
  <2> HIDE DEF doc, items
  <2>1. y = [x EXCEPT !.items = items, !.item = Put(x.item, v, new), !.doc = doc]
    BY DEF InsertItem, doc, items
  <2> HIDE DEF y
  <2> QED
    BY <1>1, <2>1
<1> HIDE DEF doc
<1>4. Put(x.item, v, new) \in [DOMAIN Put(x.item, v, new) -> ItemType]
      /\ DOMAIN Put(x.item, v, new) \subseteq Nat
  BY <1>2 DEF Put
<1>5. /\ items \in Seq(Nat)
      /\ Len(items) = n + 1
      /\ \A i \in 1 .. place : items[i] = x.items[i]
      /\ items[place + 1] = v
      /\ \A i \in (place + 2) .. (n + 1) : items[i] = x.items[i - 1]
  <2> DEFINE old == x.items
             LVs == Nat
  <2>1. old \in Seq(LVs) /\ v \in LVs /\ place \in 0 .. Len(old)
    BY <1>2
  <2> HIDE DEF old, LVs
  <2>2. Splice(old, place, v) \in Seq(LVs) /\ Len(Splice(old, place, v)) = Len(old) + 1
    BY <2>1, SpliceProperties
  <2>3. \A i \in 1 .. place : Splice(old, place, v)[i] = old[i]
    BY <2>1, SpliceProperties
  <2>4. Splice(old, place, v)[place + 1] = v
    BY <2>1, SpliceProperties
  <2>5. \A i \in (place + 2) .. (Len(old) + 1) : Splice(old, place, v)[i] = old[i - 1]
    BY <2>1, SpliceProperties
  <2> QED
    BY <2>2, <2>3, <2>4, <2>5 DEF old, LVs
<1> HIDE DEF items, n
<1>6. \A i \in DOMAIN items : items[i] = v \/ \E j \in DOMAIN x.items : items[i] = x.items[j]
  <2> SUFFICES ASSUME NEW i \in 1 .. (n + 1) PROVE items[i] = v \/ \E j \in 1 .. n : items[i] = x.items[j]
    <3>1. DOMAIN items = 1 .. (n + 1)
      BY <1>5
    <3> QED
      BY <1>2, <3>1
  <2>1. CASE i <= place
    <3>1. i \in 1 .. place /\ i \in 1 .. n
      BY <1>2, <2>1
    <3> QED
      BY <1>5, <3>1
  <2>2. CASE i = place + 1
    BY <1>5, <2>2
  <2>3. CASE i > place + 1
    <3>1. i \in (place + 2) .. (n + 1) /\ i - 1 \in 1 .. n
      BY <1>2, <2>3
    <3> QED
      BY <1>5, <3>1
  <2> QED
    BY <1>2, <2>1, <2>2, <2>3
<1> HIDE DEF y
<1>7. IsWalk(y)
  BY <1>2, <1>3, <1>4, <1>5 DEF IsWalk
<1> QED
  BY <1>3, <1>6, <1>7 DEF Placed, y

-----------------------------------------------------------------------------
(* Moving the walk keeps its items at the events in force.                 *)

\* Deletions are versions: there are finitely many.
LEMMA DeletesAreFinite ==
  ASSUME NEW log, GraphInv(log.cg), NEW x, Stored(log, x), NEW act, NEW t
  PROVE  IsFiniteSet(Deletes(x, t) \cap act) /\ Cardinality(Deletes(x, t) \cap act) \in Nat
<1>1. NextLV(log.cg) \in Nat
  BY NextLVType DEF GraphInv
<1>2. IsFiniteSet(0 .. (NextLV(log.cg) - 1))
  BY <1>1, FS_Interval
<1>3. Deletes(x, t) \cap act \subseteq 0 .. (NextLV(log.cg) - 1)
  BY DEF Stored, TargetFits, Deletes, Versions
<1> HIDE DEF Deletes
<1> QED
  BY <1>2, <1>3, FS_Subset, FS_CardinalityType

\* What an event that nothing in force has seen changes: the state of its own
\* item, by one.
Counts(log, x, act, v, t) ==
  /\ t \in DOMAIN x.item /\ Targets(x, log, v) = {t}
  /\ IF IsDel(log, v) THEN StateAt(log, x, act, t) >= Inserted /\ x.item[t].endState >= Deleted
                      ELSE StateAt(log, x, act, t) = NotYetInserted
  /\ \A u \in DOMAIN x.item :
       /\ StateAt(log, x, act, u) \in Int
       /\ StateAt(log, x, act \cup {v}, u) = StateAt(log, x, act, u) + (IF u = t THEN 1 ELSE 0)

\* So every state is a number.
LEMMA StatesAreNumbers ==
  ASSUME NEW log, GraphInv(log.cg), NEW x, Stored(log, x), NEW act, NEW t
  PROVE  StateAt(log, x, act, t) \in Int
BY DeletesAreFinite DEF StateAt, NotYetInserted

\* A deletion changes the state of the item it deleted, which everything that has
\* seen the deletion has seen.
LEMMA DeleteCounts ==
  ASSUME NEW log, GraphInv(log.cg), NEW x, Stored(log, x), NEW v \in DOMAIN x.delTargets,
         NEW act, v \notin act, Histories(log.cg)[v] \ {v} \subseteq act
  PROVE  Counts(log, x, act, v, x.delTargets[v])
<1> DEFINE t    == x.delTargets[v]
           h    == Histories(log.cg)
           n    == NextLV(log.cg)
<1>1. /\ v \in Versions(log.cg) /\ IsDel(log, v) /\ t \in DOMAIN x.item /\ x.item[t].endState >= Deleted
      /\ t >= n \/ t \in h[v]
  BY DEF Stored, TargetFits
<1>2. Targets(x, log, v) = {t}
  <2>1. DOMAIN x.delTargets \cap {v} = {v}
    OBVIOUS
  <2> QED
    BY <1>1, <2>1 DEF Targets, IsDel
<1>3. n \in Nat /\ v \in 0 .. (n - 1)
  BY <1>1, NextLVType DEF GraphInv, Versions
<1>4. \A u \in DOMAIN x.item : u # v
  BY <1>1, <1>3 DEF Stored
<1>5. t >= n \/ t \in act
  BY <1>1, <1>4
<1>6. \A u \in DOMAIN x.item : u \in act \cup {v} <=> u \in act
  BY <1>4
<1>7. \A u : u # t => Deletes(x, u) \cap (act \cup {v}) = Deletes(x, u) \cap act
  BY DEF Deletes
<1>8. v \in Deletes(x, t)
  BY DEF Deletes
<1>9. Cardinality(Deletes(x, t) \cap (act \cup {v})) = Cardinality(Deletes(x, t) \cap act) + 1
  <2> DEFINE K == Deletes(x, t) \cap act
  <2>1. IsFiniteSet(K) /\ Cardinality(K) \in Nat /\ v \notin K
    BY DeletesAreFinite
  <2>2. Deletes(x, t) \cap (act \cup {v}) = K \cup {v}
    BY <1>8
  <2> HIDE DEF K
  <2>3. Cardinality(K \cup {v}) = Cardinality(K) + 1
    BY <2>1, FS_AddElement
  <2> QED
    BY <2>2, <2>3 DEF K
<1>10. StateAt(log, x, act, t) = Cardinality(Deletes(x, t) \cap act)
       /\ StateAt(log, x, act \cup {v}, t) = Cardinality(Deletes(x, t) \cap (act \cup {v}))
  BY <1>5 DEF StateAt
<1>11. StateAt(log, x, act, t) >= Inserted
  BY <1>10, DeletesAreFinite DEF Inserted
<1>12. ASSUME NEW u \in DOMAIN x.item, u # t
       PROVE  StateAt(log, x, act \cup {v}, u) = StateAt(log, x, act, u)
  BY <1>6, <1>7, <1>12 DEF StateAt
<1>13. \A u \in DOMAIN x.item : StateAt(log, x, act, u) \in Int
  BY StatesAreNumbers
<1>14. Counts(log, x, act, v, t)
  <2> HIDE DEF t
  <2>1. \A u \in DOMAIN x.item :
          StateAt(log, x, act \cup {v}, u) = StateAt(log, x, act, u) + (IF u = t THEN 1 ELSE 0)
    <3> SUFFICES ASSUME NEW u \in DOMAIN x.item
                 PROVE  StateAt(log, x, act \cup {v}, u) = StateAt(log, x, act, u) + (IF u = t THEN 1 ELSE 0)
      OBVIOUS
    <3>1. CASE u = t
      BY <1>9, <1>10, <3>1
    <3>2. CASE u # t
      <4>1. StateAt(log, x, act \cup {v}, u) = StateAt(log, x, act, u)
        BY <1>12, <3>2
      <4>2. StateAt(log, x, act, u) \in Int
        BY <1>13
      <4> QED
        BY <3>2, <4>1, <4>2
    <3> QED
      BY <3>1, <3>2
  <2> QED
    BY <1>1, <1>2, <1>11, <1>13, <2>1 DEF Counts
<1> QED
  BY <1>14

\* An insertion changes the state of its own item, which nothing in force can have
\* deleted before it.
LEMMA InsertCounts ==
  ASSUME NEW log, GraphInv(log.cg), NEW x, Stored(log, x), NEW v \in DOMAIN x.item, v < NextLV(log.cg),
         NEW act, v \notin act, \A u \in act : v \notin Histories(log.cg)[u]
  PROVE  Counts(log, x, act, v, v)
<1> DEFINE h    == Histories(log.cg)
           n    == NextLV(log.cg)
<1>1. ~ IsDel(log, v) /\ Targets(x, log, v) = {v}
  BY DEF Stored, Targets, IsDel
<1>2. n \in Nat /\ v \in Nat
  BY NextLVType DEF GraphInv, Stored, IsWalk
<1>3. \A d \in Deletes(x, v) : d # v /\ v \in h[d]
  <2>1. \A d \in DOMAIN x.delTargets : TargetFits(log, x, d)
    BY DEF Stored
  <2>2. ASSUME NEW d \in Deletes(x, v) PROVE d # v /\ v \in h[d]
    <3>1. d \in DOMAIN x.delTargets /\ x.delTargets[d] = v
      BY DEF Deletes
    <3> QED
      BY <1>1, <1>2, <2>1, <3>1 DEF TargetFits
  <2> QED
    BY <2>2
<1>4. Deletes(x, v) \cap act = {} /\ Deletes(x, v) \cap (act \cup {v}) = {}
  BY <1>3
<1>5. StateAt(log, x, act, v) = NotYetInserted
  BY <1>2 DEF StateAt
<1>6. StateAt(log, x, act \cup {v}, v) = 0
  BY <1>4, FS_EmptySet DEF StateAt
<1>7. v \notin DOMAIN x.delTargets
  BY <1>1 DEF Stored, TargetFits
<1>8. ASSUME NEW u \in DOMAIN x.item, u # v
      PROVE  StateAt(log, x, act \cup {v}, u) = StateAt(log, x, act, u)
  <2>1. Deletes(x, u) \cap (act \cup {v}) = Deletes(x, u) \cap act
    BY <1>7 DEF Deletes
  <2> QED
    BY <1>8, <2>1 DEF StateAt
<1>9. \A u \in DOMAIN x.item : StateAt(log, x, act, u) \in Int
  BY StatesAreNumbers
<1>10. \A u \in DOMAIN x.item :
         StateAt(log, x, act \cup {v}, u) = StateAt(log, x, act, u) + (IF u = v THEN 1 ELSE 0)
  <2> SUFFICES ASSUME NEW u \in DOMAIN x.item
               PROVE  StateAt(log, x, act \cup {v}, u) = StateAt(log, x, act, u) + (IF u = v THEN 1 ELSE 0)
    OBVIOUS
  <2>1. CASE u = v
    BY <1>5, <1>6, <2>1 DEF NotYetInserted
  <2>2. CASE u # v
    BY <1>8, <1>9, <2>2
  <2> QED
    BY <2>1, <2>2
<1> QED
  BY <1>1, <1>5, <1>9, <1>10 DEF Counts

\* So whatever was walked changes the state of exactly one item.
LEMMA WalkedCounts ==
  ASSUME NEW log, GraphInv(log.cg), NEW x, Stored(log, x), NEW v \in Walked(log, x),
         NEW act, v \notin act, Histories(log.cg)[v] \ {v} \subseteq act,
         \A u \in act : v \notin Histories(log.cg)[u]
  PROVE  \E t : Counts(log, x, act, v, t)
<1>1. CASE v \in DOMAIN x.delTargets
  BY <1>1, DeleteCounts
<1>2. CASE v \in DOMAIN x.item /\ v < NextLV(log.cg)
  BY <1>2, InsertCounts
<1> QED
  BY <1>1, <1>2 DEF Walked

\* A shift leaves alone what the walk keeps.
LEMMA ShiftKeeps ==
  ASSUME NEW log, NEW x, Stored(log, x), NEW y, NEW t, NEW by, Shifted(x, y, t, by)
  PROVE  /\ Stored(log, y) /\ Walked(log, y) = Walked(log, x)
         /\ \A act, u : StateAt(log, y, act, u) = StateAt(log, x, act, u)
<1>1. /\ IsWalk(y) /\ y.items = x.items /\ y.delTargets = x.delTargets /\ DOMAIN y.item = DOMAIN x.item
      /\ \A u \in DOMAIN x.item : y.item[u].endState = x.item[u].endState
  BY DEF Shifted
<1>2. \A u : Deletes(y, u) = Deletes(x, u)
  BY <1>1 DEF Deletes
<1>3. \A act, u : StateAt(log, y, act, u) = StateAt(log, x, act, u)
  BY <1>2 DEF StateAt
<1>4. \A d \in DOMAIN x.delTargets : TargetFits(log, y, d)
  BY <1>1 DEF Stored, TargetFits
<1>5. Stored(log, y)
  BY <1>1, <1>4 DEF Stored
<1>6. Walked(log, y) = Walked(log, x)
  BY <1>1 DEF Walked
<1> QED
  BY <1>3, <1>5, <1>6

\* The walk is at the events of act, has walked the same, and is between the
\* same versions.
Moved(log, x, y, act) ==
  /\ StandsAt(log, y, act)
  /\ Walked(log, y) = Walked(log, x)
  /\ y.curVersion = x.curVersion /\ y.ok = x.ok

\* If all states are to change by what a shift does, the shift moves the walk.
LEMMA ShiftMoves ==
  ASSUME NEW log, GraphInv(log.cg), NEW x, NEW v, NEW t, NEW by \in {-1, 1}, NEW old, NEW new,
         StandsAt(log, x, old), t \in DOMAIN x.item, Targets(x, log, v) = {t},
         \A u \in DOMAIN x.item : StateAt(log, x, new, u) = StateAt(log, x, old, u) + (IF u = t THEN by ELSE 0)
  PROVE  Moved(log, x, Shift(x, log, v, by), new)
<1> DEFINE y == Shift(x, log, v, by)
<1>1. Stored(log, x) /\ IsWalk(x)
  BY DEF StandsAt, Stored
<1>2. Shifted(x, y, t, by)
  BY <1>1, ShiftShifts
<1> HIDE DEF y
<1>3. /\ Stored(log, y) /\ Walked(log, y) = Walked(log, x)
      /\ \A u : StateAt(log, y, new, u) = StateAt(log, x, new, u)
  BY <1>1, <1>2, ShiftKeeps
<1>4. ASSUME NEW u \in DOMAIN x.item
      PROVE  y.item[u].curState = StateAt(log, y, new, u)
  <2>1. StateAt(log, x, old, u) \in Int /\ x.item[u].curState = StateAt(log, x, old, u)
    BY <1>1, StatesAreNumbers DEF StandsAt
  <2>2. y.item[u].curState = IF u = t THEN x.item[u].curState + by ELSE x.item[u].curState
    BY <1>2 DEF Shifted
  <2>3. StateAt(log, y, new, u) = StateAt(log, x, old, u) + (IF u = t THEN by ELSE 0)
    BY <1>3
  <2> QED
    BY <2>1, <2>2, <2>3
<1>5. DOMAIN y.item = DOMAIN x.item /\ y.curVersion = x.curVersion /\ y.ok = x.ok
  BY <1>2 DEF Shifted
<1>6. StandsAt(log, y, new)
  BY <1>3, <1>4, <1>5 DEF StandsAt
<1> QED
  BY <1>3, <1>5, <1>6 DEF Moved, y

\* Retreating an event that no other event in force has seen.
LEMMA RetreatFits ==
  ASSUME NEW log, GraphInv(log.cg), NEW x, NEW act, StandsAt(log, x, act),
         NEW v \in Walked(log, x), v \in act, Histories(log.cg)[v] \subseteq act,
         \A u \in act \ {v} : v \notin Histories(log.cg)[u]
  PROVE  RetreatAllowed(x, log, v) /\ Moved(log, x, Retreat1(x, log, v), act \ {v})
<1> DEFINE new == act \ {v}
<1>1. Stored(log, x)
  BY DEF StandsAt
<1>2. /\ v \notin new /\ Histories(log.cg)[v] \ {v} \subseteq new /\ new \cup {v} = act
      /\ \A u \in new : v \notin Histories(log.cg)[u]
  OBVIOUS
<1> HIDE DEF new
<1>3. PICK t : Counts(log, x, new, v, t)
  BY <1>1, <1>2, WalkedCounts
<1>4. t \in DOMAIN x.item /\ Targets(x, log, v) = {t} /\ x.item[t].curState = StateAt(log, x, act, t)
      /\ StateAt(log, x, new, t) \in Int /\ StateAt(log, x, act, t) = StateAt(log, x, new, t) + 1
  BY <1>2, <1>3 DEF Counts, StandsAt
<1>5. RetreatAllowed(x, log, v)
  <2>1. CASE IsDel(log, v)
    <3>1. StateAt(log, x, new, t) >= 0 /\ x.item[t].endState >= Deleted
      BY <1>3, <2>1 DEF Counts, Inserted
    <3>2. x.item[t].curState >= Deleted
      BY <1>4, <3>1 DEF Deleted
    <3> QED
      BY <1>4, <2>1, <3>1, <3>2 DEF RetreatAllowed, IsDel
  <2>2. CASE ~ IsDel(log, v)
    <3>1. StateAt(log, x, new, t) = -1
      BY <1>3, <2>2 DEF Counts, NotYetInserted
    <3>2. x.item[t].curState = Inserted
      BY <1>4, <3>1 DEF Inserted
    <3> QED
      BY <1>4, <2>2, <3>2 DEF RetreatAllowed, IsDel
  <2> QED
    BY <2>1, <2>2
<1>6. \A u \in DOMAIN x.item : StateAt(log, x, new, u) = StateAt(log, x, act, u) + (IF u = t THEN -1 ELSE 0)
  <2> SUFFICES ASSUME NEW u \in DOMAIN x.item
               PROVE  StateAt(log, x, new, u) = StateAt(log, x, act, u) + (IF u = t THEN -1 ELSE 0)
    OBVIOUS
  <2>1. StateAt(log, x, new, u) \in Int
        /\ StateAt(log, x, act, u) = StateAt(log, x, new, u) + (IF u = t THEN 1 ELSE 0)
    BY <1>2, <1>3 DEF Counts
  <2> QED
    BY <2>1
<1>7. Moved(log, x, Shift(x, log, v, -1), new)
  <2>1. -1 \in {-1, 1}
    OBVIOUS
  <2> QED
    BY <1>4, <1>6, <2>1, ShiftMoves
<1> QED
  BY <1>5, <1>7 DEF Retreat1, new

\* Advancing to an event whose past is in force.
LEMMA AdvanceFits ==
  ASSUME NEW log, GraphInv(log.cg), NEW x, NEW act, StandsAt(log, x, act),
         NEW v \in Walked(log, x), v \notin act, Histories(log.cg)[v] \ {v} \subseteq act,
         \A u \in act : v \notin Histories(log.cg)[u]
  PROVE  AdvanceAllowed(x, log, v) /\ Moved(log, x, Advance1(x, log, v), act \cup {v})
<1> DEFINE new == act \cup {v}
<1>1. Stored(log, x)
  BY DEF StandsAt
<1>2. PICK t : Counts(log, x, act, v, t)
  BY <1>1, WalkedCounts
<1>3. t \in DOMAIN x.item /\ Targets(x, log, v) = {t} /\ x.item[t].curState = StateAt(log, x, act, t)
  BY <1>2 DEF Counts, StandsAt
<1>4. AdvanceAllowed(x, log, v)
  BY <1>2, <1>3 DEF Counts, AdvanceAllowed, IsDel
<1>5. \A u \in DOMAIN x.item : StateAt(log, x, new, u) = StateAt(log, x, act, u) + (IF u = t THEN 1 ELSE 0)
  BY <1>2 DEF Counts
<1> HIDE DEF new
<1>6. Moved(log, x, Shift(x, log, v, 1), new)
  <2>1. 1 \in {-1, 1}
    OBVIOUS
  <2> QED
    BY <1>3, <1>5, <2>1, ShiftMoves
<1> QED
  BY <1>4, <1>6 DEF Advance1, new

-----------------------------------------------------------------------------
(* Applying an operation, on the document it was written on.               *)

\* The event is in force and is walked.
Applied(log, x, y, act, v) ==
  /\ StandsAt(log, y, act \cup {v})
  /\ Walked(log, y) = Walked(log, x) \cup {v}
  /\ y.curVersion = x.curVersion /\ y.ok = x.ok

\* The lowest of a set of numbers.
LEMMA LowestOf ==
  ASSUME NEW S, S \subseteq Nat, S # {}
  PROVE  Lowest(S) \in S /\ \A u \in S : Lowest(S) <= u
BY LeastElement DEF Lowest

\* A walk that throws is not a walk that goes on.
LEMMA ThrowFails ==
  ASSUME NEW x, IsWalk(x)
  PROVE  ~ Throw(x).ok
<1>1. x = [items |-> x.items, item |-> x.item, delTargets |-> x.delTargets,
          curVersion |-> x.curVersion, doc |-> x.doc, writes |-> x.writes, ok |-> x.ok]
  BY DEF IsWalk
<1> QED
  BY <1>1 DEF Throw

\* A deletion that finds an inserted item.
LEMMA RemovalFits ==
  ASSUME NEW log, GraphInv(log.cg), NEW x, NEW act, StandsAt(log, x, act),
         NEW v \in Versions(log.cg), v \notin Walked(log, x), act = Histories(log.cg)[v] \ {v},
         IsDel(log, v), NEW at, NEW t \in DOMAIN x.item, x.item[t].curState = Inserted
  PROVE  Applied(log, x, DeleteItem(x, v, at, t), act, v)
<1> DEFINE y   == DeleteItem(x, v, at, t)
           n   == NextLV(log.cg)
           new == act \cup {v}
<1>1. Stored(log, x) /\ IsWalk(x)
  BY DEF StandsAt, Stored
<1>2. v \in Nat /\ n \in Nat /\ v < n
  BY NextLVType DEF GraphInv, Versions
<1>3. Removed(x, y, t, v)
  BY <1>1, <1>2, DeleteRemoves
<1> HIDE DEF y
<1>4. /\ v \notin DOMAIN x.delTargets
      /\ \A u \in DOMAIN x.item : u # v
  BY <1>1, <1>2 DEF Walked, Stored
<1>5. /\ IsWalk(y) /\ y.items = x.items /\ DOMAIN y.item = DOMAIN x.item
      /\ DOMAIN y.delTargets = DOMAIN x.delTargets \cup {v}
      /\ y.delTargets[v] = t /\ \A d \in DOMAIN x.delTargets : y.delTargets[d] = x.delTargets[d]
  BY <1>3, <1>4 DEF Removed, Put
<1>6. \A u \in DOMAIN x.item : y.item[u].endState = IF u = t THEN Deleted ELSE x.item[u].endState
  BY <1>3 DEF Removed
<1>7. StateAt(log, x, act, t) = 0
  BY DEF StandsAt, Inserted
<1>8. t >= n \/ t \in act
  BY <1>7 DEF StateAt, NotYetInserted
<1>9. Cardinality(Deletes(x, t) \cap act) = 0
  BY <1>7, <1>8 DEF StateAt
<1>10. Deletes(x, t) \cap act = {}
  BY <1>1, <1>9, DeletesAreFinite, FS_EmptySet
<1>11. Deletes(y, t) \cap new = {v}
  BY <1>4, <1>5, <1>10 DEF Deletes
<1>12. StateAt(log, y, new, t) = 1
  <2>1. Cardinality({v}) = 1
    BY FS_Singleton
  <2> QED
    BY <1>8, <1>11, <2>1 DEF StateAt
<1>13. ASSUME NEW u \in DOMAIN x.item, u # t
       PROVE  StateAt(log, y, new, u) = StateAt(log, x, act, u)
  <2>1. Deletes(y, u) \cap new = Deletes(x, u) \cap act
    BY <1>4, <1>5, <1>13 DEF Deletes
  <2>2. u \in new <=> u \in act
    BY <1>4
  <2> HIDE DEF new
  <2> QED
    BY <2>1, <2>2 DEF StateAt
<1>14. \A u \in DOMAIN y.item : y.item[u].curState = StateAt(log, y, new, u)
  <2> SUFFICES ASSUME NEW u \in DOMAIN x.item PROVE y.item[u].curState = StateAt(log, y, new, u)
    BY <1>5
  <2>1. y.item[u].curState = IF u = t THEN 1 ELSE x.item[u].curState
    BY <1>3 DEF Removed, Deleted
  <2>2. x.item[u].curState = StateAt(log, x, act, u)
    BY DEF StandsAt
  <2> QED
    BY <1>12, <1>13, <2>1, <2>2
<1>15. TargetFits(log, y, v)
  BY <1>5, <1>6, <1>8 DEF TargetFits, Deleted
<1>16. \A d \in DOMAIN x.delTargets : TargetFits(log, y, d)
  BY <1>1, <1>5, <1>6 DEF TargetFits, Stored, Deleted
<1>17. Stored(log, y)
  BY <1>1, <1>5, <1>15, <1>16 DEF Stored
<1>18. Walked(log, y) = Walked(log, x) \cup {v}
  BY <1>5 DEF Walked
<1>19. y.curVersion = x.curVersion /\ y.ok = x.ok
  BY <1>3 DEF Removed
<1> QED
  BY <1>14, <1>17, <1>18, <1>19 DEF Applied, StandsAt, y

\* A new item.
LEMMA PlacementFits ==
  ASSUME NEW log, GraphInv(log.cg), NEW x, NEW act, StandsAt(log, x, act),
         NEW v \in Versions(log.cg), v \notin Walked(log, x), act = Histories(log.cg)[v] \ {v},
         ~ IsDel(log, v), NEW new \in ItemType, new.curState = Inserted,
         NEW place \in 0 .. Len(x.items), NEW content
  PROVE  Applied(log, x, InsertItem(x, v, new, place, content), act, v)
<1> DEFINE y     == InsertItem(x, v, new, place, content)
           n     == NextLV(log.cg)
           after == act \cup {v}
<1>1. Stored(log, x) /\ IsWalk(x)
  BY DEF StandsAt, Stored
<1>2. v \in Nat /\ n \in Nat /\ v < n
  BY NextLVType DEF GraphInv, Versions
<1>3. Placed(x, y, v, new)
  BY <1>1, <1>2, InsertPlaces
<1> HIDE DEF y
<1>4. v \notin DOMAIN x.delTargets /\ v \notin DOMAIN x.item
  BY <1>1, <1>2 DEF Walked, Stored
<1>5. /\ IsWalk(y) /\ DOMAIN y.item = DOMAIN x.item \cup {v} /\ y.delTargets = x.delTargets
      /\ y.item[v] = new /\ \A u \in DOMAIN x.item : y.item[u] = x.item[u]
      /\ \A i \in DOMAIN y.items : y.items[i] = v \/ \E j \in DOMAIN x.items : y.items[i] = x.items[j]
  BY <1>3, <1>4 DEF Placed, Put
<1>6. \A u : Deletes(y, u) = Deletes(x, u)
  BY <1>5 DEF Deletes
<1>7. Deletes(x, v) = {}
  <2>1. \A d \in DOMAIN x.delTargets : x.delTargets[d] \in DOMAIN x.item
    BY <1>1 DEF Stored, TargetFits
  <2> QED
    BY <1>4, <2>1 DEF Deletes
<1>8. StateAt(log, y, after, v) = 0
  BY <1>6, <1>7, FS_EmptySet DEF StateAt
<1>9. ASSUME NEW u \in DOMAIN x.item
      PROVE  StateAt(log, y, after, u) = StateAt(log, x, act, u)
  <2>1. Deletes(y, u) \cap after = Deletes(x, u) \cap act
    BY <1>4, <1>6 DEF Deletes
  <2>2. u \in after <=> u \in act
    BY <1>4
  <2> HIDE DEF after
  <2> QED
    BY <2>1, <2>2 DEF StateAt
<1>10. \A u \in DOMAIN y.item : y.item[u].curState = StateAt(log, y, after, u)
  BY <1>5, <1>8, <1>9 DEF StandsAt, Inserted
<1>11. \A d \in DOMAIN x.delTargets : TargetFits(log, y, d)
  BY <1>1, <1>5 DEF TargetFits, Stored
<1>12. Stored(log, y)
  <2>1. \A i \in DOMAIN y.items : y.items[i] \in DOMAIN y.item
    BY <1>1, <1>5 DEF Stored
  <2>2. \A u \in DOMAIN y.item : u < n => ~ IsDel(log, u)
    BY <1>1, <1>5 DEF Stored
  <2> QED
    BY <1>5, <1>11, <2>1, <2>2 DEF Stored
<1>13. Walked(log, y) = Walked(log, x) \cup {v}
  BY <1>2, <1>5 DEF Walked
<1>14. y.curVersion = x.curVersion /\ y.ok = x.ok
  BY <1>3 DEF Placed
<1> QED
  BY <1>10, <1>12, <1>13, <1>14 DEF Applied, StandsAt, y

\* The scan ends where it began or behind an item it has passed.
LEMMA PlaceIsInList ==
  ASSUME NEW x, IsWalk(x), NEW cg, NEW v, NEW leftIdx \in 0 .. Len(x.items), NEW rightIdx
  PROVE  IntegrateBetween(x, cg, v, leftIdx, rightIdx) \in 0 .. Len(x.items)
<1> DEFINE len      == Len(x.items)
           n        == len - leftIdx
           Next1(k, scan) == ScanNext(x, cg, v, leftIdx, rightIdx, leftIdx + k, scan)
           first    == [best |-> leftIdx, scanning |-> FALSE, stopped |-> FALSE]
           Loop(f)  == f = [k \in 0 .. n |-> IF k = 0 THEN first ELSE Next1(k, f[k - 1])]
           after    == CHOOSE f : Loop(f)
           T        == [best : 0 .. len, scanning : BOOLEAN, stopped : BOOLEAN]
           step     == [k \in 1 .. n |-> [scan \in T |-> Next1(k, scan)]]
<1>1. len \in Nat /\ n \in Nat
  BY DEF IsWalk
<1>2. IntegrateBetween(x, cg, v, leftIdx, rightIdx) = after[n].best
  BY DEF IntegrateBetween
<1>3. first \in T
  BY <1>1
<1>4. ASSUME NEW k \in 1 .. n, NEW scan \in T PROVE Next1(k, scan) \in T
  <2>1. leftIdx + k \in 0 .. len
    BY <1>1
  <2>2. scan.best \in 0 .. len
    OBVIOUS
  <2>3. \A b \in 0 .. len : /\ [best |-> b, scanning |-> FALSE, stopped |-> TRUE] \in T
                            /\ [best |-> b, scanning |-> TRUE, stopped |-> FALSE] \in T
                            /\ [best |-> b, scanning |-> FALSE, stopped |-> FALSE] \in T
    OBVIOUS
  <2> HIDE DEF T
  <2> QED
    BY <2>1, <2>2, <2>3 DEF ScanNext
<1>5. StepsWithin(step, n, T) /\ \A k \in 1 .. n, scan \in T : step[k][scan] = Next1(k, scan)
  <2>1. \A k \in 1 .. n, scan \in T : step[k][scan] = Next1(k, scan)
    BY DEF StepsWithin
  <2> QED
    BY <1>4, <2>1 DEF StepsWithin
<1> HIDE DEF n, len, T, step, first, Next1
<1>6. PICK f : Passed(f, first, step, n, T)
  BY <1>1, <1>3, <1>5, StepsExist
<1>7. \A k \in 1 .. n : k - 1 \in 0 .. n /\ k # 0 /\ k \in 0 .. n
  BY <1>1
<1>8. Loop(f)
  <2>1. \A k \in 0 .. n : f[k] = IF k = 0 THEN first ELSE Next1(k, f[k - 1])
    <3> SUFFICES ASSUME NEW k \in 0 .. n, k # 0 PROVE f[k] = Next1(k, f[k - 1])
      BY <1>6 DEF Passed
    <3>1. k \in 1 .. n /\ k - 1 \in 0 .. n
      BY <1>1
    <3> QED
      BY <1>5, <1>6, <3>1 DEF Passed
  <2> QED
    BY <1>6, <2>1 DEF Passed
<1>9. Loop(after)
  BY <1>8
<1> HIDE DEF after
<1>10. \A k \in 0 .. n : after[k] \in T
  <2> DEFINE S == {k \in 0 .. n : after[k] \in T}
  <2>1. 0 \in S
    BY <1>1, <1>3, <1>9
  <2>2. ASSUME NEW k \in 1 .. n, k - 1 \in S PROVE k \in S
    BY <1>4, <1>7, <1>9, <2>2
  <2> HIDE DEF S
  <2>3. \A k \in 0 .. n : k \in S
    BY <1>1, <2>1, <2>2, InductionTo
  <2> QED
    BY <2>3 DEF S
<1>11. after[n] \in T
  BY <1>1, <1>10
<1> QED
  BY <1>2, <1>11 DEF T, len

\* The cursors at a position are numbers of items.
LEMMA CursorInList ==
  ASSUME NEW x, IsWalk(x), NEW pos, CursorsAt(x, pos) # {}
  PROVE  Lowest(CursorsAt(x, pos)) \in 0 .. Len(x.items)
<1>1. CursorsAt(x, pos) \subseteq 0 .. Len(x.items)
  BY DEF CursorsAt
<1>2. 0 .. Len(x.items) \subseteq Nat
  BY DEF IsWalk
<1>3. CursorsAt(x, pos) \subseteq Nat
  BY <1>1, <1>2
<1> QED
  BY <1>1, <1>3, LowestOf

\* The item a new operation becomes.
LEMMA NewItem ==
  ASSUME NEW x, IsWalk(x), NEW cursor \in 0 .. Len(x.items)
  PROVE  ItemAt(x, cursor) \in ItemType /\ ItemAt(x, cursor).curState = Inserted
<1> DEFINE left    == IF cursor = 0 THEN Root ELSE x.items[cursor]
           present == PresentAfter(x, cursor)
<1>1. x.items \in Seq(Nat) /\ Len(x.items) \in Nat /\ DOMAIN x.items = 1 .. Len(x.items)
  BY DEF IsWalk
<1>2. left \in Int
  BY <1>1 DEF Root
<1>3. present # {} => x.items[Lowest(present)] \in Int
  <2>1. present \subseteq DOMAIN x.items
    BY DEF PresentAfter
  <2>2. present \subseteq Nat
    BY <1>1, <2>1
  <2> HIDE DEF present
  <2>3. present # {} => Lowest(present) \in DOMAIN x.items
    BY <2>1, <2>2, LowestOf
  <2> QED
    BY <1>1, <2>3
<1>4. Root \in Int
  BY DEF Root
<1>5. \A l, r \in Int : Item(l, r) \in ItemType /\ Item(l, r).curState = Inserted
  BY DEF Item, ItemType, Inserted
<1>6. ItemAt(x, cursor) = ItemAfter(x, left, present)
  BY DEF ItemAt
<1> HIDE DEF left, present
<1> QED
  BY <1>2, <1>3, <1>4, <1>5, <1>6 DEF ItemAfter

\* An operation that can be applied is.
LEMMA ApplyFits ==
  ASSUME NEW log, GraphInv(log.cg), NEW x, NEW act, StandsAt(log, x, act),
         NEW v \in Versions(log.cg), v \notin Walked(log, x), act = Histories(log.cg)[v] \ {v},
         Apply1(x, log, v).ok
  PROVE  Applied(log, x, Apply1(x, log, v), act, v)
<1> DEFINE op     == OpAt(log, v)
           found  == CursorsAt(x, op.pos)
           cursor == Lowest(found)
<1>1. Stored(log, x) /\ IsWalk(x)
  BY DEF StandsAt, Stored
<1>2. found # {} => cursor \in 0 .. Len(x.items)
  BY <1>1, CursorInList
<1>3. CASE IsDel(log, v)
  <2> DEFINE after == InsertedAfter(x, cursor)
  <2>1. Apply1(x, log, v) = ApplyDel(x, v, op.pos)
    BY <1>3 DEF Apply1, IsDel
  <2>2. found # {} /\ ApplyDel(x, v, op.pos) = DeleteNext(x, v, after)
    BY <1>1, <2>1, ThrowFails DEF ApplyDel
  <2>3. after # {} /\ DeleteNext(x, v, after) = DeleteItem(x, v, Lowest(after), x.items[Lowest(after)])
    BY <1>1, <2>1, <2>2, ThrowFails DEF DeleteNext
  <2>4. after \subseteq DOMAIN x.items /\ \A i \in after : x.item[x.items[i]].curState = Inserted
    BY DEF InsertedAfter
  <2>5. after \subseteq Nat
    BY <1>1, <2>4 DEF IsWalk
  <2> HIDE DEF after
  <2>6. Lowest(after) \in after
    BY <2>3, <2>5, LowestOf
  <2> DEFINE at == Lowest(after)
             t  == x.items[at]
  <2>7. t \in DOMAIN x.item /\ x.item[t].curState = Inserted
    BY <1>1, <2>4, <2>6 DEF Stored
  <2> HIDE DEF at, t
  <2>8. Applied(log, x, DeleteItem(x, v, at, t), act, v)
    BY <1>3, <2>7, RemovalFits
  <2> QED
    BY <2>1, <2>2, <2>3, <2>8 DEF at, t
<1>4. CASE ~ IsDel(log, v)
  <2> DEFINE new   == ItemAt(x, cursor)
             place == Integrate(x, log.cg, v, new, cursor)
  <2>1. Apply1(x, log, v) = ApplyIns(x, log.cg, v, op.pos, op.content)
    BY <1>4 DEF Apply1, IsDel
  <2>2. found # {} /\ ApplyIns(x, log.cg, v, op.pos, op.content) = InsertItem(x, v, new, place, op.content)
    BY <1>1, <2>1, ThrowFails DEF ApplyIns, InsertAtCursor, InsertBehind
  <2>3. new \in ItemType /\ new.curState = Inserted
    BY <1>1, <1>2, <2>2, NewItem
  <2>4. place \in 0 .. Len(x.items)
    BY <1>1, <1>2, <2>2, PlaceIsInList DEF Integrate
  <2> HIDE DEF new, place
  <2>5. Applied(log, x, InsertItem(x, v, new, place, op.content), act, v)
    BY <1>4, <2>3, <2>4, PlacementFits
  <2> QED
    BY <2>1, <2>2, <2>5
<1> QED
  BY <1>3, <1>4

-----------------------------------------------------------------------------
(* The steps of a part.                                                    *)

\* Where a list of steps begins.
LEMMA StepsSplit ==
  ASSUME NEW list \in Seq(Kinds \X Nat), list # <<>>
  PROVE  /\ list[1] \in Kinds \X Nat /\ Tail(list) \in Seq(Kinds \X Nat)
         /\ \A kind \in Kinds : Of(list, kind) = Of(Tail(list), kind) \cup (IF list[1][1] = kind THEN {list[1][2]} ELSE {})
         /\ \A i \in DOMAIN Tail(list) : i + 1 \in DOMAIN list /\ Tail(list)[i] = list[i + 1] /\ i \in Nat
<1> DEFINE n    == Len(list)
           rest == Tail(list)
           T    == Kinds \X Nat
<1>1. n \in Nat \ {0} /\ DOMAIN list = 1 .. n /\ \A i \in 1 .. n : list[i] \in T
  BY EmptySeq
<1>2. rest \in Seq(T) /\ DOMAIN rest = 1 .. (n - 1) /\ \A i \in 1 .. (n - 1) : rest[i] = list[i + 1]
  BY <1>1
<1>3. 1 \in 1 .. n /\ \A i \in 1 .. (n - 1) : i + 1 \in 1 .. n /\ i \in Nat
  BY <1>1
<1>4. \A i \in 1 .. n : i = 1 \/ (i - 1 \in 1 .. (n - 1) /\ (i - 1) + 1 = i)
  BY <1>1
<1> HIDE DEF n, rest, T
<1>5. ASSUME NEW kind \in Kinds
      PROVE  Of(list, kind) = Of(rest, kind) \cup (IF list[1][1] = kind THEN {list[1][2]} ELSE {})
  <2>1. \A u : u \in Of(list, kind) <=> \E i \in 1 .. n : list[i][1] = kind /\ u = list[i][2]
    BY <1>1 DEF Of
  <2>2. \A u : u \in Of(rest, kind) <=> \E i \in 1 .. (n - 1) : rest[i][1] = kind /\ u = rest[i][2]
    BY <1>2 DEF Of
  <2>3. ASSUME NEW u, u \in Of(list, kind)
        PROVE  u \in Of(rest, kind) \/ (list[1][1] = kind /\ u = list[1][2])
    <3>1. PICK i \in 1 .. n : list[i][1] = kind /\ u = list[i][2]
      BY <2>1, <2>3
    <3>2. CASE i # 1
      <4>1. i - 1 \in 1 .. (n - 1) /\ (i - 1) + 1 = i
        BY <1>4, <3>2
      <4>2. rest[i - 1] = list[i]
        BY <1>2, <4>1
      <4> QED
        BY <2>2, <3>1, <4>1, <4>2
    <3> QED
      BY <3>1, <3>2
  <2>4. ASSUME NEW u, u \in Of(rest, kind) PROVE u \in Of(list, kind)
    <3>1. PICK i \in 1 .. (n - 1) : rest[i][1] = kind /\ u = rest[i][2]
      BY <2>2, <2>4
    <3>2. i + 1 \in 1 .. n /\ list[i + 1][1] = kind /\ u = list[i + 1][2]
      BY <1>2, <1>3, <3>1
    <3> QED
      BY <2>1, <3>2
  <2>5. list[1][1] = kind => list[1][2] \in Of(list, kind)
    BY <1>3, <2>1
  <2> QED
    BY <2>3, <2>4, <2>5
<1> QED
  BY <1>1, <1>2, <1>3, <1>5 DEF rest, T

\* A step is the first of its kind, and the kinds before it are done.
Takes(list, rest, v, C, E, X) ==
  /\ StepsFit(rest, C, E, X)
  /\ list[1][1] = "retreat" =>
       /\ v \in C \ E /\ \A u \in Of(rest, "retreat") : u < v
       /\ Of(list, "retreat") = Of(rest, "retreat") \cup {v}
       /\ Of(list, "advance") = E \ C /\ Of(rest, "advance") = E \ C
       /\ Of(list, "apply") = X /\ Of(rest, "apply") = X
  /\ list[1][1] = "advance" =>
       /\ v \in E \ C /\ \A u \in Of(rest, "advance") : v < u
       /\ Of(list, "retreat") = {} /\ Of(rest, "retreat") = {}
       /\ Of(list, "advance") = Of(rest, "advance") \cup {v}
       /\ Of(list, "apply") = X /\ Of(rest, "apply") = X
  /\ list[1][1] = "apply" =>
       /\ v \in X /\ \A u \in Of(rest, "apply") : v < u
       /\ Of(list, "retreat") = {} /\ Of(rest, "retreat") = {}
       /\ Of(list, "advance") = {} /\ Of(rest, "advance") = {}
       /\ Of(list, "apply") = Of(rest, "apply") \cup {v}

\* The first of the steps left is one that may be made now.
LEMMA StepTakes ==
  ASSUME NEW C, NEW E, NEW X, NEW list, StepsFit(list, C, E, X), list # <<>>
  PROVE  Takes(list, Tail(list), list[1][2], C, E, X)
<1> DEFINE rest == Tail(list)
           k    == list[1][1]
           v    == list[1][2]
<1>1. /\ list \in Seq(Kinds \X Nat)
      /\ \A i, j \in DOMAIN list : i < j => Precedes(list[i], list[j])
  BY DEF StepsFit
<1>2. /\ list[1] \in Kinds \X Nat /\ rest \in Seq(Kinds \X Nat)
      /\ \A kind \in Kinds : Of(list, kind) = Of(rest, kind) \cup (IF k = kind THEN {v} ELSE {})
      /\ \A i \in DOMAIN rest : i + 1 \in DOMAIN list /\ rest[i] = list[i + 1] /\ i \in Nat
  BY <1>1, StepsSplit
<1>3. 1 \in DOMAIN list /\ k \in Kinds /\ v \in Nat
  BY <1>1, <1>2, EmptySeq
<1> SUFFICES Takes(list, rest, v, C, E, X)
  OBVIOUS
<1> HIDE DEF rest
<1>4. \A i, j \in DOMAIN rest : i < j => Precedes(rest[i], rest[j])
  <2> SUFFICES ASSUME NEW i \in DOMAIN rest, NEW j \in DOMAIN rest, i < j PROVE Precedes(rest[i], rest[j])
    OBVIOUS
  <2>1. i + 1 \in DOMAIN list /\ j + 1 \in DOMAIN list /\ i + 1 < j + 1 /\ rest[i] = list[i + 1] /\ rest[j] = list[j + 1]
    BY <1>2
  <2> QED
    BY <1>1, <2>1
<1>5. \A j \in DOMAIN rest : Precedes(list[1], rest[j])
  <2> SUFFICES ASSUME NEW j \in DOMAIN rest PROVE Precedes(list[1], rest[j])
    OBVIOUS
  <2>1. j + 1 \in DOMAIN list /\ 1 < j + 1 /\ rest[j] = list[j + 1]
    <3>1. DOMAIN rest = 1 .. Len(rest)
      BY <1>2
    <3> QED
      BY <1>2, <3>1
  <2> QED
    BY <1>1, <1>3, <2>1
<1>6. Rank["retreat"] = 0 /\ Rank["advance"] = 1 /\ Rank["apply"] = 2
  BY DEF Rank, Kinds
<1>7. ASSUME NEW kind \in Kinds, NEW u \in Of(rest, kind)
      PROVE  \/ Rank[k] < Rank[kind]
             \/ k = kind /\ IF k = "retreat" THEN u < v ELSE v < u
  <2>1. PICK j \in DOMAIN rest : rest[j][1] = kind /\ u = rest[j][2]
    BY <1>7 DEF Of
  <2> QED
    BY <1>5, <2>1 DEF Precedes
<1>8. "retreat" \in Kinds /\ "advance" \in Kinds /\ "apply" \in Kinds
      /\ (k = "retreat" \/ k = "advance" \/ k = "apply")
  BY <1>3 DEF Kinds
<1> DEFINE R  == Of(list, "retreat")
           V  == Of(list, "advance")
           U  == Of(list, "apply")
           R1 == Of(rest, "retreat")
           V1 == Of(rest, "advance")
           U1 == Of(rest, "apply")
<1>9. /\ R \subseteq C \ E /\ V \subseteq E \ C /\ U \subseteq X
      /\ \A y \in (C \ E) \ R : \A u \in R : u < y
      /\ \A y \in (E \ C) \ V : R = {} /\ \A u \in V : y < u
      /\ \A y \in X \ U : R = {} /\ V = {} /\ \A u \in U : y < u
  BY DEF StepsFit
<1>10. /\ R = R1 \cup (IF k = "retreat" THEN {v} ELSE {})
       /\ V = V1 \cup (IF k = "advance" THEN {v} ELSE {})
       /\ U = U1 \cup (IF k = "apply" THEN {v} ELSE {})
  BY <1>2, <1>8
<1>11. \A u \in R1 : k = "retreat" /\ u < v
  BY <1>6, <1>7, <1>8
<1>12. \A u \in V1 : k = "retreat" \/ (k = "advance" /\ v < u)
  BY <1>6, <1>7, <1>8
<1>13. \A u \in U1 : k = "retreat" \/ k = "advance" \/ v < u
  BY <1>6, <1>7, <1>8
<1>14. StepsFit(rest, C, E, X) <=>
         /\ R1 \subseteq C \ E /\ V1 \subseteq E \ C /\ U1 \subseteq X
         /\ \A y \in (C \ E) \ R1 : \A u \in R1 : u < y
         /\ \A y \in (E \ C) \ V1 : R1 = {} /\ \A u \in V1 : y < u
         /\ \A y \in X \ U1 : R1 = {} /\ V1 = {} /\ \A u \in U1 : y < u
  BY <1>2, <1>4 DEF StepsFit
<1>15. Takes(list, rest, v, C, E, X) <=>
         /\ StepsFit(rest, C, E, X)
         /\ k = "retreat" => /\ v \in C \ E /\ \A u \in R1 : u < v
                             /\ R = R1 \cup {v} /\ V = E \ C /\ V1 = E \ C /\ U = X /\ U1 = X
         /\ k = "advance" => /\ v \in E \ C /\ \A u \in V1 : v < u
                             /\ R = {} /\ R1 = {} /\ V = V1 \cup {v} /\ U = X /\ U1 = X
         /\ k = "apply" => /\ v \in X /\ \A u \in U1 : v < u
                           /\ R = {} /\ R1 = {} /\ V = {} /\ V1 = {} /\ U = U1 \cup {v}
  BY DEF Takes
<1>16. "retreat" # "advance" /\ "retreat" # "apply" /\ "advance" # "apply"
  OBVIOUS
<1> HIDE DEF R, V, U, R1, V1, U1, k, v
<1>17. CASE k = "retreat"
  <2>1. R = R1 \cup {v} /\ V = V1 /\ U = U1 /\ \A u \in R1 : u < v
    BY <1>10, <1>11, <1>16, <1>17
  <2>2. V = E \ C /\ U = X /\ v \in C \ E
    BY <1>9, <2>1
  <2> QED
    BY <1>9, <1>14, <1>15, <1>16, <1>17, <2>1, <2>2
<1>18. CASE k = "advance"
  <2>1. R = {} /\ R1 = {} /\ V = V1 \cup {v} /\ U = U1 /\ \A u \in V1 : v < u
    BY <1>10, <1>11, <1>12, <1>16, <1>18
  <2>2. U = X /\ v \in E \ C
    BY <1>9, <2>1
  <2> QED
    BY <1>9, <1>14, <1>15, <1>16, <1>18, <2>1, <2>2
<1>19. CASE k = "apply"
  <2>1. R = {} /\ R1 = {} /\ V = {} /\ V1 = {} /\ U = U1 \cup {v} /\ \A u \in U1 : v < u
    BY <1>10, <1>11, <1>12, <1>13, <1>16, <1>19
  <2> QED
    BY <1>9, <1>14, <1>15, <1>16, <1>19, <2>1
<1> QED
  BY <1>8, <1>17, <1>18, <1>19 DEF k

\* A set with the pasts of all it has.
Closed(h, S) == \A u \in S : h[u] \subseteq S

\* What is known of two sets of events and a run behind the second.
Stretch(h, C, E, X) ==
  /\ Closed(h, C) /\ Closed(h, E) /\ E \cap X = {}
  /\ C \subseteq Nat /\ E \subseteq Nat /\ X \subseteq Nat
  /\ \A u \in C \cup E \cup X : u \in h[u] /\ \A y \in h[u] : y <= u
  /\ \A v \in X : h[v] = E \cup {u \in X : u <= v}

\* What a step finds in force, and leaves in force.
RetreatReady(h, act, v, new) ==
  v \in act /\ h[v] \subseteq act /\ (\A u \in act \ {v} : v \notin h[u]) /\ new = act \ {v}
AdvanceReady(h, act, v, new) ==
  v \notin act /\ h[v] \ {v} \subseteq act /\ (\A u \in act : v \notin h[u]) /\ new = act \cup {v}
ApplyReady(h, act, v, new) == act = h[v] \ {v} /\ new = act \cup {v}

\* Whichever kind it is, the events in force are what it needs: to go back, nothing
\* in force has seen the event; to go on, all the event has seen is in force; to
\* be applied, nothing else is.
LEMMA StepIsReady ==
  ASSUME NEW h, NEW C, NEW E, NEW X, Stretch(h, C, E, X), NEW list, StepsFit(list, C, E, X),
         NEW rest, NEW v, Takes(list, rest, v, C, E, X)
  PROVE  LET act == ForceOf(list, E, X)
             new == ForceOf(rest, E, X)
         IN  /\ list[1][1] = "retreat" => v \in C \ E /\ RetreatReady(h, act, v, new)
             /\ list[1][1] = "advance" => v \in E \ C /\ AdvanceReady(h, act, v, new)
             /\ list[1][1] = "apply"   => v \in X /\ ApplyReady(h, act, v, new)
<1> DEFINE k   == list[1][1]
           R   == Of(list, "retreat")
           V   == Of(list, "advance")
           U   == Of(list, "apply")
           R1  == Of(rest, "retreat")
           V1  == Of(rest, "advance")
           U1  == Of(rest, "apply")
           act == ForceOf(list, E, X)
           new == ForceOf(rest, E, X)
<1>1. act = ((E \cup X) \ (V \cup U)) \cup R /\ new = ((E \cup X) \ (V1 \cup U1)) \cup R1
  BY DEF ForceOf
<1>2. /\ R \subseteq C \ E /\ V \subseteq E \ C /\ U \subseteq X
      /\ \A y \in (C \ E) \ R : \A u \in R : u < y
      /\ \A y \in (E \ C) \ V : R = {} /\ \A u \in V : y < u
      /\ \A y \in X \ U : R = {} /\ V = {} /\ \A u \in U : y < u
  BY DEF StepsFit
<1>3. /\ k = "retreat" => /\ v \in C \ E /\ \A u \in R1 : u < v
                          /\ R = R1 \cup {v} /\ V = E \ C /\ V1 = E \ C /\ U = X /\ U1 = X
      /\ k = "advance" => /\ v \in E \ C /\ \A u \in V1 : v < u
                          /\ R = {} /\ R1 = {} /\ V = V1 \cup {v} /\ U = X /\ U1 = X
      /\ k = "apply" => /\ v \in X /\ \A u \in U1 : v < u
                        /\ R = {} /\ R1 = {} /\ V = {} /\ V1 = {} /\ U = U1 \cup {v}
  BY DEF Takes
<1>4. /\ \A u \in C : h[u] \subseteq C
      /\ \A u \in E : h[u] \subseteq E
      /\ E \cap X = {} /\ C \subseteq Nat /\ E \subseteq Nat /\ X \subseteq Nat
      /\ \A u \in C \cup E \cup X : u \in h[u] /\ \A y \in h[u] : y <= u
      /\ \A y \in X : h[y] = E \cup {u \in X : u <= y}
  BY DEF Stretch, Closed
<1> HIDE DEF k, R, V, U, R1, V1, U1, act, new
<1>5. ASSUME k = "retreat" PROVE v \in C \ E /\ RetreatReady(h, act, v, new)
  <2>1. act = (E \cap C) \cup R /\ new = (E \cap C) \cup R1
    BY <1>1, <1>3, <1>4, <1>5
  <2>2. v \in C \ E /\ v \in R /\ v \in Nat /\ v \notin R1
    <3>1. v \in C \ E /\ v \in R
      BY <1>3, <1>5
    <3>2. v \in Nat /\ ~ (v < v)
      BY <1>4, <3>1
    <3> QED
      BY <1>3, <1>4, <1>5, <3>1, <3>2
  <2>3. v \in act /\ new = act \ {v}
    BY <1>3, <1>5, <2>1, <2>2
  <2>4. ASSUME NEW y \in h[v] PROVE y \in act
    <3>1. y \in C /\ y <= v /\ y \in Nat
      BY <1>4, <2>2
    <3>2. CASE y \in (C \ E) \ R
      <4>1. v < y
        BY <1>2, <2>2, <3>2
      <4> QED
        BY <2>2, <3>1, <4>1
    <3> QED
      BY <2>1, <3>1, <3>2
  <2>5. ASSUME NEW u \in act \ {v} PROVE v \notin h[u]
    <3>1. CASE u \in E
      BY <1>4, <2>2, <3>1
    <3>2. CASE u \in R
      <4>1. u \in R1 /\ u < v /\ u \in Nat /\ u \in C
        BY <1>2, <1>3, <1>4, <1>5, <2>5, <3>2
      <4> QED
        BY <1>4, <2>2, <4>1
    <3> QED
      BY <2>1, <3>1, <3>2
  <2> QED
    BY <2>2, <2>3, <2>4, <2>5 DEF RetreatReady
<1>6. ASSUME k = "advance" PROVE v \in E \ C /\ AdvanceReady(h, act, v, new)
  <2>1. act = E \ V /\ new = E \ V1
    BY <1>1, <1>3, <1>4, <1>6
  <2>2. v \in E \ C /\ v \in V /\ v \in Nat /\ v \notin V1
    <3>1. v \in E \ C /\ v \in V
      BY <1>3, <1>6
    <3>2. v \in Nat /\ ~ (v < v)
      BY <1>4, <3>1
    <3> QED
      BY <1>3, <1>4, <1>6, <3>1, <3>2
  <2>3. v \notin act /\ new = act \cup {v}
    BY <1>3, <1>6, <2>1, <2>2
  <2>4. ASSUME NEW y \in h[v] \ {v} PROVE y \in act
    <3>1. y \in E /\ y <= v /\ y # v /\ y \in Nat
      BY <1>4, <2>2
    <3>2. y \notin V
      BY <1>3, <1>6, <2>2, <3>1
    <3> QED
      BY <2>1, <3>1, <3>2
  <2>5. ASSUME NEW u \in act PROVE v \notin h[u]
    <3>1. CASE u \in C
      BY <1>4, <2>2, <3>1
    <3>2. CASE u \in (E \ C) \ V
      <4>1. u < v /\ u \in Nat
        BY <1>2, <1>4, <2>2, <3>2
      <4> QED
        BY <1>4, <2>2, <3>2, <4>1
    <3> QED
      BY <2>1, <3>1, <3>2
  <2> QED
    BY <2>2, <2>3, <2>4, <2>5 DEF AdvanceReady
<1>7. ASSUME k = "apply" PROVE v \in X /\ ApplyReady(h, act, v, new)
  <2>1. act = (E \cup X) \ U /\ new = (E \cup X) \ U1
    BY <1>1, <1>3, <1>7
  <2>2. v \in X /\ v \in U /\ v \in Nat /\ v \notin U1 /\ v \notin E
    <3>1. v \in X /\ v \in U
      BY <1>3, <1>7
    <3>2. v \in Nat /\ ~ (v < v)
      BY <1>4, <3>1
    <3> QED
      BY <1>3, <1>4, <1>7, <3>1, <3>2
  <2>3. new = act \cup {v}
    BY <1>3, <1>7, <2>1, <2>2
  <2>4. \A y \in X : y \notin U <=> y <= v /\ y # v
    <3> SUFFICES ASSUME NEW y \in X PROVE y \notin U <=> y <= v /\ y # v
      OBVIOUS
    <3>1. y \in Nat
      BY <1>4
    <3>2. y \in U => y = v \/ v < y
      BY <1>3, <1>7
    <3>3. y \notin U => y < v
      BY <1>2, <2>2
    <3> QED
      BY <2>2, <3>1, <3>2, <3>3
  <2>5. h[v] = E \cup {u \in X : u <= v}
    BY <1>4, <2>2
  <2>6. \A y : y \in act <=> y \in h[v] /\ y # v
    BY <1>2, <1>4, <2>1, <2>2, <2>4, <2>5
  <2>7. act = h[v] \ {v}
    BY <2>6
  <2> QED
    BY <2>2, <2>3, <2>7 DEF ApplyReady
<1> QED
  BY <1>5, <1>6, <1>7 DEF k, act, new

-----------------------------------------------------------------------------
(* A part, and the history it is written on.                               *)

\* What the events of a part have seen.
LEMMA PartHistory ==
  ASSUME NEW g, GraphInv(g), NEW p, PartFits(g, p)
  PROVE  LET h == Histories(g)
             E == EventsOf(h, p.parents)
             X == Extent(p)
         IN  /\ p.parents \subseteq Versions(g) /\ X \subseteq Versions(g) /\ p.vEnd - 1 \in X
             /\ E \subseteq Versions(g) /\ E \cap X = {}
             /\ \A v \in X : h[v] = E \cup {u \in X : u <= v}
             /\ h[p.vEnd - 1] = E \cup X
<1> DEFINE n   == NextLV(g)
           par == ParentsIn(g)
           h   == Histories(g)
           E   == EventsOf(h, p.parents)
           X   == Extent(p)
           s   == p.version
<1>1. /\ Topological(par, n) /\ Versions(g) = 0 .. (n - 1) /\ n \in Nat /\ h = HistoriesOf(par, n)
  BY GraphIsTopological, NextLVType DEF GraphInv, Histories, ParentsIn
<1>2. /\ s \in Nat /\ p.vEnd \in Nat /\ s < p.vEnd /\ p.vEnd <= n
      /\ p.parents = ParentsOf(g, s) /\ \A v \in (s + 1) .. (p.vEnd - 1) : ParentsOf(g, v) = {v - 1}
  BY DEF PartFits, Part
<1>3. X = s .. (p.vEnd - 1)
  BY DEF Extent
<1> HIDE DEF X
<1>4. X \subseteq Versions(g) /\ s \in Versions(g) /\ p.vEnd - 1 \in X
  BY <1>1, <1>2, <1>3
<1>5. p.parents \subseteq Versions(g) /\ \A u \in p.parents : u < s
  BY <1>2, <1>4, ParentsAreVersions
<1>6. \A v \in Versions(g) : par[v] = ParentsOf(g, v)
  BY DEF ParentsIn
<1>7. \A u : u \in E <=> \E q \in par[s] : u \in h[q]
  BY <1>2, <1>4, <1>6 DEF EventsOf
<1>8. \A u \in E : u \in Versions(g) /\ u < s
  <2> SUFFICES ASSUME NEW u \in E PROVE u \in Versions(g) /\ u < s
    OBVIOUS
  <2>1. PICK q \in p.parents : u \in h[q]
    BY <1>2, <1>4, <1>6, <1>7
  <2>2. q \in Versions(g) /\ q < s /\ q \in Nat
    BY <1>1, <1>5, <2>1
  <2>3. h[q] \subseteq 0 .. q
    BY <2>2, HistoryOfVersion
  <2> QED
    BY <1>1, <1>2, <2>1, <2>2, <2>3
<1>9. ASSUME NEW v \in X PROVE h[v] = E \cup {u \in X : u <= v}
  <2>1. v \in 0 .. (n - 1) /\ s \in 0 .. v /\ v \in Nat /\ v <= p.vEnd - 1
    BY <1>1, <1>2, <1>3
  <2>2. \A k \in (s + 1) .. v : par[k] = {k - 1}
    <3> SUFFICES ASSUME NEW k \in (s + 1) .. v PROVE par[k] = {k - 1}
      OBVIOUS
    <3>1. k \in (s + 1) .. (p.vEnd - 1) /\ k \in Versions(g)
      BY <1>1, <1>2, <2>1
    <3> QED
      BY <1>2, <1>6, <3>1
  <2>3. \A t : t \in h[v] <=> t \in s .. v \/ \E q \in par[s] : t \in h[q]
    <3> HIDE DEF h, par, n, s
    <3> QED
      BY <1>1, <2>1, <2>2, RunHistory
  <2>4. \A t : t \in s .. v <=> t \in X /\ t <= v
    BY <1>2, <1>3, <2>1
  <2> HIDE DEF E, h, par, s
  <2>5. \A t : t \in h[v] <=> t \in E \/ (t \in X /\ t <= v)
    BY <1>7, <2>3, <2>4
  <2> QED
    BY <2>5
<1>10. E \cap X = {}
  BY <1>2, <1>3, <1>8
<1>11. h[p.vEnd - 1] = E \cup X
  <2>1. \A u \in X : u <= p.vEnd - 1
    BY <1>2, <1>3
  <2> HIDE DEF E, h
  <2> QED
    BY <1>4, <1>9, <2>1
<1> QED
  BY <1>4, <1>5, <1>8, <1>9, <1>10, <1>11 DEF X

\* The events of versions are closed.
LEMMA EventsAreClosed ==
  ASSUME NEW g, GraphInv(g), NEW f \in SUBSET Versions(g)
  PROVE  Closed(Histories(g), EventsOf(Histories(g), f))
BY HistoryOfVersion DEF Closed, EventsOf

\* What is between the current version and a part is closed as the steps need it.
LEMMA PartStretches ==
  ASSUME NEW g, GraphInv(g), NEW p, PartFits(g, p), NEW f \in SUBSET Versions(g)
  PROVE  LET h == Histories(g) IN Stretch(h, EventsOf(h, f), EventsOf(h, p.parents), Extent(p))
<1> DEFINE h == Histories(g)
           C == EventsOf(h, f)
           E == EventsOf(h, p.parents)
           X == Extent(p)
<1>1. /\ p.parents \subseteq Versions(g) /\ X \subseteq Versions(g) /\ E \cap X = {}
      /\ \A v \in X : h[v] = E \cup {u \in X : u <= v}
  BY PartHistory
<1>2. C \subseteq Versions(g) /\ E \subseteq Versions(g) /\ Versions(g) \subseteq Nat
  BY <1>1, EventsAreVersions
<1>3. Closed(h, C) /\ Closed(h, E)
  BY <1>1, EventsAreClosed
<1>4. \A u \in Versions(g) : u \in h[u] /\ h[u] \subseteq 0 .. u
  BY HistoryOfVersion
<1> HIDE DEF h, C, E, X
<1>5. \A u \in C \cup E \cup X : u \in h[u] /\ \A y \in h[u] : y <= u
  <2> SUFFICES ASSUME NEW u \in C \cup E \cup X PROVE u \in h[u] /\ \A y \in h[u] : y <= u
    OBVIOUS
  <2>1. u \in Nat /\ u \in h[u] /\ h[u] \subseteq 0 .. u
    BY <1>1, <1>2, <1>4
  <2> QED
    BY <2>1
<1>6. X \subseteq Nat
  BY <1>1, <1>2
<1>7. Stretch(h, C, E, X)
  BY <1>1, <1>2, <1>3, <1>5, <1>6 DEF Stretch
<1> QED
  BY <1>7 DEF h, C, E, X

\* What the items say does not depend on the version or the snapshot.
LEMMA SameItemsStand ==
  ASSUME NEW log, NEW x, NEW y, IsWalk(y), y.items = x.items, y.item = x.item, y.delTargets = x.delTargets
  PROVE  /\ \A act : StandsAt(log, x, act) => StandsAt(log, y, act)
         /\ Walked(log, y) = Walked(log, x)
<1>1. Walked(log, y) = Walked(log, x)
  BY DEF Walked
<1>2. \A u : Deletes(y, u) = Deletes(x, u)
  BY DEF Deletes
<1>3. \A act, u : StateAt(log, y, act, u) = StateAt(log, x, act, u)
  BY <1>2 DEF StateAt
<1>4. \A d \in DOMAIN x.delTargets : TargetFits(log, x, d) => TargetFits(log, y, d)
  BY DEF TargetFits
<1>5. ASSUME NEW act, StandsAt(log, x, act) PROVE StandsAt(log, y, act)
  <2>1. Stored(log, y)
    BY <1>4, <1>5 DEF StandsAt, Stored
  <2> QED
    BY <1>3, <1>5, <2>1 DEF StandsAt
<1> QED
  BY <1>1, <1>5

\* The version the walk says it is at changes no item.
LEMMA VersionMoves ==
  ASSUME NEW log, NEW x, IsWalk(x), NEW f
  PROVE  LET y == [x EXCEPT !.curVersion = f]
         IN  /\ \A act : StandsAt(log, x, act) => StandsAt(log, y, act)
             /\ Walked(log, y) = Walked(log, x) /\ y.curVersion = f /\ y.ok = x.ok
<1> DEFINE y == [x EXCEPT !.curVersion = f]
<1>1. x = [items |-> x.items, item |-> x.item, delTargets |-> x.delTargets,
           curVersion |-> x.curVersion, doc |-> x.doc, writes |-> x.writes, ok |-> x.ok]
  BY DEF IsWalk
<1>2. y = [items |-> x.items, item |-> x.item, delTargets |-> x.delTargets,
           curVersion |-> f, doc |-> x.doc, writes |-> x.writes, ok |-> x.ok]
  BY <1>1
<1> HIDE DEF y
<1>3. IsWalk(y)
  BY <1>2 DEF IsWalk
<1>4. y.items = x.items /\ y.item = x.item /\ y.delTargets = x.delTargets /\ y.curVersion = f /\ y.ok = x.ok
  BY <1>2
<1> QED
  BY <1>3, <1>4, SameItemsStand DEF y

\* Nor does whether it writes.
LEMMA WritesMoves ==
  ASSUME NEW log, NEW x, IsWalk(x), NEW b
  PROVE  LET y == [x EXCEPT !.writes = b]
         IN  /\ \A act : StandsAt(log, x, act) => StandsAt(log, y, act)
             /\ Walked(log, y) = Walked(log, x) /\ y.curVersion = x.curVersion /\ y.ok = x.ok
<1> DEFINE y == [x EXCEPT !.writes = b]
<1>1. x = [items |-> x.items, item |-> x.item, delTargets |-> x.delTargets,
           curVersion |-> x.curVersion, doc |-> x.doc, writes |-> x.writes, ok |-> x.ok]
  BY DEF IsWalk
<1>2. y = [items |-> x.items, item |-> x.item, delTargets |-> x.delTargets,
           curVersion |-> x.curVersion, doc |-> x.doc, writes |-> b, ok |-> x.ok]
  BY <1>1
<1> HIDE DEF y
<1>3. IsWalk(y)
  BY <1>2 DEF IsWalk
<1>4. y.items = x.items /\ y.item = x.item /\ y.delTargets = x.delTargets
      /\ y.curVersion = x.curVersion /\ y.ok = x.ok
  BY <1>2
<1> QED
  BY <1>3, <1>4, SameItemsStand DEF y

\* The walk has made the first of its steps.
Reached(log, x, parts, list, y) ==
  LET E == EventsOf(Histories(log.cg), parts[1].part.parents)
      X == Extent(parts[1].part)
  IN  /\ StandsAt(log, y, ForceOf(Tail(list), E, X))
      /\ y.curVersion = x.curVersion
      /\ Walked(log, y) = Walked(log, x) \cup (Of(list, "apply") \ Of(Tail(list), "apply"))

\* What the first step needs, it finds.
LEMMA StepReaches ==
  ASSUME NEW log, GraphInv(log.cg), NEW x, NEW parts, NEW list, list # <<>>,
         NEW past \in SUBSET Versions(log.cg), WalkFits(log, x, parts, list, past)
  PROVE  LET v == list[1][2]
         IN  /\ list[1][1] = "retreat" =>
                  RetreatAllowed(x, log, v) /\ Reached(log, x, parts, list, Retreat1(x, log, v))
             /\ list[1][1] = "advance" =>
                  AdvanceAllowed(x, log, v) /\ Reached(log, x, parts, list, Advance1(x, log, v))
             /\ list[1][1] = "apply" =>
                  /\ InForce(log, x, parts, list) = Histories(log.cg)[v] \ {v} /\ v \notin Walked(log, x)
                  /\ Apply1(x, log, v).ok => Reached(log, x, parts, list, Apply1(x, log, v))
<1> DEFINE g   == log.cg
           h   == Histories(g)
           p   == parts[1].part
           C   == EventsOf(h, x.curVersion)
           E   == EventsOf(h, p.parents)
           X   == Extent(p)
           k   == list[1][1]
           v   == list[1][2]
           act == ForceOf(list, E, X)
           new == ForceOf(Tail(list), E, X)
           W   == Walked(log, x)
<1>1. /\ x.curVersion \subseteq Versions(g) /\ past \subseteq C /\ C \subseteq past \cup W
      /\ StandsAt(log, x, act) /\ parts # <<>> /\ parts \in Seq([part : Part, writes : BOOLEAN])
      /\ TodoFits(g, past, W, parts)
      /\ StepsFit(list, C, E, X) /\ Of(list, "apply") \cap W = {} /\ X \subseteq W \cup Of(list, "apply")
      /\ InForce(log, x, parts, list) = act
  BY DEF WalkFits, Arrived, OnTheWay, InForce
<1>2. 1 \in DOMAIN parts /\ Earlier(parts, 1) = {}
  BY <1>1, EmptySeq DEF Earlier
<1>3. PartFits(g, p) /\ past \subseteq E /\ E \subseteq past \cup W
  BY <1>1, <1>2 DEF TodoFits
<1>4. Stretch(h, C, E, X) /\ X \subseteq Versions(g)
  BY <1>1, <1>3, PartStretches, PartHistory
<1>5. Takes(list, Tail(list), v, C, E, X)
  BY <1>1, StepTakes
<1> HIDE DEF h, C, E, X, p, W, act, new, g, v
<1>6. /\ k = "retreat" => v \in C \ E /\ RetreatReady(h, act, v, new)
      /\ k = "advance" => v \in E \ C /\ AdvanceReady(h, act, v, new)
      /\ k = "apply"   => v \in X /\ ApplyReady(h, act, v, new)
  BY <1>1, <1>4, <1>5, StepIsReady DEF act, new
<1>7. ASSUME NEW y, StandsAt(log, y, new), y.curVersion = x.curVersion,
             Walked(log, y) = W \cup (Of(list, "apply") \ Of(Tail(list), "apply"))
      PROVE  Reached(log, x, parts, list, y)
  BY <1>7 DEF Reached, new, W, E, X, p, h, g
<1>8. ASSUME k = "retreat" PROVE RetreatAllowed(x, log, v) /\ Reached(log, x, parts, list, Retreat1(x, log, v))
  <2>1. v \in W /\ v \in act /\ h[v] \subseteq act /\ (\A u \in act \ {v} : v \notin h[u]) /\ new = act \ {v}
    BY <1>1, <1>3, <1>6, <1>8 DEF RetreatReady
  <2>2. RetreatAllowed(x, log, v) /\ Moved(log, x, Retreat1(x, log, v), new)
    BY <1>1, <2>1, RetreatFits DEF W, h, g
  <2>3. Of(list, "apply") \ Of(Tail(list), "apply") = {}
    BY <1>5, <1>8 DEF Takes
  <2> QED
    BY <1>7, <2>2, <2>3 DEF Moved, W
<1>9. ASSUME k = "advance" PROVE AdvanceAllowed(x, log, v) /\ Reached(log, x, parts, list, Advance1(x, log, v))
  <2>1. v \in W /\ v \notin act /\ h[v] \ {v} \subseteq act /\ (\A u \in act : v \notin h[u]) /\ new = act \cup {v}
    BY <1>1, <1>3, <1>6, <1>9 DEF AdvanceReady
  <2>2. AdvanceAllowed(x, log, v) /\ Moved(log, x, Advance1(x, log, v), new)
    BY <1>1, <2>1, AdvanceFits DEF W, h, g
  <2>3. Of(list, "apply") \ Of(Tail(list), "apply") = {}
    BY <1>5, <1>9 DEF Takes
  <2> QED
    BY <1>7, <2>2, <2>3 DEF Moved, W
<1>10. ASSUME k = "apply"
       PROVE  /\ act = h[v] \ {v} /\ v \notin W
              /\ Apply1(x, log, v).ok => Reached(log, x, parts, list, Apply1(x, log, v))
  <2>1. v \in Versions(g) /\ act = h[v] \ {v} /\ new = act \cup {v}
    BY <1>4, <1>6, <1>10 DEF ApplyReady
  <2>2. v \in Of(list, "apply") /\ Of(list, "apply") = Of(Tail(list), "apply") \cup {v}
        /\ v \in Nat /\ \A u \in Of(Tail(list), "apply") : v < u
    <3>1. Of(list, "apply") = Of(Tail(list), "apply") \cup {v} /\ \A u \in Of(Tail(list), "apply") : v < u
      BY <1>5, <1>10 DEF Takes
    <3>2. v \in Nat
      BY <1>4, <1>6, <1>10 DEF Stretch
    <3> QED
      BY <3>1, <3>2
  <2>3. v \notin W
    BY <1>1, <2>2
  <2>4. Of(list, "apply") \ Of(Tail(list), "apply") = {v}
    <3>1. ~ (v < v)
      BY <2>2
    <3> QED
      BY <2>2, <3>1
  <2>5. Apply1(x, log, v).ok => Applied(log, x, Apply1(x, log, v), act, v)
    BY <1>1, <2>1, <2>3, ApplyFits DEF W, h, g
  <2> QED
    BY <1>7, <2>1, <2>3, <2>4, <2>5 DEF Applied, W
<1> QED
  BY <1>1, <1>8, <1>9, <1>10 DEF W, h, g, v

\* More is walked of what is to be walked on.
LEMMA TodoStays ==
  ASSUME NEW g, NEW past, NEW W, NEW parts, TodoFits(g, past, W, parts), NEW W1, W \subseteq W1
  PROVE  TodoFits(g, past, W1, parts)
<1> SUFFICES ASSUME NEW i \in DOMAIN parts
             PROVE  LET p == parts[i].part
                        E == EventsOf(Histories(g), p.parents)
                    IN  /\ PartFits(g, p)
                        /\ past \subseteq E /\ E \subseteq past \cup W1 \cup Earlier(parts, i)
                        /\ Extent(p) \cap Earlier(parts, i) = {}
  BY DEF TodoFits
<1>1. LET p == parts[i].part
          E == EventsOf(Histories(g), p.parents)
      IN  /\ PartFits(g, p)
          /\ past \subseteq E /\ E \subseteq past \cup W \cup Earlier(parts, i)
          /\ Extent(p) \cap Earlier(parts, i) = {}
  BY DEF TodoFits
<1> QED
  BY <1>1

\* The first part is among those before any later one.
LEMMA FirstIsEarlier ==
  ASSUME NEW T, NEW parts \in Seq(T), parts # <<>>
  PROVE  /\ \A i \in DOMAIN parts : 2 <= i => Extent(parts[1].part) \subseteq Earlier(parts, i)
         /\ Tail(parts) \in Seq(T)
         /\ \A i \in DOMAIN Tail(parts) :
              /\ i + 1 \in DOMAIN parts /\ 2 <= i + 1 /\ Tail(parts)[i] = parts[i + 1]
              /\ Earlier(parts, i + 1) = Extent(parts[1].part) \cup Earlier(Tail(parts), i)
<1> DEFINE n    == Len(parts)
           rest == Tail(parts)
<1>1. n \in Nat \ {0} /\ DOMAIN parts = 1 .. n
  BY EmptySeq
<1>2. rest \in Seq(T) /\ DOMAIN rest = 1 .. (n - 1) /\ \A i \in 1 .. (n - 1) : rest[i] = parts[i + 1]
  BY <1>1
<1> HIDE DEF n, rest
<1>3. \A i, u : u \in Earlier(parts, i) <=> \E j \in 1 .. (i - 1) : u \in Extent(parts[j].part)
  BY DEF Earlier
<1>4. \A i, u : u \in Earlier(rest, i) <=> \E j \in 1 .. (i - 1) : u \in Extent(rest[j].part)
  BY DEF Earlier
<1>5. ASSUME NEW i \in DOMAIN parts, 2 <= i PROVE Extent(parts[1].part) \subseteq Earlier(parts, i)
  <2>1. 1 \in 1 .. (i - 1)
    BY <1>1, <1>5
  <2> QED
    BY <1>3, <2>1
<1>6. ASSUME NEW i \in DOMAIN rest
      PROVE  /\ i + 1 \in DOMAIN parts /\ 2 <= i + 1 /\ rest[i] = parts[i + 1]
             /\ Earlier(parts, i + 1) = Extent(parts[1].part) \cup Earlier(rest, i)
  <2>1. i \in 1 .. (n - 1) /\ i + 1 \in 1 .. n /\ 2 <= i + 1 /\ (i + 1) - 1 = i
    BY <1>1, <1>2
  <2>2. \A j \in 1 .. i : j = 1 \/ (j - 1 \in 1 .. (i - 1) /\ j - 1 \in 1 .. (n - 1) /\ (j - 1) + 1 = j)
    BY <1>1, <2>1
  <2>3. \A j \in 1 .. (i - 1) : j + 1 \in 1 .. i /\ j \in 1 .. (n - 1)
    BY <1>1, <2>1
  <2>4. ASSUME NEW u \in Earlier(parts, i + 1) PROVE u \in Extent(parts[1].part) \cup Earlier(rest, i)
    <3>1. PICK j \in 1 .. i : u \in Extent(parts[j].part)
      BY <1>3, <2>1
    <3>2. CASE j # 1
      <4>1. j - 1 \in 1 .. (i - 1) /\ rest[j - 1] = parts[j]
        BY <1>2, <2>2, <3>2
      <4> QED
        BY <1>4, <3>1, <4>1
    <3> QED
      BY <3>1, <3>2
  <2>5. ASSUME NEW u \in Extent(parts[1].part) \cup Earlier(rest, i) PROVE u \in Earlier(parts, i + 1)
    <3>1. CASE u \in Earlier(rest, i)
      <4>1. PICK j \in 1 .. (i - 1) : u \in Extent(rest[j].part)
        BY <1>4, <3>1
      <4>2. j + 1 \in 1 .. i /\ rest[j] = parts[j + 1]
        BY <1>2, <2>3
      <4> QED
        BY <1>3, <2>1, <4>1, <4>2
    <3>2. CASE u \in Extent(parts[1].part)
      BY <1>1, <1>5, <2>1, <3>2
    <3> QED
      BY <2>5, <3>1, <3>2
  <2> QED
    BY <1>1, <1>2, <2>1, <2>4, <2>5
<1> QED
  BY <1>2, <1>5, <1>6 DEF rest

\* The step leaves the walk where it should be.
LEMMA ReachedFits ==
  ASSUME NEW log, GraphInv(log.cg), NEW x, NEW parts, NEW list, list # <<>>,
         NEW past \in SUBSET Versions(log.cg), WalkFits(log, x, parts, list, past),
         NEW y, Reached(log, x, parts, list, y)
  PROVE  IF Len(list) = 1
         THEN WalkFits(log, [y EXCEPT !.curVersion = {parts[1].part.vEnd - 1}], Tail(parts), <<>>, past)
         ELSE WalkFits(log, y, parts, Tail(list), past)
<1> DEFINE g    == log.cg
           h    == Histories(g)
           p    == parts[1].part
           C    == EventsOf(h, x.curVersion)
           E    == EventsOf(h, p.parents)
           X    == Extent(p)
           T    == [part : Part, writes : BOOLEAN]
           W    == Walked(log, x)
           W1   == Walked(log, y)
           U    == Of(list, "apply")
           rest == Tail(list)
           U1   == Of(rest, "apply")
           end  == p.vEnd - 1
           z    == [y EXCEPT !.curVersion = {end}]
<1>1. /\ x.curVersion \subseteq Versions(g) /\ past \subseteq C /\ C \subseteq past \cup W
      /\ parts # <<>> /\ parts \in Seq(T) /\ TodoFits(g, past, W, parts)
      /\ StepsFit(list, C, E, X) /\ U \cap W = {} /\ X \subseteq W \cup U
      /\ Ahead(log, x, parts, 2)
  BY DEF WalkFits, Arrived, OnTheWay
<1>2. StandsAt(log, y, ForceOf(rest, E, X)) /\ y.curVersion = x.curVersion /\ W1 = W \cup (U \ U1)
  BY DEF Reached
<1>3. 1 \in DOMAIN parts /\ Earlier(parts, 1) = {}
  BY <1>1, EmptySeq DEF Earlier
<1>4. PartFits(g, p) /\ past \subseteq E /\ E \subseteq past \cup W
  BY <1>1, <1>3 DEF TodoFits
<1>5. /\ X \subseteq Versions(g) /\ end \in X /\ h[end] = E \cup X
  BY <1>4, PartHistory
<1>6. Takes(list, rest, list[1][2], C, E, X)
  BY <1>1, StepTakes
<1>7. StepsFit(rest, C, E, X) /\ U1 \subseteq U /\ U \subseteq X
  <2>1. list[1][1] \in Kinds /\ "apply" \in Kinds /\ list \in Seq(Kinds \X Nat)
    BY <1>1, StepsSplit DEF StepsFit, Kinds
  <2>2. U1 \subseteq U
    BY <2>1, StepsSplit
  <2> QED
    BY <1>1, <1>6, <2>2 DEF Takes, StepsFit
<1>8. W \subseteq W1 /\ U1 \cap W1 = {} /\ X \subseteq W1 \cup U1 /\ W1 \subseteq W \cup X
  BY <1>1, <1>2, <1>7
<1>9. TodoFits(g, past, W1, parts)
  BY <1>1, <1>8, TodoStays
<1>10. /\ \A i \in DOMAIN parts : 2 <= i => X \subseteq Earlier(parts, i)
       /\ Tail(parts) \in Seq(T)
       /\ \A i \in DOMAIN Tail(parts) :
            /\ i + 1 \in DOMAIN parts /\ 2 <= i + 1 /\ Tail(parts)[i] = parts[i + 1]
            /\ Earlier(parts, i + 1) = X \cup Earlier(Tail(parts), i)
  <2> HIDE DEF T
  <2> QED
    BY <1>1, FirstIsEarlier
<1> HIDE DEF g, h, p, C, E, X, T, W, W1, U, U1, rest, end, z
<1>11. \A i \in DOMAIN parts : 2 <= i => Extent(parts[i].part) \cap W1 = {}
  <2> SUFFICES ASSUME NEW i \in DOMAIN parts, 2 <= i PROVE Extent(parts[i].part) \cap W1 = {}
    OBVIOUS
  <2>1. Extent(parts[i].part) \cap W = {}
    BY <1>1 DEF Ahead, W
  <2>2. Extent(parts[i].part) \cap Earlier(parts, i) = {}
    BY <1>1 DEF TodoFits
  <2> QED
    BY <1>8, <1>10, <2>1, <2>2
<1>12. IsWalk(y)
  BY <1>2 DEF StandsAt, Stored
<1>13. Len(list) \in Nat \ {0} /\ list \in Seq(Kinds \X Nat) /\ (rest = <<>> <=> Len(list) = 1)
  <2>1. list \in Seq(Kinds \X Nat)
    BY <1>1 DEF StepsFit
  <2>2. Len(list) \in Nat \ {0} /\ rest \in Seq(Kinds \X Nat) /\ Len(rest) = Len(list) - 1
    BY <2>1, EmptySeq DEF rest
  <2>3. rest = <<>> <=> Len(rest) = 0
    BY <2>2, EmptySeq
  <2> QED
    BY <2>1, <2>2, <2>3
<1>14. CASE Len(list) # 1
  <2>1. Arrived(log, y, past)
    BY <1>1, <1>2, <1>8 DEF Arrived, C, W, W1, h, g
  <2>2. StandsAt(log, y, InForce(log, y, parts, rest))
    BY <1>2, <1>13, <1>14 DEF InForce, E, X, p, h, g
  <2>3. OnTheWay(log, y, p, rest)
    BY <1>2, <1>7, <1>8 DEF OnTheWay, C, E, X, W1, U1, h, g
  <2>4. Ahead(log, y, parts, 2)
    BY <1>11 DEF Ahead, W1
  <2>5. WalkFits(log, y, parts, rest, past)
    BY <1>1, <1>9, <1>13, <1>14, <2>1, <2>2, <2>3, <2>4 DEF WalkFits, T, p, g, W1
  <2> QED
    BY <1>14, <2>5 DEF rest
<1>15. CASE Len(list) = 1
  <2>1. /\ \A act : StandsAt(log, y, act) => StandsAt(log, z, act)
        /\ Walked(log, z) = W1 /\ z.curVersion = {end}
    BY <1>12, VersionMoves DEF z, W1
  <2>2. EventsOf(h, {end}) = E \cup X
    BY <1>5 DEF EventsOf
  <2>3. U1 = {}
    BY <1>13, <1>15 DEF U1, Of
  <2>4. ForceOf(rest, E, X) = E \cup X
    <3>1. \A kind : Of(rest, kind) = {}
      BY <1>13, <1>15 DEF Of
    <3> QED
      BY <3>1 DEF ForceOf
  <2>5. Arrived(log, z, past)
    <3>1. {end} \subseteq Versions(g)
      BY <1>5
    <3>2. past \subseteq E \cup X /\ E \cup X \subseteq past \cup W1
      BY <1>4, <1>8, <2>3
    <3> QED
      BY <2>1, <2>2, <3>1, <3>2 DEF Arrived, h, g
  <2>6. StandsAt(log, z, InForce(log, z, Tail(parts), <<>>))
    BY <1>2, <2>1, <2>2, <2>4 DEF InForce, h, g
  <2>7. TodoFits(g, past, W1, Tail(parts))
    <3> SUFFICES ASSUME NEW i \in DOMAIN Tail(parts)
                 PROVE  LET q == Tail(parts)[i].part
                            F == EventsOf(Histories(g), q.parents)
                        IN  /\ PartFits(g, q)
                            /\ past \subseteq F /\ F \subseteq past \cup W1 \cup Earlier(Tail(parts), i)
                            /\ Extent(q) \cap Earlier(Tail(parts), i) = {}
      BY DEF TodoFits
    <3> DEFINE q == Tail(parts)[i].part
               F == EventsOf(Histories(g), q.parents)
    <3>1. /\ PartFits(g, q) /\ past \subseteq F
          /\ F \subseteq past \cup W1 \cup Earlier(parts, i + 1)
          /\ Extent(q) \cap Earlier(parts, i + 1) = {}
      BY <1>9, <1>10 DEF TodoFits
    <3>2. Earlier(parts, i + 1) = X \cup Earlier(Tail(parts), i)
      BY <1>10
    <3> HIDE DEF q, F
    <3>3. F \subseteq past \cup W1 \cup Earlier(Tail(parts), i) /\ Extent(q) \cap Earlier(Tail(parts), i) = {}
      BY <1>8, <2>3, <3>1, <3>2
    <3> QED
      BY <3>1, <3>3 DEF q, F
  <2>8. Ahead(log, z, Tail(parts), 1)
    BY <1>10, <1>11, <2>1 DEF Ahead
  <2>9. WalkFits(log, z, Tail(parts), <<>>, past)
    BY <1>10, <2>1, <2>5, <2>6, <2>7, <2>8 DEF WalkFits, T, g
  <2> QED
    BY <1>15, <2>9 DEF z, end, p
<1> QED
  BY <1>14, <1>15

-----------------------------------------------------------------------------
(* The beginning of a part.                                                *)

\* Steps, each before the next.
InOrder(list) ==
  /\ list \in Seq(Kinds \X Nat)
  /\ \A i, j \in DOMAIN list : i < j => Precedes(list[i], list[j])

\* Steps of one kind, over a set.
Listed(list, kind, S) ==
  /\ InOrder(list)
  /\ \A i \in DOMAIN list : list[i][1] = kind
  /\ \A u : u \in S <=> \E i \in DOMAIN list : u = list[i][2]

\* The order of the kinds.
LEMMA RanksOfKinds == Rank["retreat"] = 0 /\ Rank["advance"] = 1 /\ Rank["apply"] = 2
BY DEF Rank, Kinds

\* Steps forward, the lowest first.
LEMMA StepsUp ==
  ASSUME NEW list, NEW S, Rising(list, S), NEW kind \in {"advance", "apply"}
  PROVE  Listed(Tagged(kind, list), kind, S)
<1> DEFINE t == Tagged(kind, list)
           n == Len(list)
<1>1. /\ list \in Seq(Nat) /\ n \in Nat /\ DOMAIN list = 1 .. n
      /\ \A i, j \in 1 .. n : i < j => list[i] < list[j]
      /\ \A u : u \in S <=> \E i \in 1 .. n : u = list[i]
  BY DEF Rising
<1>2. t \in [1 .. n -> Kinds \X Nat]
  BY <1>1 DEF Tagged, Kinds
<1>3. t \in Seq(Kinds \X Nat) /\ DOMAIN t = 1 .. n
  BY <1>1, <1>2
<1>4. \A i \in 1 .. n : t[i] = <<kind, list[i]>>
  BY <1>1 DEF Tagged
<1> HIDE DEF t, n
<1>5. \A i \in 1 .. n : t[i][1] = kind /\ t[i][2] = list[i]
  BY <1>4
<1>6. \A i, j \in 1 .. n : i < j => Precedes(t[i], t[j])
  BY <1>1, <1>5 DEF Precedes
<1>7. \A u : u \in S <=> \E i \in 1 .. n : u = t[i][2]
  BY <1>1, <1>5
<1> QED
  BY <1>3, <1>5, <1>6, <1>7 DEF Listed, InOrder, t

\* Steps back, the highest first.
LEMMA StepsDown ==
  ASSUME NEW list, NEW S, Rising(list, S)
  PROVE  Listed(Tagged("retreat", Reversed(list)), "retreat", S)
<1> DEFINE t == Tagged("retreat", Reversed(list))
           n == Len(list)
<1>1. /\ list \in Seq(Nat) /\ n \in Nat /\ DOMAIN list = 1 .. n
      /\ \A i, j \in 1 .. n : i < j => list[i] < list[j]
      /\ \A u : u \in S <=> \E i \in 1 .. n : u = list[i]
  BY DEF Rising
<1>2. \A i \in 1 .. n : (n + 1) - i \in 1 .. n /\ (n + 1) - ((n + 1) - i) = i
  BY <1>1
<1>3. Reversed(list) = [i \in 1 .. n |-> list[(n + 1) - i]]
  BY <1>1 DEF Reversed
<1>4. DOMAIN t = 1 .. n /\ \A i \in 1 .. n : t[i] = <<"retreat", list[(n + 1) - i]>>
  BY <1>1, <1>3 DEF Tagged
<1>5. \A i \in 1 .. n : list[i] \in Nat
  BY <1>1
<1>6. t \in Seq(Kinds \X Nat)
  <2>1. t = [i \in 1 .. n |-> <<"retreat", list[(n + 1) - i]>>]
    BY <1>1, <1>3 DEF Tagged
  <2> HIDE DEF t, n
  <2>2. t \in [1 .. n -> Kinds \X Nat]
    BY <1>2, <1>5, <2>1 DEF Kinds
  <2> QED
    BY <1>1, <2>2
<1> HIDE DEF t, n
<1>7. \A i \in 1 .. n : t[i][1] = "retreat" /\ t[i][2] = list[(n + 1) - i]
  BY <1>4
<1>8. ASSUME NEW i \in 1 .. n, NEW j \in 1 .. n, i < j PROVE Precedes(t[i], t[j])
  <2>1. (n + 1) - j < (n + 1) - i /\ (n + 1) - i \in 1 .. n /\ (n + 1) - j \in 1 .. n
    BY <1>1, <1>8
  <2>2. list[(n + 1) - j] < list[(n + 1) - i]
    BY <1>1, <2>1
  <2> QED
    BY <1>7, <2>2 DEF Precedes
<1>9. ASSUME NEW u, u \in S PROVE \E i \in 1 .. n : u = t[i][2]
  <2>1. PICK i \in 1 .. n : u = list[i]
    BY <1>1, <1>9
  <2>2. (n + 1) - i \in 1 .. n /\ t[(n + 1) - i][2] = list[i]
    BY <1>2, <1>7
  <2> QED
    BY <2>1, <2>2
<1>10. \A i \in 1 .. n : t[i][2] \in S
  BY <1>1, <1>2, <1>7
<1> QED
  BY <1>4, <1>6, <1>7, <1>8, <1>9, <1>10 DEF Listed, InOrder, t

\* The step is one of the list's.
IsStepOf(list, s) == \E i \in DOMAIN list : s = list[i]

\* Lists of steps, one after the other.
LEMMA StepsJoin ==
  ASSUME NEW s, InOrder(s), NEW t, InOrder(t),
         \A i \in DOMAIN s, j \in DOMAIN t : Rank[s[i][1]] < Rank[t[j][1]]
  PROVE  /\ InOrder(s \o t)
         /\ \A i \in DOMAIN (s \o t) : IsStepOf(s, (s \o t)[i]) \/ IsStepOf(t, (s \o t)[i])
         /\ \A i \in DOMAIN s : IsStepOf(s \o t, s[i])
         /\ \A i \in DOMAIN t : IsStepOf(s \o t, t[i])
<1> DEFINE m == Len(s)
           n == Len(t)
           r == s \o t
           T == Kinds \X Nat
<1>1. /\ s \in Seq(T) /\ t \in Seq(T)
      /\ m \in Nat /\ n \in Nat /\ DOMAIN s = 1 .. m /\ DOMAIN t = 1 .. n
  BY DEF InOrder
<1> HIDE DEF T
<1>2. /\ r \in Seq(T) /\ DOMAIN r = 1 .. (m + n)
      /\ \A i \in 1 .. m : r[i] = s[i]
      /\ \A i \in (m + 1) .. (m + n) : r[i] = t[i - m]
  BY <1>1, ConcatProperties
<1> HIDE DEF m, n, r
<1>3. \A i \in 1 .. (m + n) : i \in 1 .. m \/ (i \in (m + 1) .. (m + n) /\ i - m \in 1 .. n)
  BY <1>1
<1>4. ASSUME NEW i \in 1 .. (m + n), NEW j \in 1 .. (m + n), i < j PROVE Precedes(r[i], r[j])
  <2>1. CASE j \in 1 .. m
    <3>1. i \in 1 .. m
      BY <1>1, <1>4, <2>1
    <3> QED
      BY <1>1, <1>2, <1>4, <2>1, <3>1 DEF InOrder
  <2>2. CASE i \in 1 .. m /\ j \in (m + 1) .. (m + n) /\ j - m \in 1 .. n
    <3>1. r[i] = s[i] /\ r[j] = t[j - m] /\ Rank[s[i][1]] < Rank[t[j - m][1]]
      BY <1>1, <1>2, <2>2
    <3> QED
      BY <3>1 DEF Precedes
  <2>3. CASE i \in (m + 1) .. (m + n)
    <3>1. j \in (m + 1) .. (m + n) /\ i - m \in 1 .. n /\ j - m \in 1 .. n /\ i - m < j - m
      BY <1>1, <1>4, <2>3
    <3>2. Precedes(t[i - m], t[j - m])
      BY <1>1, <3>1 DEF InOrder
    <3> QED
      BY <1>2, <2>3, <3>1, <3>2
  <2> QED
    BY <1>3, <2>1, <2>2, <2>3
<1>5. InOrder(r)
  BY <1>2, <1>4 DEF InOrder, T
<1>6. \A i \in 1 .. (m + n) : IsStepOf(s, r[i]) \/ IsStepOf(t, r[i])
  <2> SUFFICES ASSUME NEW i \in 1 .. (m + n) PROVE IsStepOf(s, r[i]) \/ IsStepOf(t, r[i])
    OBVIOUS
  <2> QED
    BY <1>1, <1>2, <1>3 DEF IsStepOf
<1>7. \A i \in 1 .. m : IsStepOf(r, s[i])
  <2>1. \A i \in 1 .. m : i \in 1 .. (m + n)
    BY <1>1
  <2> QED
    BY <1>2, <2>1 DEF IsStepOf
<1>8. \A i \in 1 .. n : IsStepOf(r, t[i])
  <2> SUFFICES ASSUME NEW i \in 1 .. n PROVE IsStepOf(r, t[i])
    OBVIOUS
  <2>1. i + m \in (m + 1) .. (m + n) /\ i + m \in 1 .. (m + n) /\ (i + m) - m = i
    BY <1>1
  <2> QED
    BY <1>2, <2>1 DEF IsStepOf
<1> QED
  BY <1>1, <1>2, <1>5, <1>6, <1>7, <1>8 DEF r

\* The steps back, the steps forward and the operations applied, in that order.
Staged(list, R, A, X) ==
  /\ InOrder(list)
  /\ Of(list, "retreat") = R /\ Of(list, "advance") = A /\ Of(list, "apply") = X

\* The three lists of a part make up its steps.
LEMMA StagesJoin ==
  ASSUME NEW down, NEW R, Listed(down, "retreat", R), NEW up, NEW A, Listed(up, "advance", A),
         NEW on, NEW X, Listed(on, "apply", X)
  PROVE  Staged(down \o up \o on, R, A, X)
<1> DEFINE list == down \o up
           all  == list \o on
<1>1. InOrder(down) /\ InOrder(up) /\ InOrder(on)
  BY DEF Listed
<1>2. /\ \A i \in DOMAIN down : down[i][1] = "retreat"
      /\ \A i \in DOMAIN up : up[i][1] = "advance"
      /\ \A i \in DOMAIN on : on[i][1] = "apply"
  BY DEF Listed
<1>3. \A i \in DOMAIN down, j \in DOMAIN up : Rank[down[i][1]] < Rank[up[j][1]]
  BY <1>2, RanksOfKinds
<1>4. /\ InOrder(list)
      /\ \A i \in DOMAIN list : IsStepOf(down, list[i]) \/ IsStepOf(up, list[i])
      /\ \A i \in DOMAIN down : IsStepOf(list, down[i])
      /\ \A i \in DOMAIN up : IsStepOf(list, up[i])
  BY <1>1, <1>3, StepsJoin
<1> HIDE DEF list
<1>5. \A i \in DOMAIN list, j \in DOMAIN on : Rank[list[i][1]] < Rank[on[j][1]]
  <2> SUFFICES ASSUME NEW i \in DOMAIN list, NEW j \in DOMAIN on PROVE Rank[list[i][1]] < Rank[on[j][1]]
    OBVIOUS
  <2>1. list[i][1] = "retreat" \/ list[i][1] = "advance"
    BY <1>2, <1>4 DEF IsStepOf
  <2> QED
    BY <1>2, <2>1, RanksOfKinds
<1>6. /\ InOrder(all)
      /\ \A i \in DOMAIN all : IsStepOf(list, all[i]) \/ IsStepOf(on, all[i])
      /\ \A i \in DOMAIN list : IsStepOf(all, list[i])
      /\ \A i \in DOMAIN on : IsStepOf(all, on[i])
  BY <1>1, <1>4, <1>5, StepsJoin
<1> HIDE DEF all
<1>7. \A s : IsStepOf(all, s) <=> IsStepOf(down, s) \/ IsStepOf(up, s) \/ IsStepOf(on, s)
  <2>1. \A s : IsStepOf(list, s) <=> IsStepOf(down, s) \/ IsStepOf(up, s)
    BY <1>4 DEF IsStepOf
  <2>2. \A s : IsStepOf(all, s) <=> IsStepOf(list, s) \/ IsStepOf(on, s)
    BY <1>6 DEF IsStepOf
  <2> QED
    BY <2>1, <2>2
<1>8. \A kind, u : u \in Of(all, kind) <=> \E s : IsStepOf(all, s) /\ s[1] = kind /\ u = s[2]
  BY DEF Of, IsStepOf
<1>9. /\ \A s : IsStepOf(down, s) => s[1] = "retreat"
      /\ \A s : IsStepOf(up, s) => s[1] = "advance"
      /\ \A s : IsStepOf(on, s) => s[1] = "apply"
  BY <1>2 DEF IsStepOf
<1>10. /\ \A u : u \in R <=> \E s : IsStepOf(down, s) /\ u = s[2]
       /\ \A u : u \in A <=> \E s : IsStepOf(up, s) /\ u = s[2]
       /\ \A u : u \in X <=> \E s : IsStepOf(on, s) /\ u = s[2]
  BY DEF Listed, IsStepOf
<1>11. \A u : u \in Of(all, "retreat") <=> u \in R
  BY <1>7, <1>8, <1>9, <1>10
<1>12. \A u : u \in Of(all, "advance") <=> u \in A
  BY <1>7, <1>8, <1>9, <1>10
<1>13. \A u : u \in Of(all, "apply") <=> u \in X
  BY <1>7, <1>8, <1>9, <1>10
<1>14. Of(all, "retreat") = R /\ Of(all, "advance") = A /\ Of(all, "apply") = X
  BY <1>11, <1>12, <1>13
<1> QED
  BY <1>6, <1>14 DEF Staged, all, list

\* The steps of a part, before the first of them.
LEMMA StepsOfPart ==
  ASSUME NEW g, GraphInv(g), NEW x, x.curVersion \in SUBSET Versions(g), NEW p, PartFits(g, p)
  PROVE  LET h == Histories(g)
             C == EventsOf(h, x.curVersion)
             E == EventsOf(h, p.parents)
         IN  Staged(StepsFor(x, g, p), C \ E, E \ C, Extent(p))
<1> DEFINE h == Histories(g)
           C == EventsOf(h, x.curVersion)
           E == EventsOf(h, p.parents)
           d == Diff(g, x.curVersion, p.parents)
           r == <<p.version, p.vEnd>>
<1>1. p.parents \in SUBSET Versions(g)
  BY PartHistory
<1>2. /\ RangesToSet(d.aOnly) = C \ E /\ RangesToSet(d.bOnly) = E \ C
      /\ Canonical(d.aOnly) /\ Canonical(d.bOnly)
      /\ d.aOnly \in Seq(Nat \X Nat) /\ d.bOnly \in Seq(Nat \X Nat)
  BY <1>1, DiffOfGraph
<1>3. p.version \in Nat /\ p.vEnd \in Nat /\ p.version < p.vEnd
  BY DEF PartFits, Part
<1> HIDE DEF d
<1>4. Rising(RangesLVs(d.aOnly), C \ E) /\ Rising(RangesLVs(d.bOnly), E \ C)
  BY <1>2, RangesRise
<1>5. Rising(RangeLVs(r), Extent(p))
  <2>1. r[1] = p.version /\ r[2] = p.vEnd /\ r[1] <= r[2]
    BY <1>3
  <2>2. Range2Set(r) = Extent(p)
    BY <2>1 DEF Range2Set, Extent
  <2> HIDE DEF r
  <2>3. Rising(RangeLVs(r), Range2Set(r))
    BY <1>3, <2>1, RangeRises
  <2> QED
    BY <2>2, <2>3
<1> DEFINE down == Tagged("retreat", Reversed(RangesLVs(d.aOnly)))
           up   == Tagged("advance", RangesLVs(d.bOnly))
           on   == Tagged("apply", RangeLVs(r))
<1>6. Listed(down, "retreat", C \ E)
  BY <1>4, StepsDown
<1>7. Listed(up, "advance", E \ C) /\ Listed(on, "apply", Extent(p))
  BY <1>4, <1>5, StepsUp
<1>8. StepsFor(x, g, p) = down \o up \o on
  BY DEF StepsFor, StepsAfter, d
<1> HIDE DEF down, up, on
<1> QED
  BY <1>6, <1>7, <1>8, StagesJoin

\* A part begins where the walk is, with all of its steps to be made.
LEMMA PartBegins ==
  ASSUME NEW log, GraphInv(log.cg), NEW x, NEW parts, parts # <<>>,
         NEW past \in SUBSET Versions(log.cg), WalkFits(log, x, parts, <<>>, past)
  PROVE  WalkFits(log, [x EXCEPT !.writes = parts[1].writes], parts, StepsFor(x, log.cg, parts[1].part), past)
<1> DEFINE g    == log.cg
           h    == Histories(g)
           p    == parts[1].part
           y    == [x EXCEPT !.writes = parts[1].writes]
           list == StepsFor(x, g, p)
           C    == EventsOf(h, x.curVersion)
           E    == EventsOf(h, p.parents)
           X    == Extent(p)
           T    == [part : Part, writes : BOOLEAN]
<1>1. /\ Arrived(log, x, past) /\ StandsAt(log, x, InForce(log, x, parts, <<>>))
      /\ parts \in Seq(T) /\ TodoFits(g, past, Walked(log, x), parts) /\ Ahead(log, x, parts, 1)
  BY DEF WalkFits
<1>2. InForce(log, x, parts, <<>>) = C
  BY DEF InForce
<1>3. x.curVersion \in SUBSET Versions(g) /\ IsWalk(x)
  BY <1>1 DEF Arrived, StandsAt, Stored
<1>4. 1 \in DOMAIN parts
  BY <1>1, EmptySeq
<1>5. PartFits(g, p)
  BY <1>1, <1>4 DEF TodoFits
<1>6. E \cap X = {} /\ p.vEnd - 1 \in X
  BY <1>5, PartHistory
<1>7. Staged(list, C \ E, E \ C, X)
  BY <1>3, <1>5, StepsOfPart
<1>8. /\ \A act : StandsAt(log, x, act) => StandsAt(log, y, act)
      /\ Walked(log, y) = Walked(log, x) /\ y.curVersion = x.curVersion
  <2> DEFINE b == parts[1].writes
  <2> SUFFICES LET z == [x EXCEPT !.writes = b]
               IN  /\ \A act : StandsAt(log, x, act) => StandsAt(log, z, act)
                   /\ Walked(log, z) = Walked(log, x) /\ z.curVersion = x.curVersion /\ z.ok = x.ok
    OBVIOUS
  <2> HIDE DEF b
  <2> QED
    BY <1>3, WritesMoves
<1> HIDE DEF list, y, E, X
<1>9. list # <<>>
  <2>1. Of(<<>>, "apply") = {}
    BY DEF Of
  <2> QED
    BY <1>6, <1>7, <2>1 DEF Staged
<1>10. StepsFit(list, C, E, X)
  BY <1>7 DEF Staged, InOrder, StepsFit
<1>11. ForceOf(list, E, X) = C
  <2>1. Of(list, "retreat") = C \ E /\ Of(list, "advance") = E \ C /\ Of(list, "apply") = X
    BY <1>7 DEF Staged
  <2> HIDE DEF C
  <2> QED
    BY <1>6, <2>1 DEF ForceOf
<1>12. InForce(log, y, parts, list) = C
  BY <1>9, <1>11 DEF InForce, E, X
<1>13. X \cap Walked(log, x) = {}
  BY <1>1, <1>4 DEF Ahead, X
<1>14. OnTheWay(log, y, p, list)
  BY <1>7, <1>8, <1>10, <1>13 DEF OnTheWay, Staged, E, X
<1>15. Ahead(log, y, parts, 2)
  <2>1. \A i \in DOMAIN parts : 2 <= i => 1 <= i
    BY <1>1
  <2> QED
    BY <1>1, <1>8, <2>1 DEF Ahead
<1>16. Arrived(log, y, past)
  BY <1>1, <1>8 DEF Arrived
<1>17. WalkFits(log, y, parts, list, past)
  BY <1>1, <1>2, <1>8, <1>9, <1>12, <1>14, <1>15, <1>16 DEF WalkFits
<1> QED
  BY <1>17 DEF y, list

-----------------------------------------------------------------------------
(* The beginning of a merge.                                               *)

\* A list of ranges that gets another one is a list of ranges.
LEMMA PushStaysInSeq ==
  ASSUME NEW list \in Seq(Nat \X Nat), NEW start \in Nat, NEW end \in Nat
  PROVE  PushReversedRLE(list, start, end) \in Seq(Nat \X Nat)
<1>1. CASE list # <<>> /\ LastOf(list)[1] = end
  <2> DEFINE n   == Len(list)
             new == [list EXCEPT ![n] = <<start, list[n][2]>>]
  <2>1. n \in 1 .. n /\ n \in Nat /\ DOMAIN list = 1 .. n /\ \A i \in 1 .. n : list[i] \in Nat \X Nat
    BY <1>1, EmptySeq
  <2>2. PushReversedRLE(list, start, end) = new
    BY <1>1 DEF PushReversedRLE
  <2> HIDE DEF n
  <2>3. list[n][2] \in Nat
    BY <2>1
  <2>4. new \in [1 .. n -> Nat \X Nat]
    BY <2>1, <2>3
  <2> QED
    BY <2>1, <2>2, <2>4
<1>2. CASE ~ (list # <<>> /\ LastOf(list)[1] = end)
  BY <1>2 DEF PushReversedRLE
<1> QED
  BY <1>1, <1>2

\* The ranges with some flags, in ascending order.
LEMMA RangesOfFlags ==
  ASSUME NEW l \in Nat, NEW visited, VisitedTo(visited, l), NEW flags
  PROVE  LET rs == RangesFlagged(visited, flags)
         IN  rs \in Seq(Nat \X Nat) /\ Canonical(rs) /\ RangesToSet(rs) = VisitedWith(visited, flags)
<1> DEFINE n       == Len(visited)
           Take(k, list) == IF visited[k][3] \in flags
                            THEN PushReversedRLE(list, visited[k][1], visited[k][2]) ELSE list
           Loop(f) == f = [k \in 0 .. n |-> IF k = 0 THEN <<>> ELSE Take(k, f[k - 1])]
           upTo    == CHOOSE f : Loop(f)
           T       == Seq(Nat \X Nat)
           step    == [k \in 1 .. n |-> [list \in T |-> Take(k, list)]]
           Some(k) == UNION {Range2Set(visited[i]) : i \in {j \in 1 .. k : visited[j][3] \in flags}}
           low     == [k \in 0 .. n |-> IF k = 0 THEN visited[1][2] ELSE visited[k][1]]
<1>1. n \in Nat /\ DOMAIN visited = 1 .. n /\ \A k \in 1 .. n : visited[k][1] \in Nat /\ visited[k][2] \in Nat
  BY RangesVisited
<1>2. RangesFlagged(visited, flags) = Reversed(upTo[n])
  BY DEF RangesFlagged
<1>3. \A k \in 1 .. n : /\ visited[k][1] < visited[k][2]
                        /\ k # 1 => visited[k][2] <= visited[k - 1][1]
  BY <1>1 DEF VisitedTo
<1>4. \A k \in 1 .. n, list \in T : Take(k, list) \in T
  <2> SUFFICES ASSUME NEW k \in 1 .. n, NEW list \in T PROVE Take(k, list) \in T
    OBVIOUS
  <2> QED
    BY <1>1, PushStaysInSeq
<1>5. <<>> \in T /\ StepsWithin(step, n, T) /\ \A k \in 1 .. n, list \in T : step[k][list] = Take(k, list)
  <2> HIDE DEF Take
  <2>1. \A k \in 1 .. n, list \in T : step[k][list] = Take(k, list)
    OBVIOUS
  <2>2. <<>> \in T
    OBVIOUS
  <2> HIDE DEF step, T
  <2> QED
    BY <1>4, <2>1, <2>2 DEF StepsWithin
<1> HIDE DEF n, T, step, Take
<1>6. PICK f : Passed(f, <<>>, step, n, T)
  BY <1>1, <1>5, StepsExist
<1>7. \A k \in 1 .. n : k - 1 \in 0 .. n /\ k # 0 /\ k \in 0 .. n
  BY <1>1
<1>8. Loop(f)
  <2>1. \A k \in 0 .. n : f[k] = IF k = 0 THEN <<>> ELSE Take(k, f[k - 1])
    <3> SUFFICES ASSUME NEW k \in 0 .. n, k # 0 PROVE f[k] = Take(k, f[k - 1])
      BY <1>6 DEF Passed
    <3>1. k \in 1 .. n /\ k - 1 \in 0 .. n
      BY <1>1
    <3> QED
      BY <1>5, <1>6, <3>1 DEF Passed
  <2> QED
    BY <1>6, <2>1 DEF Passed
<1>9. Loop(upTo)
  <2>1. upTo = CHOOSE u : u = [k \in 0 .. n |-> IF k = 0 THEN <<>> ELSE Take(k, u[k - 1])]
    BY DEF Take, n
  <2> QED
    BY <1>8, <2>1
<1> HIDE DEF upTo
<1>10. upTo[0] = <<>> /\ \A k \in 1 .. n : upTo[k] = Take(k, upTo[k - 1])
  <2>1. \A k \in 0 .. n : upTo[k] = IF k = 0 THEN <<>> ELSE Take(k, upTo[k - 1])
    BY <1>9
  <2>2. 0 \in 0 .. n
    BY <1>1
  <2> QED
    BY <1>7, <2>1, <2>2
<1>11. \A k \in 1 .. n : /\ low[k] = visited[k][1] /\ low[k] \in Nat /\ low[k - 1] \in Nat
                         /\ visited[k][2] <= low[k - 1] /\ visited[k][1] <= low[k - 1]
  <2> SUFFICES ASSUME NEW k \in 1 .. n
               PROVE  /\ low[k] = visited[k][1] /\ low[k] \in Nat /\ low[k - 1] \in Nat
                      /\ visited[k][2] <= low[k - 1] /\ visited[k][1] <= low[k - 1]
    OBVIOUS
  <2>1. low[k] = visited[k][1]
    BY <1>7
  <2>2. CASE k = 1
    <3>1. low[0] = visited[1][2] /\ k - 1 = 0
      BY <1>1, <2>2
    <3> QED
      BY <1>1, <1>3, <2>1, <2>2, <3>1
  <2>3. CASE k # 1
    <3>1. k - 1 \in 1 .. n /\ k - 1 # 0 /\ k - 1 \in 0 .. n
      BY <1>1, <2>3
    <3>2. low[k - 1] = visited[k - 1][1]
      BY <3>1
    <3> DEFINE a == visited[k][1]
               b == visited[k][2]
               c == visited[k - 1][1]
    <3>3. a \in Nat /\ b \in Nat /\ c \in Nat /\ a < b /\ b <= c
      BY <1>1, <1>3, <2>3, <3>1
    <3> HIDE DEF a, b, c
    <3>4. a <= c
      BY <3>3
    <3> QED
      BY <2>1, <3>2, <3>3, <3>4 DEF a, b, c
  <2> QED
    BY <2>2, <2>3
<1> HIDE DEF low
<1> DEFINE Good(k) == DescendingTo(upTo[k], low[k]) /\ RangesToSet(upTo[k]) = Some(k)
           S == {k \in 0 .. n : Good(k)}
<1>12. 0 \in S
  <2>1. Some(0) = {} /\ 0 \in 0 .. n
    BY <1>1
  <2>2. DescendingTo(<<>>, low[0]) /\ RangesToSet(<<>>) = {}
    BY DEF DescendingTo, RangesToSet
  <2> HIDE DEF Some
  <2> QED
    BY <1>10, <2>1, <2>2
<1>13. ASSUME NEW k \in 1 .. n, k - 1 \in S PROVE k \in S
  <2>1. Good(k - 1) /\ k \in 0 .. n
    BY <1>7, <1>13
  <2>2. \A u : u \in Some(k) <=> u \in Some(k - 1) \/ (visited[k][3] \in flags /\ u \in Range2Set(visited[k]))
    <3>1. \A i : i \in 1 .. k <=> i \in 1 .. (k - 1) \/ i = k
      BY <1>1
    <3>2. \A u : u \in Some(k) <=> \E i \in 1 .. k : visited[i][3] \in flags /\ u \in Range2Set(visited[i])
      OBVIOUS
    <3>3. \A u : u \in Some(k - 1) <=> \E i \in 1 .. (k - 1) : visited[i][3] \in flags /\ u \in Range2Set(visited[i])
      OBVIOUS
    <3> HIDE DEF Some
    <3> QED
      BY <3>1, <3>2, <3>3, Zenon
  <2> HIDE DEF Some
  <2>3. upTo[k] = Take(k, upTo[k - 1])
    BY <1>10
  <2>4. /\ low[k] = visited[k][1] /\ low[k] \in Nat /\ low[k - 1] \in Nat
        /\ visited[k][2] <= low[k - 1] /\ visited[k][1] <= low[k - 1]
        /\ visited[k][1] \in Nat /\ visited[k][2] \in Nat /\ visited[k][1] < visited[k][2]
    BY <1>1, <1>3, <1>11
  <2>5. CASE visited[k][3] \in flags
    <3> DEFINE old   == upTo[k - 1]
               above == low[k - 1]
               a     == visited[k][1]
               b     == visited[k][2]
    <3>1. DescendingTo(old, above) /\ above \in Nat /\ a \in Nat /\ b \in Nat /\ a < b /\ b <= above
      BY <2>1, <2>4
    <3>2. upTo[k] = PushReversedRLE(old, a, b)
      BY <2>3, <2>5 DEF Take
    <3> HIDE DEF old, above, a, b
    <3>3. /\ DescendingTo(PushReversedRLE(old, a, b), a)
          /\ RangesToSet(PushReversedRLE(old, a, b)) = RangesToSet(old) \cup (a .. (b - 1))
      BY <3>1, PushRange
    <3>4. Range2Set(visited[k]) = a .. (b - 1)
      BY DEF Range2Set, a, b
    <3>5. RangesToSet(upTo[k]) = Some(k - 1) \cup Range2Set(visited[k])
      BY <2>1, <3>2, <3>3, <3>4 DEF old
    <3>6. RangesToSet(upTo[k]) = Some(k)
      BY <2>2, <2>5, <3>5
    <3> QED
      BY <2>1, <2>4, <3>2, <3>3, <3>6 DEF a
  <2>6. CASE visited[k][3] \notin flags
    <3>1. upTo[k] = upTo[k - 1]
      BY <2>3, <2>6 DEF Take
    <3>2. Some(k) = Some(k - 1)
      BY <2>2, <2>6
    <3>3. DescendingTo(upTo[k - 1], low[k])
      BY <2>1, <2>4, DescendingBelow
    <3> QED
      BY <2>1, <3>1, <3>2, <3>3
  <2> QED
    BY <2>5, <2>6
<1> HIDE DEF S
<1>14. \A k \in 0 .. n : k \in S
  BY <1>1, <1>12, <1>13, InductionTo
<1>15. Good(n)
  <2>1. n \in S
    BY <1>1, <1>14
  <2> HIDE DEF Good
  <2> QED
    BY <2>1 DEF S
<1>16. Some(n) = VisitedWith(visited, flags)
  BY <1>1 DEF VisitedWith
<1> HIDE DEF Some
<1>17. /\ Canonical(Reversed(upTo[n])) /\ RangesToSet(Reversed(upTo[n])) = RangesToSet(upTo[n])
       /\ Reversed(upTo[n]) \in Seq(Nat \X Nat)
  BY <1>15, RangesReversed
<1> QED
  BY <1>2, <1>15, <1>16, <1>17

\* Parts to be walked, from the lowest up, over a set.
Ascend(g, parts, S) ==
  /\ parts \in Seq([part : Part, writes : BOOLEAN])
  /\ \A i \in DOMAIN parts : PartFits(g, parts[i].part)
  /\ \A i, j \in DOMAIN parts : i < j => parts[i].part.vEnd <= parts[j].part.version
  /\ \A u : u \in S <=> \E i \in DOMAIN parts : u \in Extent(parts[i].part)

\* The parts of a range, each with whether it writes.
LEMMA SlicesAscend ==
  ASSUME NEW g, NEW list, NEW S, Slices(g, list, S), NEW writes \in BOOLEAN
  PROVE  Ascend(g, [j \in DOMAIN list |-> [part |-> list[j], writes |-> writes]], S)
<1> DEFINE n     == Len(list)
           T     == [part : Part, writes : BOOLEAN]
           parts == [j \in DOMAIN list |-> [part |-> list[j], writes |-> writes]]
<1>1. list \in Seq(Part) /\ n \in Nat /\ DOMAIN list = 1 .. n /\ \A i \in 1 .. n : list[i] \in Part
  BY DEF Slices
<1>2. parts \in [1 .. n -> T]
  BY <1>1
<1>3. parts \in Seq(T) /\ DOMAIN parts = 1 .. n
  BY <1>1, <1>2
<1>4. \A i \in 1 .. n : parts[i].part = list[i]
  BY <1>1
<1> HIDE DEF parts, n
<1> QED
  BY <1>1, <1>3, <1>4 DEF Slices, Ascend, parts

\* Parts behind parts below them.
LEMMA AscendJoins ==
  ASSUME NEW g, NEW s, NEW A, Ascend(g, s, A), NEW t, NEW B, Ascend(g, t, B), \A a \in A, b \in B : a < b
  PROVE  Ascend(g, s \o t, A \cup B)
<1> DEFINE m == Len(s)
           n == Len(t)
           r == s \o t
           T == [part : Part, writes : BOOLEAN]
<1>1. /\ s \in Seq(T) /\ t \in Seq(T)
      /\ m \in Nat /\ n \in Nat /\ DOMAIN s = 1 .. m /\ DOMAIN t = 1 .. n
      /\ \A i \in 1 .. m : PartFits(g, s[i].part)
      /\ \A i \in 1 .. n : PartFits(g, t[i].part)
      /\ \A i, j \in 1 .. m : i < j => s[i].part.vEnd <= s[j].part.version
      /\ \A i, j \in 1 .. n : i < j => t[i].part.vEnd <= t[j].part.version
      /\ \A u : u \in A <=> \E i \in 1 .. m : u \in Extent(s[i].part)
      /\ \A u : u \in B <=> \E i \in 1 .. n : u \in Extent(t[i].part)
  BY DEF Ascend
<1> HIDE DEF T
<1>2. /\ r \in Seq(T) /\ DOMAIN r = 1 .. (m + n)
      /\ \A i \in 1 .. m : r[i] = s[i]
      /\ \A i \in (m + 1) .. (m + n) : r[i] = t[i - m]
  BY <1>1, ConcatProperties
<1> HIDE DEF m, n, r
<1>3. \A i \in 1 .. (m + n) : i \in 1 .. m \/ (i \in (m + 1) .. (m + n) /\ i - m \in 1 .. n /\ r[i] = t[i - m])
  BY <1>1, <1>2
<1>4. \A i \in 1 .. m : i \in 1 .. (m + n)
  BY <1>1
<1>5. \A i \in 1 .. n : i + m \in (m + 1) .. (m + n) /\ i + m \in 1 .. (m + n) /\ (i + m) - m = i
  BY <1>1
<1>6. \A i \in 1 .. (m + n) : PartFits(g, r[i].part)
  BY <1>1, <1>2, <1>3
<1>7. ASSUME NEW p, PartFits(g, p)
      PROVE  p.version \in Extent(p) /\ p.vEnd - 1 \in Extent(p) /\ p.version \in Nat /\ p.vEnd \in Nat
  <2>1. p.version \in Nat /\ p.vEnd \in Nat /\ p.version < p.vEnd
    BY <1>7 DEF PartFits, Part
  <2> QED
    BY <2>1 DEF Extent
<1>8. ASSUME NEW i \in 1 .. (m + n), NEW j \in 1 .. (m + n), i < j
      PROVE  r[i].part.vEnd <= r[j].part.version
  <2>1. CASE j \in 1 .. m
    <3>1. i \in 1 .. m
      BY <1>1, <1>8, <2>1
    <3> QED
      BY <1>1, <1>2, <1>8, <2>1, <3>1
  <2>2. CASE i \in 1 .. m /\ j \in (m + 1) .. (m + n) /\ j - m \in 1 .. n
    <3> DEFINE p == s[i].part
               q == t[j - m].part
    <3>1. PartFits(g, p) /\ PartFits(g, q) /\ r[i].part = p /\ r[j].part = q
      BY <1>1, <1>2, <2>2
    <3>2. p.vEnd - 1 \in A /\ q.version \in B
      BY <1>1, <1>7, <2>2, <3>1
    <3>3. p.vEnd - 1 < q.version /\ p.vEnd \in Nat /\ q.version \in Nat
      BY <1>7, <3>1, <3>2
    <3> HIDE DEF p, q
    <3>4. p.vEnd <= q.version
      BY <3>3
    <3> QED
      BY <3>1, <3>4
  <2>3. CASE i \in (m + 1) .. (m + n)
    <3>1. j \in (m + 1) .. (m + n) /\ i - m \in 1 .. n /\ j - m \in 1 .. n /\ i - m < j - m
      BY <1>1, <1>8, <2>3
    <3>2. t[i - m].part.vEnd <= t[j - m].part.version
      BY <1>1, <3>1
    <3> QED
      BY <1>2, <2>3, <3>1, <3>2
  <2> QED
    BY <1>3, <2>1, <2>2, <2>3
<1>9. ASSUME NEW u, u \in A \cup B PROVE \E i \in 1 .. (m + n) : u \in Extent(r[i].part)
  <2>1. CASE u \in A
    <3>1. PICK i \in 1 .. m : u \in Extent(s[i].part)
      BY <1>1, <2>1
    <3> QED
      BY <1>2, <1>4, <3>1
  <2>2. CASE u \in B
    <3>1. PICK i \in 1 .. n : u \in Extent(t[i].part)
      BY <1>1, <2>2
    <3>2. i + m \in 1 .. (m + n) /\ r[i + m] = t[i]
      BY <1>2, <1>5
    <3> QED
      BY <3>1, <3>2
  <2> QED
    BY <1>9, <2>1, <2>2
<1>10. ASSUME NEW i \in 1 .. (m + n), NEW u \in Extent(r[i].part) PROVE u \in A \cup B
  BY <1>1, <1>2, <1>3
<1>11. \A u : u \in A \cup B <=> \E i \in 1 .. (m + n) : u \in Extent(r[i].part)
  BY <1>9, <1>10
<1> QED
  BY <1>2, <1>6, <1>8, <1>11 DEF Ascend, r, T

\* The parts of ascending ranges are the ranges.
LEMMA PartsOfRanges ==
  ASSUME GraphInv(oplog.cg), NEW rs \in Seq(Nat \X Nat), Canonical(rs), RangesToSet(rs) \subseteq Versions(oplog.cg),
         NEW writes \in BOOLEAN
  PROVE  Ascend(oplog.cg, PartsOf(rs, writes), RangesToSet(rs))
<1> DEFINE g       == oplog.cg
           n       == Len(rs)
           it(k)   == IterVersionsBetween(g, rs[k][1], rs[k][2])
           some(k) == [j \in DOMAIN it(k) |-> [part |-> it(k)[j], writes |-> writes]]
           Loop(f) == f = [k \in 0 .. n |-> IF k = 0 THEN <<>> ELSE f[k - 1] \o some(k)]
           upTo    == CHOOSE f : Loop(f)
           R       == [part : Part, writes : BOOLEAN]
           T       == Seq(R)
           step    == [k \in 1 .. n |-> [list \in T |-> list \o some(k)]]
<1>1. n \in Nat /\ FirstRanges(rs, 0) = {} /\ FirstRanges(rs, n) = RangesToSet(rs)
  BY RangesAscend
<1>2. PartsOf(rs, writes) = upTo[n]
  BY DEF PartsOf
<1>3. \A k \in 1 .. n : /\ rs[k][1] \in Nat /\ rs[k][2] \in Nat /\ rs[k][1] < rs[k][2]
                        /\ FirstRanges(rs, k) = FirstRanges(rs, k - 1) \cup Range2Set(rs[k])
                        /\ \A a \in FirstRanges(rs, k - 1), b \in Range2Set(rs[k]) : a < b
  BY RangesAscend
<1>4. \A k \in 1 .. n : Ascend(g, some(k), Range2Set(rs[k]))
  <2> SUFFICES ASSUME NEW k \in 1 .. n PROVE Ascend(g, some(k), Range2Set(rs[k]))
    OBVIOUS
  <2> DEFINE a == rs[k][1]
             b == rs[k][2]
  <2>1. a \in Nat /\ b \in Nat /\ a < b /\ Range2Set(rs[k]) = a .. (b - 1)
    BY <1>3 DEF Range2Set
  <2>2. Range2Set(rs[k]) \subseteq Versions(g) /\ k \in DOMAIN rs
    <3>1. k \in DOMAIN rs
      OBVIOUS
    <3> QED
      BY <3>1 DEF RangesToSet
  <2>3. NextLV(g) \in Nat /\ Versions(g) = 0 .. (NextLV(g) - 1)
    BY NextLVType DEF GraphInv, Versions
  <2> HIDE DEF a, b, g
  <2>4. b - 1 \in 0 .. (NextLV(g) - 1) /\ b <= NextLV(g)
    <3>1. b - 1 \in a .. (b - 1)
      BY <2>1
    <3>2. b - 1 \in 0 .. (NextLV(g) - 1)
      BY <2>1, <2>2, <2>3, <3>1
    <3> QED
      BY <2>1, <2>3, <3>2
  <2>5. Slices(g, IterVersionsBetween(g, a, b), a .. (b - 1))
    BY <2>1, <2>4, SlicesOfRange DEF g
  <2>6. it(k) = IterVersionsBetween(g, a, b)
    BY DEF a, b
  <2> HIDE DEF it
  <2> QED
    BY <2>1, <2>5, <2>6, SlicesAscend
<1> HIDE DEF it, some
<1>5. <<>> \in T /\ StepsWithin(step, n, T) /\ \A k \in 1 .. n, list \in T : step[k][list] = list \o some(k)
  <2>1. \A k \in 1 .. n : some(k) \in Seq(R)
    BY <1>4 DEF Ascend
  <2> HIDE DEF R
  <2>2. \A k \in 1 .. n, list \in T : step[k][list] = list \o some(k)
    OBVIOUS
  <2>3. \A k \in 1 .. n, list \in T : list \o some(k) \in T
    BY <2>1
  <2>4. <<>> \in T
    OBVIOUS
  <2> HIDE DEF step, T
  <2> QED
    BY <2>2, <2>3, <2>4 DEF StepsWithin
<1> HIDE DEF n, T, step
<1>6. PICK f : Passed(f, <<>>, step, n, T)
  BY <1>1, <1>5, StepsExist
<1>7. \A k \in 1 .. n : k - 1 \in 0 .. n /\ k # 0 /\ k \in 0 .. n
  BY <1>1
<1>8. Loop(f)
  <2>1. \A k \in 0 .. n : f[k] = IF k = 0 THEN <<>> ELSE f[k - 1] \o some(k)
    <3> SUFFICES ASSUME NEW k \in 0 .. n, k # 0 PROVE f[k] = f[k - 1] \o some(k)
      BY <1>6 DEF Passed
    <3>1. k \in 1 .. n /\ k - 1 \in 0 .. n
      BY <1>1, SMTT(30)
    <3> QED
      BY <1>5, <1>6, <3>1 DEF Passed
  <2> QED
    BY <1>6, <2>1 DEF Passed
<1>9. Loop(upTo)
  BY <1>8
<1> HIDE DEF upTo
<1>10. upTo[0] = <<>> /\ \A k \in 1 .. n : upTo[k] = upTo[k - 1] \o some(k)
  <2>1. \A k \in 0 .. n : upTo[k] = IF k = 0 THEN <<>> ELSE upTo[k - 1] \o some(k)
    BY <1>9
  <2>2. 0 \in 0 .. n
    BY <1>1
  <2> QED
    BY <1>7, <2>1, <2>2
<1> DEFINE S == {k \in 0 .. n : Ascend(g, upTo[k], FirstRanges(rs, k))}
<1>11. 0 \in S
  <2>1. Ascend(g, <<>>, {})
    BY DEF Ascend
  <2>2. upTo[0] = <<>> /\ FirstRanges(rs, 0) = {} /\ 0 \in 0 .. n
    BY <1>1, <1>10
  <2>3. Ascend(g, upTo[0], FirstRanges(rs, 0))
    BY <2>1, <2>2, Zenon
  <2> QED
    BY <2>2, <2>3
<1>12. ASSUME NEW k \in 1 .. n, k - 1 \in S PROVE k \in S
  <2>1. Ascend(g, upTo[k - 1], FirstRanges(rs, k - 1))
    BY <1>12
  <2>2. Ascend(g, upTo[k - 1] \o some(k), FirstRanges(rs, k - 1) \cup Range2Set(rs[k]))
    BY <1>3, <1>4, <2>1, AscendJoins
  <2> QED
    BY <1>3, <1>7, <1>10, <2>2
<1> HIDE DEF S
<1>13. \A k \in 0 .. n : k \in S
  BY <1>1, <1>11, <1>12, InductionTo
<1>14. n \in S
  BY <1>1, <1>13
<1> QED
  BY <1>1, <1>2, <1>14 DEF S

\* Parts over a set that is closed but for what is known can be walked in order.
LEMMA TodoOfParts ==
  ASSUME NEW g, GraphInv(g), NEW past, NEW known, NEW parts, NEW S, Ascend(g, parts, S), S \cap past = {},
         \A v \in S : past \subseteq Histories(g)[v] /\ Histories(g)[v] \subseteq past \cup known \cup S
  PROVE  TodoFits(g, past, known, parts)
<1> DEFINE h == Histories(g)
           n == Len(parts)
<1>1. /\ n \in Nat /\ DOMAIN parts = 1 .. n
      /\ \A i \in 1 .. n : PartFits(g, parts[i].part)
      /\ \A i, j \in 1 .. n : i < j => parts[i].part.vEnd <= parts[j].part.version
      /\ \A u : u \in S <=> \E i \in 1 .. n : u \in Extent(parts[i].part)
  BY DEF Ascend
<1> HIDE DEF n
<1> SUFFICES ASSUME NEW i \in 1 .. n
             PROVE  LET p == parts[i].part
                        E == EventsOf(h, p.parents)
                    IN  /\ PartFits(g, p)
                        /\ past \subseteq E /\ E \subseteq past \cup known \cup Earlier(parts, i)
                        /\ Extent(p) \cap Earlier(parts, i) = {}
  BY <1>1 DEF TodoFits
<1> DEFINE p == parts[i].part
           E == EventsOf(h, p.parents)
           X == Extent(p)
           v == p.version
<1>2. PartFits(g, p)
  BY <1>1
<1>3. v \in Nat /\ p.vEnd \in Nat /\ v < p.vEnd /\ X = v .. (p.vEnd - 1)
  BY <1>2 DEF PartFits, Part, Extent
<1>4. /\ X \subseteq Versions(g) /\ E \cap X = {} /\ E \subseteq Versions(g)
      /\ \A u \in X : h[u] = E \cup {q \in X : q <= u}
  BY <1>2, PartHistory
<1>5. X \subseteq S
  BY <1>1
<1>6. \A q : q \in Earlier(parts, i) <=> \E j \in 1 .. (i - 1) : q \in Extent(parts[j].part)
  BY DEF Earlier
<1>7. v \in X
  BY <1>3
<1>8. h[v] \subseteq 0 .. v
  BY <1>4, <1>7, HistoryOfVersion
<1>14. past \subseteq h[v] /\ h[v] \subseteq past \cup known \cup S
  BY <1>5, <1>7
<1>15. h[v] = E \cup {q \in X : q <= v}
  BY <1>4, <1>7
<1> HIDE DEF h, E, X
<1>9. past \subseteq E
  <2>1. past \cap X = {}
    BY <1>5
  <2> QED
    BY <1>14, <1>15, <2>1
<1>10. E \subseteq past \cup known \cup S
  BY <1>14, <1>15
<1>11. ASSUME NEW q \in E, q \in S PROVE q \in Earlier(parts, i)
  <2>1. q \in h[v] /\ q \notin X
    BY <1>4, <1>7, <1>11
  <2>2. q \in Nat /\ q < v
    BY <1>3, <1>7, <1>8, <2>1
  <2>3. PICK j \in 1 .. n : q \in Extent(parts[j].part)
    BY <1>1, <1>11
  <2>4. parts[j].part.version \in Nat /\ parts[j].part.version <= q
    <3>1. PartFits(g, parts[j].part)
      BY <1>1
    <3> DEFINE a == parts[j].part.version
               b == parts[j].part.vEnd
    <3>2. a \in Nat /\ b \in Nat /\ q \in a .. (b - 1)
      BY <2>3, <3>1 DEF PartFits, Part, Extent
    <3> HIDE DEF a, b
    <3>3. a <= q
      BY <2>2, <3>2
    <3> QED
      BY <3>2, <3>3 DEF a
  <2>5. j # i
    BY <2>1, <2>3 DEF X
  <2>6. ~ (i < j)
    <3> SUFFICES ASSUME i < j PROVE FALSE
      OBVIOUS
    <3>1. p.vEnd <= parts[j].part.version
      BY <1>1
    <3> DEFINE a == parts[j].part.version
               b == p.vEnd
    <3>2. a \in Nat /\ b \in Nat /\ b <= a /\ a <= q /\ v < b
      BY <1>3, <2>4, <3>1
    <3> HIDE DEF a, b, v
    <3> QED
      BY <1>3, <2>2, <3>2
  <2>7. j \in 1 .. (i - 1)
    BY <1>1, <2>3, <2>5, <2>6
  <2> QED
    BY <1>6, <2>3, <2>7
<1>12. E \subseteq past \cup known \cup Earlier(parts, i)
  BY <1>10, <1>11
<1>13. ASSUME NEW q \in X, q \in Earlier(parts, i) PROVE FALSE
  <2>1. PICK j \in 1 .. (i - 1) : q \in Extent(parts[j].part)
    BY <1>6, <1>13
  <2>2. j \in 1 .. n /\ j < i
    BY <1>1
  <2>3. PartFits(g, parts[j].part) /\ parts[j].part.vEnd <= v
    BY <1>1, <2>2
  <2> DEFINE a == parts[j].part.version
             b == parts[j].part.vEnd
  <2>4. a \in Nat /\ b \in Nat /\ q \in a .. (b - 1) /\ b <= v
    BY <2>1, <2>3 DEF PartFits, Part, Extent
  <2> HIDE DEF a, b
  <2> QED
    BY <1>3, <2>4
<1> QED
  BY <1>2, <1>9, <1>12, <1>13 DEF E, X

\* Two such lists, one after the other.
LEMMA TodoJoins ==
  ASSUME NEW g, NEW past, NEW s, NEW A, Ascend(g, s, A), TodoFits(g, past, {}, s),
         NEW t, NEW B, Ascend(g, t, B), TodoFits(g, past, A, t), A \cap B = {}
  PROVE  TodoFits(g, past, {}, s \o t) /\ s \o t \in Seq([part : Part, writes : BOOLEAN])
<1> DEFINE h == Histories(g)
           m == Len(s)
           n == Len(t)
           r == s \o t
           T == [part : Part, writes : BOOLEAN]
<1>1. /\ s \in Seq(T) /\ t \in Seq(T)
      /\ m \in Nat /\ n \in Nat /\ DOMAIN s = 1 .. m /\ DOMAIN t = 1 .. n
      /\ \A u : u \in A <=> \E i \in 1 .. m : u \in Extent(s[i].part)
      /\ \A u : u \in B <=> \E i \in 1 .. n : u \in Extent(t[i].part)
  BY DEF Ascend
<1> HIDE DEF T
<1>2. /\ r \in Seq(T) /\ DOMAIN r = 1 .. (m + n)
      /\ \A i \in 1 .. m : r[i] = s[i]
      /\ \A i \in (m + 1) .. (m + n) : r[i] = t[i - m]
  BY <1>1, ConcatProperties
<1> HIDE DEF m, n, r
<1>3. \A parts, i, q : q \in Earlier(parts, i) <=> \E j \in 1 .. (i - 1) : q \in Extent(parts[j].part)
  BY DEF Earlier
<1>4. ASSUME NEW i \in 1 .. m PROVE Earlier(r, i) = Earlier(s, i)
  <2>1. \A j \in 1 .. (i - 1) : r[j] = s[j]
    <3>1. \A j \in 1 .. (i - 1) : j \in 1 .. m
      BY <1>1
    <3> QED
      BY <1>2, <3>1
  <2>2. ASSUME NEW q, q \in Earlier(r, i) PROVE q \in Earlier(s, i)
    <3>1. PICK j \in 1 .. (i - 1) : q \in Extent(r[j].part)
      BY <1>3, <2>2
    <3>2. q \in Extent(s[j].part)
      BY <2>1, <3>1
    <3> QED
      BY <1>3, <3>2
  <2>3. ASSUME NEW q, q \in Earlier(s, i) PROVE q \in Earlier(r, i)
    <3>1. PICK j \in 1 .. (i - 1) : q \in Extent(s[j].part)
      BY <1>3, <2>3
    <3>2. q \in Extent(r[j].part)
      BY <2>1, <3>1
    <3> QED
      BY <1>3, <3>2
  <2> QED
    BY <2>2, <2>3
<1>5. ASSUME NEW i \in (m + 1) .. (m + n) PROVE Earlier(r, i) = A \cup Earlier(t, i - m)
  <2>1. \A j \in 1 .. m : j \in 1 .. (i - 1) /\ r[j] = s[j]
    BY <1>1, <1>2
  <2>2. \A j \in 1 .. ((i - m) - 1) : j + m \in 1 .. (i - 1) /\ r[j + m] = t[j]
    <3> SUFFICES ASSUME NEW j \in 1 .. ((i - m) - 1) PROVE j + m \in 1 .. (i - 1) /\ r[j + m] = t[j]
      OBVIOUS
    <3>1. j + m \in (m + 1) .. (m + n) /\ (j + m) - m = j /\ j + m \in 1 .. (i - 1)
      BY <1>1
    <3> QED
      BY <1>2, <3>1
  <2>3. ASSUME NEW q, q \in Earlier(r, i) PROVE q \in A \cup Earlier(t, i - m)
    <3>1. PICK j \in 1 .. (i - 1) : q \in Extent(r[j].part)
      BY <1>3, <2>3
    <3>2. CASE j \in 1 .. m
      BY <1>1, <1>2, <3>1, <3>2
    <3>3. CASE j \notin 1 .. m
      <4>1. j \in (m + 1) .. (m + n) /\ j - m \in 1 .. ((i - m) - 1)
        BY <1>1, <3>3
      <4>2. r[j] = t[j - m]
        BY <1>2, <4>1
      <4> QED
        BY <1>3, <3>1, <4>1, <4>2
    <3> QED
      BY <3>2, <3>3
  <2>4. ASSUME NEW q, q \in A PROVE q \in Earlier(r, i)
    <3>1. PICK j \in 1 .. m : q \in Extent(s[j].part)
      BY <1>1, <2>4
    <3> QED
      BY <1>3, <2>1, <3>1
  <2>5. ASSUME NEW q, q \in Earlier(t, i - m) PROVE q \in Earlier(r, i)
    <3>1. PICK j \in 1 .. ((i - m) - 1) : q \in Extent(t[j].part)
      BY <1>3, <2>5
    <3> QED
      BY <1>3, <2>2, <3>1
  <2> QED
    BY <2>3, <2>4, <2>5
<1>6. ASSUME NEW i \in 1 .. (m + n)
      PROVE  LET p == r[i].part
                 E == EventsOf(h, p.parents)
             IN  /\ PartFits(g, p)
                 /\ past \subseteq E /\ E \subseteq past \cup {} \cup Earlier(r, i)
                 /\ Extent(p) \cap Earlier(r, i) = {}
  <2> DEFINE p == r[i].part
             E == EventsOf(h, p.parents)
  <2>1. CASE i \in 1 .. m
    <3>1. p = s[i].part /\ Earlier(r, i) = Earlier(s, i)
      BY <1>2, <1>4, <2>1
    <3> QED
      BY <1>1, <2>1, <3>1 DEF TodoFits
  <2>2. CASE i \notin 1 .. m
    <3>1. i \in (m + 1) .. (m + n) /\ i - m \in 1 .. n
      BY <1>1, <2>2
    <3>2. p = t[i - m].part /\ Earlier(r, i) = A \cup Earlier(t, i - m)
      BY <1>2, <1>5, <3>1
    <3> HIDE DEF p
    <3>3. /\ PartFits(g, p)
          /\ past \subseteq E /\ E \subseteq past \cup A \cup Earlier(t, i - m)
          /\ Extent(p) \cap Earlier(t, i - m) = {}
      BY <1>1, <3>1, <3>2 DEF TodoFits
    <3>4. Extent(p) \subseteq B
      BY <1>1, <3>1, <3>2
    <3> HIDE DEF E
    <3>5. E \subseteq past \cup {} \cup Earlier(r, i) /\ Extent(p) \cap Earlier(r, i) = {}
      BY <3>2, <3>3, <3>4
    <3> QED
      BY <3>3, <3>5 DEF p, E
  <2> QED
    BY <2>1, <2>2
<1> QED
  BY <1>2, <1>6 DEF TodoFits, r, T

-----------------------------------------------------------------------------
(* Where a walk begins.                                                    *)

\* A walk whose items are all placeholders stands at any version.
LEMMA FreshStands ==
  ASSUME NEW log, GraphInv(log.cg), NEW x, IsWalk(x), DOMAIN x.delTargets = {},
         \A i \in DOMAIN x.items : x.items[i] \in DOMAIN x.item,
         \A t \in DOMAIN x.item : t >= NextLV(log.cg) /\ x.item[t].curState = Inserted
  PROVE  Walked(log, x) = {} /\ \A act : StandsAt(log, x, act)
<1> DEFINE n == NextLV(log.cg)
<1>1. n \in Nat
  BY NextLVType DEF GraphInv
<1>2. DOMAIN x.item \subseteq Nat
  BY DEF IsWalk
<1>3. \A t \in DOMAIN x.item : t >= n /\ x.item[t].curState = Inserted
  OBVIOUS
<1> HIDE DEF n
<1>4. \A t \in DOMAIN x.item : ~ (t < n)
  <2> SUFFICES ASSUME NEW t \in DOMAIN x.item PROVE ~ (t < n)
    OBVIOUS
  <2>1. t \in Nat /\ t >= n
    BY <1>2, <1>3
  <2> QED
    BY <1>1, <2>1
<1>5. Walked(log, x) = {}
  BY <1>4 DEF Walked, n
<1>6. Stored(log, x)
  BY <1>4 DEF Stored, n
<1>7. \A act, t : Deletes(x, t) \cap act = {}
  BY DEF Deletes
<1>8. Cardinality({}) = 0
  BY FS_EmptySet
<1>9. \A act : \A t \in DOMAIN x.item : x.item[t].curState = StateAt(log, x, act, t)
  <2> SUFFICES ASSUME NEW act, NEW t \in DOMAIN x.item PROVE x.item[t].curState = StateAt(log, x, act, t)
    OBVIOUS
  <2>1. StateAt(log, x, act, t) = Cardinality(Deletes(x, t) \cap act)
    BY <1>3 DEF StateAt, n
  <2>2. StateAt(log, x, act, t) = 0
    BY <1>7, <1>8, <2>1
  <2> QED
    BY <1>3, <2>2 DEF Inserted
<1> QED
  BY <1>5, <1>6, <1>9 DEF StandsAt

\* A walk that has walked nothing, at the version c.
AtOutset(log, x, c) == Walked(log, x) = {} /\ (\A act : StandsAt(log, x, act)) /\ x.curVersion = c

\* Before a merge.
LEMMA NewWalkStands ==
  ASSUME NEW log, GraphInv(log.cg), NEW c, NEW doc
  PROVE  AtOutset(log, NewWalk(c, doc, FALSE), c)
<1> DEFINE x == NewWalk(c, doc, FALSE)
           I == [o \in {} |-> Item(Root, Root)]
           D == [o \in {} |-> Root]
<1>1. /\ DOMAIN I = {} /\ DOMAIN D = {}
      /\ I \in [{} -> ItemType] /\ D \in [{} -> Nat]
  OBVIOUS
<1>2. x = [items |-> <<>>, item |-> I, delTargets |-> D, curVersion |-> c, doc |-> doc, writes |-> FALSE, ok |-> TRUE]
  BY DEF NewWalk
<1> HIDE DEF x, I, D
<1>3. /\ x.items = <<>> /\ x.item = I /\ x.delTargets = D /\ x.curVersion = c /\ x.doc = doc
      /\ x.writes = FALSE /\ x.ok = TRUE
  BY <1>2
<1>4. x = [items |-> x.items, item |-> x.item, delTargets |-> x.delTargets,
           curVersion |-> x.curVersion, doc |-> x.doc, writes |-> x.writes, ok |-> x.ok]
  BY <1>2, <1>3
<1>5. IsWalk(x)
  <2>1. x.items \in Seq(Nat)
    BY <1>3
  <2> QED
    BY <1>1, <1>3, <1>4, <2>1 DEF IsWalk
<1>6. DOMAIN x.items = {} /\ DOMAIN x.item = {} /\ DOMAIN x.delTargets = {}
  BY <1>1, <1>3
<1>7. Walked(log, x) = {} /\ \A act : StandsAt(log, x, act)
  BY <1>5, <1>6, FreshStands
<1> QED
  BY <1>3, <1>7 DEF x, AtOutset

\* When the placeholders of a merge are in place.
LEMMA PlaceholdersStand ==
  ASSUME NEW log, GraphInv(log.cg), NEW c, NEW doc, NEW n \in Nat
  PROVE  AtOutset(log, Placeholders(NewWalk(c, doc, FALSE), NextLV(log.cg), n), c)
<1> DEFINE m == NextLV(log.cg)
           x == Placeholders(NewWalk(c, doc, FALSE), m, n)
           L == [i \in 1 .. n |-> m + i - 1]
           I == [o \in m .. (m + n - 1) |-> Item(Root, Root)]
           D == [o \in {} |-> Root]
<1>1. m \in Nat
  BY NextLVType DEF GraphInv
<1>2. x = [items |-> L, item |-> I, delTargets |-> D, curVersion |-> c, doc |-> doc, writes |-> FALSE, ok |-> TRUE]
  <2> DEFINE I0 == [o \in {} |-> Item(Root, Root)]
             y  == [items |-> <<>>, item |-> I0, delTargets |-> D, curVersion |-> c, doc |-> doc,
                    writes |-> FALSE, ok |-> TRUE]
  <2>1. NewWalk(c, doc, FALSE) = y
    BY DEF NewWalk
  <2>2. x = [y EXCEPT !.items = L, !.item = I]
    BY <2>1 DEF Placeholders
  <2> HIDE DEF x, L, I, D, I0
  <2> QED
    BY <2>2
<1>3. Item(Root, Root) \in ItemType /\ Item(Root, Root).curState = Inserted
  BY DEF Item, ItemType, Inserted, Root
<1> HIDE DEF m
<1>4. /\ DOMAIN I = m .. (m + n - 1) /\ \A t \in DOMAIN I : I[t] = Item(Root, Root)
      /\ DOMAIN D = {} /\ D \in [{} -> Nat]
  OBVIOUS
<1>5. I \in [DOMAIN I -> ItemType] /\ DOMAIN I \subseteq Nat
  BY <1>1, <1>3, <1>4
<1>6. L \in Seq(Nat) /\ DOMAIN L = 1 .. n /\ \A i \in 1 .. n : L[i] \in m .. (m + n - 1)
  <2>1. \A i \in 1 .. n : m + i - 1 \in Nat /\ m + i - 1 \in m .. (m + n - 1)
    BY <1>1
  <2>2. L \in [1 .. n -> Nat]
    BY <2>1
  <2> QED
    BY <2>1, <2>2
<1> HIDE DEF x, L, I, D
<1>7. /\ x.items = L /\ x.item = I /\ x.delTargets = D /\ x.curVersion = c /\ x.doc = doc
      /\ x.writes = FALSE /\ x.ok = TRUE
  BY <1>2
<1>8. x = [items |-> x.items, item |-> x.item, delTargets |-> x.delTargets,
           curVersion |-> x.curVersion, doc |-> x.doc, writes |-> x.writes, ok |-> x.ok]
  BY <1>2, <1>7
<1>9. IsWalk(x)
  BY <1>4, <1>5, <1>6, <1>7, <1>8 DEF IsWalk
<1>10. \A t \in DOMAIN x.item : t >= m /\ x.item[t].curState = Inserted
  <2> SUFFICES ASSUME NEW t \in DOMAIN I PROVE t >= m /\ I[t].curState = Inserted
    BY <1>7
  <2> QED
    BY <1>1, <1>3, <1>4
<1>11. \A i \in DOMAIN x.items : x.items[i] \in DOMAIN x.item
  BY <1>4, <1>6, <1>7
<1>12. DOMAIN x.delTargets = {}
  BY <1>4, <1>7
<1>13. Walked(log, x) = {} /\ \A act : StandsAt(log, x, act)
  BY <1>9, <1>10, <1>11, <1>12, FreshStands DEF m
<1> QED
  BY <1>7, <1>13 DEF x, m, AtOutset

\* The branch that merges is at known versions.
LEMMA BranchIsAt ==
  ASSUME NEW log, GraphInv(log.cg), NEW f \in SUBSET Versions(log.cg)
  PROVE  LET v == BranchAt(log, f).version
         IN  (IF v = <<>> THEN 0 ELSE Highest(VersionsIn(v)) + 1) \in Nat
<1> DEFINE g == log.cg
           list == Ascending(f)
           v == FindDominators(g, <<>> \o list)
           n == NextLV(g)
<1>1. list \in Seq(Versions(g)) /\ VersionsIn(list) = f
  BY AscendingOfSet
<1>2. BranchAt(log, f).version = v
  BY DEF BranchAt, MergeChangesIntoBranch, Merged, EmptyBranch
<1> HIDE DEF list
<1>3. <<>> \o list = list
  BY <1>1
<1>4. IsAscending(FindDominators(g, list), DominatorsOf(Histories(g), VersionsIn(list)))
  BY <1>1, DominatorsOfGraph
<1>5. VersionsIn(v) \subseteq f
  BY <1>1, <1>3, <1>4 DEF IsAscending, DominatorsOf
<1>6. n \in Nat /\ Versions(g) = 0 .. (n - 1)
  BY NextLVType DEF GraphInv, Versions
<1>7. v \in Seq(Nat)
  <2>1. CASE Len(list) <= 1
    <3>1. v = list
      BY <1>3, <2>1 DEF FindDominators
    <3>2. list \in Seq(0 .. (n - 1))
      BY <1>1, <1>6
    <3> HIDE DEF v, n
    <3>3. \A i \in DOMAIN list : list[i] \in Nat
      BY <1>6, <3>2
    <3> QED
      BY <3>1, <3>2, <3>3
  <2>2. CASE Len(list) = 2
    <3> DEFINE a == Lower(list[1], list[2])
               b == Higher(list[1], list[2])
    <3>1. v = DominatorsOfTwo(g, a, b)
      BY <1>3, <2>2 DEF FindDominators
    <3>2. list[1] \in Versions(g) /\ list[2] \in Versions(g)
      BY <1>1, <2>2
    <3>3. a \in Nat /\ b \in Nat
      BY <1>6, <3>2 DEF Lower, Higher
    <3> HIDE DEF v, a, b
    <3>4. v = <<b>> \/ v = <<a, b>>
      BY <3>1 DEF DominatorsOfTwo
    <3>5. <<b>> \in Seq(Nat)
      BY <3>3
    <3>6. <<a, b>> \in Seq(Nat)
      BY <3>3
    <3> QED
      BY <3>4, <3>5, <3>6
  <2>3. CASE ~ (Len(list) <= 1) /\ Len(list) # 2
    <3> DEFINE loop == DominatorLoop(g, f)
    <3>1. v = Reversed(loop)
      BY <1>1, <1>3, <2>3 DEF FindDominators
    <3>2. PICK l : FallingTo(loop, l)
      BY DominatorLoopOfGraph
    <3> HIDE DEF loop, v
    <3>3. loop \in Seq(Nat)
      BY <3>2 DEF FallingTo
    <3> DEFINE m == Len(loop)
    <3>4. m \in Nat /\ DOMAIN loop = 1 .. m /\ \A i \in 1 .. m : loop[i] \in Nat
      BY <3>3
    <3>5. v = [i \in 1 .. m |-> loop[m + 1 - i]]
      BY <3>1, <3>4 DEF Reversed
    <3> HIDE DEF m
    <3>6. \A i \in 1 .. m : m + 1 - i \in 1 .. m
      BY <3>4
    <3>7. v \in [1 .. m -> Nat]
      BY <3>4, <3>5, <3>6
    <3> QED
      BY <3>4, <3>7
  <2> QED
    BY <2>1, <2>2, <2>3
<1> HIDE DEF v, n
<1>8. CASE v # <<>>
  <2>1. v[1] \in VersionsIn(v)
    BY <1>7, <1>8 DEF VersionsIn
  <2>2. VersionsIn(v) \subseteq 0 .. (n - 1)
    BY <1>5, <1>6
  <2>3. Highest(VersionsIn(v)) \in 0 .. (n - 1)
    BY <1>6, <2>1, <2>2, HighestProperties
  <2>4. Highest(VersionsIn(v)) + 1 \in Nat
    BY <1>6, <2>3
  <2> QED
    BY <1>2, <1>8, <2>4
<1> QED
  BY <1>2, <1>8

\* A merge begins with its walk at the common version, with nothing walked and
\* with parts that can be walked in order.
LEMMA StartFits ==
  ASSUME GraphFits, NEW f \in Frontiers(oplog.cg), NEW version \in Frontiers(oplog.cg)
  PROVE  LET b     == BranchAt(oplog, f)
             c     == FindConflicting(oplog.cg, f, version)
             x     == WithPlaceholders(NewWalk(c.common, b.snapshot, FALSE), oplog, b.version)
             parts == PartsOf(RangesFlagged(c.visited, {"A", "Shared"}), FALSE)
                        \o PartsOf(RangesFlagged(c.visited, {"B"}), TRUE)
         IN  \E past \in SUBSET Versions(oplog.cg) : WalkFits(oplog, x, parts, <<>>, past)
<1> DEFINE g     == oplog.cg
           h     == Histories(g)
           b     == BranchAt(oplog, f)
           c     == FindConflicting(g, f, version)
           x     == WithPlaceholders(NewWalk(c.common, b.snapshot, FALSE), oplog, b.version)
           n     == IF b.version = <<>> THEN 0 ELSE Highest(VersionsIn(b.version)) + 1
           first == RangesFlagged(c.visited, {"A", "Shared"})
           last  == RangesFlagged(c.visited, {"B"})
           s     == PartsOf(first, FALSE)
           t     == PartsOf(last, TRUE)
           past  == EventsOf(h, c.common)
           V(fs) == VisitedWith(c.visited, fs)
           A     == V({"A", "Shared"})
           B     == V({"B"})
           F     == EventsOf(h, f)
           G     == EventsOf(h, version)
<1>1. GraphInv(g) /\ ParentFrontiers(g)
  BY DEF GraphFits, IdInv
<1>2. /\ f \in SUBSET Versions(g) /\ version \in SUBSET Versions(g)
      /\ DominatorsOf(h, f) = f /\ DominatorsOf(h, version) = version
  BY DEF Frontiers
<1>3. Splits(h, f, version, c) /\ Reports(g, c)
  BY <1>1, <1>2, ConflictOfGraph
<1>4. /\ V(DiffFlags) \cap past = {}
      /\ V({"A"}) = F \ G /\ B = G \ F /\ V({"Shared"}) = (F \cap G) \ past
      /\ \A v \in V(DiffFlags) : past \subseteq h[v]
  BY <1>3 DEF Splits
<1>5. c.common \subseteq Versions(g) /\ \E l \in Nat : VisitedTo(c.visited, l)
  BY <1>3 DEF Reports
<1>6. PICK l \in Nat : VisitedTo(c.visited, l)
  BY <1>5
<1>7. A = V({"A"}) \cup V({"Shared"}) /\ A \subseteq V(DiffFlags) /\ B \subseteq V(DiffFlags)
  BY DEF VisitedWith, DiffFlags
<1>8. F \subseteq Versions(g) /\ G \subseteq Versions(g) /\ past \subseteq Versions(g)
  BY <1>1, <1>2, <1>5, EventsAreVersions
<1>9. /\ first \in Seq(Nat \X Nat) /\ Canonical(first) /\ RangesToSet(first) = A
      /\ last \in Seq(Nat \X Nat) /\ Canonical(last) /\ RangesToSet(last) = B
  BY <1>6, RangesOfFlags
<1>10. A \subseteq Versions(g) /\ B \subseteq Versions(g) /\ A \cap B = {} /\ A \cap past = {} /\ B \cap past = {}
  <2> HIDE DEF F, G, past, A, B, V
  <2> QED
    BY <1>4, <1>7, <1>8
<1>11. Ascend(g, s, A)
  <2> HIDE DEF first, A
  <2>1. Ascend(g, s, RangesToSet(first))
    BY <1>1, <1>9, <1>10, PartsOfRanges
  <2> QED
    BY <1>9, <2>1
<1>12. Ascend(g, t, B)
  <2> HIDE DEF last, B
  <2>1. Ascend(g, t, RangesToSet(last))
    BY <1>1, <1>9, <1>10, PartsOfRanges
  <2> QED
    BY <1>9, <2>1
<1>13. (\A v \in F : h[v] \subseteq F) /\ \A v \in G : h[v] \subseteq G
  BY <1>1, <1>2, EventsAreClosed DEF Closed
<1>14. /\ \A v \in A : past \subseteq h[v] /\ h[v] \subseteq past \cup {} \cup A
       /\ \A v \in B : past \subseteq h[v] /\ h[v] \subseteq past \cup A \cup B
  <2> HIDE DEF F, G, past, A, B, V, h
  <2>1. F \subseteq past \cup A /\ G \subseteq past \cup A \cup B /\ A \subseteq F /\ B \subseteq G
    BY <1>4, <1>7
  <2>2. ASSUME NEW v \in A PROVE past \subseteq h[v] /\ h[v] \subseteq past \cup {} \cup A
    <3>1. h[v] \subseteq F
      BY <1>13, <2>1
    <3>2. past \subseteq h[v]
      BY <1>4, <1>7
    <3> QED
      BY <2>1, <3>1, <3>2
  <2>3. ASSUME NEW v \in B PROVE past \subseteq h[v] /\ h[v] \subseteq past \cup A \cup B
    <3>1. h[v] \subseteq G
      BY <1>13, <2>1
    <3>2. past \subseteq h[v]
      BY <1>4, <1>7
    <3> QED
      BY <2>1, <3>1, <3>2
  <2> QED
    BY <2>2, <2>3
<1>15. TodoFits(g, past, {}, s) /\ TodoFits(g, past, A, t)
  <2>1. TodoFits(g, past, {}, s)
    <3> HIDE DEF past, A, s
    <3> QED
      BY <1>1, <1>10, <1>11, <1>14, TodoOfParts
  <2>2. TodoFits(g, past, A, t)
    <3> HIDE DEF past, A, B, t
    <3> QED
      BY <1>1, <1>10, <1>12, <1>14, TodoOfParts
  <2> QED
    BY <2>1, <2>2
<1>16. TodoFits(g, past, {}, s \o t) /\ s \o t \in Seq([part : Part, writes : BOOLEAN])
  <2> HIDE DEF past, A, B, s, t, g
  <2> QED
    BY <1>10, <1>11, <1>12, <1>15, TodoJoins
<1>17. n \in Nat
  BY <1>1, <1>2, BranchIsAt
<1>18. x = Placeholders(NewWalk(c.common, b.snapshot, FALSE), NextLV(g), n)
  BY DEF WithPlaceholders
<1>19. Walked(oplog, x) = {} /\ (\A act : StandsAt(oplog, x, act)) /\ x.curVersion = c.common
  <2> DEFINE cc == c.common
             dd == b.snapshot
             y  == Placeholders(NewWalk(cc, dd, FALSE), NextLV(oplog.cg), n)
  <2> HIDE DEF n, cc, dd
  <2>1. AtOutset(oplog, y, cc)
    BY <1>1, <1>17, PlaceholdersStand
  <2>2. x = y
    BY <1>18 DEF cc, dd
  <2> HIDE DEF x, y
  <2> QED
    BY <2>1, <2>2 DEF cc, AtOutset
<1> HIDE DEF x, s, t
<1>20. Arrived(oplog, x, past)
  BY <1>5, <1>19 DEF Arrived
<1>21. Ahead(oplog, x, s \o t, 1)
  BY <1>19 DEF Ahead
<1>22. WalkFits(oplog, x, s \o t, <<>>, past)
  <2> HIDE DEF past
  <2> QED
    BY <1>16, <1>19, <1>20, <1>21 DEF WalkFits
<1> QED
  BY <1>8, <1>22 DEF x, s, t

\* Before a merge there is nothing to fit.
LEMMA IdleFits ==
  ASSUME NEW log, GraphInv(log.cg)
  PROVE  WalkFits(log, NewWalk({}, <<>>, FALSE), <<>>, <<>>, {})
<1> DEFINE x == NewWalk({}, <<>>, FALSE)
           h == Histories(log.cg)
<1>1. Walked(log, x) = {} /\ (\A act : StandsAt(log, x, act)) /\ x.curVersion = {}
  BY NewWalkStands DEF AtOutset
<1> HIDE DEF x
<1>2. EventsOf(h, {}) = {}
  BY DEF EventsOf
<1>3. Arrived(log, x, {})
  BY <1>1, <1>2 DEF Arrived
<1>4. TodoFits(log.cg, {}, Walked(log, x), <<>>) /\ Ahead(log, x, <<>>, 1)
  BY DEF TodoFits, Ahead
<1>5. <<>> \in Seq([part : Part, writes : BOOLEAN])
  OBVIOUS
<1> QED
  BY <1>1, <1>3, <1>4, <1>5 DEF WalkFits, x

-----------------------------------------------------------------------------
(* The log grows.                                                          *)

\* An operation at a frontier extends the graph by one event.
LEMMA PushKeeps ==
  ASSUME NEW log, IdInv(log.cg), ParentFrontiers(log.cg), NEW agent \in Agents, NEW f \in Frontiers(log.cg), NEW op
  PROVE  LET new == PushOp(log, <<agent, NextSeqForAgent(log.cg, agent)>>, LvToRawList(log.cg, f), op)
         IN  IdInv(new.cg) /\ ParentFrontiers(new.cg)
<1> DEFINE g   == log.cg
           seq == NextSeqForAgent(g, agent)
           raw == LvToRawList(g, f)
           new == PushOp(log, <<agent, seq>>, raw, op)
<1>1. GraphInv(g) /\ g \in CG /\ f \in SUBSET Versions(g)
  BY DEF IdInv, GraphInv, Frontiers
<1>2. seq \in Nat
  BY <1>1, NextSeqType
<1>3. ASSUME NEW v \in f PROVE RawToLV(g, LvToRaw(g, v)[1], LvToRaw(g, v)[2]) = v
  <2>1. PICK a \in Agents, s \in Nat : LvToRaw(g, v) = <<a, s>>
    BY <1>1, RawType
  <2>2. RawToLV(g, a, s) = v
    BY <1>1, <2>1, LookupsInvert
  <2> QED
    BY <2>1, <2>2
<1>4. RawToLVList(g, raw) = f
  BY <1>3 DEF RawToLVList, LvToRawList
<1> HIDE DEF raw
<1>5. new = log \/ new.cg = AddRaw(g, <<agent, seq>>, 1, raw)
  BY DEF PushOp
<1>6. AddRaw(g, <<agent, seq>>, 1, raw) = Add(g, agent, seq, seq + 1, f)
  BY <1>4 DEF AddRaw
<1> HIDE DEF seq, new
<1>7. CASE new = log
  BY <1>7 DEF new, seq, raw
<1>8. CASE new.cg = AddRaw(g, <<agent, seq>>, 1, raw)
  <2>1. KnownFirst(g, agent, seq, seq + 1)
    <3>1. (seq + 1) .. ((seq + 1) - 1) = {}
      BY <1>2
    <3> QED
      BY <3>1 DEF KnownFirst
  <2>2. seq < seq + 1 /\ seq + 1 \in Nat /\ 1 \in Nat \ {0}
    BY <1>2
  <2>3. IdInv(Add(g, agent, seq, seq + 1, f))
    BY <1>1, <1>2, <2>1, <2>2, SpanKeepsIds
  <2>4. ParentFrontiers(Add(g, agent, seq, seq + 1, f))
    BY <1>1, <1>2, <2>2, AddKeepsFrontiers
  <2> QED
    BY <1>6, <1>8, <2>3, <2>4 DEF new, seq, raw
<1> QED
  BY <1>5, <1>7, <1>8

-----------------------------------------------------------------------------
(* The invariant is inductive.                                             *)

\* The empty log, before any merge.
LEMMA InitFits == Init => IInv
<1> SUFFICES ASSUME Init PROVE IInv
  OBVIOUS
<1>1. oplog.cg = EmptyCG
  BY DEF Init, CreateOpLog
<1>2. IdInv(oplog.cg) /\ ParentFrontiers(oplog.cg)
  BY <1>1, EmptyIds, EmptyFrontiers
<1>3. WalkFits(oplog, NewWalk({}, <<>>, FALSE), <<>>, <<>>, {})
  BY <1>2, IdleFits DEF IdInv
<1>4. {} \in SUBSET Versions(oplog.cg)
  OBVIOUS
<1> QED
  BY <1>2, <1>3, <1>4 DEF Init, IInv, GraphFits, Idle

\* An operation is written while no merge is going on.
LEMMA MakeOpFits == IInv /\ MakeOp => IInv'
<1> SUFFICES ASSUME IInv, MakeOp PROVE IInv'
  OBVIOUS
<1>1. IdInv(oplog.cg) /\ ParentFrontiers(oplog.cg)
  BY DEF IInv, GraphFits
<1>2. PICK agent \in Agents, f \in Frontiers(oplog.cg), pos \in 0 .. MaxOps :
        PushInsert(agent, f, pos) \/ PushDelete(agent, f, pos)
  BY DEF MakeOp, Write
<1>3. \E op : oplog' = PushOp(oplog, <<agent, NextSeqForAgent(oplog.cg, agent)>>, LvToRawList(oplog.cg, f), op)
  BY <1>2 DEF PushInsert, PushDelete, NextId
<1>4. IdInv(oplog'.cg) /\ ParentFrontiers(oplog'.cg)
  BY <1>1, <1>3, PushKeeps
<1>5. from = <<>> /\ from' = from /\ Idle /\ w' = w /\ todo' = todo /\ steps' = steps
  BY DEF MakeOp, IInv
<1>6. WalkFits(oplog', NewWalk({}, <<>>, FALSE), <<>>, <<>>, {})
  BY <1>4, IdleFits DEF IdInv
<1>7. w' = NewWalk({}, <<>>, FALSE) /\ todo' = <<>> /\ steps' = <<>>
  BY <1>5 DEF Idle
<1>8. {} \in SUBSET Versions(oplog'.cg)
  OBVIOUS
<1> QED
  BY <1>4, <1>6, <1>7, <1>8 DEF IInv, GraphFits, Idle

\* A merge starts: between any two versions, its walk can be made.
LEMMA StartKeeps ==
  ASSUME IInv, NEW f \in Frontiers(oplog.cg), NEW version \in Frontiers(oplog.cg), Start(f, version)
  PROVE  IInv'
<1>1. GraphFits
  BY DEF IInv
<1>2. from = <<>> /\ oplog' = oplog /\ steps' = steps /\ from' = <<f>>
  BY DEF Start
<1>3. steps' = <<>>
  BY <1>2 DEF IInv, Idle
<1>4. from' # <<>>
  BY <1>2
<1>5. \E past \in SUBSET Versions(oplog.cg) : WalkFits(oplog, w', todo', <<>>, past)
  BY <1>1, StartFits DEF Start
<1>6. GraphFits'
  BY <1>1, <1>2 DEF GraphFits
<1> QED
  BY <1>2, <1>3, <1>4, <1>5, <1>6 DEF IInv

\* The steps of the next part are laid out.
LEMMA BeginPartKeeps ==
  ASSUME IInv, w.ok, BeginPart
  PROVE  IInv'
<1>1. GraphFits /\ GraphInv(oplog.cg)
  BY DEF IInv, GraphFits, IdInv
<1>2. PICK past \in SUBSET Versions(oplog.cg) : WalkFits(oplog, w, todo, steps, past)
  BY DEF IInv
<1>3. steps = <<>> /\ todo # <<>> /\ oplog' = oplog /\ from' = from /\ todo' = todo
  BY DEF BeginPart
<1>4. WalkFits(oplog, [w EXCEPT !.writes = todo[1].writes], todo, StepsFor(w, oplog.cg, todo[1].part), past)
  BY <1>1, <1>2, <1>3, PartBegins
<1>5. WalkFits(oplog, w', todo, steps', past)
  BY <1>4 DEF BeginPart
<1>6. from # <<>>
  BY <1>3 DEF IInv, Idle
<1>7. GraphFits'
  BY <1>1, <1>3 DEF GraphFits
<1> QED
  BY <1>2, <1>3, <1>5, <1>6, <1>7 DEF IInv

\* What a step does to the rest of the state, given that it reaches its end.
LEMMA StepKeeps ==
  ASSUME IInv, w.ok, NEW kind, NEW STATE next, Step(kind, next),
         NEW past \in SUBSET Versions(oplog.cg), WalkFits(oplog, w, todo, steps, past),
         "ok" \in DOMAIN next, next.ok => Reached(oplog, w, todo, steps, next)
  PROVE  IInv'
<1>1. GraphFits /\ GraphInv(oplog.cg)
  BY DEF IInv, GraphFits, IdInv
<1>2. steps # <<>> /\ steps' = Tail(steps) /\ oplog' = oplog /\ from' = from
  BY DEF Step
<1>3. from # <<>>
  BY <1>2 DEF IInv, Idle
<1>4. GraphFits'
  BY <1>1, <1>2 DEF GraphFits
<1>5. CASE Len(steps) = 1
  <2>1. w' = [next EXCEPT !.curVersion = {todo[1].part.vEnd - 1}] /\ todo' = Tail(todo)
    BY <1>5 DEF Step
  <2>2. w'.ok => next.ok
    BY <2>1
  <2>3. steps' = <<>>
    <3>1. steps \in Seq(Kinds \X Nat)
      BY <1>2 DEF WalkFits, OnTheWay, StepsFit
    <3> QED
      BY <1>2, <1>5, <3>1
  <2>4. next.ok => WalkFits(oplog, w', todo', <<>>, past)
    BY <1>1, <1>2, <1>5, <2>1, ReachedFits
  <2> QED
    BY <1>2, <1>3, <1>4, <2>2, <2>3, <2>4 DEF IInv
<1>6. CASE Len(steps) # 1
  <2>1. w' = next /\ todo' = todo
    BY <1>6 DEF Step
  <2>2. next.ok => WalkFits(oplog, w', todo', steps', past)
    BY <1>1, <1>2, <1>6, <2>1, ReachedFits
  <2> QED
    BY <1>2, <1>3, <1>4, <2>1, <2>2 DEF IInv
<1> QED
  BY <1>5, <1>6

\* What a step returns is a record of the walk's shape.
LEMMA StepsReturnWalks ==
  ASSUME NEW x, IsWalk(x), NEW log, NEW v
  PROVE  "ok" \in DOMAIN Retreat1(x, log, v) /\ "ok" \in DOMAIN Advance1(x, log, v) /\ "ok" \in DOMAIN Apply1(x, log, v)
<1>1. "ok" \in DOMAIN x
  BY DEF IsWalk
<1>2. \A by : DOMAIN Shift(x, log, v, by) = DOMAIN x
  BY DEF Shift
<1>3. DOMAIN Throw(x) = DOMAIN x
  BY DEF Throw
<1>4. \A at, t : DOMAIN DeleteItem(x, v, at, t) = DOMAIN x
  BY DEF DeleteItem
<1>5. \A new, place, content : DOMAIN InsertItem(x, v, new, place, content) = DOMAIN x
  BY DEF InsertItem
<1>6. \A pos : "ok" \in DOMAIN ApplyDel(x, v, pos)
  BY <1>1, <1>3, <1>4 DEF ApplyDel, DeleteNext
<1>7. \A cg, pos, content : "ok" \in DOMAIN ApplyIns(x, cg, v, pos, content)
  BY <1>1, <1>3, <1>5 DEF ApplyIns, InsertAtCursor, InsertBehind
<1>8. "ok" \in DOMAIN Apply1(x, log, v)
  BY <1>6, <1>7 DEF Apply1
<1> QED
  BY <1>1, <1>2, <1>3, <1>8 DEF Retreat1, Advance1

\* A walk that has not thrown makes its next move.
LEMMA WalkKeeps ==
  ASSUME IInv, Walk
  PROVE  IInv'
<1>1. w.ok /\ GraphInv(oplog.cg)
  BY DEF Walk, IInv, GraphFits, IdInv
<1>2. PICK past \in SUBSET Versions(oplog.cg) : WalkFits(oplog, w, todo, steps, past)
  BY <1>1 DEF IInv
<1> DEFINE v == steps[1][2]
<1>3. IsWalk(w)
  BY <1>2 DEF WalkFits, StandsAt, Stored
<1>4. /\ "ok" \in DOMAIN Retreat1(w, oplog, v)
      /\ "ok" \in DOMAIN Advance1(w, oplog, v)
      /\ "ok" \in DOMAIN Apply1(w, oplog, v)
  BY <1>3, StepsReturnWalks
<1>5. CASE BeginPart
  BY <1>1, <1>5, BeginPartKeeps
<1>6. CASE Retreat
  <2> DEFINE next == Retreat1(w, oplog, v)
  <2>1. steps # <<>> /\ steps[1][1] = "retreat" /\ Step("retreat", next)
    BY <1>6 DEF Retreat, Step
  <2>2. Reached(oplog, w, todo, steps, next)
    BY <1>1, <1>2, <2>1, StepReaches
  <2>3. "ok" \in DOMAIN next
    BY <1>4
  <2> HIDE DEF next
  <2> QED
    BY <1>1, <1>2, <2>1, <2>2, <2>3, StepKeeps
<1>7. CASE Advance
  <2> DEFINE next == Advance1(w, oplog, v)
  <2>1. steps # <<>> /\ steps[1][1] = "advance" /\ Step("advance", next)
    BY <1>7 DEF Advance, Step
  <2>2. Reached(oplog, w, todo, steps, next)
    BY <1>1, <1>2, <2>1, StepReaches
  <2>3. "ok" \in DOMAIN next
    BY <1>4
  <2> HIDE DEF next
  <2> QED
    BY <1>1, <1>2, <2>1, <2>2, <2>3, StepKeeps
<1>8. CASE Apply
  <2> DEFINE next == Apply1(w, oplog, v)
  <2>1. steps # <<>> /\ steps[1][1] = "apply" /\ Step("apply", next)
    BY <1>8 DEF Apply, Step
  <2>2. next.ok => Reached(oplog, w, todo, steps, next)
    BY <1>1, <1>2, <2>1, StepReaches
  <2>3. "ok" \in DOMAIN next
    BY <1>4
  <2> HIDE DEF next
  <2> QED
    BY <1>1, <1>2, <2>1, <2>2, <2>3, StepKeeps
<1> QED
  BY <1>5, <1>6, <1>7, <1>8 DEF Walk

\* Every step of the specification.
LEMMA NextKeeps == IInv /\ [Next]_vars => IInv'
<1> SUFFICES ASSUME IInv, [Next]_vars PROVE IInv'
  OBVIOUS
<1>1. CASE MakeOp
  BY <1>1, MakeOpFits
<1>2. CASE \E f, version \in Frontiers(oplog.cg) : Start(f, version)
  BY <1>2, StartKeeps
<1>3. CASE Walk
  BY <1>3, WalkKeeps
<1>4. CASE UNCHANGED vars
  BY <1>4 DEF vars, IInv, GraphFits, Idle
<1> QED
  BY <1>1, <1>2, <1>3, <1>4 DEF Next

-----------------------------------------------------------------------------
(* What the invariant says.                                                *)

\* The events the property counts are those the invariant has in force.
LEMMA ActiveIsInForce ==
  ASSUME GraphInv(oplog.cg), NEW past \in SUBSET Versions(oplog.cg), WalkFits(oplog, w, todo, steps, past)
  PROVE  Active = InForce(oplog, w, todo, steps)
<1> DEFINE h == Histories(oplog.cg)
           p == todo[1].part
           E == EventsOf(h, p.parents)
           X == Extent(p)
<1>1. CASE steps = <<>>
  BY <1>1 DEF Active, InForce
<1>2. CASE steps # <<>>
  <2>1. todo # <<>> /\ todo \in Seq([part : Part, writes : BOOLEAN])
    BY <1>2 DEF WalkFits
  <2>2. 1 \in DOMAIN todo
    BY <2>1
  <2>3. PartFits(oplog.cg, p)
    BY <2>2 DEF WalkFits, TodoFits
  <2>4. h[p.vEnd - 1] = E \cup X
    BY <2>3, PartHistory
  <2>5. Left({"retreat"}) = Of(steps, "retreat")
    BY DEF Left, Of
  <2>6. Left({"advance", "apply"}) = Of(steps, "advance") \cup Of(steps, "apply")
    BY DEF Left, Of
  <2>7. Active = (h[p.vEnd - 1] \ Left({"advance", "apply"})) \cup Left({"retreat"})
    BY <1>2 DEF Active
  <2>8. InForce(oplog, w, todo, steps) = ForceOf(steps, E, X)
    BY <1>2 DEF InForce
  <2> HIDE DEF h, p, E, X
  <2> QED
    BY <2>4, <2>5, <2>6, <2>7, <2>8 DEF ForceOf
<1> QED
  BY <1>1, <1>2

\* What the next step needs is there.
LEMMA NextStepIsFit ==
  ASSUME GraphInv(oplog.cg), NEW past \in SUBSET Versions(oplog.cg), WalkFits(oplog, w, todo, steps, past),
         steps # <<>>
  PROVE  NextStepFits
<1> DEFINE v == steps[1][2]
           p == todo[1].part
<1>1. Active = InForce(oplog, w, todo, steps)
  BY ActiveIsInForce
<1>2. /\ steps[1][1] = "retreat" => RetreatAllowed(w, oplog, v)
      /\ steps[1][1] = "advance" => AdvanceAllowed(w, oplog, v)
      /\ steps[1][1] = "apply"   => /\ InForce(oplog, w, todo, steps) = Histories(oplog.cg)[v] \ {v}
                                    /\ v \notin Walked(oplog, w)
  BY StepReaches
<1>3. ASSUME steps[1][1] = "apply" PROVE v \notin DOMAIN w.item \cup DOMAIN w.delTargets
  <2>1. todo # <<>> /\ todo \in Seq([part : Part, writes : BOOLEAN]) /\ steps \in Seq(Kinds \X Nat)
    BY DEF WalkFits, OnTheWay, StepsFit
  <2>2. 1 \in DOMAIN todo /\ 1 \in DOMAIN steps
    BY <2>1
  <2>3. PartFits(oplog.cg, p)
    BY <2>2 DEF WalkFits, TodoFits
  <2>4. v \in Of(steps, "apply")
    BY <1>3, <2>2 DEF Of
  <2>5. Of(steps, "apply") \subseteq Extent(p)
    BY DEF WalkFits, OnTheWay, StepsFit
  <2>6. v \in Versions(oplog.cg)
    BY <2>3, <2>4, <2>5, PartHistory
  <2>7. v < NextLV(oplog.cg)
    BY <2>6, NextLVType DEF Versions, GraphInv
  <2>8. v \notin Walked(oplog, w)
    BY <1>2, <1>3
  <2> QED
    BY <2>7, <2>8 DEF Walked
<1> QED
  BY <1>1, <1>2, <1>3 DEF NextStepFits

\* The property is what the invariant says of the items, and of the next step.
LEMMA ItemsCount == IInv => ItemsAreAtVersion
<1> SUFFICES ASSUME IInv, w.ok PROVE ItemsAreAtVersion
  BY DEF ItemsAreAtVersion
<1>1. GraphInv(oplog.cg)
  BY DEF IInv, GraphFits, IdInv
<1>2. PICK past \in SUBSET Versions(oplog.cg) : WalkFits(oplog, w, todo, steps, past)
  BY DEF IInv
<1>3. Active = InForce(oplog, w, todo, steps)
  BY <1>1, <1>2, ActiveIsInForce
<1>4. StandsAt(oplog, w, Active)
  BY <1>2, <1>3 DEF WalkFits
<1>5. \A t : DeletesOf(t) = Deletes(w, t)
  BY DEF DeletesOf, Deletes
<1>6. \A t \in DOMAIN w.item : w.item[t].curState = StateAt(oplog, w, Active, t)
  BY <1>4 DEF StandsAt
<1>7. \A t : StateAt(oplog, w, Active, t) =
               IF IsPlaceholder(t) \/ t \in Active THEN Cardinality(DeletesOf(t) \cap Active) ELSE NotYetInserted
  BY <1>5 DEF StateAt, IsPlaceholder
<1>8. steps # <<>> => NextStepFits
  BY <1>1, <1>2, NextStepIsFit
<1> QED
  BY <1>6, <1>7, <1>8 DEF ItemsAreAtVersion

\* On every log, in every merge, between any two steps of either walk: the
\* graph is sound, and while the walk goes on, its items stand at the events in
\* force, what is left of it can be walked in order, and nothing is walked twice.
THEOREM WalkIsSound == Spec => []IInv
<1>1. Init => IInv
  BY InitFits
<1>2. IInv /\ [Next]_vars => IInv'
  BY NextKeeps
<1> QED
  BY <1>1, <1>2, PTL DEF Spec

\* The state of every item counts what the version the walk is at knows of it,
\* and the next step of the walk finds what it needs: no assertion of
\* advance1() or retreat1() fails, and no operation is applied twice, or to
\* another document than it was written on.
THEOREM ItemsFollowVersion == Spec => []ItemsAreAtVersion
<1>1. IInv => ItemsAreAtVersion
  BY ItemsCount
<1> QED
  BY <1>1, WalkIsSound, PTL
=============================================================================
