-------------------------------- MODULE Walker --------------------------------
(***************************************************************************)
(* A merge, step by step: on any log writers can produce, a branch at any  *)
(* version starts to merge any other version, and the walk then retreats,  *)
(* advances and applies one operation at a time.  The invariants say what  *)
(* the internal state means between any two steps; the operators of        *)
(* EgWalker, which fold the same steps, show only where a walk ends.       *)
(***************************************************************************)
EXTENDS EgWalker, CausalHistory

CONSTANTS MaxOps,     \* bound: operations in the log
          MaxMerged   \* bound: operations in a log whose every merge is walked

ASSUME BoundsAssumption == MaxOps \in Nat /\ MaxMerged \in Nat

VARIABLES oplog,
          from,     \* <<the version of the branch that merges>>, <<>> before
          w,        \* the walk
          todo,     \* the parts to be walked, each with whether it writes
          steps     \* the steps left in the part that is being walked

vars == <<oplog, from, w, todo, steps>>

-----------------------------------------------------------------------------
(* Every operation log writers can produce: an operation is made at any    *)
(* version some replica may be at, on the document as it looked there.     *)

\* The document at a version: an empty branch to which the version is merged.
BranchAt(log, f) == MergeChangesIntoBranch(EmptyBranch, log, f)

NextId(agent) == <<agent, NextSeqForAgent(oplog.cg, agent)>>

\* The content of an inserted item is its local version: items are distinct.
PushInsert(agent, f, pos) ==
  /\ NextLV(oplog.cg) < MaxOps
  /\ pos <= Len(BranchAt(oplog, f).snapshot)
  /\ oplog' = PushOp(oplog, NextId(agent), LvToRawList(oplog.cg, f),
                     Ins(pos, NextLV(oplog.cg)))

PushDelete(agent, f, pos) ==
  /\ NextLV(oplog.cg) < MaxOps
  /\ pos < Len(BranchAt(oplog, f).snapshot)
  /\ oplog' = PushOp(oplog, NextId(agent), LvToRawList(oplog.cg, f), Del(pos))

Write ==
  \E agent \in Agents, f \in Frontiers(oplog.cg), pos \in 0 .. MaxOps :
    PushInsert(agent, f, pos) \/ PushDelete(agent, f, pos)

-----------------------------------------------------------------------------
(* One merge.                                                              *)

Init ==
  /\ oplog = CreateOpLog
  /\ from = <<>>
  /\ w = NewWalk({}, <<>>, FALSE)
  /\ todo = <<>>
  /\ steps = <<>>

MakeOp == from = <<>> /\ Write /\ UNCHANGED <<from, w, todo, steps>>

\* The parts of the ranges, in their order.
PartsOf(ranges, writes) ==
  LET parts(r) == IterVersionsBetween(oplog.cg, r[1], r[2])
      upTo[k \in 0 .. Len(ranges)] ==
        IF k = 0 THEN <<>>
        ELSE upTo[k - 1] \o [j \in DOMAIN parts(ranges[k]) |->
                               [part |-> parts(ranges[k])[j], writes |-> writes]]
  IN  upTo[Len(ranges)]

\* mergeChangesIntoBranch() up to its first walk.
Start(f, version) ==
  LET b == BranchAt(oplog, f)
      c == FindConflicting(oplog.cg, f, version)
  IN  /\ from = <<>>
      /\ from' = <<f>>
      /\ w' = WithPlaceholders(NewWalk(c.common, b.snapshot, FALSE), oplog, b.version)
      /\ todo' = PartsOf(RangesFlagged(c.visited, {"A", "Shared"}), FALSE)
                   \o PartsOf(RangesFlagged(c.visited, {"B"}), TRUE)
      /\ UNCHANGED <<oplog, steps>>

\* The difference between where the walk is and where the part was written.
BeginPart ==
  /\ steps = <<>> /\ todo # <<>>
  /\ steps' = StepsFor(w, oplog.cg, todo[1].part)
  /\ w' = [w EXCEPT !.writes = todo[1].writes]
  /\ UNCHANGED <<oplog, from, todo>>

\* One step; the last one of a part moves the walk to the end of the part.
Step(kind, next) ==
  /\ steps # <<>> /\ steps[1][1] = kind
  /\ steps' = Tail(steps)
  /\ IF Len(steps) = 1
     THEN /\ w' = [next EXCEPT !.curVersion = {todo[1].part.vEnd - 1}]
          /\ todo' = Tail(todo)
     ELSE /\ w' = next
          /\ UNCHANGED todo
  /\ UNCHANGED <<oplog, from>>

Retreat == Step("retreat", Retreat1(w, oplog, steps[1][2]))
Advance == Step("advance", Advance1(w, oplog, steps[1][2]))
Apply   == Step("apply",   Apply1(w, oplog, steps[1][2]))

\* An assertion that fails throws, and ends the merge.
Walk == w.ok /\ (BeginPart \/ Retreat \/ Advance \/ Apply)

\* A longer log is only walked as a whole, from the beginning to the heads.
Next ==
  \/ MakeOp
  \/ \E f, version \in Frontiers(oplog.cg) :
       /\ NextLV(oplog.cg) <= MaxMerged \/ (f = {} /\ version = oplog.cg.heads)
       /\ Start(f, version)
  \/ Walk

Spec == Init /\ [][Next]_vars

-----------------------------------------------------------------------------
IsPlaceholder(t) == t >= NextLV(oplog.cg)

Left(kinds) == {steps[i][2] : i \in {j \in DOMAIN steps : steps[j][1] \in kinds}}

\* The events the items stand at, in the middle of a part too: those of the
\* version the part ends at, but for the steps that are left.
Active ==
  LET h == Histories(oplog.cg)
  IN  IF steps = <<>>
      THEN EventsOf(h, w.curVersion)
      ELSE (h[todo[1].part.vEnd - 1] \ Left({"advance", "apply"})) \cup Left({"retreat"})

DeletesOf(t) == {d \in DOMAIN w.delTargets : w.delTargets[d] = t}

\* What an operation needs that comes next: that an assertion of advance1() or
\* retreat1() does not fail, and that an operation is applied to the document it
\* was written on, and only once.
NextStepFits ==
  LET kind == steps[1][1]
      opId == steps[1][2]
  IN  /\ kind = "retreat" => RetreatAllowed(w, oplog, opId)
      /\ kind = "advance" => AdvanceAllowed(w, oplog, opId)
      /\ kind = "apply"   => /\ Active = Histories(oplog.cg)[opId] \ {opId}
                             /\ opId \notin DOMAIN w.item \cup DOMAIN w.delTargets

\* Between any two steps the state of an item counts what the current version
\* knows of it: that it is inserted, and how often it was deleted.  So a walk
\* that is going on can make its next move.
ItemsAreAtVersion ==
  w.ok =>
    /\ \A t \in DOMAIN w.item :
         w.item[t].curState =
           IF IsPlaceholder(t) \/ t \in Active THEN Cardinality(DeletesOf(t) \cap Active)
                                               ELSE NotYetInserted
    /\ steps # <<>> => NextStepFits

\* No walk ever throws.  A branch at any version that merges any other holds what
\* a checkout of their union holds, and says so in its version: operations walked
\* again over placeholders give what a walk over the whole history gives.  Pairs
\* that leave events out were met in a shorter log.
MergeIsCheckout ==
  /\ w.ok
  /\ from = <<>> =>
       LET h        == Histories(oplog.cg)
           c        == Checkout(oplog)
           branches == {[at |-> f, branch |-> BranchAt(oplog, f)] : f \in FrontiersOf(h)}
       IN  /\ c.ok
           /\ \A x, y \in branches :
                DominatorsOf(h, x.at \cup y.at) = oplog.cg.heads =>
                  MergeChangesIntoBranch(x.branch, oplog, y.at) = c
=============================================================================
