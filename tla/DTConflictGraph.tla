--------------------------- MODULE DTConflictGraph ---------------------------
(***************************************************************************)
(* diamond-types: graph/conflict_subgraph.rs.  The versions that two       *)
(* frontiers hold beyond a common one, as a graph of its own in which an   *)
(* entry is either a run or a merge, names the entries it follows, and has *)
(* children only after its last version.                                   *)
(***************************************************************************)
EXTENDS DTGraphTools

LOCAL INSTANCE FiniteSetsExt
LOCAL INSTANCE SequencesExt
LOCAL INSTANCE FiniteSets

\* A child is the index of an entry put out before, or one of the two roots.
ARoot == -1
BRoot == -2
NoIndex == 0

NoSpan == <<0, 0>>
IsMerge(entry) == entry.span = NoSpan

\* version: a frontier whose entries the child follows.
Pending == [version : SUBSET Nat, flag : DiffFlags, child : Int]

\* Frontiers compare from their highest versions down.
HigherVersions(a, b) == a # b /\ Max(SymDiff(a, b)) \in a

TopPending(queue) == CHOOSE p \in queue : \A q \in queue : ~ HigherVersions(q.version, p.version)

ConflictGraphs == [entries : Seq([span : Nat \X Nat, flag : DiffFlags, parents : Seq(Nat)]),
                   aRoot : Nat, bRoot : Nat, queue : SUBSET Pending,
                   children : Seq(Int), done : BOOLEAN, base : SUBSET Nat]

\* push_result(): a new entry becomes the parent of the children.
PushResult(st, span, flag) ==
  LET new == Len(st.entries) + 1
      kids == ToSet(st.children)
  IN  [st EXCEPT
         !.entries = Append([i \in DOMAIN @ |-> IF i \in kids THEN [@[i] EXCEPT !.parents = Append(@, new)] ELSE @[i]],
                            [span |-> span, flag |-> flag, parents |-> <<>>]),
         !.aRoot = IF ARoot \in kids THEN new ELSE @,
         !.bRoot = IF BRoot \in kids THEN new ELSE @,
         !.children = <<>>]

AddPending(st, version, flag, child) ==
  [st EXCEPT !.queue = @ \cup {[version |-> version, flag |-> flag, child |-> child]}]

Stop(st, base) == [st EXCEPT !.done = TRUE, !.base = base]

\* Takes the highest entry of the queue, and all with the same version, whose
\* children become the children of what is put out next.
TakeTop(st, version) ==
  LET same == {q \in st.queue : q.version = version}
  IN  [st EXCEPT !.queue = @ \ same, !.children = @ \o SetToSeq({q.child : q \in same})]

BlendAll_First(flags) == CHOOSE f \in flags : TRUE

BlendAll(flags) == IF Cardinality(flags) = 1 THEN CHOOSE f \in flags : TRUE ELSE "Shared"

\* A merge that shares its highest version with another merge in the queue.
SharesTop(queue, v) ==
  queue # {} /\ LET next == TopPending(queue).version IN v \in next /\ v = Max(next) /\ Cardinality(next) > 1

\* A merge gets an entry of its own, which waits for all it merges.
Shattered(st, version, flag) ==
  LET out == PushResult(st, NoSpan, flag)
  IN  FoldSet(LAMBDA v, s : AddPending(s, {v}, flag, Len(s.entries)), out, version)

\* The walk down one entry from last: cut where a queued version lies in it.
WalkEntry(txn, start, from, flag0) ==
  LET loop[st \in ConflictGraphs, last \in Nat, flag \in DiffFlags] ==
        IF st.queue = {} THEN Stop(st, {last})
        ELSE LET top == TopPending(st.queue) IN
          IF top.version = {} \/ Max(top.version) < txn.start
          THEN LET out == PushResult(st, <<txn.start, last + 1>>, flag)
               IN  AddPending(out, txn.parents, flag, Len(out.entries))
          ELSE IF Cardinality(top.version) > 1
          THEN LET out == PushResult(st, <<Max(top.version) + 1, last + 1>>, flag)
               IN  AddPending(out, {Max(top.version)}, flag, Len(out.entries))
          ELSE LET v == Max(top.version)
                   cut == IF v = last THEN st ELSE PushResult(st, <<v + 1, last + 1>>, flag)
                   kids == IF v = last THEN <<>> ELSE <<Len(cut.entries)>>
               IN  loop[[cut EXCEPT !.queue = @ \ {top}, !.children = (@ \o kids) \o <<top.child>>],
                        v, Blend(flag, top.flag)]
  IN  loop[start, from, flag0]

ConflictGraphStep(g, st, version) ==
  LET taken == TakeTop(st, version)
      flag == BlendAll({q.flag : q \in {p \in st.queue : p.version = version}})
      merge == Cardinality(version) > 1
      walked == IF merge
                THEN LET out == Shattered(taken, version \ {Max(version)}, flag)
                     IN  [out EXCEPT !.children = <<Len(out.entries)>>]
                ELSE taken
  IN  IF version = {} \/ taken.queue = {} THEN Stop(taken, version)
      ELSE IF merge /\ SharesTop(taken.queue, Max(version)) THEN Shattered(taken, version, flag)
      ELSE WalkEntry(FindPacked(g, Max(version)), walked, Max(version), flag)

\* The children left at the common version get an entry to share.
CloseGraph(st) == IF Len(st.children) > 1 THEN PushResult(st, NoSpan, "Shared") ELSE st

MakeConflictGraph(g, a, b) ==
  LET loop[st \in ConflictGraphs] ==
        IF st.done THEN CloseGraph(st) ELSE loop[ConflictGraphStep(g, st, TopPending(st.queue).version)]
      start == [entries |-> <<>>, aRoot |-> NoIndex, bRoot |-> NoIndex, children |-> <<>>,
                queue |-> {[version |-> a, flag |-> "OnlyA", child |-> ARoot],
                           [version |-> b, flag |-> "OnlyB", child |-> BRoot]},
                done |-> FALSE, base |-> a]
  IN  IF a = b THEN start ELSE loop[start]
=============================================================================
