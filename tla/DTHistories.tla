---------------------------- MODULE DTHistories ----------------------------
(***************************************************************************)
(* Every log of diamond-types a set of writers can produce: an operation   *)
(* is added at any version (ListOpLog::add_operations_at), on the text as  *)
(* it is there.  An agent may write on branches that know nothing of each  *)
(* other.  What merging promises is stated for all versions of a log, as   *)
(* merged into the newest.                                                 *)
(***************************************************************************)
EXTENDS DTOldTxns

LOCAL INSTANCE SequencesExt
LOCAL INSTANCE FiniteSets

CONSTANTS Writers,    \* who writes: numbers
          Base,       \* items the log starts with, made by
          BaseWriter,
          MaxVersions, \* bound: versions
          MaxLen      \* bound: items of an operation

ASSUME WritersAssumption == Writers \subseteq Nat /\ BaseWriter \in Nat \ Writers

ASSUME BoundsAssumption == {Base, MaxVersions, MaxLen} \subseteq Nat

VARIABLES log,
          texts,   \* the text of every version of the log, as it was checked
                   \* out when it first was there, and
          lists    \* the list of the older crate there
vars == <<log, texts, lists>>

EmptyBranch == Branch({}, Text(<<>>))

Frontiers(g) == {f \in SUBSET Versions(g) : FindDominators(g, f) = f}

CheckedOut(l, old) ==
  [f \in Frontiers(l.cg.graph) |-> IF f \in DOMAIN old THEN old[f] ELSE Merge(l, EmptyBranch, f).text]

Listed(l, old) == [f \in Frontiers(l.cg.graph) |-> IF f \in DOMAIN old THEN old[f] ELSE OldList(l, f)]

Started == AddOperationAt(NewLog, BaseWriter, {}, Edit("Ins", 0, Base, TRUE, {CharsBy(BaseWriter, 0, Base)}))

Init ==
  /\ log = IF Base = 0 THEN NewLog ELSE Started
  /\ texts = CheckedOut(log, [f \in {{}} |-> Text(<<>>)])
  /\ lists = Listed(log, [f \in {{}} |-> Old!NewList])

\* Who made the newest version.  Writers take turns: a run of one writer is made
\* by one operation.
Newest ==
  LET next == NextTime(log.cg.graph) IN IF next = 0 THEN {} ELSE {AgentVersion(log.cg, next - 1)[1]}

SeqsOf(name) ==
  IF AgentIds(log.cg, name) = {} THEN 0 ELSE NextSeqOf(log.cg, AgentId(log.cg, name))

Do(name, version, edit) == log' = AddOperationAt(log, name, version, edit)

\* add_insert_at(), and add_delete_at().
Insert(name, version, len) ==
  \E pos \in 0 .. Len(texts[version].chars) :
    Do(name, version, Edit("Ins", pos, pos + len, TRUE, {CharsBy(name, SeqsOf(name), len)}))

Delete(name, version, len) ==
  \E pos \in 0 .. (Len(texts[version].chars) - len) :
    Do(name, version, Edit("Del", pos, pos + len, TRUE, {}))

\* The item in front of what a writer has just deleted is deleted too: the log
\* has this as one deletion, that runs backwards.
Backspace(name) ==
  LET op == Last(log.ops)
  IN  /\ op.kind = "Del" /\ op.start > 0
      /\ Do(name, {OpEnd(op) - 1}, Edit("Del", op.start - 1, op.start, TRUE, {}))

Next ==
  /\ NextTime(log.cg.graph) < MaxVersions
  /\ \/ \E name \in Writers \ Newest, version \in DOMAIN texts, len \in 1 .. MaxLen :
          /\ NextTime(log.cg.graph) + len <= MaxVersions
          /\ Insert(name, version, len) \/ Delete(name, version, len)
     \/ \E name \in Newest : Backspace(name)
  /\ texts' = CheckedOut(log', texts)
  /\ lists' = Listed(log', lists)

Spec == Init /\ [][Next]_vars

-----------------------------------------------------------------------------

Tip == log.cg.version

\* Whatever version a branch is at, each of the four ways to merge the newest
\* version - by a plan, by the older iterator over the plan, by the merger
\* before plans, on the part of the graph in conflict - brings it to the text a
\* checkout has, at the version of the log, and no assertion of the tracker,
\* its tree and its index fails.
MergesAreCheckouts ==
  \A version \in DOMAIN texts :
    LET branch == Branch(version, texts[version])
    IN  {Merge(log, branch, Tip), Merge_(log, branch, Tip), MergeOld(log, branch, Tip),
         MergeInto(log, branch, Tip), Branch(Tip, Text(texts[Tip].chars))} = {Branch(Tip, texts[Tip])}

Before(s, x, y) == \E i, j \in DOMAIN s : i < j /\ s[i] = x /\ s[j] = y

\* Characters have the same order in the text of every two versions that show
\* both of them: the order a merge gives them depends on no other operation.
OneOrder ==
  \A f, g \in DOMAIN texts :
    \A x, y \in ToSet(texts[f].chars) \cap ToSet(texts[g].chars) :
      Before(texts[f].chars, x, y) => Before(texts[g].chars, x, y)

ReplicatesInto(list) ==
  LET merged == Old!ReplicateInto(lists[Tip], list)
  IN  Old!ListChecks(merged) /\ Old!ListsEqual(lists[Tip], merged)

\* At every version the list of the older crate passes its own checks, has the
\* text a checkout has, and is at that version.  One that has of each agent the
\* versions up to some number becomes equal to that of the newest version when
\* this is replicated into it.
OlderAgrees ==
  \A version \in DOMAIN lists :
    LET list == lists[version]
    IN  /\ Old!ListChecks(list)
        /\ list.text = texts[version].chars
        /\ {Old!IdOf(list, v) : v \in list.frontier \ {Old!Root}} = {AgentVersion(log.cg, v) : v \in version}
        /\ (\A name \in Old!Names(list) :
              Cardinality(Old!SeqsOfAgent(list, name)) = Old!ClockOf(list, name)) => ReplicatesInto(list)

Reference == INSTANCE EgWalker WITH Agents <- Writers \cup {BaseWriter}

\* The same history in the reference implementation, one operation a version.
ReferenceOp(lv) ==
  LET unit(u) == IF u.kind = "Ins" THEN Reference!Ins(u.pos, The(u.char)) ELSE Reference!Del(u.pos)
  IN  unit(UnitOpOf(log, lv))

ReferenceLog ==
  FoldLeft(LAMBDA r, lv : Reference!PushOp(r, AgentVersion(log.cg, lv),
                                           {AgentVersion(log.cg, p) : p \in ParentsAtVersion(log.cg.graph, lv)},
                                           ReferenceOp(lv)),
           Reference!CreateOpLog, Ascending(Versions(log.cg.graph)))

\* diamond-types and the reference implementation give the same text for the
\* same history, as the conformance data in the repository records.
ConformsToReference == texts[Tip].chars = Reference!Checkout(ReferenceLog).snapshot
=============================================================================
