------------------------------- MODULE DTLists -------------------------------
(***************************************************************************)
(* Documents of diamond-types that are edited apart (list/list.rs,         *)
(* list/branch.rs).  Each has a log and a branch.  A document may edit a   *)
(* branch that is behind its log, take what it misses from another log, or *)
(* be sent runs of operations one at a time.                               *)
(***************************************************************************)
EXTENDS DTListLog

LOCAL INSTANCE SequencesExt
LOCAL INSTANCE FiniteSets

CONSTANTS Docs,        \* documents, which edit under their own names: numbers
          Base,        \* items all documents start with, made by
          BaseAgent,
          MaxOwn,      \* bound: versions a document makes, and all make
          MaxAll,
          Keepers,     \* documents that log what they delete
          Rewinders,   \* documents that may go back to an earlier version
          Senders,     \* documents that send runs of operations
          TakesSplitAgents,   \* whether a log is taken from one in which an agent's
                              \* versions are not in a chain, and whether a
          SendsPartDeletes    \* deletion is sent again of which a part is known

ASSUME DocsAssumption == Docs \subseteq Nat /\ BaseAgent \in Nat

ASSUME BoundsAssumption == {Base, MaxOwn, MaxAll} \subseteq Nat

VARIABLES log, branch

vars == <<log, branch>>

EmptyBranch == Branch({}, Text(<<>>))

Started ==
  LET edit == Edit("Ins", 0, Base, TRUE, {CharsBy(BaseAgent, 0, Base)})
  IN  IF Base = 0 THEN [log |-> NewLog, branch |-> EmptyBranch]
      ELSE ApplyLocalOperation(NewLog, EmptyBranch, BaseAgent, edit)

Init ==
  /\ log = [d \in Docs |-> Started.log]
  /\ branch = [d \in Docs |-> Started.branch]

Own(d) ==
  LET cg == log[d].cg IN IF AgentIds(cg, d) = {} THEN 0 ELSE NextSeqOf(cg, AgentId(cg, d))

Bounded(d, len) ==
  /\ Own(d) + len <= MaxOwn
  /\ FoldLeft(LAMBDA n, e : n + Own(e), 0, SetToSeq(Docs)) + len <= MaxAll

ApplyLocal(d, edit) ==
  LET r == ApplyLocalOperation(log[d], branch[d], d, edit)
  IN  /\ log' = [log EXCEPT ![d] = r.log]
      /\ branch' = [branch EXCEPT ![d] = r.branch]

\* ListBranch::insert()
Insert(d, pos, len) ==
  /\ Bounded(d, len)
  /\ ApplyLocal(d, Edit("Ins", pos, pos + len, TRUE, {CharsBy(d, Own(d), len)}))

\* delete(), and delete_without_content().
Delete(d, pos, len) ==
  /\ Bounded(d, len)
  /\ pos + len <= Len(branch[d].text.chars)
  /\ ApplyLocal(d, Edit("Del", pos, pos + len, TRUE,
                        IF d \in Keepers THEN {SubSeq(branch[d].text.chars, pos + 1, pos + len)} ELSE {}))

\* ListBranch::merge() with the version of the log.
MergeTip(d) ==
  /\ branch[d].version # log[d].cg.version
  /\ branch' = [branch EXCEPT ![d] = Merge(log[d], @, log[d].cg.version)]
  /\ UNCHANGED log

\* ListOpLog::checkout() of a version.
Rewind(d, v) ==
  /\ branch[d].version # {v}
  /\ branch' = [branch EXCEPT ![d] = Checkout(log[d], {v})]
  /\ UNCHANGED log

\* Each version of an agent is in the history of the next one.
AgentsAreChains(cg) ==
  \A v, w \in Versions(cg.graph) :
    v < w /\ AgentOf(cg, v) = AgentOf(cg, w) => FrontierContainsVersion(cg.graph, {w}, v)

Ids(cg) == {AgentVersion(cg, v) : v \in Versions(cg.graph)}

Take(d, e) ==
  /\ ~ Ids(log[e].cg) \subseteq Ids(log[d].cg)
  /\ TakesSplitAgents \/ AgentsAreChains(log[e].cg)
  /\ log' = [log EXCEPT ![d] = AddMissingOperationsFrom(@, log[e])]
  /\ UNCHANGED branch

\* A run to send: of one agent, in one entry.
RunsToSend(cg) ==
  UNION {{[name |-> p[1], seq |-> p[2], start |-> p[3], end |-> p[4]] :
            p \in ToSet(AgentPieces(cg, entry.start, entry.end))} : entry \in ToSet(cg.graph.entries)}

Knows(d, cg, v) == LVsIn(log[d].cg, cg, v) # {}

CutsDeletion(d, e, run) ==
  LET first == CHOOSE v \in run.start .. (run.end - 1) :
                 ~ Knows(d, log[e].cg, v) /\ (v = run.start \/ Knows(d, log[e].cg, v - 1))
  IN  \E op \in ToSet(OpsIn(log[e].ops, run.start, run.end)) :
        op.kind = "Del" /\ op.fwd /\ op.lv < first /\ first < OpEnd(op)

Send(e, d, run) ==
  LET cg == log[e].cg
      parents == ParentsAtVersion(cg.graph, run.start)
      edits == EditsIn(log[e], run.start, run.end)
  IN  /\ ~ Knows(d, cg, run.end - 1)
      /\ \A p \in parents : Knows(d, cg, p)
      /\ SendsPartDeletes \/ ~ CutsDeletion(d, e, run)
      /\ log' = [log EXCEPT ![d] =
           AddOperationsRemote(@, run.name, UNION {LVsIn(@.cg, cg, p) : p \in parents}, run.seq, edits)]
      /\ UNCHANGED branch

Next ==
  \E d \in Docs :
    \/ \E pos \in 0 .. Len(branch[d].text.chars), len \in 1 .. 2 : Insert(d, pos, len)
    \/ \E pos \in 0 .. Len(branch[d].text.chars), len \in 1 .. 2 : Delete(d, pos, len)
    \/ MergeTip(d)
    \/ d \in Rewinders /\ Bounded(d, 1) /\ \E v \in Versions(log[d].cg.graph) : Rewind(d, v)
    \/ \E e \in Docs : Take(d, e)
    \/ \E e \in Senders : \E run \in RunsToSend(log[e].cg) : Send(e, d, run)

Spec == Init /\ [][Next]_vars

-----------------------------------------------------------------------------

Tip(d) == log[d].cg.version

TextAt(d, version) == Checkout(log[d], version).text

\* A branch has the text a checkout of its version has, although it got there
\* by local edits and merges from one version to the next; and no assertion of
\* the tracker failed on the way, neither those of its tree and of its index.
BranchesAreCheckouts ==
  \A d \in Docs :
    /\ branch[d].text.ok
    /\ branch[d].text = TextAt(d, branch[d].version)

\* The causal graph passes its own checks whatever was taken or sent, and an
\* operation is the same operation in every log.
LogsKeepOps ==
  \A d \in Docs :
    /\ CausalGraphChecks(log[d].cg)
    /\ \A e \in Docs \ {d} : \A v \in Versions(log[d].cg.graph) :
         \A w \in LVsIn(log[e].cg, log[d].cg, v) : SameVersion(log[d], log[e], v, w)

\* Logs with the same events are equal, and give the same text.
SameEventsSameText ==
  \A d, e \in Docs :
    d # e /\ Ids(log[d].cg) = Ids(log[e].cg)
      => LogsEqual(log[d], log[e]) /\ TextAt(d, Tip(d)) = TextAt(e, Tip(e))
=============================================================================
