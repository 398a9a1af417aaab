-------------------------------- MODULE Editors --------------------------------
(***************************************************************************)
(* Editors that use the library as its README does: each writes to its own *)
(* operation log through localInsert() and localDelete(), takes what       *)
(* others wrote either a whole log at a time (mergeOplogInto()) or one     *)
(* operation at a time (pushOp()), and keeps a branch that lags behind its *)
(* log until it is told to catch up, with any version the log knows.       *)
(*                                                                         *)
(* Operations that travel one by one may be lost, repeated and reordered:  *)
(* any operation of any log may be pushed to any other log at any time.    *)
(***************************************************************************)
EXTENDS EgWalker, CausalHistory

LOCAL INSTANCE FiniteSetsExt

CONSTANTS MaxOps,    \* bound: operations ever made
          MaxLen     \* bound: operations of one call

ASSUME EditorsAssumption == MaxOps \in Nat /\ MaxLen \in Nat

VARIABLES oplog,     \* for every editor, who is an agent, its log,
          branch,    \* and a document it shows;
          ok         \* no merge has thrown

vars == <<oplog, branch, ok>>

Init ==
  /\ oplog  = [r \in Agents |-> CreateOpLog]
  /\ branch = [r \in Agents |-> EmptyBranch]
  /\ ok = TRUE

\* An editor sees the document at the heads of its log when it writes.
Seen(r) == Checkout(oplog[r]).snapshot

MakeInsert(r, pos, len) ==
  /\ pos <= Len(Seen(r))
  /\ oplog' = [oplog EXCEPT ![r] =
       LocalInsert(@, r, pos, [i \in 1 .. len |-> <<r, NextSeqForAgent(@.cg, r) + i - 1>>])]
  /\ UNCHANGED <<branch, ok>>

MakeDelete(r, pos, len) ==
  /\ pos + len <= Len(Seen(r))
  /\ oplog' = [oplog EXCEPT ![r] = LocalDelete(@, r, pos, len)]
  /\ UNCHANGED <<branch, ok>>

MergeLogs(dest, src) ==
  /\ oplog' = [oplog EXCEPT ![dest] = MergeOplogInto(@, oplog[src])]
  /\ UNCHANGED <<branch, ok>>

\* One operation of src, or what is left of it, reaches dest.
PushFrom(dest, src, v) ==
  /\ oplog' = [oplog EXCEPT ![dest] =
       PushOp(@, LvToRaw(oplog[src].cg, v),
              LvToRawList(oplog[src].cg, ParentsOf(oplog[src].cg, v)), OpAt(oplog[src], v))]
  /\ UNCHANGED <<branch, ok>>

CatchUp(r, version) ==
  LET merged == MergeChangesIntoBranch(branch[r], oplog[r], version)
  IN  /\ branch' = [branch EXCEPT ![r] = [snapshot |-> merged.snapshot,
                                          version  |-> merged.version]]
      /\ ok' = (ok /\ merged.ok)
      /\ UNCHANGED oplog

OpsMade == MapThenSumSet(LAMBDA a : NextSeqForAgent(oplog[a].cg, a), Agents)

Write(r, len) ==
  /\ OpsMade + len <= MaxOps
  /\ \E pos \in 0 .. MaxOps : MakeInsert(r, pos, len) \/ MakeDelete(r, pos, len)

Next ==
  \/ \E r \in Agents, len \in 1 .. MaxLen : Write(r, len)
  \/ \E dest, src \in Agents : dest # src /\ MergeLogs(dest, src)
  \/ \E dest, src \in Agents : \E v \in Versions(oplog[src].cg) : PushFrom(dest, src, v)
  \/ \E r \in Agents : \E f \in Frontiers(oplog[r].cg) : CatchUp(r, f)

Spec == Init /\ [][Next]_vars

-----------------------------------------------------------------------------
\* An event stands for the same operation, written at the same version, in
\* every log that has it, whichever way it came and whatever its number there.
OpsTravelWithEvents ==
  \A r, s \in Agents :
    \A v \in Versions(oplog[r].cg), w \in Versions(oplog[s].cg) :
      LvToRaw(oplog[r].cg, v) = LvToRaw(oplog[s].cg, w) =>
        /\ OpAt(oplog[r], v) = OpAt(oplog[s], w)
        /\ EventAt(oplog[r].cg, v) = EventAt(oplog[s].cg, w)

\* A branch shows the document at the version it names, and never forgets:
\* what it shows is what a new branch at that version would show.
BranchIsItsVersion ==
  /\ ok
  /\ \A r \in Agents :
       LET fresh == MergeChangesIntoBranch(EmptyBranch, oplog[r], VersionsIn(branch[r].version))
       IN  fresh = [snapshot |-> branch[r].snapshot, version |-> branch[r].version, ok |-> TRUE]

\* A branch is never moved back: the events it shows stay shown.
BranchesOnlyAdvance ==
  [][ \A r \in Agents :
        LET h == Histories(oplog'[r].cg)
        IN  EventsOf(h, VersionsIn(branch[r].version)) \subseteq EventsOf(h, VersionsIn(branch'[r].version))
    ]_vars
=============================================================================
