------------------------------- MODULE Replicas -------------------------------
(***************************************************************************)
(* Documents that are edited apart and merged in any order: the system the *)
(* fuzzer (eg-walker-reference/test/fuzzer.ts) drives.  Every document has *)
(* an operation log, the content it shows, and, as the reference, the list *)
(* CRDT of list-fugue-simple.ts.  Agents are shared by the documents: one  *)
(* agent writes concurrently with itself.                                  *)
(***************************************************************************)
EXTENDS EgWalker, CausalHistory, FiniteSets

LOCAL INSTANCE SequencesExt

Fugue == INSTANCE ListFugueSimple

CONSTANTS Docs,      \* the documents
          MaxOps     \* bound: operations ever made

ASSUME MaxOpsAssumption == MaxOps \in Nat

VARIABLES doc,       \* the documents
          agentSeq,  \* the next sequence number of every agent
          ok         \* no assertion has failed

vars == <<doc, agentSeq, ok>>

CreateDoc == [oplog |-> CreateOpLog, content |-> <<>>, fugue |-> Fugue!NewList]

Init ==
  /\ doc = [d \in Docs |-> CreateDoc]
  /\ agentSeq = [a \in Agents |-> 0]
  /\ ok = TRUE

\* The ids that were handed out, one for every operation.
IdsHandedOut == UNION {{a} \X (0 .. (agentSeq[a] - 1)) : a \in Agents}

OpsMade == Cardinality(IdsHandedOut)

\* consumeSeqs(), within the bound.
Consumes(agent, num) ==
  /\ OpsMade + num <= MaxOps
  /\ agentSeq' = [agentSeq EXCEPT ![agent] = @ + num]

\* The content of an item is its id: items are distinct.
DocInsert(d, agent, pos) ==
  LET log == doc[d].oplog
      seq == agentSeq[agent]
      id  == <<agent, seq>>
  IN  /\ pos <= Len(doc[d].content)
      /\ Consumes(agent, 1)
      /\ doc' = [doc EXCEPT ![d] =
           [oplog   |-> [ops |-> Append(log.ops, Ins(pos, id)),
                         cg  |-> Add(log.cg, agent, seq, seq + 1, log.cg.heads)],
            content |-> InsertAt(@.content, pos + 1, id),
            fugue   |-> Fugue!InsertOneWithReplica(@.fugue, id, pos, id)]]
      /\ UNCHANGED ok

DocDelete(d, agent, pos, len) ==
  LET log == doc[d].oplog
      seq == agentSeq[agent]
  IN  /\ pos + len <= Len(doc[d].content)
      /\ Consumes(agent, len)
      /\ doc' = [doc EXCEPT ![d] =
           [oplog   |-> [ops |-> log.ops \o [i \in 1 .. len |-> Del(pos)],
                         cg  |-> Add(log.cg, agent, seq, seq + len, log.cg.heads)],
            content |-> SubSeq(@.content, 1, pos) \o
                        SubSeq(@.content, pos + len + 1, Len(@.content)),
            fugue   |-> Fugue!Delete(@.fugue, pos, len)]]
      /\ UNCHANGED ok

\* docMergeInto(): the log first, then the branch, at the version it was at,
\* to the new heads.
DocMergeInto(dest, src) ==
  LET log    == MergeOplogInto(doc[dest].oplog, doc[src].oplog)
      before == [snapshot |-> doc[dest].content,
                 version  |-> Ascending(doc[dest].oplog.cg.heads)]
      after  == MergeChangesIntoBranch(before, log, log.cg.heads)
  IN  /\ doc' = [doc EXCEPT ![dest] =
           [oplog   |-> log,
            content |-> after.snapshot,
            fugue   |-> Fugue!MergeFrom(@.fugue, doc[src].fugue)]]
      /\ ok' = (ok /\ after.ok /\ after.version = Ascending(log.cg.heads))
      /\ UNCHANGED agentSeq

Next ==
  \/ \E d \in Docs, agent \in Agents, pos \in 0 .. MaxOps : DocInsert(d, agent, pos)
  \/ \E d \in Docs, agent \in Agents, pos \in 0 .. MaxOps, len \in 1 .. 3 :
       DocDelete(d, agent, pos, len)
  \/ \E dest, src \in Docs : dest # src /\ DocMergeInto(dest, src)

Spec == Init /\ [][Next]_vars

-----------------------------------------------------------------------------
Known(d) == EventSet(doc[d].oplog.cg)

\* No merge throws, and every merge ends at the heads of the log it merged.
AssertionsHold == ok /\ \A d \in Docs : doc[d].fugue.ok

\* Documents with the same events show the same content, although they number
\* the events differently and merged them in a different order.
SameEventsSameContent ==
  \A d, e \in Docs : Known(d) = Known(e) => doc[d].content = doc[e].content

\* The walker puts concurrent items where the list CRDT puts them.
ContentIsFugue == \A d \in Docs : doc[d].content = Fugue!ToArray(doc[d].fugue)

Before(s, x, y) == \E i, j \in DOMAIN s : i < j /\ s[i] = x /\ s[j] = y

\* An item a document has lost does not come back, and items that stay do not
\* change places.
NothingReturnsOrMoves ==
  [][ \A d \in Docs :
        LET old == doc[d].content
            new == doc'[d].content
        IN  /\ \A x \in ToSet(new) : x \in ToSet(old) \/ ~ HasVersion(doc[d].oplog.cg, x[1], x[2])
            /\ \A x, y \in ToSet(old) \cap ToSet(new) : Before(old, x, y) => Before(new, x, y)
    ]_vars

Graph == INSTANCE EventGraph WITH
  Replicas <- Docs,
  Writers  <- Agents,
  Bound    <- MaxOps,
  known    <- [d \in Docs |-> Known(d)]

\* Run-length encoded logs, exchanged by summary, difference and partial
\* merge, are replicated sets of events.
ExchangesEvents == Graph!Spec
=============================================================================
