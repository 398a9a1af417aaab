------------------------- MODULE CausalGraphMachine -------------------------
(***************************************************************************)
(* One causal graph as a state machine: every call of add() and            *)
(* assignLocal() its callers may make, and what must hold of the run-length*)
(* encoding whatever the order in which the runs arrive.                   *)
(***************************************************************************)
EXTENDS CausalHistory

CONSTANTS MaxLV,    \* bound: no graph has more events
          MaxSeq,   \* bound: sequence numbers stay below
          MaxLen    \* bound: events in one call

ASSUME BoundsAssumption == MaxLV \in Nat /\ MaxSeq \in Nat /\ MaxLen \in Nat

VARIABLE cg

vars == <<cg>>

Init == cg = EmptyCG

\* A span that a replica may be sent: its known events form a prefix of it,
\* and they are the events the span describes.
Receivable(agent, seq, len, parents) ==
  /\ HasVersion(cg, agent, seq) => parents = ParentsOf(cg, RawToLV(cg, agent, seq))
  /\ \A s \in (seq + 1) .. (seq + len - 1) :
       HasVersion(cg, agent, s) =>
         /\ HasVersion(cg, agent, s - 1)
         /\ ParentsOf(cg, RawToLV(cg, agent, s)) = {RawToLV(cg, agent, s - 1)}

WithinBounds(seq, len) == NextLV(cg) + len <= MaxLV /\ seq + len <= MaxSeq

\* add(): a span received from elsewhere, known in part or not at all.
AddSpan(agent, seq, len, parents) ==
  /\ WithinBounds(seq, len)
  /\ Receivable(agent, seq, len, parents)
  /\ cg' = Add(cg, agent, seq, seq + len, parents)

\* assignLocal(): throws for a sequence number the agent has passed.
AssignLocal(agent, seq, parents, num) ==
  /\ WithinBounds(seq, num)
  /\ seq >= NextSeqForAgent(cg, agent)
  /\ cg' = Add(cg, agent, seq, seq + num, parents)

Next ==
  \E agent \in Agents, seq \in 0 .. MaxSeq, len \in 1 .. MaxLen, parents \in Frontiers(cg) :
     \/ AddSpan(agent, seq, len, parents)
     \/ AssignLocal(agent, seq, parents, len)

Spec == Init /\ [][Next]_vars

\* Every agent writes on from where it is, on any version: every shape of a
\* graph of single events is reached, with the identities kept few.
NextContiguous ==
  \E agent \in Agents, parents \in Frontiers(cg) :
     AssignLocal(agent, NextSeqForAgent(cg, agent), parents, 1)

SpecContiguous == Init /\ [][NextContiguous]_vars

-----------------------------------------------------------------------------
(* Type invariant.                                                         *)

\* The graph has the shape the interfaces of causal-graph.ts give it.
TypeOK == cg \in CG

-----------------------------------------------------------------------------
(* Safety.                                                                 *)

\* The entries cover the local versions from 0 on without gap or overlap, no
\* entry is empty, and every parent comes before its run: local versions are
\* a topological order, which every traversal of the graph relies on.
EntriesInOrder ==
  \A i \in DOMAIN cg.entries :
    LET e == cg.entries[i]
    IN  /\ e.version < e.vEnd
        /\ e.version = IF i = 1 THEN 0 ELSE cg.entries[i - 1].vEnd
        /\ \A p \in e.parents : p < e.version

\* Every version is in exactly one entry: the binary searches for it succeed,
\* and find the same entry from wherever they start.
VersionsCovered ==
  \A v \in Versions(cg) :
    \E i \in DOMAIN cg.entries :
      /\ cg.entries[i].version <= v /\ v < cg.entries[i].vEnd
      /\ \A j \in DOMAIN cg.entries : j # i =>
           ~ (cg.entries[j].version <= v /\ v < cg.entries[j].vEnd)

\* The frontier that advanceFrontier() keeps call by call is exactly the set
\* of events nothing came after.
HeadsAreChildless ==
  cg.heads = {v \in Versions(cg) : \A w \in Versions(cg) : v \notin ParentsOf(cg, w)}

\* An agent's runs are ordered and disjoint, as the binary searches over them
\* need, whatever the order in which they were spliced in.
AgentRunsOrdered ==
  \A agent \in Agents :
    LET av == cg.agentToVersion[agent]
    IN  \A i, j \in DOMAIN av : i < j => av[i].seqEnd <= av[j].seq

\* The two indexes agree: an identity leads to the version that carries it,
\* and every version has an identity that leads back to it.
MappingsAgree ==
  /\ \A v \in Versions(cg) :
       LET id == LvToRaw(cg, v)
       IN  HasVersion(cg, id[1], id[2]) /\ RawToLV(cg, id[1], id[2]) = v
  /\ \A agent \in Agents, seq \in 0 .. MaxSeq :
       HasVersion(cg, agent, seq) => LvToRaw(cg, RawToLV(cg, agent, seq)) = <<agent, seq>>

\* A known event never changes: neither its number, nor its identity, nor its
\* parents, although the run that holds it is extended in place.
EventsAreStable ==
  [][ /\ NextLV(cg) <= NextLV(cg')
      /\ \A v \in Versions(cg) : EventAt(cg', v) = EventAt(cg, v) /\ ParentsOf(cg', v) = ParentsOf(cg, v)
    ]_vars

\* The events the graph stands for, as an abstract log of events.
Log == INSTANCE EventLog WITH events <- EventSet(cg)

\* Whatever part of a span was known, and however its rest was trimmed, joined
\* and numbered, the graph then stands for the events it had and the chain of
\* events the span describes, and no other.
AddsAreUnions ==
  [][ \A agent \in Agents, seq \in 0 .. MaxSeq, len \in 1 .. MaxLen, parents \in Frontiers(cg) :
        AddSpan(agent, seq, len, parents) \/ AssignLocal(agent, seq, parents, len) =>
          Log!Add(agent, seq, len, LvToRawList(cg, parents)) ]_vars
=============================================================================
