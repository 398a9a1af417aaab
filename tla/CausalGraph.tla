----------------------------- MODULE CausalGraph -----------------------------
(***************************************************************************)
(* The run-length encoded causal graph of the reference implementation     *)
(* (eg-walker-reference/src/causal-graph.ts), as a value and the operators *)
(* that read and extend it.                                                *)
(*                                                                         *)
(* A graph is a record with the three fields of the CausalGraph interface: *)
(*                                                                         *)
(*   heads           the current frontier, a set of local versions (LVs);  *)
(*   entries         runs of consecutive LVs written by one agent, each    *)
(*                   event of a run the only parent of the next one;       *)
(*   agentToVersion  for every agent, its runs of sequence numbers, each   *)
(*                   with the LV of its first event.                       *)
(*                                                                         *)
(* Abstraction.  The code keeps heads and parents as duplicate-free sorted *)
(* arrays; here they are sets.  Agents are naturals, because the code      *)
(* compares agent names.                                                   *)
(*                                                                         *)
(* Here and in the other modules, X_Wrong is X with a mistake a programmer *)
(* might make.  Nothing uses it: it is there to be put in the place of X,  *)
(* to see that a property notices.                                         *)
(***************************************************************************)
EXTENDS Integers, Sequences, FiniteSets

CONSTANT Agents    \* the agents that may write

ASSUME AgentsAssumption == Agents \subseteq Nat

LV   == Nat        \* a local version
Entry == [version : LV, vEnd : LV, agent : Agents, seq : Nat, parents : SUBSET LV]
ClientEntry == [seq : Nat, seqEnd : Nat, version : LV]
CG == [heads : SUBSET LV, entries : Seq(Entry), agentToVersion : [Agents -> Seq(ClientEntry)]]

None == [none |-> TRUE]    \* JavaScript's null

EmptyCG == [heads          |-> {},
            entries        |-> <<>>,
            agentToVersion |-> [a \in Agents |-> <<>>]]

-----------------------------------------------------------------------------
(* Numbering.                                                              *)

LastOf(list) == list[Len(list)]

\* Array.splice(k, 0, x): x behind the first k elements.
Splice(list, k, x) == SubSeq(list, 1, k) \o <<x>> \o SubSeq(list, k + 1, Len(list))

NextLV_Short(cg) == IF cg.entries = <<>> THEN 0 ELSE LastOf(cg.entries).vEnd - 1
\* The LV the next event gets.
NextLV(cg) == IF cg.entries = <<>> THEN 0 ELSE LastOf(cg.entries).vEnd

Versions(cg) == 0 .. (NextLV(cg) - 1)

NextSeqForAgent(cg, agent) ==
  LET av == cg.agentToVersion[agent]
  IN  IF av = <<>> THEN 0 ELSE LastOf(av).seqEnd

-----------------------------------------------------------------------------
(* Lookups.  The code finds an entry by binary search; the ranges of a     *)
(* list are disjoint, so at most one entry answers.                        *)

EntriesWith(cg, v) ==
  {e \in {cg.entries[i] : i \in DOMAIN cg.entries} : e.version <= v /\ v < e.vEnd}

FindEntryContaining(cg, v) == CHOOSE e \in EntriesWith(cg, v) : TRUE

ClientEntriesWith(cg, agent, seq) ==
  LET av == cg.agentToVersion[agent]
  IN  {ce \in {av[i] : i \in DOMAIN av} : ce.seq <= seq /\ seq < ce.seqEnd}

HasVersion(cg, agent, seq) ==
  /\ agent \in Agents
  /\ ClientEntriesWith(cg, agent, seq) # {}

\* The LV of an event by its identity; the event must be known.
RawToLV(cg, agent, seq) ==
  LET ce == CHOOSE ce \in ClientEntriesWith(cg, agent, seq) : TRUE
  IN  ce.version + (seq - ce.seq)

RawToLVList(cg, ids) == {RawToLV(cg, id[1], id[2]) : id \in ids}

\* The identity <<agent, seq>> of a known LV.
LvToRaw(cg, v) ==
  LET e == FindEntryContaining(cg, v)
  IN  <<e.agent, e.seq + (v - e.version)>>

LvToRawList(cg, vs) == {LvToRaw(cg, v) : v \in vs}

\* The parents of one LV: those of its run, or the event before it in the run.
ParentsOf_Entry(cg, v) == FindEntryContaining(cg, v).parents

ParentsOf(cg, v) ==
  LET e == FindEntryContaining(cg, v)
  IN  IF v = e.version THEN e.parents ELSE {v - 1}

\* Events are ordered by agent and then by sequence number.
RawVersionLess(r, s) ==
  \/ r[1] < s[1]
  \/ r[1] = s[1] /\ r[2] < s[2]

LvLess_ByLV(cg, v, w)     == v < w
LvLess_Reversed(cg, v, w) == RawVersionLess(LvToRaw(cg, w), LvToRaw(cg, v))

LvLess(cg, v, w) == RawVersionLess(LvToRaw(cg, v), LvToRaw(cg, w))

-----------------------------------------------------------------------------
(* Extending the graph.                                                    *)

AdvanceFrontier_OffByOne(frontier, vLast, parents)    == (frontier \ parents) \cup {vLast - 1}
AdvanceFrontier(frontier, vLast, parents) == (frontier \ parents) \cup {vLast}

CanAppendEntry_AnySeq(a, b) == a.agent = b.agent /\ b.parents = {a.vEnd - 1}
CanAppendEntry_AnyParents(a, b) == a.agent = b.agent /\ a.seq + (a.vEnd - a.version) = b.seq

CanAppendEntry(a, b) ==
  /\ b.version = a.vEnd
  /\ a.agent = b.agent
  /\ a.seq + (a.vEnd - a.version) = b.seq
  /\ b.parents = {a.vEnd - 1}

PushEntry_TakeSeq(list, e) ==
  IF list # <<>> /\ CanAppendEntry(LastOf(list), e)
  THEN [list EXCEPT ![Len(list)].vEnd = e.vEnd, ![Len(list)].seq = e.seq]
  ELSE Append(list, e)

PushEntry(list, e) ==
  IF list # <<>> /\ CanAppendEntry(LastOf(list), e)
  THEN [list EXCEPT ![Len(list)].vEnd = e.vEnd]
  ELSE Append(list, e)

CanAppendClientEntry(a, b) ==
  /\ b.seq = a.seqEnd
  /\ b.version = a.version + (a.seqEnd - a.seq)

\* An agent's runs stay ordered by seq.  A run may arrive after a later one
\* of its agent, because an agent may write on two branches: it is then
\* spliced in behind the last run that starts before it, or extends that run.
PlaceForRun(list, seq) ==
  LET later == {i \in DOMAIN list : list[i].seq > seq}
  IN  IF later = {} THEN Len(list) ELSE (CHOOSE i \in later : \A j \in later : i <= j) - 1

InsertClientEntry(list, ce) ==
  LET idx == PlaceForRun(list, ce.seq)
  IN  IF idx > 0 /\ CanAppendClientEntry(list[idx], ce)
      THEN [list EXCEPT ![idx].seqEnd = ce.seqEnd]
      ELSE Splice(list, idx, ce)

\* The part of the span that add() keeps starts at its first unknown event.
\* An empty span, which add() does not refuse, starts where it was asked to.
UnknownSeqs(cg, agent, seqStart, seqEnd) ==
  {s \in seqStart .. (IF seqEnd > seqStart THEN seqEnd - 1 ELSE seqStart) :
      ~ HasVersion(cg, agent, s)}

FirstUnknown(cg, agent, seqStart, seqEnd) ==
  LET unknown == UnknownSeqs(cg, agent, seqStart, seqEnd)
  IN  CHOOSE s \in unknown : \A t \in unknown : s <= t

NewEntry_SameParents(cg, agent, seqStart, seqEnd, parents) ==
  LET start == FirstUnknown(cg, agent, seqStart, seqEnd)
  IN  [version |-> NextLV(cg),
       vEnd    |-> NextLV(cg) + (seqEnd - start),
       agent   |-> agent,
       seq     |-> start,
       parents |-> parents]

\* The run add() inserts for the span seqStart..seqEnd-1 of the agent.  When
\* a prefix of the span is known, the last event of the prefix replaces the
\* caller's parents.
NewEntry(cg, agent, seqStart, seqEnd, parents) ==
  LET start == FirstUnknown(cg, agent, seqStart, seqEnd)
  IN  [version |-> NextLV(cg),
       vEnd    |-> NextLV(cg) + (seqEnd - start),
       agent   |-> agent,
       seq     |-> start,
       parents |-> IF start = seqStart
                   THEN parents
                   ELSE {RawToLV(cg, agent, start - 1)}]

InsertEntry(cg, e) ==
  [heads          |-> AdvanceFrontier(cg.heads, e.vEnd - 1, e.parents),
   entries        |-> PushEntry(cg.entries, e),
   agentToVersion |->
     [cg.agentToVersion EXCEPT ![e.agent] =
        InsertClientEntry(@, [seq     |-> e.seq,
                              seqEnd  |-> e.seq + (e.vEnd - e.version),
                              version |-> e.version])]]

\* add(): a span that is known in full changes nothing.
Add(cg, agent, seqStart, seqEnd, parents) ==
  IF UnknownSeqs(cg, agent, seqStart, seqEnd) = {}
  THEN cg
  ELSE InsertEntry(cg, NewEntry(cg, agent, seqStart, seqEnd, parents))

\* addRaw(): the parents are given by identity, and must all be known.
KnowsAll(cg, ids) == \A id \in ids : HasVersion(cg, id[1], id[2])

AddRaw(cg, id, len, rawParents) ==
  Add(cg, id[1], id[2], id[2] + len, RawToLVList(cg, rawParents))
=============================================================================
