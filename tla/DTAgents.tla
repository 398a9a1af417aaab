------------------------------ MODULE DTAgents -------------------------------
(***************************************************************************)
(* diamond-types: the causal graph of a document, the graph of versions    *)
(* with who made them (causalgraph/agent_assignment/mod.rs,                *)
(* causalgraph/causalgraph.rs).                                            *)
(*                                                                         *)
(* A causal graph holds the graph, the version of everything in it, for    *)
(* each agent its name and its runs of sequence numbers, in the order of   *)
(* these, and in the order of local versions the runs of all.              *)
(* A name is a number, and names compare as numbers do.                    *)
(***************************************************************************)
EXTENDS DTGraphTools

LOCAL INSTANCE SequencesExt

EmptyCG == [graph |-> EmptyGraph, version |-> {}, agents |-> <<>>, byLV |-> <<>>]

SeqRun(seq, lv, len) == [seq |-> seq, lv |-> lv, len |-> len]
LVRun(lv, agent, seq, len) == [lv |-> lv, agent |-> agent, seq |-> seq, len |-> len]

\* get_agent_id(), and get_or_create_agent_id(); ids count from 1.
AgentIds(cg, name) == {a \in DOMAIN cg.agents : cg.agents[a].name = name}
AgentId(cg, name) == CHOOSE a \in AgentIds(cg, name) : TRUE

WithAgent(cg, name) ==
  IF AgentIds(cg, name) # {} THEN cg
  ELSE [cg EXCEPT !.agents = Append(@, [name |-> name, runs |-> <<>>])]

AgentName(cg, agent) == cg.agents[agent].name

\* get_next_seq()
NextSeqOf(cg, agent) ==
  LET runs == cg.agents[agent].runs IN IF runs = <<>> THEN 0 ELSE Last(runs).seq + Last(runs).len

\* len_assignment()
LenAssigned(cg) == IF cg.byLV = <<>> THEN 0 ELSE Last(cg.byLV).lv + Last(cg.byLV).len

RunOfLV(cg, lv) == CHOOSE r \in ToSet(cg.byLV) : r.lv <= lv /\ lv < r.lv + r.len

AgentOf(cg, lv) == RunOfLV(cg, lv).agent

\* local_to_agent_version(): the name and the sequence number.
AgentVersion(cg, lv) ==
  LET run(r) == <<AgentName(cg, r.agent), r.seq + (lv - r.lv)>> IN run(RunOfLV(cg, lv))

\* local_span_to_agent_span(): how much of a range one run has.
SpanLen(cg, lv, len) ==
  LET left(r) == Least(len, r.len - (lv - r.lv)) IN left(RunOfLV(cg, lv))

\* try_agent_version_to_lv(): none, or one.
LVsOf(cg, name, seq) ==
  {r.lv + (seq - r.seq) : r \in {s \in UNION {ToSet(cg.agents[a].runs) : a \in AgentIds(cg, name)} :
                                   s.seq <= seq /\ seq < s.seq + s.len}}

\* RleVec::push and RleVec::insert on runs of one agent: a run joins the one
\* before it, else the one behind, if both numbers go on.
Continues(r, s) == s.seq = r.seq + r.len /\ s.lv = r.lv + r.len

InsertSeqRun(runs, r) ==
  LET at == Len(SelectSeq(runs, LAMBDA s : s.seq < r.seq))
  IN  IF at >= 1 /\ Continues(runs[at], r)
      THEN [runs EXCEPT ![at].len = @ + r.len]
      ELSE IF at < Len(runs) /\ Continues(r, runs[at + 1])
      THEN [runs EXCEPT ![at + 1] = SeqRun(r.seq, r.lv, r.len + @.len)]
      ELSE InsertAt(runs, at + 1, r)

PushLVRun(byLV, r) ==
  IF byLV # <<>> /\ Last(byLV).agent = r.agent
       /\ r.seq = Last(byLV).seq + Last(byLV).len /\ r.lv = Last(byLV).lv + Last(byLV).len
  THEN [byLV EXCEPT ![Len(byLV)].len = @ + r.len]
  ELSE Append(byLV, r)

\* assign_time_to_crdt_span()
AssignSpan(cg, lv, agent, seq, len) ==
  [cg EXCEPT !.agents[agent].runs = InsertSeqRun(@, SeqRun(seq, lv, len)),
             !.byLV = PushLVRun(@, LVRun(lv, agent, seq, len))]

AddRun(cg, parents, start, end) ==
  [cg EXCEPT !.graph = Push(@, parents, start, end), !.version = AdvanceByKnownRun(@, parents, end - 1)]

\* assign_local_op_with_parents()
AssignLocal(cg, parents, agent, len) ==
  LET start == LenAssigned(cg)
  IN  AddRun(AssignSpan(cg, start, agent, NextSeqOf(cg, agent), len), parents, start, start + len)

\* merge_and_assign(): of the run what is not known, the end of it.  A known
\* beginning is the only parent of the rest.
KnownUpto(cg, agent, seq, len) ==
  LET ends == {r.seq + r.len : r \in {s \in ToSet(cg.agents[agent].runs) : s.seq <= seq + len - 1}}
  IN  IF \E e \in ends : e > seq THEN Least(seq + len, CHOOSE e \in ends : \A f \in ends : f <= e) ELSE seq

MergeAndAssign(cg, parents, agent, seq, len) ==
  LET known == KnownUpto(cg, agent, seq, len)
      start == LenAssigned(cg)
      new   == seq + len - known
      from  == IF known = seq THEN parents ELSE LVsOf(cg, AgentName(cg, agent), known - 1)
  IN  IF new = 0 THEN cg
      ELSE AddRun(AssignSpan(cg, start, agent, known, new), from, start, start + new)

-----------------------------------------------------------------------------

\* CausalGraph::dbg_check(): the graph's own checks; what is assigned and what
\* is in the graph is the same; the version is that of the graph; each local
\* version is found under its agent and number again.
CausalGraphChecks(cg) ==
  /\ CheckPackedFrom0(cg.graph) /\ CheckFullyMerged(cg.graph)
  /\ CheckChildIndexes(cg.graph) /\ CheckShadows(cg.graph)
  /\ NextTime(cg.graph) = LenAssigned(cg)
  /\ cg.version = FrontierOfGraph(cg.graph)
  /\ \A lv \in Versions(cg.graph) :
       LVsOf(cg, AgentVersion(cg, lv)[1], AgentVersion(cg, lv)[2]) = {lv}
  /\ \A a \in DOMAIN cg.agents : LET runs == cg.agents[a].runs IN
       \A i \in DOMAIN runs \ {1} : /\ runs[i - 1].seq + runs[i - 1].len <= runs[i].seq
                                    /\ ~ Continues(runs[i - 1], runs[i])
=============================================================================
