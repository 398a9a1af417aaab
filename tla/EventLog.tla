------------------------------ MODULE EventLog ------------------------------
(***************************************************************************)
(* What one causal graph promises, without local versions, runs, entries   *)
(* or indexes: a set of events, each with its identity and the identities  *)
(* of its parents, to which chains of events are added.  A chain may be    *)
(* known in part; what is known of it is known as it is described.         *)
(***************************************************************************)
EXTENDS Integers

CONSTANTS Agents,
          MaxSeq,   \* bound: sequence numbers
          MaxLen    \* bound: events in one chain

VARIABLE events     \* records [id, parents]

Ids(S) == {e.id : e \in S}

\* n events of one agent, each the only parent of the next.
Chain(agent, seq, n, parents) ==
  {[id      |-> <<agent, s>>,
    parents |-> IF s = seq THEN parents ELSE {<<agent, s - 1>>}] : s \in seq .. (seq + n - 1)}

\* No event of T has the identity of another one of S.
Agrees(S, T) == \A e \in S, f \in T : e.id = f.id => e = f

Init == events = {}

Add(agent, seq, n, parents) ==
  /\ parents \subseteq Ids(events)
  /\ Agrees(events, Chain(agent, seq, n, parents))
  /\ events' = events \cup Chain(agent, seq, n, parents)

Next ==
  \E agent \in Agents, seq \in 0 .. MaxSeq, n \in 1 .. MaxLen, parents \in SUBSET Ids(events) :
     Add(agent, seq, n, parents)

Spec == Init /\ [][Next]_events
=============================================================================
