------------------------------ MODULE EventGraph ------------------------------
(***************************************************************************)
(* What replicas that exchange operation logs promise, without local       *)
(* versions, runs, summaries or diffs: every replica knows a causally      *)
(* closed set of events, writes on top of all it knows, and receives, in   *)
(* one step, all that another one knows.                                   *)
(***************************************************************************)
EXTENDS Integers

CONSTANTS Replicas, Writers,
          Bound    \* bound: sequence numbers, and events in one run

VARIABLE known     \* for every replica, its events [id, parents]

Ids(S) == {e.id : e \in S}

Everything == UNION {known[r] : r \in Replicas}

\* The events of S that no event of S was written on.
Tips(S) == {id \in Ids(S) : \A e \in S : id \notin e.parents}

\* A run of n events: the first on top of all that is known, each further one
\* on the one before.
Run(S, agent, seq, n) ==
  {[id      |-> <<agent, s>>,
    parents |-> IF s = seq THEN Tips(S) ELSE {<<agent, s - 1>>}] : s \in seq .. (seq + n - 1)}

Init == known = [r \in Replicas |-> {}]

Write(r, agent, seq, n) ==
  /\ Ids(Run(known[r], agent, seq, n)) \cap Ids(Everything) = {}
  /\ known' = [known EXCEPT ![r] = @ \cup Run(@, agent, seq, n)]

Receive(dest, src) ==
  known' = [known EXCEPT ![dest] = @ \cup known[src]]

Next ==
  \/ \E dest, src \in Replicas : Receive(dest, src)
  \/ \E r \in Replicas, agent \in Writers, seq \in 0 .. Bound, n \in 1 .. Bound :
       Write(r, agent, seq, n)

Spec == Init /\ [][Next]_known

-----------------------------------------------------------------------------

\* Nobody knows an event without the events it was written on.
CausallyClosed ==
  \A r \in Replicas : \A e \in known[r] : e.parents \subseteq Ids(known[r])

\* An id names one event, whoever knows it.
IdsNameEvents ==
  \A e, f \in Everything : e.id = f.id => e = f
=============================================================================
