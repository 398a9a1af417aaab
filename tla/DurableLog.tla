----------------------------- MODULE DurableLog -----------------------------
(***************************************************************************)
(* What storage promises (storage/README.md: "writes have either happened  *)
(* or they haven't"): a log for each kind of data, which only grows.  What *)
(* is synced survives a crash; of what is not, a crash leaves a prefix.    *)
(***************************************************************************)
EXTENDS Integers, SequencesExt

CONSTANTS Kinds, Items

VARIABLES log, durable

Init == log = [k \in Kinds |-> <<>>] /\ durable = [k \in Kinds |-> <<>>]

AppendItem == \E k \in Kinds, x \in Items : log' = [log EXCEPT ![k] = Append(@, x)] /\ UNCHANGED durable

Sync == durable' = log /\ UNCHANGED log

Crash ==
  /\ \A k \in Kinds : IsPrefix(log'[k], log[k]) /\ IsPrefix(durable[k], log'[k])
  /\ durable' = log'

Next == AppendItem \/ Sync \/ Crash

Spec == Init /\ [][Next]_<<log, durable>>
=============================================================================
