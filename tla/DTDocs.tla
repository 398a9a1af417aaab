-------------------------------- MODULE DTDocs --------------------------------
(***************************************************************************)
(* JSON-like documents of diamond-types that are edited apart, and         *)
(* branches of them (oplog.rs, branch.rs, simple_checkout.rs).  Each       *)
(* document is a log, and a branch that is brought to the log's version    *)
(* now and then by what changed since its own.                             *)
(*                                                                         *)
(* A document whose code asserted does nothing more.                       *)
(***************************************************************************)
EXTENDS DTDocLog

LOCAL INSTANCE SequencesExt
LOCAL INSTANCE FiniteSets
LOCAL INSTANCE Functions
LOCAL INSTANCE TLC

CONSTANTS Docs,          \* documents, which edit under their own names: numbers
          BaseAgent,     \* who made what all start with
          Followers,     \* documents with a branch that follows
          Keys,          \* keys of maps
          MaxOwn,        \* bound: versions a document makes, and all make
          MaxAll,
          SendsTorn      \* whether messages are sent that a log may not take whole

ASSUME DocsAssumption == Docs \cup Keys \cup {BaseAgent} \subseteq Nat

ASSUME BoundsAssumption == {MaxOwn, MaxAll} \subseteq Nat

VARIABLES log, branch

vars == <<log, branch>>

-----------------------------------------------------------------------------
(* branch.rs.  A branch holds maps, of which each key has a value and the  *)
(* values in conflict with it, and texts.  harmed is history: the CRDTs    *)
(* that went although the log holds them, with what is in them, and the    *)
(* texts that were merged twice at once.                                   *)

NewBranch == [frontier |-> {}, maps |-> Root :> <<>>, texts |-> <<>>, harmed |-> {}]

\* get_state_for_register()
StateOf(l, register) ==
  LET active == TieBreakMV(l, register)
      others == SelectSeq(register.sup, LAMBDA i : i # active)
  IN  [value |-> Snapshot(register.ops[active]),
       conflicts |-> [i \in DOMAIN others |-> Snapshot(register.ops[others[i]])]]

\* each_value()
ValuesOf(state) == {state.value} \cup ToSet(state.conflicts)

Owned(values) == {v \in values : v[1] # "Primitive"}
OwnedMaps(values) == {v[2] : v \in {w \in values : w[1] = "Map"}}
OwnedTexts(values) == {v[2] : v \in {w \in values : w[1] = "Text"}}

MapStates(l, crdt) == [key \in KeysOf(l, crdt) |-> StateOf(l, Register(l, crdt, key))]

StatesValues(states) == UNION {ValuesOf(states[key]) : key \in DOMAIN states}

\* checkout_tip()
RECURSIVE CopyMaps(_, _, _)
CopyMaps(l, b, crdts) ==
  LET values == UNION {StatesValues(MapStates(l, m)) : m \in crdts}
  IN  IF crdts = {} THEN b
      ELSE CopyMaps(l, [b EXCEPT !.maps = [m \in crdts |-> MapStates(l, m)] @@ @,
                                 !.texts = [t \in OwnedTexts(values) |-> CheckoutText(l, t)] @@ @],
                    OwnedMaps(values))

CheckoutTip(l) == CopyMaps(l, [NewBranch EXCEPT !.frontier = l.cg.version], {Root})

DeleteValues_Shallow(b, values) ==
  [b EXCEPT !.maps = Without(@, OwnedMaps(values)), !.texts = Without(@, OwnedTexts(values))]

\* recursive_delete()
RECURSIVE DeleteValues(_, _)
DeleteValues(b, values) ==
  LET maps == OwnedMaps(values) \cap DOMAIN b.maps
  IN  IF Owned(values) = {} THEN b
      ELSE DeleteValues([b EXCEPT !.maps = Without(@, maps), !.texts = Without(@, OwnedTexts(values))],
                        UNION {StatesValues(b.maps[m]) : m \in maps})

OldValues(states, key) == IF key \in DOMAIN states THEN ValuesOf(states[key]) ELSE {}

Harm(l, b, crdts) == [b EXCEPT !.harmed = @ \cup crdts \cup Within(l, crdts)]

\* A value that the register holds still is deleted like the others.
HarmBetween(l, b, after) ==
  LET lost == (DOMAIN b.maps \cup DOMAIN b.texts) \ (DOMAIN after.maps \cup DOMAIN after.texts)
  IN  Harm(l, after, lost \cap Within(l, {Root}))

ReplaceState(l, b, crdt, key, states, state) ==
  HarmBetween(l, b, DeleteValues([b EXCEPT !.maps = (crdt :> ((key :> state) @@ states)) @@ @],
                                 OldValues(states, key)))

MapIn(b, crdt) == IF crdt \in DOMAIN b.maps THEN b.maps[crdt] ELSE <<>>
TextIn(b, crdt) == IF crdt \in DOMAIN b.texts THEN b.texts[crdt] ELSE Text(<<>>)

\* The two halves of merge_changes_to_tip(), for a key and for a text.
MergeKey(l, b, at) ==
  IF at[1] \in l.deleted THEN b
  ELSE ReplaceState(l, b, at[1], at[2], MapIn(b, at[1]), StateOf(l, l.keys[at]))

MergeText(l, b, crdt) ==
  IF crdt \in l.deleted THEN b
  ELSE [b EXCEPT !.texts =
         (crdt :> MergeInto(TextLog(l, crdt), Branch(b.frontier, TextIn(b, crdt)), l.cg.version).text) @@ @]

\* What an index has in a range, by version.
IndexIn(index, range) ==
  LET vs == Ascending(DOMAIN index \cap RangeSet(range)) IN [i \in DOMAIN vs |-> index[vs[i]]]

MergeRange(l, b, range) ==
  FoldLeft(LAMBDA c, t : MergeText(l, c, t),
           FoldLeft(LAMBDA c, at : MergeKey(l, c, at), b, IndexIn(l.mapIndex, range)),
           IndexIn(l.textIndex, range))

\* A text is merged once for each of its latest versions that is new.
MergedTwice(l, ranges) ==
  {t \in DOMAIN l.texts : Cardinality(l.texts[t].frontier \cap RangesSet(ranges)) > 1}

MergeChangesToTip(l, b) ==
  LET ranges == RangesSince(l, b.frontier)
      merged == FoldLeft(LAMBDA c, r : MergeRange(l, c, r), b, Reverse(ranges))
  IN  [Harm(l, merged, MergedTwice(l, ranges)) EXCEPT !.frontier = l.cg.version]

-----------------------------------------------------------------------------
(* Documents.                                                              *)

\* A map under the first key of the root, and a text in it.
BaseKey == CHOOSE k \in Keys : \A l \in Keys : k <= l

Base ==
  LET withMap == LocalMapSet(NewDocLog, BaseAgent, Root, BaseKey, NewCRDT("Map"))
  IN  LocalMapSet(withMap, BaseAgent, 0, BaseKey, NewCRDT("Text"))

Init ==
  /\ log = [d \in Docs |-> Base]
  /\ branch = [d \in Docs |-> NewBranch]

Own(d) ==
  LET cg == log[d].cg IN IF AgentIds(cg, d) = {} THEN 0 ELSE NextSeqOf(cg, AgentId(cg, d))

Bounded(d) ==
  /\ Own(d) + 1 <= MaxOwn
  /\ FoldLeft(LAMBDA n, e : n + Own(e), 0, SetToSeq(Docs)) + 1 <= MaxAll

IsMap(l, crdt) == crdt = Root \/ crdt \notin DOMAIN l.texts

\* OpLog::local_map_set(), in a map that a path leads to.
Set(d, crdt, key, value) ==
  /\ IsMap(log[d], crdt)
  /\ log' = [log EXCEPT ![d] = LocalMapSet(@, d, crdt, key, value)]
  /\ UNCHANGED branch

\* OpLog::local_text_op()
TextOp(d, crdt, edit) ==
  /\ ~ IsMap(log[d], crdt)
  /\ log' = [log EXCEPT ![d] = LocalTextOp(@, d, crdt, edit)]
  /\ UNCHANGED branch

\* What one log has of another.
KnownOf(d, e) == {v \in Versions(log[e].cg.graph) : LVsIn(log[d].cg, log[e].cg, v) # {}}

\* A text operation of which the receiver knows nothing; or the beginning, in
\* one piece there, and the rest is the next the receiver will have.
TakenRight(d, e, range, op) ==
  LET at(v) == LVsIn(log[d].cg, log[e].cg, v)
      known == {v \in op.lv .. (OpEnd(op) - 1) : at(v) # {}}
      n == Cardinality(known)
  IN  known # {} =>
        /\ \A v \in op.lv .. (op.lv + n - 1) : at(v) # {} /\ The(at(v)) = The(at(op.lv)) + v - op.lv
        /\ n < OpLen(op) => /\ The(at(op.lv)) + n = LenAssigned(log[d].cg)
                            /\ range[1] .. (op.lv - 1) \subseteq KnownOf(d, e)

TakenWhole(d, e, since) ==
  /\ Len(RangesSince(log[e], since)) = 1
  /\ \A t \in DOMAIN log[e].texts : \A r \in ToSet(RangesSince(log[e], since)) :
       \A op \in ToSet(OpsIn(log[e].texts[t].ops, r[1], r[2])) : TakenRight(d, e, r, op)

\* OpLog::ops_since() of one, merge_ops() of the other.
Send(e, d, since) ==
  /\ KnownOf(d, e) # Versions(log[e].cg.graph)
  /\ SendsTorn \/ TakenWhole(d, e, since)
  /\ log' = [log EXCEPT ![d] = MergeOps(@, OpsSince(log[e], since))]
  /\ UNCHANGED branch

\* Branch::merge_changes_to_tip()
Merges(d) ==
  /\ branch[d].frontier # log[d].cg.version
  /\ branch' = [branch EXCEPT ![d] = MergeChangesToTip(log[d], @)]
  /\ UNCHANGED log

Values(d) == {Primitive(<<d, Own(d)>>), NewCRDT("Map"), NewCRDT("Text")}

\* One character inserted or deleted in the text as it is now.
Edits(d, len) ==
  {Edit("Ins", pos, pos + 1, TRUE, {CharsBy(d, Own(d), 1)}) : pos \in 0 .. len}
    \cup {Edit("Del", pos, pos + 1, TRUE, {}) : pos \in 0 .. len - 1}

EditsOf(d, crdt) ==
  IF IsMap(log[d], crdt) THEN {} ELSE Edits(d, Len(CheckoutText(log[d], crdt).chars))

Next ==
  \E d \in {e \in Docs : log[e].failed = "nothing"} :
    \/ /\ Bounded(d)
       /\ \E crdt \in CRDTsAtPaths(log[d]) :
            \/ \E key \in Keys, value \in Values(d) : Set(d, crdt, key, value)
            \/ \E edit \in EditsOf(d, crdt) : TextOp(d, crdt, edit)
    \/ \E e \in Docs \ {d} : \E since \in {{}, FindDominators(log[e].cg.graph, KnownOf(d, e))} : Send(e, d, since)
    \/ d \in Followers /\ Merges(d)

Spec == Init /\ [][Next]_vars

-----------------------------------------------------------------------------

Ids(cg) == {AgentVersion(cg, v) : v \in Versions(cg.graph)}

SetVersions(register) == [i \in DOMAIN register.ops |-> register.ops[i][1]]
HeldVersions(register) == [i \in DOMAIN register.sup |-> SetVersions(register)[register.sup[i]]]

Latest(cg, versions) == Ascending(FindDominators(cg.graph, versions))

RegisterChecks(cg, register) ==
  /\ SetVersions(register) = Ascending(ToSet(SetVersions(register)))
  /\ ToSet(SetVersions(register)) \subseteq Versions(cg.graph)
  /\ Reverse(HeldVersions(register)) = Latest(cg, ToSet(SetVersions(register)))

TextChecks(cg, text) ==
  LET starts == [i \in DOMAIN text.ops |-> text.ops[i].lv]
      all == UNION {op.lv .. (OpEnd(op) - 1) : op \in ToSet(text.ops)}
  IN  /\ starts = Ascending(ToSet(starts))
      /\ Ascending(text.frontier) = Latest(cg, all)

\* An index has what its objects hold, each version under its object.
IndexChecks(index, objects, held(_)) ==
  /\ DOMAIN index = UNION {held(x) : x \in objects}
  /\ \A v \in DOMAIN index : v \in held(index[v])

Marked(l) ==
  /\ CRDTsIn(OverwrittenOps(l)) \subseteq l.deleted
  /\ l.deleted \subseteq Gone(l) /\ Gone(l) \subseteq l.deleted \cup l.late

SetOps(l) == UNION {ToSet(l.keys[at].ops) : at \in DOMAIN l.keys}

LogChecks(l) ==
  /\ CausalGraphChecks(l.cg)
  /\ \A at \in DOMAIN l.keys : RegisterChecks(l.cg, l.keys[at])
  /\ \A t \in DOMAIN l.texts : TextChecks(l.cg, l.texts[t])
  /\ DOMAIN l.texts = {op[1] : op \in {o \in SetOps(l) : o[2][1] = "Text"}}
  /\ IndexChecks(l.mapIndex, DOMAIN l.keys, LAMBDA at : ToSet(HeldVersions(l.keys[at])))
  /\ IndexChecks(l.textIndex, DOMAIN l.texts, LAMBDA t : l.texts[t].frontier)
  /\ Marked(l)

\* A CRDT was overwritten in a map that was itself deleted.
DeletedTwice(l) ==
  \E at \in DOMAIN l.keys :
    /\ at[1] \in l.deleted
    /\ CRDTsIn(ToSet(l.keys[at].ops) \ HeldOps(l.keys[at])) \cap l.deleted # {}

\* What OpLog::dbg_check() asserts, but for three assertions that fail, of which
\* this says what holds instead.  The values a register holds are those that no
\* later one dominates, with the newest first: where there are several, dbg_check()
\* wants them in the other order.  The frontier of a text is that of all its
\* operations: dbg_check() computes it from the last of each run, and a run may
\* have concurrent deletions.  And a CRDT is marked as deleted if it was
\* overwritten or is in one that was, except that one set where nothing leads to
\* any more is left unmarked.  Of the assertions that edits and merges make
\* themselves, the only one that fails is that a CRDT is deleted once, and it
\* fails when one is overwritten in a map that another document deleted.
DocLogChecks ==
  \A d \in Docs :
    \/ log[d].failed = "nothing" /\ LogChecks(log[d])
    \/ log[d].failed = "deleted once" /\ DeletedTwice(log[d])

\* Documents with the same operations read the same: maps, winners of
\* conflicts, and texts.
SameEventsSameDoc ==
  \A d, e \in Docs :
    d # e /\ log[d].failed = "nothing" /\ log[e].failed = "nothing" /\ Ids(log[d].cg) = Ids(log[e].cg)
      => CheckoutDoc(log[d]) = CheckoutDoc(log[e])

\* The branch has what the checkout has and no more, apart from the CRDTs that
\* it harmed or that were set late, and from the empty ones nothing was done in.
Follows(l, b, checkout) ==
  LET apart == b.harmed \cup l.late
      used == {m \in DOMAIN checkout.maps : m = Root \/ checkout.maps[m] # <<>>}
      edited == {t \in DOMAIN checkout.texts : l.texts[t].ops # <<>>}
  IN  /\ Without(b.maps, apart) = Restrict(checkout.maps, used \ apart)
      /\ Without(b.texts, apart) = Restrict(checkout.texts, edited \ apart)

\* A branch that was brought to the version of its log step by step has every
\* map and every text that a checkout there has, with the same winners, conflicts
\* and characters, and nothing of what is gone.  It has no entry for a map or a
\* text that nothing was ever done in, where checkout_tip() makes an empty one
\* and the code's own comparison of the two fails.  What is said of CRDTs that
\* the branch harmed, or that were set where nothing led to any more, is this:
\* the others do not suffer.
BranchesFollow ==
  \A d \in Followers :
    branch[d].frontier = log[d].cg.version /\ log[d].failed = "nothing" =>
      Follows(log[d], branch[d], CheckoutTip(log[d]))
=============================================================================
