------------------------------ MODULE DTDocLog ------------------------------
(***************************************************************************)
(* diamond-types: the operation log of a JSON-like document (oplog.rs,     *)
(* textinfo.rs, encoding/cg_entry.rs, encoding/parents.rs).  Maps, texts   *)
(* and what they hold share one causal graph.  A map or text is named by   *)
(* the version that created it; the key of a map is a register that holds  *)
(* several values where it was set concurrently.                           *)
(*                                                                         *)
(* failed names the first assertion of the code that failed: what follows  *)
(* it does not happen.  Texts are those of DTListLog.  Keys are numbers,   *)
(* and compare as numbers.                                                 *)
(***************************************************************************)
EXTENDS DTListLog

LOCAL INSTANCE SequencesExt
LOCAL INSTANCE Functions
LOCAL INSTANCE TLC

Without(f, S) == Restrict(f, DOMAIN f \ S)

Root == -1              \* ROOT_CRDT_ID, which comes after all others

\* CreateValue
Primitive(x) == <<"Primitive", x>>
NewCRDT(kind) == <<kind, <<>>>>

EmptyText == [ops |-> <<>>, ins |-> <<>>, del |-> <<>>, frontier |-> {}]

NewDocLog ==
  [cg |-> EmptyCG,
   keys |-> <<>>,       \* <<CRDT, key>> -> all values it was set to, as <<version, value>>,
                        \* and which of these it holds
   texts |-> <<>>,      \* CRDT -> operations, content, frontier
   mapIndex |-> <<>>,   \* version -> <<CRDT, key>>, of the values that are held
   textIndex |-> <<>>,  \* version -> CRDT, of the frontiers of texts
   deleted |-> {},      \* CRDTs
   late |-> {},         \* history: CRDTs that were set where nothing leads to any more
   failed |-> "nothing"]

Asserting(log, name, holds) ==
  IF holds \/ log.failed # "nothing" THEN log ELSE [log EXCEPT !.failed = name]

Register(log, crdt, key) ==
  IF <<crdt, key>> \in DOMAIN log.keys THEN log.keys[<<crdt, key>>] ELSE [ops |-> <<>>, sup |-> <<>>]

HeldOps(register) == {register.ops[i] : i \in ToSet(register.sup)}

CRDTsIn(ops) == {op[1] : op \in {o \in ops : o[2][1] # "Primitive"}}
MapsIn(ops) == {op[1] : op \in {o \in ops : o[2][1] = "Map"}}

\* btree_range_for_crdt()
KeysOf(log, crdt) == {k[2] : k \in {p \in DOMAIN log.keys : p[1] = crdt}}

-----------------------------------------------------------------------------
(* Deleting: a CRDT that is overwritten, and everything in it.             *)

\* The CRDTs that maps hold, as winners or in conflict, and so on.
RECURSIVE Within(_, _)
Within(log, maps) ==
  LET held == UNION {UNION {HeldOps(Register(log, m, k)) : k \in KeysOf(log, m)} : m \in maps}
  IN  IF maps = {} THEN {} ELSE CRDTsIn(held) \cup Within(log, MapsIn(held))

\* dbg_check(): the CRDTs that were overwritten, and what is in them.
OverwrittenOps(log) ==
  UNION {ToSet(log.keys[at].ops) \ HeldOps(log.keys[at]) : at \in DOMAIN log.keys}

Gone(log) ==
  LET overwritten == OverwrittenOps(log) IN CRDTsIn(overwritten) \cup Within(log, MapsIn(overwritten))

MarkDeleted(log, crdts) ==
  [Asserting(log, "deleted once", crdts \cap log.deleted = {}) EXCEPT !.deleted = @ \cup crdts]

\* recursive_mark_deleted_inner()
RECURSIVE MarkWithin(_, _)
MarkWithin(log, maps) ==
  LET within == UNION {UNION {HeldOps(Register(log, m, k)) : k \in KeysOf(log, m)} : m \in maps}
  IN  IF maps = {} THEN log ELSE MarkWithin(MarkDeleted(log, CRDTsIn(within)), MapsIn(within))

MarkGone_Shallow(log, ops) == MarkDeleted(log, CRDTsIn(ops))

MarkGone(log, ops) == MarkWithin(MarkDeleted(log, CRDTsIn(ops)), MapsIn(ops))

-----------------------------------------------------------------------------
(* Setting a key.                                                          *)

\* create_child_crdt()
CreateChild(log, v, value) ==
  IF value[1] = "Text" /\ v \notin DOMAIN log.texts
  THEN [log EXCEPT !.texts = @ @@ (v :> EmptyText)] ELSE log

\* The new value takes the place of those that are gone, the kept stay behind it.
PutValue(log, v, crdt, key, value, gone, kept) ==
  LET register == Register(log, crdt, key)
      new == [ops |-> Append(register.ops, <<v, value>>), sup |-> <<Len(register.ops) + 1>> \o kept]
  IN  MarkGone([CreateChild(log, v, value) EXCEPT
                  !.late = @ \cup IF crdt \in Gone(log) THEN CRDTsIn({<<v, value>>}) ELSE {},
                  !.keys = (<<crdt, key>> :> new) @@ @,
                  !.mapIndex = (v :> <<crdt, key>>) @@ Without(@, {op[1] : op \in gone})],
               gone)

\* get_or_create_agent_id() and assign_local_op()
AssignAs(log, name, len) ==
  LET cg == WithAgent(log.cg, name)
  IN  [log EXCEPT !.cg = AssignLocal(cg, cg.version, AgentId(cg, name), len)]

LocalMapSet(log, name, crdt, key, value) ==
  PutValue(AssignAs(log, name, 1), LenAssigned(log.cg), crdt, key, value,
           HeldOps(Register(log, crdt, key)), <<>>)

Concurrent(log, register, v) ==
  SelectSeq(register.sup, LAMBDA i : VersionCmp(log.cg.graph, register.ops[i][1], v) = "None")

RemoteSet(log, v, crdt, key, value, register, kept) ==
  LET gone == HeldOps([register EXCEPT !.sup = SelectSeq(@, LAMBDA i : i \notin ToSet(kept))])
      checked == Asserting(Asserting(log, "set in order", register.ops # <<>> => Last(register.ops)[1] < v),
                           "valid state", \A op \in gone : VersionCmp(log.cg.graph, op[1], v) = "Less")
  IN  PutValue(checked, v, crdt, key, value, gone, kept)

\* remote_map_set()
RemoteMapSet(log, v, crdt, key, value) ==
  LET register == Register(log, crdt, key)
  IN  IF \E i \in DOMAIN register.ops : register.ops[i][1] = v THEN CreateChild(log, v, value)
      ELSE RemoteSet(log, v, crdt, key, value, register, Concurrent(log, register, v))

-----------------------------------------------------------------------------
(* Editing a text.                                                         *)

PutText(log, crdt, text) ==
  [Asserting(log, "text indexed", log.texts[crdt].frontier \subseteq DOMAIN log.textIndex) EXCEPT
              !.texts[crdt] = text,
              !.textIndex = [v \in text.frontier |-> crdt] @@ Without(@, log.texts[crdt].frontier)]

LocalTextOp(log, name, crdt, edit) ==
  LET start == LenAssigned(log.cg)
  IN  PutText(AssignAs(log, name, EditLen(edit)), crdt,
              [PushOpInternal(log.texts[crdt], start, edit) EXCEPT !.frontier = {start + EditLen(edit) - 1}])

RemoteTextOp(log, crdt, start, edit) ==
  IF crdt \notin DOMAIN log.texts THEN Asserting(log, "text known", FALSE)
  ELSE PutText(log, crdt,
               [PushOpInternal(log.texts[crdt], start, edit) EXCEPT
                  !.frontier = AdvanceSparse(log.cg.graph, @, start, start + EditLen(edit))])

-----------------------------------------------------------------------------
(* ops_since(): what a log has since a version.  A version is named in a   *)
(* message by agent and number, the root by itself.                        *)

NameOf(cg, crdt) == IF crdt = Root THEN <<Root, 0>> ELSE AgentVersion(cg, crdt)
LVOfName(cg, id) == IF id = <<Root, 0>> THEN Root ELSE The(LVsOf(cg, id[1], id[2]))

RangesSince(log, since) == DiffRev(log.cg.graph, since, log.cg.version).onlyB

\* write_cg_entry_iter(): runs of one agent in one entry.
EntriesOfRun(cg, run) ==
  LET pieces == AgentPieces(cg, run.start, run.end)
  IN  [i \in DOMAIN pieces |->
         [name |-> pieces[i][1], seq |-> pieces[i][2], len |-> pieces[i][4] - pieces[i][3],
          parents |-> {AgentVersion(cg, p) : p \in ParentsAtVersion(cg.graph, pieces[i][3])}]]

FlatMap(F(_), s) == FlattenSeq([i \in DOMAIN s |-> F(s[i])])

EntriesIn(cg, range) == FlatMap(LAMBDA run : EntriesOfRun(cg, run), IterRange(cg.graph, range[1], range[2]))

\* The keys of maps, and the texts, of which something is held since then.
Indexed(index, ranges) == {index[v] : v \in DOMAIN index \cap RangesSet(ranges)}

KeyBefore(a, b) ==
  IF a[1] = b[1] THEN a[2] < b[2] ELSE b[1] = Root \/ (a[1] # Root /\ a[1] < b[1])

MapOpsIn(log, key, range) ==
  LET ops == SelectSeq(log.keys[key].ops, LAMBDA op : op[1] \in RangeSet(range))
  IN  [i \in DOMAIN ops |->
         [crdt |-> NameOf(log.cg, key[1]), id |-> AgentVersion(log.cg, ops[i][1]),
          key |-> key[2], value |-> ops[i][2]]]

TextOpsSent(log, crdt, range) ==
  LET text == log.texts[crdt]
      ops  == OpsIn(text.ops, range[1], range[2])
  IN  [i \in DOMAIN ops |->
         [crdt |-> NameOf(log.cg, crdt), id |-> AgentVersion(log.cg, ops[i].lv),
          op |-> ops[i], chars |-> CharsOf(text, ops[i])]]

OpsSince(log, since) ==
  LET ranges == RangesSince(log, since)
  IN  [entries |-> FlatMap(LAMBDA r : EntriesIn(log.cg, r), ranges),
       mapOps |-> FlatMap(LAMBDA k : FlatMap(LAMBDA r : MapOpsIn(log, k, r), ranges),
                          SetToSortSeq(Indexed(log.mapIndex, ranges), KeyBefore)),
       textOps |-> FlatMap(LAMBDA t : FlatMap(LAMBDA r : TextOpsSent(log, t, r), ranges),
                           Ascending(Indexed(log.textIndex, ranges)))]

-----------------------------------------------------------------------------
(* merge_ops()                                                             *)

\* read_cg_entry_into_cg(): a parent that is not known ends the reading.
ReadEntry(st, e) ==
  LET cg == WithAgent(st.cg, e.name)
      parents == {LVsOf(cg, p[1], p[2]) : p \in e.parents}
  IN  IF st.err THEN st
      ELSE IF {} \in parents THEN [cg |-> cg, err |-> TRUE]
      ELSE [st EXCEPT !.cg = MergeAndAssign(cg, UNION parents, AgentId(cg, e.name), e.seq, e.len)]

ReadEntries(cg, entries) == FoldLeft(ReadEntry, [cg |-> cg, err |-> FALSE], entries)

\* Only what came in with this message is added, of a text operation the rest.
MergeMapOp(log, new, m) ==
  LET v == The(LVsOf(log.cg, m.id[1], m.id[2]))
  IN  IF v >= new THEN RemoteMapSet(log, v, LVOfName(log.cg, m.crdt), m.key, m.value) ELSE log

MergeTextOp(log, new, m) ==
  LET v == The(LVsOf(log.cg, m.id[1], m.id[2]))
      known == IF v < new THEN new - v ELSE 0
      rest == RestOps(m.op, known)
  IN  IF v + OpLen(m.op) <= new THEN log
      ELSE RemoteTextOp(log, LVOfName(log.cg, m.crdt), v + known,
                        Edit(rest.kind, rest.start, rest.end, rest.fwd,
                             {SubSeq(c, known + 1, Len(c)) : c \in m.chars}))

MergeRead(log, new, msg) ==
  FoldLeft(LAMBDA l, m : MergeTextOp(l, new, m),
           FoldLeft(LAMBDA l, m : MergeMapOp(l, new, m), log, msg.mapOps), msg.textOps)

MergeOps(log, msg) ==
  LET read == ReadEntries(log.cg, msg.entries)
  IN  IF read.err \/ LenAssigned(read.cg) = LenAssigned(log.cg) THEN [log EXCEPT !.cg = read.cg]
      ELSE MergeRead([log EXCEPT !.cg = read.cg], LenAssigned(log.cg), msg)

-----------------------------------------------------------------------------
(* Reading the document.                                                   *)

Wins_ByLV(cg, a, b) == a >= b

\* tie_break_mv(): the value of the highest agent, and its last one.
Wins(cg, a, b) ==
  LET x == AgentVersion(cg, a)
      y == AgentVersion(cg, b)
  IN  x[1] > y[1] \/ (x[1] = y[1] /\ x[2] >= y[2])

TieBreakMV(log, register) ==
  CHOOSE i \in ToSet(register.sup) :
    \A j \in ToSet(register.sup) : Wins(log.cg, register.ops[i][1], register.ops[j][1])

\* create_to_snapshot()
Snapshot(op) == IF op[2][1] = "Primitive" THEN op[2] ELSE <<op[2][1], op[1]>>

TextLog(log, crdt) == [cg |-> log.cg, ops |-> log.texts[crdt].ops, ins |-> log.texts[crdt].ins]

CheckoutText(log, crdt) == MergeInto(TextLog(log, crdt), Branch({}, Text(<<>>)), log.cg.version).text

\* checkout_map(): what the winners say, without names of CRDTs.
Winner(log, crdt, key) ==
  LET register == Register(log, crdt, key) IN Snapshot(register.ops[TieBreakMV(log, register)])

RECURSIVE CheckoutValue(_, _)
CheckoutMap(log, crdt) == [key \in KeysOf(log, crdt) |-> CheckoutValue(log, Winner(log, crdt, key))]

CheckoutValue(log, value) ==
  CASE value[1] = "Primitive" -> value
    [] value[1] = "Map"       -> <<"Map", CheckoutMap(log, value[2])>>
    [] value[1] = "Text"      -> <<"Text", CheckoutText(log, value[2])>>

CheckoutDoc(log) == CheckoutMap(log, Root)

\* crdt_at_path(): the CRDTs that a path leads to.
RECURSIVE CRDTsBelow(_, _)
CRDTsBelow(log, crdt) ==
  {crdt} \cup UNION {LET value == Winner(log, crdt, key)
                     IN  IF value[1] = "Primitive" THEN {} ELSE CRDTsBelow(log, value[2]) :
                     key \in KeysOf(log, crdt)}

CRDTsAtPaths(log) == CRDTsBelow(log, Root)
=============================================================================
