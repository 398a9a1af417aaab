----------------------------- MODULE CausalFacts -----------------------------
(***************************************************************************)
(* Facts about any causal graphs and operation logs: what their encoding   *)
(* keeps, what their lookups and queries return, and what arrives when one *)
(* log tells another.  No state machine appears here, so that the machines *)
(* that hold a graph or a log can all cite the same facts.                 *)
(*                                                                         *)
(* 1. The encoding.  GraphInv says of a graph that its entries cover the   *)
(* local versions in topological order, and that its heads are the events  *)
(* that are nobody's parent.  IdInv says that its two indexes, from local  *)
(* versions to identities in the entries and from identities to local      *)
(* versions in the runs of each agent, are inverse to each other: of every *)
(* agent the runs are in order, and its list maps a sequence number to a   *)
(* version exactly when the entry of the version has that identity.        *)
(* Either is inductive; the second because a run that is inserted is       *)
(* unknown as a whole: of a span the graph knows a prefix.                 *)
(*                                                                         *)
(* 2. The queries.  The heads are the graph's frontier, versionContainsLV()*)
(* is membership in a history, diff() is the difference of two histories,  *)
(* findDominators() the frontier of what it is given, and findConflicting()*)
(* splits the histories of two frontiers.  They are walks back from a      *)
(* queue of versions which pass one entry of the graph at a time.  The     *)
(* invariant at a version l says what is decided from l up, and that below *)
(* l the queue has the same history as the frontiers the walk set out      *)
(* from.  To pass an entry is to go down to the entry's first version with *)
(* the entry's parents queued.                                             *)
(*                                                                         *)
(* The walk of findConflicting() keeps points: frontiers with the side, or *)
(* sides, they stand for.  At a version l, when all from l up is visited,  *)
(* the events below l that each frontier has are those of the points on    *)
(* its side, the ranges visited are the events from l up by the side that  *)
(* has them, and every event visited comes after the whole of some point.  *)
(* The order of the heap is total, and its top has the highest version of  *)
(* all; what lies within the entry of that version is taken apart and      *)
(* joined with what is in hand (the inner loop), until the entry can be    *)
(* passed at its first version (Cut).  At the end all points are one, and  *)
(* what is said of some point is said of the common version.  That the     *)
(* inner loop meets every point but once, and so that a merge may be taken *)
(* apart at all, rests on a second invariant of the graph: the parents of  *)
(* every event are a frontier.                                             *)
(*                                                                         *)
(* 3. The exchange.  Two graphs that agree on the events both know: what   *)
(* the summary of one tells the other is what it knows (CommonIsKnown),    *)
(* the difference that is computed from it is what it lacks, the parts it  *)
(* is cut into keep every event behind its parents (Slices), and so the    *)
(* receiver knows of each part what it is written on, and adds it whole    *)
(* (Replays).  An event that arrives has another number, and the parents   *)
(* and the identity it had.                                                *)
(*                                                                         *)
(* 4. The logs.  A whole log has one operation for every event.  A fact is *)
(* an event with its operation; merging, pushing and writing add facts,    *)
(* and none says something new of an event that was told of.               *)
(***************************************************************************)
EXTENDS OpLog, CausalHistory, CausalOrderProofs, SequenceTheorems, FiniteSetTheorems

-----------------------------------------------------------------------------
(* The encoding.                                                           *)

\* Entry i of the list holds version v.
Holds(list, i, v) == list[i].version <= v /\ v < list[i].vEnd

\* Runs are not empty, start where the one before ended, and follow their
\* parents.
Ordered(list) ==
  \A i \in DOMAIN list :
    /\ list[i].version < list[i].vEnd
    /\ list[i].version = IF i = 1 THEN 0 ELSE list[i - 1].vEnd
    /\ \A p \in list[i].parents : p < list[i].version

\* No two runs overlap, near or far.
Disjoint(list) ==
  \A i, j \in DOMAIN list : i < j => list[i].vEnd <= list[j].version

\* Every version below n is in some run.
Covers(list, n) == \A v \in 0 .. (n - 1) : \E i \in DOMAIN list : Holds(list, i, v)

\* An agent's runs stand for known versions.
RunsWithin(av, n) ==
  \A i \in DOMAIN av : /\ av[i].seq < av[i].seqEnd
                       /\ av[i].version + (av[i].seqEnd - av[i].seq) <= n

Childless(g) ==
  g.heads = {v \in Versions(g) : \A w \in Versions(g) : v \notin ParentsOf(g, w)}

GraphInv(g) ==
  /\ g \in CG
  /\ Ordered(g.entries)
  /\ Disjoint(g.entries)
  /\ Covers(g.entries, NextLV(g))
  /\ \A agent \in Agents : RunsWithin(g.agentToVersion[agent], NextLV(g))
  /\ Childless(g)

\* A run that add() may insert.
Insertable(g, e) ==
  /\ e \in Entry
  /\ e.version = NextLV(g)
  /\ e.version < e.vEnd
  /\ \A p \in e.parents : p < e.version

-----------------------------------------------------------------------------
(* Facts about one graph.                                                  *)

LEMMA NextLVType ==
  ASSUME NEW g \in CG
  PROVE  NextLV(g) \in Nat
<1>1. CASE g.entries = <<>>
  BY <1>1 DEF NextLV
<1>2. CASE g.entries # <<>>
  <2>1. Len(g.entries) \in DOMAIN g.entries
    BY <1>2 DEF CG
  <2>2. g.entries[Len(g.entries)] \in Entry
    BY <2>1 DEF CG
  <2> QED
    BY <1>2, <2>2 DEF NextLV, LastOf, Entry, LV
<1> QED
  BY <1>1, <1>2

LEMMA EntryFields ==
  ASSUME NEW g \in CG, NEW i \in DOMAIN g.entries
  PROVE  /\ g.entries[i] \in Entry
         /\ g.entries[i].version \in Nat
         /\ g.entries[i].vEnd \in Nat
         /\ g.entries[i].parents \subseteq Nat
<1>1. g.entries \in Seq(Entry)
  BY DEF CG
<1>2. g.entries[i] \in Entry
  BY <1>1
<1> QED
  BY <1>2 DEF Entry, LV

\* No entry reaches beyond the next version.
LEMMA EntriesEndBelow ==
  ASSUME NEW g \in CG, Ordered(g.entries), Disjoint(g.entries),
         NEW i \in DOMAIN g.entries
  PROVE  g.entries[i].vEnd <= NextLV(g)
<1> DEFINE n == Len(g.entries)
<1>1. g.entries \in Seq(Entry) /\ g.entries # <<>> /\ n \in DOMAIN g.entries /\ i <= n
  BY DEF CG
<1>2. NextLV(g) = g.entries[n].vEnd
  BY <1>1 DEF NextLV, LastOf
<1>3. g.entries[i].vEnd \in Nat /\ g.entries[n].vEnd \in Nat /\ g.entries[n].version \in Nat
  BY <1>1, EntryFields
<1>4. CASE i = n
  BY <1>2, <1>3, <1>4
<1>5. CASE i # n
  <2>1. i < n
    BY <1>1, <1>5
  <2>2. g.entries[i].vEnd <= g.entries[n].version /\ g.entries[n].version < g.entries[n].vEnd
    BY <1>1, <2>1 DEF Disjoint, Ordered
  <2> QED
    BY <1>2, <1>3, <2>2
<1> QED
  BY <1>4, <1>5

\* The search finds the entry that holds the version.
LEMMA EntryByVersion ==
  ASSUME NEW g, g.entries \in Seq(Entry), Disjoint(g.entries),
         NEW i \in DOMAIN g.entries, NEW v \in Nat, Holds(g.entries, i, v)
  PROVE  FindEntryContaining(g, v) = g.entries[i]
<1>1. \A j \in DOMAIN g.entries : g.entries[j] \in Entry
  OBVIOUS
<1>2. ASSUME NEW j \in DOMAIN g.entries, Holds(g.entries, j, v)
      PROVE  j = i
  <2>1. /\ g.entries[i].version \in Nat /\ g.entries[i].vEnd \in Nat
        /\ g.entries[j].version \in Nat /\ g.entries[j].vEnd \in Nat
    BY <1>1 DEF Entry, LV
  <2>2. i \in Nat /\ j \in Nat
    OBVIOUS
  <2>3. ~ (i < j) /\ ~ (j < i)
    BY <1>2, <2>1 DEF Disjoint, Holds
  <2> QED
    BY <2>2, <2>3
<1>3. EntriesWith(g, v) = {g.entries[i]}
  BY <1>2 DEF EntriesWith, Holds
<1> QED
  BY <1>3 DEF FindEntryContaining

\* The parents of a known event are known.
LEMMA ParentsAreVersions ==
  ASSUME NEW g, GraphInv(g), NEW v \in Versions(g)
  PROVE  ParentsOf(g, v) \subseteq Versions(g) /\ \A p \in ParentsOf(g, v) : p < v
<1>1. g \in CG /\ g.entries \in Seq(Entry) /\ Ordered(g.entries) /\ Disjoint(g.entries)
      /\ Covers(g.entries, NextLV(g)) /\ NextLV(g) \in Nat
  BY NextLVType DEF GraphInv, CG
<1>2. v \in Nat /\ v \in 0 .. (NextLV(g) - 1)
  BY <1>1 DEF Versions
<1>3. PICK i \in DOMAIN g.entries : Holds(g.entries, i, v)
  BY <1>1, <1>2 DEF Covers
<1>4. FindEntryContaining(g, v) = g.entries[i]
  BY <1>1, <1>2, <1>3, EntryByVersion
<1>5. /\ g.entries[i].version \in Nat /\ g.entries[i].parents \subseteq Nat
      /\ g.entries[i].version <= v
      /\ \A p \in g.entries[i].parents : p < g.entries[i].version
  BY <1>1, <1>3, EntryFields DEF Holds, Ordered
<1>6. ParentsOf(g, v) = IF v = g.entries[i].version THEN g.entries[i].parents ELSE {v - 1}
  BY <1>4 DEF ParentsOf
<1>7. \A p \in ParentsOf(g, v) : p \in Nat /\ p < v
  <2>1. CASE v = g.entries[i].version
    BY <1>5, <1>6, <2>1
  <2>2. CASE v # g.entries[i].version
    BY <1>2, <1>5, <1>6, <2>2
  <2> QED
    BY <2>1, <2>2
<1> QED
  BY <1>1, <1>2, <1>7 DEF Versions

-----------------------------------------------------------------------------
(* Adding a run to the list of entries.                                    *)

\* PushEntry either appends the run, or, when it continues the last entry,
\* moves the end of that entry.
LEMMA PushEntryShape ==
  ASSUME NEW g \in CG, NEW e \in Entry
  PROVE  LET old == g.entries
             new == PushEntry(old, e)
             n   == Len(old)
         IN  /\ new \in Seq(Entry)
             /\ new # <<>>
             /\ \/ /\ Len(new) = n + 1
                   /\ \A i \in 1 .. n : new[i] = old[i]
                   /\ new[n + 1] = e
                \/ /\ Len(new) = n /\ n > 0
                   /\ CanAppendEntry(old[n], e)
                   /\ \A i \in 1 .. (n - 1) : new[i] = old[i]
                   /\ new[n].version = old[n].version
                   /\ new[n].parents = old[n].parents
                   /\ new[n].agent = old[n].agent
                   /\ new[n].seq = old[n].seq
                   /\ new[n].vEnd = e.vEnd
<1> DEFINE old == g.entries
           n   == Len(old)
           new == PushEntry(old, e)
<1>1. old \in Seq(Entry) /\ n \in Nat
  BY DEF CG
<1>2. CASE old # <<>> /\ CanAppendEntry(LastOf(old), e)
  <2>1. n > 0 /\ n \in DOMAIN old /\ LastOf(old) = old[n]
    BY <1>1, <1>2 DEF LastOf
  <2>2. new = [old EXCEPT ![n].vEnd = e.vEnd]
    BY <1>2 DEF PushEntry
  <2>3. old[n] \in Entry
    BY <1>1, <2>1
  <2>4. [old[n] EXCEPT !.vEnd = e.vEnd] \in Entry
    BY <2>3 DEF Entry
  <2>5. new = [old EXCEPT ![n] = [old[n] EXCEPT !.vEnd = e.vEnd]]
    BY <2>1, <2>2
  <2>6. new \in Seq(Entry) /\ Len(new) = n
    BY <1>1, <2>1, <2>4, <2>5, ExceptSeq
  <2>7. /\ \A i \in 1 .. (n - 1) : new[i] = old[i]
        /\ new[n] = [old[n] EXCEPT !.vEnd = e.vEnd]
    BY <1>1, <2>1, <2>5
  <2>8. /\ new[n].version = old[n].version
        /\ new[n].parents = old[n].parents
        /\ new[n].agent = old[n].agent
        /\ new[n].seq = old[n].seq
        /\ new[n].vEnd = e.vEnd
    BY <2>3, <2>7 DEF Entry
  <2> QED
    BY <1>2, <2>1, <2>6, <2>7, <2>8
<1>3. CASE ~ (old # <<>> /\ CanAppendEntry(LastOf(old), e))
  <2>1. new = Append(old, e)
    BY <1>3 DEF PushEntry
  <2> QED
    BY <1>1, <2>1, AppendProperties
<1> QED
  BY <1>2, <1>3

\* The list keeps its order and its runs stay apart; it then covers the
\* versions up to the end of the run; and whoever held a version still does.
LEMMA PushEntryKeepsOrder ==
  ASSUME NEW g \in CG, Ordered(g.entries), Disjoint(g.entries),
         Covers(g.entries, NextLV(g)), NEW e, Insertable(g, e)
  PROVE  LET old == g.entries
             new == PushEntry(old, e)
         IN  /\ Ordered(new)
             /\ Disjoint(new)
             /\ new[Len(new)].vEnd = e.vEnd
             /\ \A i \in DOMAIN old, v \in Nat : Holds(old, i, v) =>
                  /\ i \in DOMAIN new
                  /\ Holds(new, i, v)
                  /\ new[i].version = old[i].version
                  /\ new[i].parents = old[i].parents
                  /\ new[i].agent = old[i].agent /\ new[i].seq = old[i].seq
             /\ \A v \in e.version .. (e.vEnd - 1) :
                  /\ Holds(new, Len(new), v)
                  /\ new[Len(new)].version <= e.version
                  /\ new[Len(new)].version = e.version => new[Len(new)].parents = e.parents
                  /\ new[Len(new)].version # e.version => e.parents = {e.version - 1}
             /\ new[Len(new)].agent = e.agent
             /\ new[Len(new)].seq + (e.version - new[Len(new)].version) = e.seq
<1> DEFINE old == g.entries
           n   == Len(old)
           new == PushEntry(old, e)
<1>1. old \in Seq(Entry) /\ n \in Nat /\ DOMAIN old = 1 .. n
  BY DEF CG
<1>2. /\ e \in Entry /\ e.version \in Nat /\ e.vEnd \in Nat /\ e.parents \subseteq Nat
      /\ e.version = NextLV(g) /\ e.version < e.vEnd
      /\ \A p \in e.parents : p < e.version
  BY DEF Insertable, Entry, LV
<1>3. \A i \in DOMAIN old :
        /\ old[i].version \in Nat /\ old[i].vEnd \in Nat /\ old[i].parents \subseteq Nat
        /\ old[i].vEnd <= e.version
  BY <1>2, EntryFields, EntriesEndBelow
<1>4. n = 0 => e.version = 0
  BY <1>1, <1>2 DEF NextLV
<1>5. n > 0 => old[n].vEnd = e.version
  <2> SUFFICES ASSUME n > 0 PROVE old[n].vEnd = e.version
    OBVIOUS
  <2>1. old # <<>>
    BY <1>1
  <2> QED
    BY <1>2, <2>1 DEF NextLV, LastOf
<1>6. \A i \in DOMAIN old : /\ old[i].version < old[i].vEnd
                            /\ old[i].version = IF i = 1 THEN 0 ELSE old[i - 1].vEnd
                            /\ \A p \in old[i].parents : p < old[i].version
  BY DEF Ordered
<1>7. CASE /\ Len(new) = n + 1
           /\ \A i \in 1 .. n : new[i] = old[i]
           /\ new[n + 1] = e
  <2>1. DOMAIN new = 1 .. (n + 1)
    BY <1>1, <1>2, <1>7, PushEntryShape
  <2>2. Ordered(new)
    <3> SUFFICES ASSUME NEW i \in DOMAIN new
                 PROVE  /\ new[i].version < new[i].vEnd
                        /\ new[i].version = IF i = 1 THEN 0 ELSE new[i - 1].vEnd
                        /\ \A p \in new[i].parents : p < new[i].version
      BY DEF Ordered
    <3>1. CASE i = n + 1
      <4>1. new[i] = e
        BY <1>7, <3>1
      <4>2. i # 1 => new[i - 1] = old[n] /\ n > 0
        BY <1>1, <1>7, <2>1, <3>1
      <4> QED
        BY <1>1, <1>2, <1>4, <1>5, <3>1, <4>1, <4>2
    <3>2. CASE i # n + 1
      <4>1. i \in DOMAIN old /\ new[i] = old[i]
        BY <1>1, <1>7, <2>1, <3>2
      <4>2. i # 1 => new[i - 1] = old[i - 1]
        BY <1>1, <1>7, <2>1, <3>2
      <4> QED
        BY <1>6, <4>1, <4>2
    <3> QED
      BY <3>1, <3>2
  <2>3. Disjoint(new)
    <3> SUFFICES ASSUME NEW i \in DOMAIN new, NEW j \in DOMAIN new, i < j
                 PROVE  new[i].vEnd <= new[j].version
      BY DEF Disjoint
    <3>1. CASE j = n + 1
      BY <1>1, <1>3, <1>7, <2>1, <3>1
    <3>2. CASE j # n + 1
      BY <1>1, <1>7, <2>1, <3>2 DEF Disjoint
    <3> QED
      BY <3>1, <3>2
  <2>4. e.version - e.version = 0 /\ e.seq \in Nat
    BY <1>2 DEF Entry
  <2>5. new[n + 1].seq + (e.version - new[n + 1].version) = e.seq
    BY <1>7, <2>4
  <2> QED
    BY <1>1, <1>2, <1>7, <2>1, <2>2, <2>3, <2>5 DEF Holds
<1>8. CASE /\ Len(new) = n /\ n > 0
           /\ CanAppendEntry(old[n], e)
           /\ \A i \in 1 .. (n - 1) : new[i] = old[i]
           /\ new[n].version = old[n].version
           /\ new[n].parents = old[n].parents
           /\ new[n].agent = old[n].agent
           /\ new[n].seq = old[n].seq
           /\ new[n].vEnd = e.vEnd
  <2>1. DOMAIN new = 1 .. n
    BY <1>1, <1>2, <1>8, PushEntryShape
  <2>2. e.parents = {e.version - 1} /\ old[n].version < e.version
    <3>1. e.parents = {old[n].vEnd - 1}
      BY <1>8 DEF CanAppendEntry
    <3> QED
      BY <1>1, <1>5, <1>6, <1>8, <3>1
  <2>3. Ordered(new)
    <3> SUFFICES ASSUME NEW i \in DOMAIN new
                 PROVE  /\ new[i].version < new[i].vEnd
                        /\ new[i].version = IF i = 1 THEN 0 ELSE new[i - 1].vEnd
                        /\ \A p \in new[i].parents : p < new[i].version
      BY DEF Ordered
    <3>1. i \in DOMAIN old /\ new[i].version = old[i].version /\ new[i].parents = old[i].parents
      BY <1>1, <1>8, <2>1
    <3>2. i # 1 => new[i - 1] = old[i - 1]
      BY <1>1, <1>8, <2>1
    <3>3. CASE i = n
      <4>1. new[i].vEnd = e.vEnd /\ new[i].version = old[n].version
        BY <1>8, <3>3
      <4>2. old[n].version \in Nat
        BY <1>1, <1>3, <1>8
      <4>3. new[i].version < new[i].vEnd
        BY <1>2, <2>2, <4>1, <4>2
      <4> QED
        BY <1>6, <3>1, <3>2, <4>3
    <3>4. CASE i # n
      <4>1. new[i] = old[i]
        BY <1>1, <1>8, <2>1, <3>4
      <4> QED
        BY <1>6, <3>1, <3>2, <4>1
    <3> QED
      BY <3>3, <3>4
  <2>4. Disjoint(new)
    <3> SUFFICES ASSUME NEW i \in DOMAIN new, NEW j \in DOMAIN new, i < j
                 PROVE  new[i].vEnd <= new[j].version
      BY DEF Disjoint
    <3>1. new[i] = old[i] /\ new[j].version = old[j].version
      BY <1>1, <1>8, <2>1
    <3> QED
      BY <1>1, <2>1, <3>1 DEF Disjoint
  <2>5. \A i \in DOMAIN old, v \in Nat : Holds(old, i, v) =>
          /\ i \in DOMAIN new
          /\ Holds(new, i, v)
          /\ new[i].version = old[i].version
          /\ new[i].parents = old[i].parents
          /\ new[i].agent = old[i].agent /\ new[i].seq = old[i].seq
    <3> SUFFICES ASSUME NEW i \in DOMAIN old, NEW v \in Nat, Holds(old, i, v)
                 PROVE  /\ i \in DOMAIN new
                        /\ Holds(new, i, v)
                        /\ new[i].version = old[i].version
                        /\ new[i].parents = old[i].parents
                        /\ new[i].agent = old[i].agent /\ new[i].seq = old[i].seq
      OBVIOUS
    <3>1. CASE i = n
      BY <1>1, <1>2, <1>5, <1>8, <2>1, <3>1 DEF Holds
    <3>2. CASE i # n
      BY <1>1, <1>8, <2>1, <3>2 DEF Holds
    <3> QED
      BY <3>1, <3>2
  <2>6. new[n].agent = e.agent /\ new[n].seq + (e.version - new[n].version) = e.seq
    <3>1. old[n].agent = e.agent /\ old[n].seq + (old[n].vEnd - old[n].version) = e.seq
      BY <1>8 DEF CanAppendEntry
    <3> QED
      BY <1>5, <1>8, <3>1
  <2>7. \A v \in e.version .. (e.vEnd - 1) :
          /\ Holds(new, Len(new), v)
          /\ new[Len(new)].version <= e.version
          /\ new[Len(new)].version = e.version => new[Len(new)].parents = e.parents
          /\ new[Len(new)].version # e.version => e.parents = {e.version - 1}
    BY <1>1, <1>2, <1>3, <1>8, <2>2 DEF Holds
  <2> QED
    BY <1>8, <2>3, <2>4, <2>5, <2>6, <2>7
<1> QED
  BY <1>2, <1>7, <1>8, PushEntryShape

-----------------------------------------------------------------------------
(* Adding a run to an agent's list.                                        *)

\* Splicing keeps the items of a sequence, in order, around the new one.
LEMMA SpliceProperties ==
  ASSUME NEW S, NEW s \in Seq(S), NEW k \in 0 .. Len(s), NEW x \in S
  PROVE  /\ Splice(s, k, x) \in Seq(S)
         /\ Len(Splice(s, k, x)) = Len(s) + 1
         /\ \A i \in 1 .. k : Splice(s, k, x)[i] = s[i]
         /\ Splice(s, k, x)[k + 1] = x
         /\ \A i \in (k + 2) .. (Len(s) + 1) : Splice(s, k, x)[i] = s[i - 1]
<1> DEFINE a == SubSeq(s, 1, k)
           b == SubSeq(s, k + 1, Len(s))
           c == a \o <<x>>
           t == c \o b
<1>1. a \in Seq(S) /\ Len(a) = k /\ \A i \in 1 .. k : a[i] = s[i]
  BY SubSeqProperties
<1>2. b \in Seq(S) /\ Len(b) = Len(s) - k /\ \A i \in 1 .. (Len(s) - k) : b[i] = s[k + i]
  <2>1. k + 1 \in 1 .. (Len(s) + 1) /\ Len(s) \in k .. Len(s)
    OBVIOUS
  <2> QED
    BY <2>1, SubSeqProperties
<1>3. <<x>> \in Seq(S) /\ Len(<<x>>) = 1 /\ <<x>>[1] = x
  OBVIOUS
<1>4. /\ c \in Seq(S) /\ Len(c) = k + 1
      /\ \A i \in 1 .. k : c[i] = s[i]
      /\ c[k + 1] = x
  BY <1>1, <1>3, ConcatProperties
<1> HIDE DEF a, b, c
<1>5. /\ t \in Seq(S) /\ Len(t) = Len(c) + Len(b)
      /\ \A i \in 1 .. (Len(c) + Len(b)) : t[i] = IF i <= Len(c) THEN c[i] ELSE b[i - Len(c)]
  BY <1>2, <1>4, ConcatProperties
<1>6. Len(s) \in Nat /\ k \in Nat /\ Len(t) = Len(s) + 1
  BY <1>2, <1>4, <1>5
<1> HIDE DEF t
<1>7. ASSUME NEW i \in 1 .. (k + 1) PROVE t[i] = c[i]
  <2>1. Len(c) \in Nat /\ Len(b) \in Nat /\ Len(c) = k + 1
    BY <1>2, <1>4, <1>6
  <2>2. i \in 1 .. (Len(c) + Len(b)) /\ i <= Len(c)
    BY <1>6, <2>1
  <2> QED
    BY <1>5, <2>2
<1>8. ASSUME NEW i \in (k + 2) .. (Len(s) + 1) PROVE t[i] = s[i - 1]
  <2>1. t[i] = b[i - (k + 1)]
    BY <1>2, <1>4, <1>5, <1>6
  <2>2. i - (k + 1) \in 1 .. (Len(s) - k)
    BY <1>6
  <2> QED
    BY <1>2, <1>6, <2>1, <2>2
<1>9. \A i \in 1 .. k : t[i] = s[i]
  BY <1>4, <1>6, <1>7
<1>10. t[k + 1] = x
  BY <1>4, <1>6, <1>7
<1>11. t = Splice(s, k, x)
  BY DEF a, b, c, t, Splice
<1> QED
  BY <1>5, <1>6, <1>8, <1>9, <1>10, <1>11

\* The place insertRLEList() finds is in the list.
LEMMA PlaceInList ==
  ASSUME NEW av \in Seq(ClientEntry), NEW seq \in Nat
  PROVE  PlaceForRun(av, seq) \in 0 .. Len(av)
<1> DEFINE later == {i \in DOMAIN av : av[i].seq > seq}
<1>1. DOMAIN av = 1 .. Len(av) /\ Len(av) \in Nat
  OBVIOUS
<1>2. CASE later = {}
  BY <1>1, <1>2 DEF PlaceForRun
<1>3. CASE later # {}
  <2> DEFINE first == CHOOSE i \in later : \A j \in later : i <= j
  <2>1. PlaceForRun(av, seq) = first - 1
    BY <1>3 DEF PlaceForRun
  <2>2. first \in DOMAIN av
    <3>1. later \subseteq Nat /\ later \subseteq DOMAIN av
      BY <1>1
    <3> HIDE DEF later
    <3>2. \E i \in later : \A j \in later : i <= j
      BY <1>3, <3>1, LeastElement
    <3> QED
      BY <3>1, <3>2
  <2> HIDE DEF first
  <2> QED
    BY <1>1, <2>1, <2>2
<1> QED
  BY <1>2, <1>3

\* The agent's list stays within the graph, which now ends where the new run
\* of the list ends.
LEMMA InsertClientEntryWithin ==
  ASSUME NEW av \in Seq(ClientEntry), NEW ce \in ClientEntry,
         NEW n \in Nat, NEW m \in Nat, n <= m,
         RunsWithin(av, n),
         ce.seq < ce.seqEnd, ce.version + (ce.seqEnd - ce.seq) <= m
  PROVE  /\ InsertClientEntry(av, ce) \in Seq(ClientEntry)
         /\ RunsWithin(InsertClientEntry(av, ce), m)
<1> DEFINE idx == PlaceForRun(av, ce.seq)
           t   == Splice(av, idx, ce)
<1>3. ce.seq \in Nat /\ ce.seqEnd \in Nat /\ ce.version \in Nat
  BY DEF ClientEntry, LV
<1>8. idx \in 0 .. Len(av)
  BY <1>3, PlaceInList
<1>1. idx \in 0 .. Len(av) /\ Len(av) \in Nat /\ DOMAIN av = 1 .. Len(av)
  BY <1>8
<1> HIDE DEF idx
<1>6. InsertClientEntry(av, ce) = IF idx > 0 /\ CanAppendClientEntry(av[idx], ce)
                                  THEN [av EXCEPT ![idx].seqEnd = ce.seqEnd]
                                  ELSE t
  BY DEF InsertClientEntry, Splice, idx
<1>7. /\ t \in Seq(ClientEntry)
      /\ Len(t) = Len(av) + 1
      /\ \A i \in 1 .. idx : t[i] = av[i]
      /\ t[idx + 1] = ce
      /\ \A i \in (idx + 2) .. (Len(av) + 1) : t[i] = av[i - 1]
  <2>1. t \in Seq(ClientEntry) /\ Len(t) = Len(av) + 1
    BY <1>8, SpliceProperties
  <2>2. \A i \in 1 .. idx : t[i] = av[i]
    BY <1>8, SpliceProperties
  <2>3. t[idx + 1] = ce
    BY <1>8, SpliceProperties
  <2>4. \A i \in (idx + 2) .. (Len(av) + 1) : t[i] = av[i - 1]
    BY <1>8, SpliceProperties
  <2> QED
    BY <2>1, <2>2, <2>3, <2>4
<1> HIDE DEF t
<1>2. \A i \in DOMAIN av :
        /\ av[i] \in ClientEntry
        /\ av[i].seq \in Nat /\ av[i].seqEnd \in Nat /\ av[i].version \in Nat
        /\ av[i].seq < av[i].seqEnd /\ av[i].version + (av[i].seqEnd - av[i].seq) <= n
  <2>1. \A i \in DOMAIN av : av[i] \in ClientEntry
    OBVIOUS
  <2> QED
    BY <2>1 DEF ClientEntry, LV, RunsWithin
<1>4. CASE idx > 0 /\ CanAppendClientEntry(av[idx], ce)
  <2> DEFINE joined == [av[idx] EXCEPT !.seqEnd = ce.seqEnd]
  <2>1. idx \in DOMAIN av
    BY <1>1, <1>4
  <2>2. joined \in ClientEntry
    BY <1>2, <2>1 DEF ClientEntry
  <2>3. InsertClientEntry(av, ce) = [av EXCEPT ![idx].seqEnd = ce.seqEnd]
    BY <1>4, <1>6
  <2>4. InsertClientEntry(av, ce) = [av EXCEPT ![idx] = joined]
    BY <2>1, <2>3
  <2>5. /\ InsertClientEntry(av, ce) \in Seq(ClientEntry)
        /\ Len(InsertClientEntry(av, ce)) = Len(av)
    BY <2>1, <2>2, <2>4, ExceptSeq
  <2>6. /\ joined.seq = av[idx].seq /\ joined.seqEnd = ce.seqEnd
        /\ joined.version = av[idx].version
    BY <1>2, <2>1 DEF ClientEntry
  <2>7. joined.seq < joined.seqEnd /\ joined.version + (joined.seqEnd - joined.seq) <= m
    <3>1. ce.seq = av[idx].seqEnd /\ ce.version = av[idx].version + (av[idx].seqEnd - av[idx].seq)
      BY <1>4 DEF CanAppendClientEntry
    <3> QED
      BY <1>2, <1>3, <2>1, <2>6, <3>1, SMTT(30)
  <2>8. \A i \in DOMAIN av : InsertClientEntry(av, ce)[i] = IF i = idx THEN joined ELSE av[i]
    BY <2>1, <2>4
  <2>9. RunsWithin(InsertClientEntry(av, ce), m)
    BY <1>2, <2>4, <2>7, <2>8 DEF RunsWithin
  <2> QED
    BY <2>5, <2>9
<1>5. CASE ~ (idx > 0 /\ CanAppendClientEntry(av[idx], ce))
  <2>1. InsertClientEntry(av, ce) = t
    BY <1>5, <1>6
  <2>2. DOMAIN t = 1 .. (Len(av) + 1)
    BY <1>7
  <2>3. ASSUME NEW i \in DOMAIN t
        PROVE  t[i].seq < t[i].seqEnd /\ t[i].version + (t[i].seqEnd - t[i].seq) <= m
    <3>1. ASSUME NEW j \in DOMAIN av, t[i] = av[j]
          PROVE  t[i].seq < t[i].seqEnd /\ t[i].version + (t[i].seqEnd - t[i].seq) <= m
      BY <1>2, <3>1
    <3>2. i \in 1 .. idx \/ i = idx + 1 \/ i \in (idx + 2) .. (Len(av) + 1)
      BY <1>1, <2>2
    <3>3. CASE i \in 1 .. idx
      <4>1. i \in DOMAIN av /\ t[i] = av[i]
        BY <1>1, <1>7, <3>3
      <4> QED
        BY <3>1, <4>1
    <3>4. CASE i = idx + 1
      BY <1>7, <3>4
    <3>5. CASE i \in (idx + 2) .. (Len(av) + 1)
      <4>1. i - 1 \in DOMAIN av /\ t[i] = av[i - 1]
        BY <1>1, <1>7, <3>5
      <4> QED
        BY <3>1, <4>1
    <3> QED
      BY <3>2, <3>3, <3>4, <3>5
  <2> QED
    BY <1>7, <2>1, <2>3 DEF RunsWithin
<1> QED
  BY <1>4, <1>5

-----------------------------------------------------------------------------
(* One call of add().                                                      *)

\* add() starts at the first event of the span it does not know.
LEMMA FirstUnknownIsLeast ==
  ASSUME NEW g, NEW agent, NEW seqStart \in Nat, NEW seqEnd \in Nat,
         UnknownSeqs(g, agent, seqStart, seqEnd) # {}
  PROVE  /\ FirstUnknown(g, agent, seqStart, seqEnd) \in UnknownSeqs(g, agent, seqStart, seqEnd)
         /\ \A t \in UnknownSeqs(g, agent, seqStart, seqEnd) :
              FirstUnknown(g, agent, seqStart, seqEnd) <= t
<1> DEFINE U == UnknownSeqs(g, agent, seqStart, seqEnd)
<1>1. U \subseteq Nat
  BY DEF UnknownSeqs
<1> HIDE DEF U
<1>2. \E s \in U : \A t \in U : s <= t
  BY <1>1, LeastElement DEF U
<1>3. FirstUnknown(g, agent, seqStart, seqEnd) = CHOOSE s \in U : \A t \in U : s <= t
  BY DEF FirstUnknown, U
<1>4. /\ FirstUnknown(g, agent, seqStart, seqEnd) \in U
      /\ \A t \in U : FirstUnknown(g, agent, seqStart, seqEnd) <= t
  BY <1>2, <1>3
<1> QED
  BY <1>4 DEF U

\* An identity that is known leads to a version of the graph.
LEMMA KnownIsVersion ==
  ASSUME NEW g \in CG, NEW agent \in Agents, NEW seq \in Nat,
         RunsWithin(g.agentToVersion[agent], NextLV(g)),
         HasVersion(g, agent, seq)
  PROVE  RawToLV(g, agent, seq) \in Versions(g)
<1> DEFINE av == g.agentToVersion[agent]
<1>1. av \in Seq(ClientEntry)
  BY DEF CG
<1>2. \A ce \in ClientEntriesWith(g, agent, seq) :
        /\ \E i \in DOMAIN av : ce = av[i]
        /\ ce.seq <= seq /\ seq < ce.seqEnd
  BY DEF ClientEntriesWith
<1>3. PICK ce \in ClientEntriesWith(g, agent, seq) : RawToLV(g, agent, seq) = ce.version + (seq - ce.seq)
  BY DEF HasVersion, RawToLV
<1>4. PICK i \in DOMAIN av : ce = av[i]
  BY <1>2
<1>5. ce \in ClientEntry
  BY <1>1, <1>4
<1>6. ce.seq \in Nat /\ ce.seqEnd \in Nat /\ ce.version \in Nat
  BY <1>5 DEF ClientEntry, LV
<1>7. ce.version + (ce.seqEnd - ce.seq) <= NextLV(g)
  BY <1>4 DEF RunsWithin
<1>8. ce.seq <= seq /\ seq < ce.seqEnd
  BY <1>2
<1>9. NextLV(g) \in Nat
  BY NextLVType
<1> HIDE DEF av
<1> QED
  BY <1>3, <1>6, <1>7, <1>8, <1>9 DEF Versions

\* The run that add() makes of a span may be inserted.
LEMMA NewEntryInsertable ==
  ASSUME NEW g \in CG,
         \A agent \in Agents : RunsWithin(g.agentToVersion[agent], NextLV(g)),
         NEW agent \in Agents, NEW seqStart \in Nat, NEW seqEnd \in Nat, seqStart < seqEnd,
         NEW parents, parents \subseteq Versions(g),
         UnknownSeqs(g, agent, seqStart, seqEnd) # {}
  PROVE  Insertable(g, NewEntry(g, agent, seqStart, seqEnd, parents))
<1> DEFINE start == FirstUnknown(g, agent, seqStart, seqEnd)
           e     == NewEntry(g, agent, seqStart, seqEnd, parents)
           ps    == IF start = seqStart THEN parents ELSE {RawToLV(g, agent, start - 1)}
<1>1. /\ start \in Nat /\ seqStart <= start /\ start < seqEnd
      /\ \A t \in Nat : seqStart <= t /\ t < start => HasVersion(g, agent, t)
  <2>1. start \in UnknownSeqs(g, agent, seqStart, seqEnd)
    BY FirstUnknownIsLeast
  <2>2. \A t \in UnknownSeqs(g, agent, seqStart, seqEnd) : start <= t
    BY FirstUnknownIsLeast
  <2> HIDE DEF start
  <2>3. start \in Nat /\ seqStart <= start /\ start < seqEnd
    BY <2>1 DEF UnknownSeqs
  <2>4. ASSUME NEW t \in Nat, seqStart <= t, t < start
        PROVE  HasVersion(g, agent, t)
    <3>1. t \notin UnknownSeqs(g, agent, seqStart, seqEnd)
      BY <2>2, <2>3, <2>4
    <3>2. t \in seqStart .. (seqEnd - 1)
      BY <2>3, <2>4
    <3> QED
      BY <3>1, <3>2 DEF UnknownSeqs
  <2> QED
    BY <2>3, <2>4
<1>2. e = [version |-> NextLV(g), vEnd |-> NextLV(g) + (seqEnd - start),
           agent |-> agent, seq |-> start, parents |-> ps]
  BY DEF NewEntry
<1> HIDE DEF start
<1>3. NextLV(g) \in Nat
  BY NextLVType
<1>4. ps \subseteq Versions(g)
  <2>1. CASE start = seqStart
    BY <2>1
  <2>2. CASE start # seqStart
    <3>1. start - 1 \in Nat /\ HasVersion(g, agent, start - 1)
      BY <1>1, <2>2
    <3>2. RawToLV(g, agent, start - 1) \in Versions(g)
      BY <3>1, KnownIsVersion
    <3> QED
      BY <2>2, <3>2
  <2> QED
    BY <2>1, <2>2
<1>5. ps \subseteq Nat /\ \A p \in ps : p < NextLV(g)
  BY <1>3, <1>4 DEF Versions
<1> HIDE DEF ps, e
<1>6. NextLV(g) + (seqEnd - start) \in Nat /\ NextLV(g) < NextLV(g) + (seqEnd - start)
  BY <1>1, <1>3
<1>7. e \in Entry
  BY <1>1, <1>2, <1>3, <1>5, <1>6 DEF Entry, LV
<1>8. e.version = NextLV(g) /\ e.vEnd = NextLV(g) + (seqEnd - start) /\ e.parents = ps
  BY <1>2
<1>9. Insertable(g, e)
  BY <1>5, <1>6, <1>7, <1>8 DEF Insertable
<1> QED
  BY <1>9 DEF e

\* The graph grows to the end of the run, and its entries cover it.
LEMMA InsertExtends ==
  ASSUME NEW g, GraphInv(g), NEW e, Insertable(g, e)
  PROVE  LET new == InsertEntry(g, e)
         IN  /\ NextLV(new) = e.vEnd
             /\ NextLV(g) \in Nat /\ e.vEnd \in Nat /\ NextLV(g) < e.vEnd
             /\ Covers(new.entries, e.vEnd)
<1> DEFINE old  == g.entries
           new  == InsertEntry(g, e)
           list == PushEntry(old, e)
<1>1. /\ g \in CG /\ Ordered(old) /\ Disjoint(old) /\ Covers(old, NextLV(g))
      /\ NextLV(g) \in Nat
  BY NextLVType DEF GraphInv
<1>2. e \in Entry /\ e.vEnd \in Nat /\ e.version = NextLV(g) /\ e.version < e.vEnd
  BY DEF Insertable, Entry, LV
<1>3. new.entries = list
  BY DEF InsertEntry
<1>4. list \in Seq(Entry) /\ list # <<>>
  BY <1>1, <1>2, PushEntryShape
<1>5. list[Len(list)].vEnd = e.vEnd
  BY <1>1, PushEntryKeepsOrder
<1>6. NextLV(new) = e.vEnd
  BY <1>3, <1>4, <1>5 DEF NextLV, LastOf
<1>7. \A i \in DOMAIN old, v \in Nat : Holds(old, i, v) => i \in DOMAIN list /\ Holds(list, i, v)
  BY <1>1, PushEntryKeepsOrder
<1>8. \A v \in e.version .. (e.vEnd - 1) : Holds(list, Len(list), v)
  BY <1>1, PushEntryKeepsOrder
<1>9. Len(list) \in DOMAIN list
  BY <1>4
<1> HIDE DEF list, new
<1>10. ASSUME NEW v \in 0 .. (e.vEnd - 1)
       PROVE  \E i \in DOMAIN list : Holds(list, i, v)
  <2>1. CASE v < NextLV(g)
    <3>1. v \in 0 .. (NextLV(g) - 1) /\ v \in Nat
      BY <1>1, <2>1
    <3>2. PICK i \in DOMAIN old : Holds(old, i, v)
      BY <1>1, <3>1 DEF Covers
    <3> QED
      BY <1>7, <3>1, <3>2
  <2>2. CASE ~ (v < NextLV(g))
    <3>1. v \in e.version .. (e.vEnd - 1)
      BY <1>1, <1>2, <2>2
    <3> QED
      BY <1>8, <1>9, <3>1
  <2> QED
    BY <2>1, <2>2
<1>11. Covers(new.entries, e.vEnd)
  BY <1>3, <1>10 DEF Covers
<1> QED
  BY <1>1, <1>2, <1>6, <1>11 DEF new

\* An event that was in the graph keeps its entry.
LEMMA OldEventsStay ==
  ASSUME NEW g, GraphInv(g), NEW e, Insertable(g, e), NEW v \in Versions(g)
  PROVE  LET new == InsertEntry(g, e)
         IN  /\ ParentsOf(new, v) = ParentsOf(g, v)
             /\ LvToRaw(new, v) = LvToRaw(g, v)
             /\ ParentsOf(g, v) \subseteq Nat
             /\ \A p \in ParentsOf(g, v) : p < v
<1> DEFINE old  == g.entries
           new  == InsertEntry(g, e)
           list == PushEntry(old, e)
<1>1. /\ g \in CG /\ Ordered(old) /\ Disjoint(old) /\ Covers(old, NextLV(g))
      /\ NextLV(g) \in Nat
  BY NextLVType DEF GraphInv
<1>2. e \in Entry
  BY DEF Insertable
<1>3. new.entries = list /\ list \in Seq(Entry)
  BY <1>1, <1>2, PushEntryShape DEF InsertEntry
<1>4. Disjoint(list)
  BY <1>1, PushEntryKeepsOrder
<1>5. v \in Nat /\ v \in 0 .. (NextLV(g) - 1)
  BY <1>1 DEF Versions
<1>6. PICK i \in DOMAIN old : Holds(old, i, v)
  BY <1>1, <1>5 DEF Covers
<1>7. /\ i \in DOMAIN list
      /\ Holds(list, i, v)
      /\ list[i].version = old[i].version
      /\ list[i].parents = old[i].parents
      /\ list[i].agent = old[i].agent /\ list[i].seq = old[i].seq
  BY <1>1, <1>5, <1>6, PushEntryKeepsOrder
<1> HIDE DEF list
<1>8. FindEntryContaining(g, v) = old[i]
  <2>1. g.entries \in Seq(Entry)
    BY <1>1 DEF CG
  <2> QED
    BY <1>1, <1>5, <1>6, <2>1, EntryByVersion
<1>9. FindEntryContaining(new, v) = list[i]
  BY <1>3, <1>4, <1>5, <1>7, EntryByVersion
<1> HIDE DEF new
<1>10. ParentsOf(new, v) = ParentsOf(g, v) /\ LvToRaw(new, v) = LvToRaw(g, v)
  BY <1>7, <1>8, <1>9 DEF ParentsOf, LvToRaw
<1>11. /\ old[i].version \in Nat /\ old[i].parents \subseteq Nat
       /\ old[i].version <= v
       /\ \A p \in old[i].parents : p < old[i].version
  BY <1>1, <1>6, EntryFields DEF Holds, Ordered
<1>12. ParentsOf(g, v) \subseteq Nat /\ \A p \in ParentsOf(g, v) : p < v
  <2>1. ParentsOf(g, v) = IF v = old[i].version THEN old[i].parents ELSE {v - 1}
    BY <1>8 DEF ParentsOf
  <2>2. CASE v = old[i].version
    BY <1>11, <2>1, <2>2
  <2>3. CASE v # old[i].version
    BY <1>5, <1>11, <2>1, <2>3
  <2> QED
    BY <2>2, <2>3
<1> QED
  BY <1>10, <1>12 DEF new

\* The first event of the run has the parents of the run, each further one
\* the event before it.
LEMMA ParentsOfNewEvents ==
  ASSUME NEW g, GraphInv(g), NEW e, Insertable(g, e), NEW v \in e.version .. (e.vEnd - 1)
  PROVE  ParentsOf(InsertEntry(g, e), v) = IF v = e.version THEN e.parents ELSE {v - 1}
<1> DEFINE new  == InsertEntry(g, e)
           list == PushEntry(g.entries, e)
           n    == Len(list)
<1>1. /\ g \in CG /\ Ordered(g.entries) /\ Disjoint(g.entries) /\ Covers(g.entries, NextLV(g))
  BY DEF GraphInv
<1>2. e \in Entry /\ e.version \in Nat /\ e.vEnd \in Nat
  BY DEF Insertable, Entry, LV
<1>3. new.entries = list /\ list \in Seq(Entry) /\ list # <<>>
  BY <1>1, <1>2, PushEntryShape DEF InsertEntry
<1>4. Disjoint(list)
  BY <1>1, PushEntryKeepsOrder
<1>5. /\ Holds(list, n, v)
      /\ list[n].version <= e.version
      /\ list[n].version = e.version => list[n].parents = e.parents
      /\ list[n].version # e.version => e.parents = {e.version - 1}
  BY <1>1, PushEntryKeepsOrder
<1> HIDE DEF list
<1>6. n \in DOMAIN list /\ v \in Nat
  BY <1>2, <1>3
<1>7. list[n].version \in Nat
  <2>1. list[n] \in Entry
    BY <1>3, <1>6
  <2> QED
    BY <2>1 DEF Entry, LV
<1>8. FindEntryContaining(new, v) = list[n]
  BY <1>3, <1>4, <1>5, <1>6, EntryByVersion
<1> HIDE DEF new, n
<1>9. ParentsOf(new, v) = IF v = list[n].version THEN list[n].parents ELSE {v - 1}
  BY <1>8 DEF ParentsOf
<1>10. CASE v = e.version
  <2>1. ParentsOf(new, v) = e.parents
    BY <1>5, <1>9, <1>10
  <2> QED
    BY <1>10, <2>1 DEF new
<1>11. CASE v # e.version
  <2>1. v # list[n].version
    BY <1>2, <1>5, <1>6, <1>7, <1>11
  <2>2. ParentsOf(new, v) = {v - 1}
    BY <1>9, <2>1
  <2> QED
    BY <1>11, <2>2 DEF new
<1> QED
  BY <1>10, <1>11

\* The heads remain the events that are nobody's parent: the heads the run
\* replaces are its parents, and inside the run only the last event is a head.
LEMMA InsertKeepsChildless ==
  ASSUME NEW g, GraphInv(g), NEW e, Insertable(g, e)
  PROVE  Childless(InsertEntry(g, e))
<1> DEFINE new == InsertEntry(g, e)
           n   == NextLV(g)
           m   == e.vEnd
           last == m - 1
<1>1. n \in Nat /\ m \in Nat /\ n < m /\ NextLV(new) = m
  BY InsertExtends
<1>2. e.version = n /\ \A p \in e.parents : p < n
  BY DEF Insertable
<1>3. new.heads = (g.heads \ e.parents) \cup {last}
  BY DEF InsertEntry, AdvanceFrontier
<1>4. g.heads = {v \in Versions(g) : \A w \in Versions(g) : v \notin ParentsOf(g, w)}
  BY DEF GraphInv, Childless
<1>5. \A w \in Versions(g) : ParentsOf(new, w) = ParentsOf(g, w) /\ \A p \in ParentsOf(g, w) : p < w
  BY OldEventsStay
<1>6. \A w \in n .. (m - 1) : ParentsOf(new, w) = IF w = n THEN e.parents ELSE {w - 1}
  BY <1>2, ParentsOfNewEvents
<1>7. Versions(new) = 0 .. (m - 1) /\ Versions(g) = 0 .. (n - 1)
  BY <1>1 DEF Versions
<1> HIDE DEF new, n, m
<1>8. ASSUME NEW v \in Versions(new), v < n
      PROVE  v \in new.heads <=> \A w \in Versions(new) : v \notin ParentsOf(new, w)
  <2>1. v \in Versions(g) /\ v # last
    BY <1>1, <1>7, <1>8
  <2>2. v \in new.heads <=> v \notin e.parents /\ \A w \in Versions(g) : v \notin ParentsOf(g, w)
    BY <1>3, <1>4, <2>1
  <2>3. \A w \in n .. (m - 1) : v \in ParentsOf(new, w) <=> w = n /\ v \in e.parents
    BY <1>1, <1>6, <1>7, <1>8
  <2>4. n \in n .. (m - 1)
    BY <1>1
  <2>5. Versions(new) = Versions(g) \cup (n .. (m - 1))
    BY <1>1, <1>7
  <2> QED
    BY <1>5, <2>2, <2>3, <2>4, <2>5
<1>9. ASSUME NEW v \in Versions(new), ~ (v < n)
      PROVE  v \in new.heads <=> \A w \in Versions(new) : v \notin ParentsOf(new, w)
  <2>1. v \in n .. (m - 1)
    BY <1>1, <1>7, <1>9
  <2>2. v \notin g.heads
    BY <1>1, <1>4, <1>7, <2>1
  <2>3. v \in new.heads <=> v = last
    BY <1>3, <2>2
  <2>4. \A w \in Versions(g) : v \notin ParentsOf(new, w)
    <3> SUFFICES ASSUME NEW w \in Versions(g), v \in ParentsOf(new, w) PROVE FALSE
      OBVIOUS
    <3>1. v < w
      BY <1>5
    <3> QED
      BY <1>1, <1>7, <2>1, <3>1
  <2>5. \A w \in n .. (m - 1) : v \in ParentsOf(new, w) <=> w = v + 1
    <3> SUFFICES ASSUME NEW w \in n .. (m - 1)
                 PROVE  v \in ParentsOf(new, w) <=> w = v + 1
      OBVIOUS
    <3>1. CASE w = n
      <4>1. ParentsOf(new, w) = e.parents
        BY <1>6, <3>1
      <4>2. v \notin e.parents
        BY <1>1, <1>2, <2>1
      <4> QED
        BY <1>1, <2>1, <3>1, <4>1, <4>2
    <3>2. CASE w # n
      <4>1. ParentsOf(new, w) = {w - 1}
        BY <1>6, <3>2
      <4> QED
        BY <1>1, <2>1, <4>1
    <3> QED
      BY <3>1, <3>2
  <2>6. Versions(new) = Versions(g) \cup (n .. (m - 1))
    BY <1>1, <1>7
  <2>7. v # last <=> v + 1 \in n .. (m - 1)
    BY <1>1, <2>1
  <2> QED
    BY <2>3, <2>4, <2>5, <2>6, <2>7
<1>10. new.heads \subseteq Versions(new)
  BY <1>1, <1>3, <1>4, <1>7
<1>11. new.heads = {v \in Versions(new) : \A w \in Versions(new) : v \notin ParentsOf(new, w)}
  BY <1>8, <1>9, <1>10
<1> QED
  BY <1>11 DEF Childless, new

\* Inserting a run keeps the invariant.
LEMMA InsertKeepsInv ==
  ASSUME NEW g, GraphInv(g), NEW e, Insertable(g, e)
  PROVE  GraphInv(InsertEntry(g, e))
<1> DEFINE new == InsertEntry(g, e)
           av  == g.agentToVersion[e.agent]
           ce  == [seq |-> e.seq, seqEnd |-> e.seq + (e.vEnd - e.version), version |-> e.version]
           n   == NextLV(g)
           m   == e.vEnd
<1>1. g \in CG /\ Ordered(g.entries) /\ Disjoint(g.entries) /\ Covers(g.entries, n)
  BY DEF GraphInv
<1>2. /\ e \in Entry /\ e.agent \in Agents /\ e.seq \in Nat /\ e.version = n
      /\ n \in Nat /\ m \in Nat /\ n < m /\ NextLV(new) = m
      /\ Covers(new.entries, m)
  <2>1. e \in Entry
    BY DEF Insertable
  <2>2. e.agent \in Agents /\ e.seq \in Nat
    BY <2>1 DEF Entry
  <2>3. e.version = n
    BY DEF Insertable
  <2> QED
    BY <2>1, <2>2, <2>3, InsertExtends
<1>3. /\ new.entries = PushEntry(g.entries, e)
      /\ new.heads = (g.heads \ e.parents) \cup {m - 1}
      /\ new.agentToVersion = [g.agentToVersion EXCEPT ![e.agent] = InsertClientEntry(av, ce)]
      /\ new = [heads |-> new.heads, entries |-> new.entries, agentToVersion |-> new.agentToVersion]
  BY DEF InsertEntry, AdvanceFrontier
<1>4. new.entries \in Seq(Entry) /\ Ordered(new.entries) /\ Disjoint(new.entries)
  <2>1. PushEntry(g.entries, e) \in Seq(Entry)
    BY <1>1, <1>2, PushEntryShape
  <2>2. Ordered(PushEntry(g.entries, e)) /\ Disjoint(PushEntry(g.entries, e))
    BY <1>1, PushEntryKeepsOrder
  <2> QED
    BY <1>3, <2>1, <2>2
<1>5. /\ g.agentToVersion \in [Agents -> Seq(ClientEntry)]
      /\ g.heads \subseteq Nat
      /\ \A agent \in Agents : RunsWithin(g.agentToVersion[agent], n)
  BY <1>1 DEF CG, LV, GraphInv
<1>6. /\ InsertClientEntry(av, ce) \in Seq(ClientEntry)
      /\ RunsWithin(InsertClientEntry(av, ce), m)
  <2>1. av \in Seq(ClientEntry) /\ RunsWithin(av, n)
    BY <1>2, <1>5
  <2>2. e.seq + (e.vEnd - e.version) \in Nat /\ e.seq < e.seq + (e.vEnd - e.version)
    BY <1>2
  <2>3. ce \in ClientEntry
    BY <1>2, <2>2 DEF ClientEntry, LV
  <2>4. ce.seq < ce.seqEnd /\ ce.version + (ce.seqEnd - ce.seq) <= m
    BY <1>2, <2>2
  <2>5. n <= m
    BY <1>2
  <2> HIDE DEF av, ce, n, m
  <2> QED
    BY <1>2, <2>1, <2>3, <2>4, <2>5, InsertClientEntryWithin
<1> HIDE DEF ce
<1>7. \A agent \in Agents : /\ new.agentToVersion[agent] \in Seq(ClientEntry)
                            /\ RunsWithin(new.agentToVersion[agent], m)
  <2> SUFFICES ASSUME NEW agent \in Agents
               PROVE  /\ new.agentToVersion[agent] \in Seq(ClientEntry)
                      /\ RunsWithin(new.agentToVersion[agent], m)
    OBVIOUS
  <2>1. CASE agent = e.agent
    <3>1. new.agentToVersion[agent] = InsertClientEntry(av, ce)
      BY <1>3, <1>5, <2>1
    <3> QED
      BY <1>6, <3>1
  <2>2. CASE agent # e.agent
    <3>1. new.agentToVersion[agent] = g.agentToVersion[agent]
      BY <1>3, <1>5, <2>2
    <3>2. g.agentToVersion[agent] \in Seq(ClientEntry) /\ RunsWithin(g.agentToVersion[agent], n)
      BY <1>5
    <3>3. RunsWithin(g.agentToVersion[agent], m)
      <4>1. \A i \in DOMAIN g.agentToVersion[agent] : g.agentToVersion[agent][i] \in ClientEntry
        BY <3>2
      <4> HIDE DEF n, m
      <4> QED
        BY <1>2, <3>2, <4>1 DEF RunsWithin, ClientEntry, LV
    <3> QED
      BY <3>1, <3>2, <3>3
  <2> QED
    BY <2>1, <2>2
<1>8. new \in CG
  <2>1. new.heads \subseteq Nat
    BY <1>2, <1>3, <1>5
  <2>2. new.agentToVersion \in [Agents -> Seq(ClientEntry)]
    BY <1>3, <1>5, <1>6
  <2> HIDE DEF new
  <2> QED
    BY <1>3, <1>4, <2>1, <2>2 DEF CG, LV
<1>9. Childless(new)
  BY InsertKeepsChildless
<1> HIDE DEF new
<1>10. GraphInv(new)
  BY <1>2, <1>4, <1>7, <1>8, <1>9 DEF GraphInv
<1> QED
  BY <1>10 DEF new

\* The empty graph.
LEMMA EmptyGraphInv == GraphInv(EmptyCG)
<1> DEFINE g == EmptyCG
<1>1. g.heads = {} /\ g.entries = <<>> /\ g.agentToVersion = [a \in Agents |-> <<>>]
  BY DEF EmptyCG
<1>2. g \in CG
  BY DEF EmptyCG, CG
<1>3. NextLV(g) = 0 /\ Versions(g) = {}
  BY <1>1 DEF NextLV, Versions
<1> HIDE DEF g
<1>4. Ordered(g.entries) /\ Disjoint(g.entries) /\ Covers(g.entries, NextLV(g))
  BY <1>1, <1>3 DEF Ordered, Disjoint, Covers
<1>5. \A agent \in Agents : RunsWithin(g.agentToVersion[agent], NextLV(g))
  BY <1>1 DEF RunsWithin
<1>6. Childless(g)
  BY <1>1, <1>3 DEF Childless
<1>7. GraphInv(g)
  BY <1>2, <1>4, <1>5, <1>6 DEF GraphInv
<1> QED
  BY <1>7 DEF g

-----------------------------------------------------------------------------
(* Identities.                                                             *)

\* Run k of an agent's list has the sequence number s.
InRun(av, k, s) == av[k].seq <= s /\ s < av[k].seqEnd

\* The list says that v is the version of the agent's event s.
Maps(av, s, v) ==
  \E k \in DOMAIN av : InRun(av, k, s) /\ v = av[k].version + (s - av[k].seq)

RunsApart(av) == \A i, j \in DOMAIN av : i < j => av[i].seqEnd <= av[j].seq

\* No run is empty; and none has an event of the run ce.
NoneEmpty(av) == \A k \in DOMAIN av : av[k].seq < av[k].seqEnd

NoneKnown(av, ce) == \A s \in ce.seq .. (ce.seqEnd - 1), k \in DOMAIN av : ~ InRun(av, k, s)

IdsAgree(g) ==
  \A agent \in Agents, s, v \in Nat :
    Maps(g.agentToVersion[agent], s, v) <=> v \in Versions(g) /\ LvToRaw(g, v) = <<agent, s>>

IdInv(g) ==
  /\ GraphInv(g)
  /\ \A agent \in Agents : RunsApart(g.agentToVersion[agent])
  /\ IdsAgree(g)

\* No event of the run is known.
Fresh(g, e) ==
  \A s \in e.seq .. (e.seq + (e.vEnd - e.version) - 1) : ~ HasVersion(g, e.agent, s)

-----------------------------------------------------------------------------
(* Reading an agent's list.                                                *)

LEMMA RunFields ==
  ASSUME NEW av \in Seq(ClientEntry), NEW k \in DOMAIN av
  PROVE  av[k] \in ClientEntry /\ av[k].seq \in Nat /\ av[k].seqEnd \in Nat /\ av[k].version \in Nat
<1>1. av[k] \in ClientEntry
  OBVIOUS
<1> QED
  BY <1>1 DEF ClientEntry, LV

\* hasVersion() finds a run exactly when there is one.
LEMMA KnownIsInRun ==
  ASSUME NEW g, NEW agent \in Agents, NEW s
  PROVE  HasVersion(g, agent, s) <=>
           \E k \in DOMAIN g.agentToVersion[agent] : InRun(g.agentToVersion[agent], k, s)
<1> DEFINE av == g.agentToVersion[agent]
<1>1. ClientEntriesWith(g, agent, s) =
        {ce \in {av[i] : i \in DOMAIN av} : ce.seq <= s /\ s < ce.seqEnd}
  BY DEF ClientEntriesWith
<1> HIDE DEF av
<1>2. ClientEntriesWith(g, agent, s) # {} <=> \E k \in DOMAIN av : InRun(av, k, s)
  BY <1>1 DEF InRun
<1> QED
  BY <1>2 DEF HasVersion, av

\* The binary search over an agent's runs finds what the list maps.
LEMMA RawByMap ==
  ASSUME NEW g \in CG, NEW agent \in Agents, NEW s \in Nat, NEW v \in Nat,
         RunsApart(g.agentToVersion[agent]), Maps(g.agentToVersion[agent], s, v)
  PROVE  HasVersion(g, agent, s) /\ RawToLV(g, agent, s) = v
<1> DEFINE av == g.agentToVersion[agent]
<1>1. av \in Seq(ClientEntry)
  BY DEF CG
<1>2. PICK k \in DOMAIN av : InRun(av, k, s) /\ v = av[k].version + (s - av[k].seq)
  BY DEF Maps
<1>3. ASSUME NEW j \in DOMAIN av, InRun(av, j, s)
      PROVE  j = k
  <2>1. /\ av[j].seq \in Nat /\ av[j].seqEnd \in Nat
        /\ av[k].seq \in Nat /\ av[k].seqEnd \in Nat
    BY <1>1, RunFields
  <2>2. ~ (j < k) /\ ~ (k < j)
    BY <1>2, <1>3, <2>1 DEF RunsApart, InRun
  <2>3. j \in Nat /\ k \in Nat
    BY <1>1
  <2> QED
    BY <2>2, <2>3
<1>4. ClientEntriesWith(g, agent, s) = {av[k]}
  BY <1>2, <1>3 DEF ClientEntriesWith, InRun
<1> QED
  BY <1>2, <1>4 DEF HasVersion, RawToLV

\* And a known identity is mapped.
LEMMA KnownIsMapped ==
  ASSUME NEW g \in CG, NEW agent \in Agents, NEW s \in Nat,
         HasVersion(g, agent, s)
  PROVE  \E v \in Nat : Maps(g.agentToVersion[agent], s, v)
<1> DEFINE av == g.agentToVersion[agent]
<1>1. av \in Seq(ClientEntry)
  BY DEF CG
<1>2. PICK k \in DOMAIN av : InRun(av, k, s)
  BY KnownIsInRun
<1>3. av[k].seq \in Nat /\ av[k].version \in Nat
  BY <1>1, RunFields
<1>4. av[k].version + (s - av[k].seq) \in Nat
  BY <1>2, <1>3 DEF InRun
<1> QED
  BY <1>2, <1>4 DEF Maps

\* What the lookups return, in an invariant graph.
LEMMA LookupsInvert ==
  ASSUME NEW g, IdInv(g)
  PROVE  /\ \A agent \in Agents, s \in Nat : HasVersion(g, agent, s) =>
              /\ RawToLV(g, agent, s) \in Versions(g)
              /\ LvToRaw(g, RawToLV(g, agent, s)) = <<agent, s>>
         /\ \A v \in Versions(g), agent \in Agents, s \in Nat : LvToRaw(g, v) = <<agent, s>> =>
              HasVersion(g, agent, s) /\ RawToLV(g, agent, s) = v
<1>1. g \in CG /\ IdsAgree(g) /\ \A agent \in Agents : RunsApart(g.agentToVersion[agent])
  BY DEF IdInv, GraphInv
<1>2. ASSUME NEW agent \in Agents, NEW s \in Nat, HasVersion(g, agent, s)
      PROVE  /\ RawToLV(g, agent, s) \in Versions(g)
             /\ LvToRaw(g, RawToLV(g, agent, s)) = <<agent, s>>
  <2>1. PICK v \in Nat : Maps(g.agentToVersion[agent], s, v)
    BY <1>1, <1>2, KnownIsMapped
  <2>2. RawToLV(g, agent, s) = v
    BY <1>1, <2>1, RawByMap
  <2> QED
    BY <1>1, <2>1, <2>2 DEF IdsAgree
<1>3. ASSUME NEW v \in Versions(g), NEW agent \in Agents, NEW s \in Nat,
             LvToRaw(g, v) = <<agent, s>>
      PROVE  HasVersion(g, agent, s) /\ RawToLV(g, agent, s) = v
  <2>1. v \in Nat
    BY <1>1, NextLVType DEF Versions
  <2>2. Maps(g.agentToVersion[agent], s, v)
    BY <1>1, <1>3, <2>1 DEF IdsAgree
  <2> QED
    BY <1>1, <2>1, <2>2, RawByMap
<1> QED
  BY <1>2, <1>3

\* Every version has an identity.
LEMMA RawType ==
  ASSUME NEW g, GraphInv(g), NEW v \in Versions(g)
  PROVE  \E agent \in Agents, s \in Nat : LvToRaw(g, v) = <<agent, s>>
<1>1. g \in CG /\ g.entries \in Seq(Entry) /\ Disjoint(g.entries) /\ Covers(g.entries, NextLV(g))
  BY DEF GraphInv, CG
<1>2. v \in Nat /\ v \in 0 .. (NextLV(g) - 1)
  BY <1>1, NextLVType DEF Versions
<1>3. PICK i \in DOMAIN g.entries : Holds(g.entries, i, v)
  BY <1>1, <1>2 DEF Covers
<1>4. FindEntryContaining(g, v) = g.entries[i]
  BY <1>1, <1>2, <1>3, EntryByVersion
<1>5. g.entries[i] \in Entry
  BY <1>1
<1>6. /\ g.entries[i].agent \in Agents /\ g.entries[i].seq \in Nat
      /\ g.entries[i].version \in Nat /\ g.entries[i].version <= v
  BY <1>3, <1>5 DEF Entry, LV, Holds
<1>7. g.entries[i].seq + (v - g.entries[i].version) \in Nat
  BY <1>2, <1>6
<1> QED
  BY <1>4, <1>6, <1>7 DEF LvToRaw

-----------------------------------------------------------------------------
(* Inserting a run into an agent's list.                                   *)

\* The search of insertRLEList() stops behind the runs that do not start later.
LEMMA PlaceSplits ==
  ASSUME NEW av \in Seq(ClientEntry), NEW seq \in Nat
  PROVE  LET idx == PlaceForRun(av, seq)
         IN  /\ idx \in 0 .. Len(av)
             /\ \A i \in 1 .. idx : av[i].seq <= seq
             /\ idx < Len(av) => av[idx + 1].seq > seq
<1> DEFINE later == {i \in DOMAIN av : av[i].seq > seq}
           idx   == PlaceForRun(av, seq)
<1>1. DOMAIN av = 1 .. Len(av) /\ Len(av) \in Nat
  OBVIOUS
<1>2. \A i \in DOMAIN av : av[i].seq \in Nat
  BY RunFields
<1>3. CASE later = {}
  <2>1. idx = Len(av)
    BY <1>3 DEF PlaceForRun
  <2>2. \A i \in DOMAIN av : ~ (av[i].seq > seq)
    BY <1>3
  <2> QED
    BY <1>1, <1>2, <2>1, <2>2
<1>4. CASE later # {}
  <2> DEFINE first == CHOOSE i \in later : \A j \in later : i <= j
  <2>1. idx = first - 1
    BY <1>4 DEF PlaceForRun
  <2>2. first \in later /\ \A j \in later : first <= j
    <3>1. later \subseteq Nat
      BY <1>1
    <3> HIDE DEF later
    <3>2. \E i \in later : \A j \in later : i <= j
      BY <1>4, <3>1, LeastElement
    <3> QED
      BY <3>2
  <2> HIDE DEF first, idx
  <2>3. first \in 1 .. Len(av) /\ av[first].seq > seq
    BY <1>1, <2>2
  <2>4. ASSUME NEW i \in 1 .. idx PROVE av[i].seq <= seq
    <3>1. i \in DOMAIN av /\ ~ (first <= i)
      BY <1>1, <2>1, <2>3
    <3>2. ~ (av[i].seq > seq)
      BY <2>2, <3>1
    <3> QED
      BY <1>2, <3>1, <3>2
  <2>5. idx \in 0 .. Len(av) /\ av[idx + 1].seq > seq
    BY <1>1, <2>1, <2>3
  <2> QED
    BY <2>4, <2>5 DEF idx
<1> QED
  BY <1>3, <1>4

\* What is left of the place ends before the run, and what is right of it
\* starts after it, when none of the run is in the list.
LEMMA PlaceFits ==
  ASSUME NEW av \in Seq(ClientEntry), RunsApart(av), NEW ce \in ClientEntry, ce.seq < ce.seqEnd,
         NoneEmpty(av), NoneKnown(av, ce)
  PROVE  LET idx == PlaceForRun(av, ce.seq)
         IN  /\ \A i \in 1 .. idx : av[i].seqEnd <= ce.seq
             /\ \A i \in (idx + 1) .. Len(av) : ce.seqEnd <= av[i].seq
<1> DEFINE idx == PlaceForRun(av, ce.seq)
<1>1. DOMAIN av = 1 .. Len(av) /\ Len(av) \in Nat
  OBVIOUS
<1>2. ce.seq \in Nat /\ ce.seqEnd \in Nat
  BY DEF ClientEntry
<1>3. \A i \in DOMAIN av : av[i].seq \in Nat /\ av[i].seqEnd \in Nat
  BY RunFields
<1>4. /\ idx \in 0 .. Len(av)
      /\ \A i \in 1 .. idx : av[i].seq <= ce.seq
      /\ idx < Len(av) => av[idx + 1].seq > ce.seq
  BY <1>2, PlaceSplits
<1> HIDE DEF idx
<1>5. ASSUME NEW i \in 1 .. idx PROVE av[i].seqEnd <= ce.seq
  <2>1. i \in DOMAIN av /\ ce.seq \in ce.seq .. (ce.seqEnd - 1)
    BY <1>1, <1>2, <1>4
  <2>2. ~ InRun(av, i, ce.seq)
    BY <2>1 DEF NoneKnown
  <2> QED
    BY <1>2, <1>3, <1>4, <2>1, <2>2 DEF InRun
<1>6. ASSUME NEW i \in (idx + 1) .. Len(av) PROVE ce.seqEnd <= av[i].seq
  <2>1. i \in DOMAIN av /\ idx + 1 \in DOMAIN av /\ idx < Len(av)
    BY <1>1, <1>4
  <2>2. av[i].seq > ce.seq
    <3>1. CASE i = idx + 1
      BY <1>4, <2>1, <3>1
    <3>2. CASE i # idx + 1
      <4>1. idx + 1 < i
        BY <1>1, <1>4, <3>2
      <4>2. av[idx + 1].seqEnd <= av[i].seq /\ av[idx + 1].seq < av[idx + 1].seqEnd
        BY <2>1, <4>1 DEF RunsApart, NoneEmpty
      <4> QED
        BY <1>2, <1>3, <1>4, <2>1, <4>2
    <3> QED
      BY <3>1, <3>2
  <2>3. ~ (av[i].seq < ce.seqEnd)
    <3> SUFFICES ASSUME av[i].seq < ce.seqEnd PROVE FALSE
      OBVIOUS
    <3>1. av[i].seq \in ce.seq .. (ce.seqEnd - 1)
      BY <1>2, <1>3, <2>1, <2>2
    <3>2. InRun(av, i, av[i].seq)
      BY <1>3, <2>1 DEF InRun, NoneEmpty
    <3> QED
      BY <2>1, <3>1, <3>2 DEF NoneKnown
  <2> QED
    BY <1>2, <1>3, <2>1, <2>3
<1> QED
  BY <1>5, <1>6 DEF idx

\* A run of unknown events goes where it belongs, or extends the run before it;
\* the list then maps what it mapped, and the events of the run.
LEMMA InsertRun ==
  ASSUME NEW av \in Seq(ClientEntry), RunsApart(av), NEW ce \in ClientEntry, ce.seq < ce.seqEnd,
         NoneEmpty(av), NoneKnown(av, ce)
  PROVE  LET new == InsertClientEntry(av, ce)
         IN  /\ RunsApart(new)
             /\ \A s, v \in Nat :
                  Maps(new, s, v) <=>
                    \/ Maps(av, s, v)
                    \/ ce.seq <= s /\ s < ce.seqEnd /\ v = ce.version + (s - ce.seq)
<1> DEFINE idx == PlaceForRun(av, ce.seq)
           t   == Splice(av, idx, ce)
           new == InsertClientEntry(av, ce)
<1>1. DOMAIN av = 1 .. Len(av) /\ Len(av) \in Nat
  OBVIOUS
<1>2. ce.seq \in Nat /\ ce.seqEnd \in Nat /\ ce.version \in Nat
  BY DEF ClientEntry, LV
<1>3. \A i \in DOMAIN av :
        /\ av[i] \in ClientEntry
        /\ av[i].seq \in Nat /\ av[i].seqEnd \in Nat /\ av[i].version \in Nat
  BY RunFields
<1>4. idx \in 0 .. Len(av)
  BY <1>2, PlaceInList
<1>5. /\ \A i \in 1 .. idx : av[i].seqEnd <= ce.seq
      /\ \A i \in (idx + 1) .. Len(av) : ce.seqEnd <= av[i].seq
  BY PlaceFits
<1>6. new = IF idx > 0 /\ CanAppendClientEntry(av[idx], ce)
            THEN [av EXCEPT ![idx].seqEnd = ce.seqEnd]
            ELSE t
  BY DEF InsertClientEntry, Splice
<1> HIDE DEF idx
<1>7. /\ t \in Seq(ClientEntry)
      /\ Len(t) = Len(av) + 1
      /\ \A i \in 1 .. idx : t[i] = av[i]
      /\ t[idx + 1] = ce
      /\ \A i \in (idx + 2) .. (Len(av) + 1) : t[i] = av[i - 1]
  <2>1. t \in Seq(ClientEntry) /\ Len(t) = Len(av) + 1
    BY <1>4, SpliceProperties
  <2>2. \A i \in 1 .. idx : t[i] = av[i]
    BY <1>4, SpliceProperties
  <2>3. t[idx + 1] = ce
    BY <1>4, SpliceProperties
  <2>4. \A i \in (idx + 2) .. (Len(av) + 1) : t[i] = av[i - 1]
    BY <1>4, SpliceProperties
  <2> QED
    BY <2>1, <2>2, <2>3, <2>4
<1> HIDE DEF t, new
<1>8. CASE idx > 0 /\ CanAppendClientEntry(av[idx], ce)
  <2> DEFINE joined == [av[idx] EXCEPT !.seqEnd = ce.seqEnd]
  <2>1. idx \in DOMAIN av
    BY <1>1, <1>4, <1>8
  <2>2. new = [av EXCEPT ![idx] = joined]
    BY <1>6, <1>8, <2>1
  <2>3. /\ joined.seq = av[idx].seq /\ joined.seqEnd = ce.seqEnd
        /\ joined.version = av[idx].version
    BY <1>3, <2>1 DEF ClientEntry
  <2>4. /\ DOMAIN new = DOMAIN av
        /\ \A i \in DOMAIN av : new[i] = IF i = idx THEN joined ELSE av[i]
    BY <2>1, <2>2
  <2>5. /\ ce.seq = av[idx].seqEnd
        /\ ce.version = av[idx].version + (av[idx].seqEnd - av[idx].seq)
        /\ av[idx].seq < av[idx].seqEnd
    BY <1>8, <2>1 DEF CanAppendClientEntry, NoneEmpty
  <2> HIDE DEF joined
  <2>6. RunsApart(new)
    <3> SUFFICES ASSUME NEW i \in DOMAIN av, NEW j \in DOMAIN av, i < j
                 PROVE  new[i].seqEnd <= new[j].seq
      BY <2>4 DEF RunsApart
    <3>1. av[i].seqEnd <= av[j].seq
      BY DEF RunsApart
    <3>2. new[j].seq = av[j].seq
      BY <2>3, <2>4
    <3>3. CASE i = idx
      <4>1. j \in (idx + 1) .. Len(av)
        BY <1>1, <1>4, <3>3
      <4> QED
        BY <1>5, <2>3, <2>4, <3>2, <3>3, <4>1
    <3>4. CASE i # idx
      BY <2>4, <3>1, <3>2, <3>4
    <3> QED
      BY <3>3, <3>4
  <2>7. ASSUME NEW s \in Nat, NEW v \in Nat
        PROVE  Maps(new, s, v) <=>
                 \/ Maps(av, s, v)
                 \/ ce.seq <= s /\ s < ce.seqEnd /\ v = ce.version + (s - ce.seq)
    <3> DEFINE At(list, k) == InRun(list, k, s) /\ v = list[k].version + (s - list[k].seq)
    <3>1. \A k \in DOMAIN av : k # idx => (At(new, k) <=> At(av, k))
      BY <2>4 DEF InRun
    <3>2. At(new, idx) <=>
            \/ At(av, idx)
            \/ ce.seq <= s /\ s < ce.seqEnd /\ v = ce.version + (s - ce.seq)
      <4>1. At(new, idx) <=> /\ av[idx].seq <= s /\ s < ce.seqEnd
                             /\ v = av[idx].version + (s - av[idx].seq)
        BY <2>1, <2>3, <2>4 DEF InRun
      <4>2. At(av, idx) <=> /\ av[idx].seq <= s /\ s < av[idx].seqEnd
                            /\ v = av[idx].version + (s - av[idx].seq)
        BY DEF InRun
      <4>3. /\ av[idx].seq \in Nat /\ av[idx].seqEnd \in Nat /\ av[idx].version \in Nat
        BY <1>3, <2>1
      <4>4. ce.version + (s - ce.seq) = av[idx].version + (s - av[idx].seq)
        <5>1. \A q, e, w \in Nat : (w + (e - q)) + (s - e) = w + (s - q)
          OBVIOUS
        <5>2. ce.version + (s - ce.seq) =
                (av[idx].version + (av[idx].seqEnd - av[idx].seq)) + (s - av[idx].seqEnd)
          BY <2>5, Zenon
        <5> QED
          BY <4>3, <5>1, <5>2
      <4>5. av[idx].seq <= s /\ s < ce.seqEnd <=>
              (av[idx].seq <= s /\ s < av[idx].seqEnd) \/ (ce.seq <= s /\ s < ce.seqEnd)
        BY <1>2, <2>5, <4>3
      <4> HIDE DEF At
      <4> QED
        BY <4>1, <4>2, <4>4, <4>5
    <3>3. Maps(new, s, v) <=> \E k \in DOMAIN av : At(new, k)
      BY <2>4 DEF Maps
    <3>4. Maps(av, s, v) <=> \E k \in DOMAIN av : At(av, k)
      BY DEF Maps
    <3> HIDE DEF At
    <3> QED
      BY <2>1, <3>1, <3>2, <3>3, <3>4
  <2> QED
    BY <2>6, <2>7 DEF new
<1>9. CASE ~ (idx > 0 /\ CanAppendClientEntry(av[idx], ce))
  <2>1. new = t
    BY <1>6, <1>9
  <2>2. DOMAIN t = 1 .. (Len(av) + 1)
    BY <1>7
  <2>3. \A i \in DOMAIN t :
          \/ i \in 1 .. idx /\ i \in DOMAIN av /\ t[i] = av[i]
          \/ i = idx + 1 /\ t[i] = ce
          \/ i \in (idx + 2) .. (Len(av) + 1) /\ i - 1 \in DOMAIN av /\ t[i] = av[i - 1]
    <3> SUFFICES ASSUME NEW i \in DOMAIN t
                 PROVE  \/ i \in 1 .. idx /\ i \in DOMAIN av /\ t[i] = av[i]
                        \/ i = idx + 1 /\ t[i] = ce
                        \/ i \in (idx + 2) .. (Len(av) + 1) /\ i - 1 \in DOMAIN av /\ t[i] = av[i - 1]
      OBVIOUS
    <3>1. i \in 1 .. idx \/ i = idx + 1 \/ i \in (idx + 2) .. (Len(av) + 1)
      BY <1>1, <1>4, <2>2
    <3> QED
      BY <1>1, <1>4, <1>7, <3>1
  <2>4. RunsApart(t)
    <3> SUFFICES ASSUME NEW i \in DOMAIN t, NEW j \in DOMAIN t, i < j
                 PROVE  t[i].seqEnd <= t[j].seq
      BY DEF RunsApart
    <3>1. CASE i \in 1 .. idx /\ t[i] = av[i]
      <4>1. CASE j \in 1 .. idx /\ j \in DOMAIN av /\ t[j] = av[j]
        BY <1>1, <1>4, <3>1, <4>1 DEF RunsApart
      <4>2. CASE j = idx + 1 /\ t[j] = ce
        BY <1>5, <3>1, <4>2
      <4>3. CASE j \in (idx + 2) .. (Len(av) + 1) /\ j - 1 \in DOMAIN av /\ t[j] = av[j - 1]
        <5>1. i \in DOMAIN av /\ i < j - 1
          BY <1>1, <1>4, <3>1, <4>3
        <5> QED
          BY <3>1, <4>3, <5>1 DEF RunsApart
      <4> QED
        BY <2>3, <4>1, <4>2, <4>3
    <3>2. CASE i = idx + 1 /\ t[i] = ce
      <4>1. j \in (idx + 2) .. (Len(av) + 1)
        BY <1>1, <1>4, <2>2, <3>2
      <4>2. j - 1 \in (idx + 1) .. Len(av) /\ t[j] = av[j - 1]
        BY <1>1, <1>4, <1>7, <4>1
      <4> QED
        BY <1>5, <3>2, <4>2
    <3>3. CASE i \in (idx + 2) .. (Len(av) + 1) /\ i - 1 \in DOMAIN av /\ t[i] = av[i - 1]
      <4>1. j \in (idx + 2) .. (Len(av) + 1)
        BY <1>1, <1>4, <2>2, <3>3
      <4>2. j - 1 \in DOMAIN av /\ t[j] = av[j - 1] /\ i - 1 < j - 1
        BY <1>1, <1>4, <1>7, <3>3, <4>1
      <4> QED
        BY <3>3, <4>2 DEF RunsApart
    <3> QED
      BY <2>3, <3>1, <3>2, <3>3
  <2>5. ASSUME NEW s \in Nat, NEW v \in Nat
        PROVE  Maps(t, s, v) <=>
                 \/ Maps(av, s, v)
                 \/ ce.seq <= s /\ s < ce.seqEnd /\ v = ce.version + (s - ce.seq)
    <3> DEFINE Says(run) == run.seq <= s /\ s < run.seqEnd /\ v = run.version + (s - run.seq)
    <3>1. Maps(t, s, v) <=> \E k \in DOMAIN t : Says(t[k])
      BY DEF Maps, InRun
    <3>2. Maps(av, s, v) <=> \E k \in DOMAIN av : Says(av[k])
      BY DEF Maps, InRun
    <3>3. Says(ce) <=> ce.seq <= s /\ s < ce.seqEnd /\ v = ce.version + (s - ce.seq)
      OBVIOUS
    <3> HIDE DEF Says
    <3>4. \A k \in DOMAIN av : \E i \in DOMAIN t : t[i] = av[k]
      <4> SUFFICES ASSUME NEW k \in DOMAIN av PROVE \E i \in DOMAIN t : t[i] = av[k]
        OBVIOUS
      <4>1. CASE k \in 1 .. idx
        BY <1>1, <1>7, <2>2, <4>1
      <4>2. CASE k \notin 1 .. idx
        <5>1. k + 1 \in (idx + 2) .. (Len(av) + 1) /\ k + 1 \in DOMAIN t /\ (k + 1) - 1 = k
          BY <1>1, <1>4, <2>2, <4>2
        <5>2. t[k + 1] = av[k]
          BY <1>7, <5>1
        <5> QED
          BY <5>1, <5>2
      <4> QED
        BY <4>1, <4>2
    <3>5. idx + 1 \in DOMAIN t
      BY <1>1, <1>4, <2>2
    <3>6. \A i \in DOMAIN t : t[i] = ce \/ \E k \in DOMAIN av : t[i] = av[k]
      BY <2>3
    <3> QED
      BY <1>7, <3>1, <3>2, <3>3, <3>4, <3>5, <3>6
  <2> QED
    BY <2>1, <2>4, <2>5 DEF new
<1> QED
  BY <1>8, <1>9

-----------------------------------------------------------------------------
(* Adding a run to the graph.                                              *)

\* The events of the run get the identities of the run, in order.
LEMMA RawOfNewEvents ==
  ASSUME NEW g, GraphInv(g), NEW e, Insertable(g, e), NEW v \in e.version .. (e.vEnd - 1)
  PROVE  LvToRaw(InsertEntry(g, e), v) = <<e.agent, e.seq + (v - e.version)>>
<1> DEFINE new  == InsertEntry(g, e)
           list == PushEntry(g.entries, e)
           n    == Len(list)
<1>1. /\ g \in CG /\ Ordered(g.entries) /\ Disjoint(g.entries) /\ Covers(g.entries, NextLV(g))
  BY DEF GraphInv
<1>2. e \in Entry /\ e.version \in Nat /\ e.vEnd \in Nat /\ e.seq \in Nat
  BY DEF Insertable, Entry, LV
<1>3. new.entries = list /\ list \in Seq(Entry) /\ list # <<>>
  BY <1>1, <1>2, PushEntryShape DEF InsertEntry
<1>4. Disjoint(list)
  BY <1>1, PushEntryKeepsOrder
<1>5. Holds(list, n, v)
  BY <1>1, PushEntryKeepsOrder
<1>6. list[n].agent = e.agent /\ list[n].seq + (e.version - list[n].version) = e.seq
  BY <1>1, PushEntryKeepsOrder
<1> HIDE DEF list
<1>7. n \in DOMAIN list /\ v \in Nat
  BY <1>2, <1>3
<1>8. list[n].version \in Nat /\ list[n].seq \in Nat
  <2>1. list[n] \in Entry
    BY <1>3, <1>7
  <2> QED
    BY <2>1 DEF Entry, LV
<1>9. FindEntryContaining(new, v) = list[n]
  BY <1>3, <1>4, <1>5, <1>7, EntryByVersion
<1> HIDE DEF new, n
<1>10. LvToRaw(new, v) = <<list[n].agent, list[n].seq + (v - list[n].version)>>
  BY <1>9 DEF LvToRaw
<1>11. list[n].seq + (v - list[n].version) = e.seq + (v - e.version)
  BY <1>2, <1>6, <1>7, <1>8
<1> QED
  BY <1>6, <1>10, <1>11 DEF new

\* A run of unknown events keeps both indexes inverse to each other.
LEMMA InsertKeepsIds ==
  ASSUME NEW g, IdInv(g), NEW e, Insertable(g, e), Fresh(g, e)
  PROVE  IdInv(InsertEntry(g, e))
<1> DEFINE new == InsertEntry(g, e)
           av  == g.agentToVersion[e.agent]
           ce  == [seq |-> e.seq, seqEnd |-> e.seq + (e.vEnd - e.version), version |-> e.version]
           n   == NextLV(g)
           m   == e.vEnd
<1>1. GraphInv(g) /\ IdsAgree(g) /\ \A agent \in Agents : RunsApart(g.agentToVersion[agent])
  BY DEF IdInv
<1>2. /\ e \in Entry /\ e.agent \in Agents /\ e.seq \in Nat /\ e.version = n
      /\ n \in Nat /\ m \in Nat /\ n < m /\ NextLV(new) = m
  <2>1. e \in Entry
    BY DEF Insertable
  <2>2. e.agent \in Agents /\ e.seq \in Nat
    BY <2>1 DEF Entry
  <2>3. e.version = n
    BY DEF Insertable
  <2> QED
    BY <1>1, <2>1, <2>2, <2>3, InsertExtends
<1>3. g.agentToVersion \in [Agents -> Seq(ClientEntry)] /\ RunsWithin(av, n)
  BY <1>1, <1>2 DEF GraphInv, CG
<1>4. new.agentToVersion = [g.agentToVersion EXCEPT ![e.agent] = InsertClientEntry(av, ce)]
  BY DEF InsertEntry
<1>5. /\ new.agentToVersion[e.agent] = InsertClientEntry(av, ce)
      /\ \A agent \in Agents : agent # e.agent => new.agentToVersion[agent] = g.agentToVersion[agent]
  BY <1>2, <1>3, <1>4
<1>6. \A v \in Versions(g) : LvToRaw(new, v) = LvToRaw(g, v)
  BY <1>1, OldEventsStay
<1>7. \A v \in n .. (m - 1) : LvToRaw(new, v) = <<e.agent, e.seq + (v - n)>>
  BY <1>1, <1>2, RawOfNewEvents
<1>8. Versions(g) = 0 .. (n - 1) /\ Versions(new) = 0 .. (m - 1)
  BY <1>2 DEF Versions
<1>9. GraphInv(new)
  BY <1>1, InsertKeepsInv
<1>10. /\ ce \in ClientEntry /\ ce.seq < ce.seqEnd
       /\ ce.seq = e.seq /\ ce.seqEnd = e.seq + (m - n) /\ ce.version = n
  <2>1. e.seq + (m - n) \in Nat /\ e.seq < e.seq + (m - n)
    BY <1>2
  <2> QED
    BY <1>2, <2>1 DEF ClientEntry, LV
<1>11. av \in Seq(ClientEntry) /\ RunsApart(av) /\ NoneEmpty(av)
  BY <1>1, <1>2, <1>3 DEF RunsWithin, NoneEmpty
<1>12. NoneKnown(av, ce)
  <2> SUFFICES ASSUME NEW s \in ce.seq .. (ce.seqEnd - 1), NEW k \in DOMAIN av, InRun(av, k, s)
               PROVE  FALSE
    BY DEF NoneKnown
  <2>1. s \in e.seq .. (e.seq + (e.vEnd - e.version) - 1)
    BY <1>2, <1>10
  <2>2. ~ HasVersion(g, e.agent, s)
    BY <2>1 DEF Fresh
  <2> QED
    BY <1>2, <2>2, KnownIsInRun
<1> HIDE DEF av, ce, new, n, m
<1>13. /\ RunsApart(new.agentToVersion[e.agent])
       /\ \A s, v \in Nat : Maps(new.agentToVersion[e.agent], s, v) <=>
            \/ Maps(av, s, v)
            \/ ce.seq <= s /\ s < ce.seqEnd /\ v = ce.version + (s - ce.seq)
  BY <1>5, <1>10, <1>11, <1>12, InsertRun
<1>14. \A agent \in Agents : RunsApart(new.agentToVersion[agent])
  BY <1>1, <1>5, <1>13
<1>15. ASSUME NEW agent \in Agents, NEW s \in Nat, NEW v \in Nat
       PROVE  Maps(new.agentToVersion[agent], s, v) <=>
                v \in Versions(new) /\ LvToRaw(new, v) = <<agent, s>>
  <2>1. Maps(g.agentToVersion[agent], s, v) <=> v \in Versions(g) /\ LvToRaw(g, v) = <<agent, s>>
    BY <1>1 DEF IdsAgree
  <2>2. v \in Versions(new) <=> v \in Versions(g) \/ v \in n .. (m - 1)
    BY <1>2, <1>8
  <2>3. ~ (v \in Versions(g) /\ v \in n .. (m - 1))
    BY <1>2, <1>8
  <2>4. CASE agent # e.agent
    <3>1. v \in n .. (m - 1) => LvToRaw(new, v) # <<agent, s>>
      BY <1>7, <2>4
    <3> QED
      BY <1>5, <1>6, <2>1, <2>2, <2>4, <3>1
  <2>5. CASE agent = e.agent
    <3>1. v \in n .. (m - 1) /\ LvToRaw(new, v) = <<agent, s>> <=>
            ce.seq <= s /\ s < ce.seqEnd /\ v = ce.version + (s - ce.seq)
      <4>1. v \in n .. (m - 1) => (LvToRaw(new, v) = <<agent, s>> <=> s = e.seq + (v - n))
        BY <1>7, <2>5
      <4>2. v \in n .. (m - 1) /\ s = e.seq + (v - n) <=>
              e.seq <= s /\ s < e.seq + (m - n) /\ v = n + (s - e.seq)
        BY <1>2
      <4> QED
        BY <1>10, <4>1, <4>2
    <3>2. Maps(new.agentToVersion[agent], s, v) <=>
            \/ Maps(av, s, v)
            \/ ce.seq <= s /\ s < ce.seqEnd /\ v = ce.version + (s - ce.seq)
      BY <1>13, <2>5
    <3>3. Maps(av, s, v) <=> v \in Versions(g) /\ LvToRaw(new, v) = <<agent, s>>
      BY <1>6, <2>1, <2>5 DEF av
    <3> QED
      BY <2>2, <2>3, <3>1, <3>2, <3>3
  <2> QED
    BY <2>4, <2>5
<1>16. IdsAgree(new)
  BY <1>15 DEF IdsAgree
<1>17. IdInv(new)
  BY <1>9, <1>14, <1>16 DEF IdInv
<1> QED
  BY <1>17 DEF new

-----------------------------------------------------------------------------
(* The part of a span that add() inserts.                                  *)

\* The events of the span that are known come before those that are not.
KnownFirst(g, agent, seqStart, seqEnd) ==
  \A s \in (seqStart + 1) .. (seqEnd - 1) : HasVersion(g, agent, s) => HasVersion(g, agent, s - 1)

\* From the first unknown event of such a span on, none is known; before it,
\* all are.
LEMMA FirstUnknownSplits ==
  ASSUME NEW g, NEW agent, NEW seqStart \in Nat, NEW seqEnd \in Nat, seqStart < seqEnd,
         KnownFirst(g, agent, seqStart, seqEnd), UnknownSeqs(g, agent, seqStart, seqEnd) # {}
  PROVE  LET start == FirstUnknown(g, agent, seqStart, seqEnd)
         IN  /\ start \in seqStart .. (seqEnd - 1)
             /\ \A s \in seqStart .. (start - 1) : HasVersion(g, agent, s)
             /\ \A s \in start .. (seqEnd - 1) : ~ HasVersion(g, agent, s)
<1> DEFINE start == FirstUnknown(g, agent, seqStart, seqEnd)
           known == {s \in start .. (seqEnd - 1) : HasVersion(g, agent, s)}
<1>1. start \in UnknownSeqs(g, agent, seqStart, seqEnd)
  BY FirstUnknownIsLeast
<1>2. \A t \in UnknownSeqs(g, agent, seqStart, seqEnd) : start <= t
  BY FirstUnknownIsLeast
<1> HIDE DEF start
<1>3. start \in seqStart .. (seqEnd - 1) /\ ~ HasVersion(g, agent, start)
  BY <1>1 DEF UnknownSeqs
<1>4. ASSUME NEW s \in seqStart .. (start - 1), ~ HasVersion(g, agent, s)
      PROVE  FALSE
  <2>1. s \in UnknownSeqs(g, agent, seqStart, seqEnd)
    BY <1>3, <1>4 DEF UnknownSeqs
  <2> QED
    BY <1>2, <1>3, <2>1
<1>5. known = {}
  <2> SUFFICES ASSUME known # {} PROVE FALSE
    OBVIOUS
  <2>1. known \subseteq Nat
    BY <1>3
  <2> HIDE DEF known
  <2>2. PICK s \in known : \A t \in known : s <= t
    BY <2>1, LeastElement
  <2>3. s \in start .. (seqEnd - 1) /\ HasVersion(g, agent, s)
    BY <2>2 DEF known
  <2>4. s # start
    BY <1>3, <2>3
  <2>5. s \in (seqStart + 1) .. (seqEnd - 1) /\ s - 1 \in start .. (seqEnd - 1) /\ ~ (s <= s - 1)
    BY <1>3, <2>3, <2>4
  <2>6. HasVersion(g, agent, s - 1)
    BY <2>3, <2>5 DEF KnownFirst
  <2>7. s - 1 \in known
    BY <2>5, <2>6 DEF known
  <2> QED
    BY <2>2, <2>5, <2>7
<1> QED
  BY <1>3, <1>4, <1>5 DEF start

\* What add() inserts of such a span is unknown.
LEMMA NewEntryFresh ==
  ASSUME NEW g \in CG, NEW agent, NEW seqStart \in Nat, NEW seqEnd \in Nat, seqStart < seqEnd,
         KnownFirst(g, agent, seqStart, seqEnd), NEW parents,
         UnknownSeqs(g, agent, seqStart, seqEnd) # {}
  PROVE  Fresh(g, NewEntry(g, agent, seqStart, seqEnd, parents))
<1> DEFINE start == FirstUnknown(g, agent, seqStart, seqEnd)
           e     == NewEntry(g, agent, seqStart, seqEnd, parents)
<1>1. start \in seqStart .. (seqEnd - 1) /\ \A s \in start .. (seqEnd - 1) : ~ HasVersion(g, agent, s)
  BY FirstUnknownSplits
<1>2. /\ e.agent = agent /\ e.seq = start
      /\ e.version = NextLV(g) /\ e.vEnd = NextLV(g) + (seqEnd - start)
  BY DEF NewEntry
<1>3. NextLV(g) \in Nat
  BY NextLVType
<1> HIDE DEF start, e
<1>4. e.seq + (e.vEnd - e.version) - 1 = seqEnd - 1
  BY <1>1, <1>2, <1>3
<1> QED
  BY <1>1, <1>2, <1>4 DEF Fresh, e

\* Past an agent's last sequence number nothing is known.
LEMMA NothingAfterLast ==
  ASSUME NEW g, IdInv(g), NEW agent \in Agents, NEW s \in Nat, s >= NextSeqForAgent(g, agent)
  PROVE  ~ HasVersion(g, agent, s)
<1> DEFINE av == g.agentToVersion[agent]
           n  == Len(av)
<1> SUFFICES ASSUME HasVersion(g, agent, s) PROVE FALSE
  OBVIOUS
<1>1. av \in Seq(ClientEntry) /\ RunsApart(av) /\ RunsWithin(av, NextLV(g))
  BY DEF IdInv, GraphInv, CG
<1>2. PICK k \in DOMAIN av : InRun(av, k, s)
  BY KnownIsInRun
<1>3. n \in DOMAIN av /\ k <= n /\ av # <<>>
  BY <1>1
<1>4. NextSeqForAgent(g, agent) = av[n].seqEnd
  BY <1>3 DEF NextSeqForAgent, LastOf
<1>5. /\ av[k].seqEnd \in Nat /\ av[n].seqEnd \in Nat /\ av[n].seq \in Nat
      /\ av[n].seq < av[n].seqEnd
  BY <1>1, <1>3, RunFields DEF RunsWithin
<1>6. av[k].seqEnd <= av[n].seqEnd
  <2>1. CASE k = n
    BY <1>5, <2>1
  <2>2. CASE k # n
    <3>1. k < n
      BY <1>1, <1>3, <2>2
    <3>2. av[k].seqEnd <= av[n].seq
      BY <1>1, <1>3, <3>1 DEF RunsApart
    <3> QED
      BY <1>5, <3>2
  <2> QED
    BY <2>1, <2>2
<1> QED
  BY <1>2, <1>4, <1>5, <1>6 DEF InRun

\* An agent's next sequence number is a number.
LEMMA NextSeqType ==
  ASSUME NEW g, g \in CG, NEW agent \in Agents
  PROVE  NextSeqForAgent(g, agent) \in Nat
<1> DEFINE av == g.agentToVersion[agent]
<1>1. av \in Seq(ClientEntry)
  BY DEF CG
<1>2. CASE av = <<>>
  BY <1>2 DEF NextSeqForAgent
<1>3. CASE av # <<>>
  <2>1. Len(av) \in DOMAIN av
    BY <1>1, <1>3
  <2>2. av[Len(av)].seqEnd \in Nat
    BY <1>1, <2>1, RunFields
  <2> QED
    BY <1>3, <2>2 DEF NextSeqForAgent, LastOf
<1> QED
  BY <1>2, <1>3

\* A span on known parents, of which a prefix is known, changes nothing or
\* inserts a run of unknown events.
LEMMA SpanInsertsFresh ==
  ASSUME NEW g, IdInv(g), NEW agent \in Agents, NEW seq \in Nat, NEW len \in Nat \ {0},
         NEW parents \in SUBSET Versions(g), KnownFirst(g, agent, seq, seq + len)
  PROVE  LET e == NewEntry(g, agent, seq, seq + len, parents)
         IN  \/ /\ UnknownSeqs(g, agent, seq, seq + len) = {}
                /\ Add(g, agent, seq, seq + len, parents) = g
             \/ /\ UnknownSeqs(g, agent, seq, seq + len) # {}
                /\ Insertable(g, e) /\ Fresh(g, e)
                /\ Add(g, agent, seq, seq + len, parents) = InsertEntry(g, e)
<1>1. /\ g \in CG /\ \A a \in Agents : RunsWithin(g.agentToVersion[a], NextLV(g))
  BY DEF IdInv, GraphInv
<1>2. seq + len \in Nat /\ seq < seq + len
  OBVIOUS
<1>3. CASE UnknownSeqs(g, agent, seq, seq + len) = {}
  BY <1>3 DEF Add
<1>4. CASE UnknownSeqs(g, agent, seq, seq + len) # {}
  <2>1. Insertable(g, NewEntry(g, agent, seq, seq + len, parents))
    BY <1>1, <1>2, <1>4, NewEntryInsertable
  <2>2. Fresh(g, NewEntry(g, agent, seq, seq + len, parents))
    BY <1>1, <1>2, <1>4, NewEntryFresh
  <2> QED
    BY <1>4, <2>1, <2>2 DEF Add
<1> QED
  BY <1>3, <1>4

\* So the indexes agree when such a span was added.
LEMMA SpanKeepsIds ==
  ASSUME NEW g, IdInv(g), NEW agent \in Agents, NEW seq \in Nat, NEW len \in Nat \ {0},
         NEW parents \in SUBSET Versions(g), KnownFirst(g, agent, seq, seq + len)
  PROVE  IdInv(Add(g, agent, seq, seq + len, parents))
<1> DEFINE e == NewEntry(g, agent, seq, seq + len, parents)
<1>1. CASE Add(g, agent, seq, seq + len, parents) = g
  BY <1>1
<1>2. CASE /\ Insertable(g, e) /\ Fresh(g, e)
           /\ Add(g, agent, seq, seq + len, parents) = InsertEntry(g, e)
  <2> HIDE DEF e
  <2>1. IdInv(InsertEntry(g, e))
    BY <1>2, InsertKeepsIds
  <2> QED
    BY <1>2, <2>1
<1> QED
  BY <1>1, <1>2, SpanInsertsFresh

\* The empty graph.
LEMMA EmptyIds == IdInv(EmptyCG)
<1> DEFINE g == EmptyCG
<1>1. GraphInv(g)
  BY EmptyGraphInv
<1>2. g.entries = <<>> /\ g.agentToVersion = [a \in Agents |-> <<>>]
  BY DEF EmptyCG
<1>3. Versions(g) = {}
  BY <1>2 DEF Versions, NextLV
<1> HIDE DEF g
<1>4. \A agent \in Agents : RunsApart(g.agentToVersion[agent])
  BY <1>2 DEF RunsApart
<1>5. IdsAgree(g)
  BY <1>2, <1>3 DEF IdsAgree, Maps
<1>6. IdInv(g)
  BY <1>1, <1>4, <1>5 DEF IdInv
<1> QED
  BY <1>6 DEF g

-----------------------------------------------------------------------------
(* The queries.                                                            *)

ParentsIn(g) == [v \in Versions(g) |-> ParentsOf(g, v)]

\* The parents of the graph's versions are a topological order.
LEMMA GraphIsTopological ==
  ASSUME NEW g, GraphInv(g)
  PROVE  Topological(ParentsIn(g), NextLV(g)) /\ Versions(g) = 0 .. (NextLV(g) - 1)
<1>1. NextLV(g) \in Nat /\ Versions(g) = 0 .. (NextLV(g) - 1)
  BY NextLVType DEF GraphInv, Versions
<1>2. ASSUME NEW v \in Versions(g)
      PROVE  ParentsIn(g)[v] \subseteq 0 .. (v - 1)
  <2>1. ParentsOf(g, v) \subseteq Versions(g) /\ \A p \in ParentsOf(g, v) : p < v
    BY ParentsAreVersions
  <2> QED
    BY <1>1, <2>1 DEF ParentsIn
<1> QED
  BY <1>1, <1>2 DEF Topological, ParentsIn

\* Every version has an entry, which the search finds; inside it the parent of
\* a version is the one before it.
LEMMA EntryOfVersion ==
  ASSUME NEW g, GraphInv(g), NEW v \in Versions(g)
  PROVE  LET e == FindEntryContaining(g, v)
         IN  /\ e \in Entry
             /\ e.version \in Nat /\ e.vEnd \in Nat
             /\ e.version <= v /\ v < e.vEnd
             /\ e.parents \subseteq Versions(g)
             /\ \A p \in e.parents : p < e.version
             /\ \A w \in e.version .. v :
                  /\ w \in Versions(g) /\ FindEntryContaining(g, w) = e
                  /\ ParentsOf(g, w) = IF w = e.version THEN e.parents ELSE {w - 1}
<1>1. /\ g \in CG /\ g.entries \in Seq(Entry) /\ Ordered(g.entries) /\ Disjoint(g.entries)
      /\ Covers(g.entries, NextLV(g)) /\ NextLV(g) \in Nat
  BY NextLVType DEF GraphInv, CG
<1>2. v \in Nat /\ v \in 0 .. (NextLV(g) - 1)
  BY <1>1 DEF Versions
<1>3. PICK i \in DOMAIN g.entries : Holds(g.entries, i, v)
  BY <1>1, <1>2 DEF Covers
<1> DEFINE e == g.entries[i]
<1>4. FindEntryContaining(g, v) = e
  BY <1>1, <1>2, <1>3, EntryByVersion
<1>5. /\ e \in Entry /\ e.version \in Nat /\ e.vEnd \in Nat /\ e.parents \subseteq Nat
      /\ e.version <= v /\ v < e.vEnd
      /\ \A p \in e.parents : p < e.version
  BY <1>1, <1>3, EntryFields DEF Holds, Ordered
<1>6. ASSUME NEW w \in e.version .. v
      PROVE  /\ w \in Versions(g) /\ FindEntryContaining(g, w) = e
             /\ ParentsOf(g, w) = IF w = e.version THEN e.parents ELSE {w - 1}
  <2>1. w \in Nat /\ Holds(g.entries, i, w)
    BY <1>2, <1>5 DEF Holds
  <2>2. FindEntryContaining(g, w) = e
    BY <1>1, <2>1, EntryByVersion
  <2>3. w \in Versions(g)
    BY <1>1, <1>2, <1>5 DEF Versions
  <2> QED
    BY <2>2, <2>3 DEF ParentsOf
<1>7. e.parents \subseteq Versions(g)
  BY <1>1, <1>2, <1>5 DEF Versions
<1> HIDE DEF e
<1> QED
  BY <1>4, <1>5, <1>6, <1>7

\* The highest of some versions.
LEMMA HighestProperties ==
  ASSUME NEW S, NEW n \in Nat, S \subseteq 0 .. (n - 1), S # {}
  PROVE  Highest(S) \in S /\ \A v \in S : v <= Highest(S)
<1>1. S \subseteq Nat /\ \A v \in S : v <= n
  OBVIOUS
<1>2. \E v \in S : \A w \in S : w <= v
  BY <1>1, GreatestElement
<1> QED
  BY <1>2 DEF Highest

-----------------------------------------------------------------------------
(* versionContainsLV()                                                     *)

\* The queue that follows: the runs below the highest one, and its parents.
Below(g, target, q) ==
  LET e == FindEntryContaining(g, Highest(q))
  IN  {w \in q : w < e.version} \cup {p \in e.parents : p > target}

\* One iteration decides, or passes the question on to the next queue.
LEMMA ContainmentStep ==
  ASSUME NEW g, GraphInv(g), NEW target \in Versions(g), NEW q \in SUBSET Versions(g), q # {}
  PROVE  LET e == FindEntryContaining(g, Highest(q))
         IN  Leads(Histories(g), target, q) <=> \/ e.version <= target
                                                \/ target \in e.parents
                                                \/ Leads(Histories(g), target, Below(g, target, q))
<1> DEFINE m == Highest(q)
           e == FindEntryContaining(g, m)
           h == Histories(g)
           n == NextLV(g)
           par == ParentsIn(g)
<1>1. Topological(par, n) /\ n \in Nat /\ Versions(g) = 0 .. (n - 1) /\ target \in Nat
      /\ h = HistoriesOf(par, n)
  BY GraphIsTopological, NextLVType DEF GraphInv, Versions, Histories, ParentsIn
<1>2. m \in q /\ m \in Versions(g) /\ m \in Nat /\ \A v \in q : v <= m
  <2>1. q \subseteq 0 .. (n - 1)
    BY <1>1
  <2>2. m \in q /\ \A v \in q : v <= m
    BY <1>1, <2>1, HighestProperties
  <2> HIDE DEF m
  <2> QED
    BY <1>1, <2>1, <2>2
<1>3. Below(g, target, q) = {w \in q : w < e.version} \cup {p \in e.parents : p > target}
  BY DEF Below
<1> HIDE DEF m, n
<1>4. e.version \in 0 .. m /\ par[e.version] = e.parents
      /\ \A w \in (e.version + 1) .. m : par[w] = {w - 1}
  <2>1. /\ e.version \in Nat /\ e.version <= m
        /\ \A w \in e.version .. m : /\ w \in Versions(g)
                                     /\ ParentsOf(g, w) = IF w = e.version THEN e.parents ELSE {w - 1}
    BY <1>2, EntryOfVersion
  <2> HIDE DEF e
  <2>2. \A w \in Versions(g) : par[w] = ParentsOf(g, w)
    BY DEF ParentsIn
  <2>3. e.version \in e.version .. m /\ \A w \in (e.version + 1) .. m : w \in e.version .. m /\ w # e.version
    BY <1>2, <2>1
  <2> QED
    BY <1>2, <2>1, <2>2, <2>3
<1> HIDE DEF e, par
<1>5. CASE e.version <= target
  <2>1. m <= target \/ target \in h[m]
    <3>1. CASE target \in e.version .. m
      <4> DEFINE s == e.version
      <4>1. s \in 0 .. m /\ (\A w \in (s + 1) .. m : par[w] = {w - 1}) /\ m \in 0 .. (n - 1)
        BY <1>1, <1>2, <1>4
      <4> HIDE DEF s, h
      <4>2. target \in HistoriesOf(par, n)[m] <=> target \in s .. m \/ \E p \in par[s] : target \in HistoriesOf(par, n)[p]
        BY <1>1, <4>1, RunHistory
      <4> QED
        BY <1>1, <3>1, <4>2 DEF s
    <3>2. CASE target \notin e.version .. m
      BY <1>1, <1>2, <1>4, <1>5, <3>2
    <3> QED
      BY <3>1, <3>2
  <2> HIDE DEF h
  <2> QED
    BY <1>2, <1>5, <2>1 DEF Leads, e, m, h
<1>6. CASE ~ (e.version <= target)
  <2>1. target \in 0 .. (n - 1) /\ q \in SUBSET (0 .. (n - 1)) /\ target < e.version
    BY <1>1, <1>4, <1>6
  <2> HIDE DEF h
  <2>2. Leads(HistoriesOf(par, n), target, q) <=>
               \/ target \in par[e.version]
               \/ Leads(HistoriesOf(par, n), target, {w \in q : w < e.version} \cup {p \in par[e.version] : p > target})
    BY <1>1, <1>2, <1>4, <2>1, LeadsBelow
  <2> QED
    BY <1>1, <1>3, <1>4, <1>6, <2>2 DEF e, m, h
<1> QED
  BY <1>5, <1>6

\* The next queue is a queue, and lower.
LEMMA ContainmentDescends ==
  ASSUME NEW g, GraphInv(g), NEW target \in Versions(g), NEW q \in SUBSET Versions(g), q # {}
  PROVE  /\ Below(g, target, q) \in SUBSET Versions(g)
         /\ Below(g, target, q) # {} => Highest(Below(g, target, q)) < Highest(q)
         /\ Highest(q) \in Nat
<1> DEFINE m == Highest(q)
           e == FindEntryContaining(g, m)
           r == Below(g, target, q)
<1>1. NextLV(g) \in Nat /\ Versions(g) = 0 .. (NextLV(g) - 1)
  BY NextLVType DEF GraphInv, Versions
<1>2. m \in Versions(g) /\ m \in Nat
  <2>1. q \subseteq 0 .. (NextLV(g) - 1)
    BY <1>1
  <2>2. m \in q
    BY <1>1, <2>1, HighestProperties
  <2> HIDE DEF m
  <2> QED
    BY <1>1, <2>1, <2>2
<1>3. r = {w \in q : w < e.version} \cup {p \in e.parents : p > target}
  BY DEF Below
<1> HIDE DEF m, r
<1>4. /\ e.version \in Nat /\ e.version <= m /\ e.parents \subseteq Versions(g)
      /\ \A p \in e.parents : p < e.version
  BY <1>2, EntryOfVersion
<1> HIDE DEF e
<1>5. r \subseteq Versions(g) /\ \A w \in r : w < e.version
  BY <1>3, <1>4
<1>6. ASSUME r # {} PROVE Highest(r) < m
  <2>1. r \subseteq 0 .. (NextLV(g) - 1)
    BY <1>1, <1>5
  <2>2. Highest(r) \in r
    BY <1>1, <2>1, <1>6, HighestProperties
  <2>3. Highest(r) \in Nat /\ Highest(r) < e.version
    <3>1. \A w \in 0 .. (NextLV(g) - 1) : w \in Nat
      BY <1>1
    <3> QED
      BY <1>5, <2>1, <2>2, <3>1, Zenon
  <2> QED
    BY <1>2, <1>4, <2>3
<1> QED
  BY <1>2, <1>5, <1>6 DEF m, r

\* The query answers what the history says, of any versions asked about.
LEMMA ContainmentOfGraph ==
  ASSUME NEW g, GraphInv(g), NEW f \in SUBSET Versions(g), NEW target \in Versions(g)
  PROVE  VersionContainsLV(g, f, target) <=> target \in EventsOf(Histories(g), f)
<1> DEFINE Q          == SUBSET Versions(g)
           Next1(c, q) == /\ q # {}
                          /\ LET e == FindEntryContaining(g, Highest(q))
                             IN  \/ e.version <= target
                                 \/ target \in e.parents
                                 \/ c[{w \in q : w < e.version} \cup {p \in e.parents : p > target}]
           Loop(c)    == c = [q \in Q |-> Next1(c, q)]
           leads      == [q \in Q |-> Leads(Histories(g), target, q)]
           stop       == [q \in Q |-> LET e == FindEntryContaining(g, Highest(q))
                                      IN  e.version <= target \/ target \in e.parents]
           below      == [q \in Q |-> Below(g, target, q)]
           height     == [q \in Q |-> Highest(q)]
           loop       == CHOOSE c : Loop(c)
           above      == {v \in f : v > target}
<1>1. VersionContainsLV(g, f, target) <=> target \in f \/ loop[above]
  BY DEF VersionContainsLV
<1>2. \A c : \A q \in Q : Next1(c, q) <=> q # {} /\ (stop[q] \/ c[below[q]])
  BY DEF Below
<1>3. \A q \in Q : leads[q] <=> q # {} /\ (stop[q] \/ leads[below[q]])
  <2> SUFFICES ASSUME NEW q \in Q PROVE leads[q] <=> q # {} /\ (stop[q] \/ leads[below[q]])
    OBVIOUS
  <2>1. leads[q] <=> Leads(Histories(g), target, q)
    OBVIOUS
  <2>2. CASE q = {}
    BY <2>1, <2>2 DEF Leads
  <2>3. CASE q # {}
    <3>1. Below(g, target, q) \in Q
      BY <2>3, ContainmentDescends
    <3>2. leads[below[q]] <=> Leads(Histories(g), target, Below(g, target, q))
      BY <3>1
    <3>3. stop[q] <=> LET e == FindEntryContaining(g, Highest(q)) IN e.version <= target \/ target \in e.parents
      OBVIOUS
    <3> HIDE DEF leads, stop, below
    <3> QED
      BY <2>1, <2>3, <3>2, <3>3, ContainmentStep
  <2> QED
    BY <2>2, <2>3
<1>4. Loop(leads)
  <2>1. leads = [q \in Q |-> leads[q]] /\ \A q \in Q : leads[q] \in BOOLEAN
    <3>1. \A q \in Q : leads[q] = Leads(Histories(g), target, q)
      OBVIOUS
    <3>2. \A q \in Q : Leads(Histories(g), target, q) \in BOOLEAN
      BY DEF Leads
    <3>3. leads = [q \in Q |-> leads[q]]
      OBVIOUS
    <3> HIDE DEF leads
    <3> QED
      BY <3>1, <3>2, <3>3
  <2>2. \A q \in Q : Next1(leads, q) \in BOOLEAN
    OBVIOUS
  <2> HIDE DEF leads, Next1, stop, below
  <2>3. \A q \in Q : leads[q] = Next1(leads, q)
    BY <1>2, <1>3, <2>1, <2>2
  <2> QED
    BY <2>1, <2>3
<1>5. Loop(loop)
  BY <1>4
<1> HIDE DEF loop, leads, Next1
<1>6. \A q \in Q : loop[q] = Next1(loop, q)
  BY <1>5
<1>7. \A q \in Q : loop[q] <=> leads[q]
  <2>1. Descends(Q, below, height)
    BY ContainmentDescends DEF Descends
  <2>2. Search(leads, Q, stop, below)
    BY <1>3 DEF Search
  <2>3. Search(loop, Q, stop, below)
    BY <1>2, <1>6 DEF Search
  <2> HIDE DEF Q, stop, below, height
  <2> QED
    BY <2>1, <2>2, <2>3, SearchIsUnique
<1>8. above \in Q
  OBVIOUS
<1>9. leads[above] <=> \E v \in above : v <= target \/ target \in Histories(g)[v]
  BY <1>8 DEF leads, Leads
<1>10. NextLV(g) \in Nat /\ Versions(g) = 0 .. (NextLV(g) - 1) /\ target \in Nat
  BY NextLVType DEF GraphInv, Versions
<1>11. \A v \in Versions(g) : v \in Histories(g)[v] /\ Histories(g)[v] \subseteq 0 .. v
  BY <1>10, GraphIsTopological, HistoryOrder DEF Histories, ParentsIn
<1>12. target \in EventsOf(Histories(g), f) <=> \E v \in f : target \in Histories(g)[v]
  BY DEF EventsOf
<1>13. \A v \in f : target \in Histories(g)[v] => v = target \/ v > target
  BY <1>10, <1>11
<1>14. \A v \in above : ~ (v <= target)
  BY <1>10
<1> QED
  BY <1>1, <1>7, <1>8, <1>9, <1>11, <1>12, <1>13, <1>14

-----------------------------------------------------------------------------
(* Walking back entry by entry.                                            *)

\* The entry of a version is a run up to it.
LEMMA RunOfEntry ==
  ASSUME NEW g, GraphInv(g), NEW v \in Versions(g)
  PROVE  LET e   == FindEntryContaining(g, v)
             par == ParentsIn(g)
         IN  /\ e.version \in 0 .. v
             /\ par[e.version] = e.parents
             /\ e.parents \subseteq 0 .. (e.version - 1)
             /\ IsRun(par, e.version, v)
<1> DEFINE e   == FindEntryContaining(g, v)
           par == ParentsIn(g)
<1>1. /\ e.version \in Nat /\ e.version <= v /\ e.parents \subseteq Versions(g)
      /\ \A p \in e.parents : p < e.version
      /\ \A w \in e.version .. v : /\ w \in Versions(g)
                                   /\ ParentsOf(g, w) = IF w = e.version THEN e.parents ELSE {w - 1}
  BY EntryOfVersion
<1>2. NextLV(g) \in Nat /\ Versions(g) = 0 .. (NextLV(g) - 1)
  BY NextLVType DEF GraphInv, Versions
<1>3. \A w \in Versions(g) : par[w] = ParentsOf(g, w)
  BY DEF ParentsIn
<1> HIDE DEF e, par
<1>4. v \in Nat /\ \A p \in e.parents : p \in Nat
  BY <1>1, <1>2
<1>5. e.version \in e.version .. v /\ \A w \in (e.version + 1) .. v : w \in e.version .. v /\ w # e.version
  BY <1>1, <1>4
<1>6. e.parents \subseteq 0 .. (e.version - 1)
  BY <1>1, <1>4
<1> QED
  BY <1>1, <1>3, <1>4, <1>5, <1>6 DEF e, par, IsRun

\* FollowsBelow for a graph: from the highest version m of a queue, the entry
\* of m is passed.
LEMMA FollowsBelowEntry ==
  ASSUME NEW g, GraphInv(g), NEW X, NEW l \in 0 .. NextLV(g),
         NEW m \in 0 .. (l - 1), NEW Q \in SUBSET (0 .. m),
         Follows(Histories(g), X, Q, l)
  PROVE  LET e == FindEntryContaining(g, m)
         IN  RunPassed(Histories(g), X, Q, e.parents, e.version, m, l)
<1> DEFINE e   == FindEntryContaining(g, m)
           par == ParentsIn(g)
           n   == NextLV(g)
           s   == e.version
<1>1. /\ Topological(par, n) /\ n \in Nat /\ Versions(g) = 0 .. (n - 1)
      /\ Histories(g) = HistoriesOf(par, n)
  BY GraphIsTopological, NextLVType DEF GraphInv, Versions, Histories, ParentsIn
<1>2. m \in Versions(g)
  BY <1>1
<1>3. s \in 0 .. m /\ par[s] = e.parents /\ IsRun(par, s, m)
  BY <1>2, RunOfEntry
<1> HIDE DEF e, par, n, s
<1>4. l \in 0 .. n
  BY DEF n
<1>5. Topological(par, n) /\ Follows(HistoriesOf(par, n), X, Q, l)
  BY <1>1
<1>6. RunPassed(HistoriesOf(par, n), X, Q, par[s], s, m, l)
  BY <1>3, <1>4, <1>5, FollowsBelow
<1> QED
  BY <1>1, <1>3, <1>6 DEF e, s

-----------------------------------------------------------------------------
(* Lists of ranges.                                                        *)

\* Ranges from the highest down, none empty, none below l, and none that
\* touches the one after it.
DescendingTo(list, l) ==
  /\ list \in Seq(Nat \X Nat)
  /\ \A i \in DOMAIN list : l <= list[i][1] /\ list[i][1] < list[i][2]
  /\ \A i \in DOMAIN list \ {1} : list[i][2] < list[i - 1][1]

\* The ends of its ranges.
LEMMA RangesInList ==
  ASSUME NEW l, NEW list, DescendingTo(list, l)
  PROVE  /\ Len(list) \in Nat /\ DOMAIN list = 1 .. Len(list)
         /\ \A i \in 1 .. Len(list) : list[i] \in Nat \X Nat /\ list[i][1] \in Nat /\ list[i][2] \in Nat
BY DEF DescendingTo

\* pushReversedRLE() of a range below the list adds the versions of the range.
LEMMA PushRange ==
  ASSUME NEW l \in Nat, NEW list, DescendingTo(list, l),
         NEW start \in Nat, NEW end \in Nat, start < end, end <= l
  PROVE  /\ DescendingTo(PushReversedRLE(list, start, end), start)
         /\ RangesToSet(PushReversedRLE(list, start, end)) = RangesToSet(list) \cup (start .. (end - 1))
<1> DEFINE n   == Len(list)
           new == PushReversedRLE(list, start, end)
<1>1. /\ n \in Nat /\ DOMAIN list = 1 .. n
      /\ \A i \in 1 .. n : list[i] \in Nat \X Nat /\ list[i][1] \in Nat /\ list[i][2] \in Nat
      /\ \A i \in 1 .. n : l <= list[i][1] /\ list[i][1] < list[i][2]
      /\ \A i \in (1 .. n) \ {1} : list[i][2] < list[i - 1][1]
      /\ list \in Seq(Nat \X Nat)
  BY RangesInList DEF DescendingTo
<1>2. \A u : u \in RangesToSet(list) <=> \E i \in 1 .. n : u \in list[i][1] .. (list[i][2] - 1)
  BY <1>1 DEF RangesToSet, Range2Set
<1>3. CASE list # <<>> /\ LastOf(list)[1] = end
  <2>1. n > 0 /\ list[n][1] = end /\ new = [list EXCEPT ![n] = <<start, list[n][2]>>]
    BY <1>1, <1>3 DEF PushReversedRLE, LastOf
  <2> HIDE DEF n, new
  <2>2. n \in 1 .. n /\ list[n][2] \in Nat /\ end < list[n][2]
    BY <1>1, <2>1
  <2>3. /\ DOMAIN new = 1 .. n
        /\ new[n] = <<start, list[n][2]>>
        /\ \A i \in 1 .. n : i # n => new[i] = list[i]
    BY <1>1, <2>1, <2>2
  <2>4. new \in Seq(Nat \X Nat) /\ Len(new) = n
    <3>1. <<start, list[n][2]>> \in Nat \X Nat
      BY <2>2
    <3>2. new \in [1 .. n -> Nat \X Nat]
      BY <1>1, <2>1, <3>1
    <3> QED
      BY <1>1, <3>2
  <2>5. \A i \in 1 .. n : start <= new[i][1] /\ new[i][1] < new[i][2]
    <3> SUFFICES ASSUME NEW i \in 1 .. n PROVE start <= new[i][1] /\ new[i][1] < new[i][2]
      OBVIOUS
    <3>1. CASE i = n
      BY <2>2, <2>3, <3>1
    <3>2. CASE i # n
      BY <1>1, <2>3, <3>2
    <3> QED
      BY <3>1, <3>2
  <2>6. \A i \in (1 .. n) \ {1} : new[i][2] < new[i - 1][1]
    <3> SUFFICES ASSUME NEW i \in (1 .. n) \ {1} PROVE new[i][2] < new[i - 1][1]
      OBVIOUS
    <3>1. i - 1 \in 1 .. n /\ i - 1 # n
      BY <1>1
    <3>2. new[i - 1] = list[i - 1] /\ new[i][2] = list[i][2]
      <4>1. CASE i = n
        BY <2>3, <3>1, <4>1
      <4>2. CASE i # n
        BY <2>3, <3>1, <4>2
      <4> QED
        BY <4>1, <4>2
    <3> QED
      BY <1>1, <3>2
  <2>7. \A u : u \in RangesToSet(new) <=> \E i \in 1 .. n : u \in new[i][1] .. (new[i][2] - 1)
    BY <2>3 DEF RangesToSet, Range2Set
  <2>8. new[n][1] .. (new[n][2] - 1) = (list[n][1] .. (list[n][2] - 1)) \cup (start .. (end - 1))
    BY <2>1, <2>2, <2>3
  <2>9. \A u : u \in RangesToSet(new) <=> u \in RangesToSet(list) \/ u \in start .. (end - 1)
    <3> SUFFICES ASSUME NEW u
                 PROVE  (\E i \in 1 .. n : u \in new[i][1] .. (new[i][2] - 1)) <=>
                        (\E i \in 1 .. n : u \in list[i][1] .. (list[i][2] - 1)) \/ u \in start .. (end - 1)
      BY <1>2, <2>7
    <3>1. \A i \in 1 .. n : i # n => new[i] = list[i]
      BY <2>3
    <3>2. u \in new[n][1] .. (new[n][2] - 1) <=> u \in list[n][1] .. (list[n][2] - 1) \/ u \in start .. (end - 1)
      BY <2>8
    <3> QED
      BY <2>2, <3>1, <3>2, Zenon
  <2>10. DescendingTo(new, start)
    BY <2>3, <2>4, <2>5, <2>6 DEF DescendingTo
  <2> QED
    BY <2>9, <2>10 DEF new
<1>4. CASE ~ (list # <<>> /\ LastOf(list)[1] = end)
  <2>1. new = Append(list, <<start, end>>)
    BY <1>4 DEF PushReversedRLE
  <2>2. n > 0 => list[n][1] # end
    BY <1>1, <1>4 DEF LastOf
  <2> HIDE DEF n, new
  <2>3. /\ new \in Seq(Nat \X Nat) /\ Len(new) = n + 1 /\ DOMAIN new = 1 .. (n + 1)
        /\ new[n + 1] = <<start, end>>
        /\ \A i \in 1 .. n : new[i] = list[i]
    BY <1>1, <2>1 DEF n
  <2>4. \A i \in 1 .. (n + 1) : i = n + 1 \/ i \in 1 .. n
    BY <1>1
  <2>5. \A i \in 1 .. (n + 1) : start <= new[i][1] /\ new[i][1] < new[i][2]
    <3> SUFFICES ASSUME NEW i \in 1 .. (n + 1) PROVE start <= new[i][1] /\ new[i][1] < new[i][2]
      OBVIOUS
    <3>1. CASE i = n + 1
      BY <2>3, <3>1
    <3>2. CASE i \in 1 .. n
      BY <1>1, <2>3, <3>2, SMTT(30)
    <3> QED
      BY <2>4, <3>1, <3>2
  <2>6. \A i \in (1 .. (n + 1)) \ {1} : new[i][2] < new[i - 1][1]
    <3> SUFFICES ASSUME NEW i \in (1 .. (n + 1)) \ {1} PROVE new[i][2] < new[i - 1][1]
      OBVIOUS
    <3>1. i - 1 \in 1 .. n /\ new[i - 1] = list[i - 1]
      BY <1>1, <2>3, SMTT(30)
    <3>2. CASE i = n + 1
      BY <1>1, <2>2, <2>3, <3>1, <3>2
    <3>3. CASE i \in 1 .. n
      BY <1>1, <2>3, <3>1, <3>3
    <3> QED
      BY <2>4, <3>2, <3>3
  <2>7. \A u : u \in RangesToSet(new) <=> \E i \in 1 .. (n + 1) : u \in new[i][1] .. (new[i][2] - 1)
    BY <2>3 DEF RangesToSet, Range2Set
  <2>8. \A u : u \in RangesToSet(new) <=> u \in RangesToSet(list) \/ u \in start .. (end - 1)
    <3> SUFFICES ASSUME NEW u
                 PROVE  (\E i \in 1 .. (n + 1) : u \in new[i][1] .. (new[i][2] - 1)) <=>
                        (\E i \in 1 .. n : u \in list[i][1] .. (list[i][2] - 1)) \/ u \in start .. (end - 1)
      BY <1>2, <2>7
    <3>1. new[n + 1][1] = start /\ new[n + 1][2] = end
      BY <2>3
    <3>2. n + 1 \in 1 .. (n + 1) /\ \A i \in 1 .. n : i \in 1 .. (n + 1)
      BY <1>1
    <3> QED
      BY <2>3, <2>4, <3>1, <3>2, Zenon
  <2>9. DescendingTo(new, start)
    BY <2>3, <2>5, <2>6 DEF DescendingTo
  <2> QED
    BY <2>8, <2>9 DEF new
<1> QED
  BY <1>3, <1>4

\* Reversed, the list is what diff() promises.
LEMMA RangesReversed ==
  ASSUME NEW l, NEW list, DescendingTo(list, l)
  PROVE  /\ Canonical(Reversed(list)) /\ RangesToSet(Reversed(list)) = RangesToSet(list)
         /\ Reversed(list) \in Seq(Nat \X Nat)
<1> DEFINE n   == Len(list)
           rev == Reversed(list)
<1>1. /\ n \in Nat /\ DOMAIN list = 1 .. n
      /\ \A i \in 1 .. n : list[i][1] < list[i][2]
      /\ \A i \in (1 .. n) \ {1} : list[i][2] < list[i - 1][1]
  BY RangesInList DEF DescendingTo
<1>2. DOMAIN rev = 1 .. n /\ \A i \in 1 .. n : rev[i] = list[n + 1 - i]
  BY <1>1 DEF Reversed
<1> HIDE DEF n, rev
<1>3. \A i \in 1 .. n : n + 1 - i \in 1 .. n /\ n + 1 - (n + 1 - i) = i
  BY <1>1
<1>4. \A i \in 1 .. n : rev[i][1] < rev[i][2]
  BY <1>1, <1>2, <1>3
<1>5. \A i \in (1 .. n) \ {1} : rev[i - 1][2] < rev[i][1]
  <2> SUFFICES ASSUME NEW i \in (1 .. n) \ {1} PROVE rev[i - 1][2] < rev[i][1]
    OBVIOUS
  <2>1. i - 1 \in 1 .. n /\ n + 1 - (i - 1) \in (1 .. n) \ {1} /\ (n + 1 - (i - 1)) - 1 = n + 1 - i
    BY <1>1
  <2>2. rev[i - 1] = list[n + 1 - (i - 1)] /\ rev[i] = list[n + 1 - i]
    BY <1>2, <2>1
  <2> QED
    BY <1>1, <2>1, <2>2
<1>6. \A u : u \in RangesToSet(rev) <=> u \in RangesToSet(list)
  <2> SUFFICES ASSUME NEW u
               PROVE  (\E i \in 1 .. n : u \in Range2Set(rev[i])) <=> (\E i \in 1 .. n : u \in Range2Set(list[i]))
    BY <1>1, <1>2 DEF RangesToSet
  <2>1. ASSUME NEW i \in 1 .. n, u \in Range2Set(rev[i]) PROVE \E j \in 1 .. n : u \in Range2Set(list[j])
    BY <1>2, <1>3, <2>1
  <2>2. ASSUME NEW i \in 1 .. n, u \in Range2Set(list[i]) PROVE \E j \in 1 .. n : u \in Range2Set(rev[j])
    <3>1. n + 1 - i \in 1 .. n /\ rev[n + 1 - i] = list[i]
      BY <1>2, <1>3
    <3> QED
      BY <2>2, <3>1
  <2> QED
    BY <2>1, <2>2
<1>7. rev \in Seq(Nat \X Nat)
  <2> DEFINE T == Nat \X Nat
  <2>1. \A i \in 1 .. n : list[i] \in T
    BY RangesInList DEF n
  <2> HIDE DEF T
  <2>2. rev \in [1 .. n -> T]
    BY <1>2, <1>3, <2>1 DEF rev, Reversed
  <2> QED
    BY <1>1, <2>2 DEF T
<1> QED
  BY <1>2, <1>4, <1>5, <1>6, <1>7 DEF rev, Canonical

-----------------------------------------------------------------------------
(* diff()                                                                  *)

\* The events from l up that are in the history of X only.
OnlyFrom(h, X, Y, l) == {u \in EventsOf(h, X) \ EventsOf(h, Y) : l <= u}

\* The first version from s up that is above all of Q.
FirstAbove(Q, s) ==
  LET met == {q \in Q : q >= s} IN IF met = {} THEN s ELSE Highest(met) + 1

\* Of the run that is passed, X alone has what is above all that Y has queued
\* in it.
OnlyBySide(h, X, Y, Qx, Qy, s, m, l) ==
  /\ m \in Qy => OnlyFrom(h, X, Y, s) = OnlyFrom(h, X, Y, l)
  /\ m \in Qx \ Qy =>
       /\ FirstAbove(Qy, s) \in s .. m
       /\ OnlyFrom(h, X, Y, s) = OnlyFrom(h, X, Y, l) \cup (FirstAbove(Qy, s) .. m)

\* That is so where both have come to the run.
LEMMA OnlyInRun ==
  ASSUME NEW h, NEW X, NEW Y, NEW l \in Nat, NEW m \in 0 .. (l - 1), NEW s \in 0 .. m, NEW ps,
         NEW Qx \in SUBSET (0 .. m), NEW Qy \in SUBSET (0 .. m),
         RunPassed(h, X, Qx, ps, s, m, l), RunPassed(h, Y, Qy, ps, s, m, l),
         EventsOf(h, X) \subseteq Nat
  PROVE  OnlyBySide(h, X, Y, Qx, Qy, s, m, l)
<1> DEFINE met   == {q \in Qy : q >= s}
           start == IF met = {} THEN s ELSE Highest(met) + 1
<1>1. m \in Nat /\ s \in Nat /\ m < l /\ s <= m
  OBVIOUS
<1>2. \A u : u \in EventsOf(h, X) <=> \E v \in X : u \in h[v]
  BY DEF EventsOf
<1>3. \A u : u \in EventsOf(h, Y) <=> \E v \in Y : u \in h[v]
  BY DEF EventsOf
<1>4. \A u \in (m + 1) .. (l - 1) : u \notin EventsOf(h, X)
  BY <1>2 DEF RunPassed
<1>5. \A u \in s .. m : u \in EventsOf(h, X) <=> \E q \in Qx : u <= q
  BY <1>2 DEF RunPassed
<1>6. \A u \in s .. m : u \in EventsOf(h, Y) <=> \E q \in Qy : u <= q
  BY <1>3 DEF RunPassed
<1>7. \A u \in EventsOf(h, X) : u \in Nat /\ (s <= u <=> u \in s .. m \/ l <= u)
  <2> SUFFICES ASSUME NEW u \in EventsOf(h, X) PROVE u \in Nat /\ (s <= u <=> u \in s .. m \/ l <= u)
    OBVIOUS
  <2>1. u \in Nat /\ u \notin (m + 1) .. (l - 1)
    BY <1>4
  <2> QED
    BY <1>1, <2>1
<1>8. m \in Qy => OnlyFrom(h, X, Y, s) = OnlyFrom(h, X, Y, l)
  <2> SUFFICES ASSUME m \in Qy PROVE OnlyFrom(h, X, Y, s) = OnlyFrom(h, X, Y, l)
    OBVIOUS
  <2>1. \A u \in s .. m : u \in EventsOf(h, Y)
    BY <1>1, <1>6
  <2> QED
    BY <1>7, <2>1 DEF OnlyFrom
<1>9. ASSUME m \in Qx \ Qy
      PROVE  start \in s .. m /\ OnlyFrom(h, X, Y, s) = OnlyFrom(h, X, Y, l) \cup (start .. m)
  <2>1. \A u \in s .. m : u \in EventsOf(h, X)
    BY <1>1, <1>5, <1>9
  <2>2. /\ start \in s .. m
        /\ \A u \in s .. m : start <= u <=> ~ \E q \in Qy : u <= q
    <3>1. \A q \in Qy : q \in Nat /\ q <= m /\ q # m
      BY <1>1, <1>9
    <3>2. CASE met = {}
      <4>1. start = s
        BY <3>2
      <4>2. \A q \in Qy : ~ (q >= s)
        BY <3>2
      <4> HIDE DEF start, met
      <4>3. \A u \in s .. m, q \in Qy : ~ (u <= q)
        BY <1>1, <3>1, <4>2
      <4> QED
        BY <1>1, <4>1, <4>3
    <3>3. CASE met # {}
      <4> DEFINE c == Highest(met)
      <4>1. start = c + 1
        BY <3>3
      <4>2. met \subseteq 0 .. ((m + 1) - 1) /\ m + 1 \in Nat
        <5>1. (m + 1) - 1 = m /\ m + 1 \in Nat
          BY <1>1
        <5> QED
          BY <5>1
      <4> HIDE DEF met
      <4>3. c \in met /\ \A q \in met : q <= c
        BY <3>3, <4>2, HighestProperties
      <4> HIDE DEF c, start
      <4>4. c \in Qy /\ c >= s /\ c \in Nat /\ c < m
        BY <1>1, <3>1, <4>3 DEF met
      <4>5. \A q \in Qy : q <= c
        <5> SUFFICES ASSUME NEW q \in Qy PROVE q <= c
          OBVIOUS
        <5>1. q >= s => q <= c
          BY <4>3 DEF met
        <5>2. q \in Nat
          BY <3>1
        <5> QED
          BY <1>1, <4>4, <5>1, <5>2
      <4>6. start \in s .. m
        BY <1>1, <4>1, <4>4
      <4>7. \A u \in s .. m : start <= u <=> ~ (u <= c)
        BY <1>1, <4>1, <4>4
      <4>8. \A u \in s .. m : (\E q \in Qy : u <= q) <=> u <= c
        <5> SUFFICES ASSUME NEW u \in s .. m, NEW q \in Qy, u <= q PROVE u <= c
          BY <4>4
        <5>1. u \in Nat /\ q \in Nat /\ q <= c
          BY <1>1, <3>1, <4>5
        <5> QED
          BY <4>4, <5>1
      <4> QED
        BY <4>6, <4>7, <4>8
    <3> QED
      BY <3>2, <3>3
  <2> HIDE DEF start
  <2>3. \A u \in s .. m : u \notin EventsOf(h, Y) <=> u \in start .. m
    <3> SUFFICES ASSUME NEW u \in s .. m PROVE u \notin EventsOf(h, Y) <=> u \in start .. m
      OBVIOUS
    <3>1. u \notin EventsOf(h, Y) <=> start <= u
      BY <1>6, <2>2
    <3> QED
      BY <1>1, <2>2, <3>1
  <2>4. \A u : u \in OnlyFrom(h, X, Y, s) <=> u \in OnlyFrom(h, X, Y, l) \/ u \in start .. m
    <3> SUFFICES ASSUME NEW u PROVE u \in OnlyFrom(h, X, Y, s) <=> u \in OnlyFrom(h, X, Y, l) \/ u \in start .. m
      OBVIOUS
    <3>1. u \in start .. m => u \in s .. m /\ s <= u
      BY <1>1, <2>2
    <3> QED
      BY <1>7, <2>1, <2>3, <3>1 DEF OnlyFrom
  <2> QED
    BY <2>2, <2>4
<1>10. start = FirstAbove(Qy, s)
  BY DEF FirstAbove
<1> HIDE DEF start
<1> QED
  BY <1>8, <1>9, <1>10 DEF OnlyBySide

\* The variables of the loop.
DiffLoops(g) ==
  [queue : SUBSET Versions(g), flags : [Versions(g) -> DiffFlags \cup {"None"}],
   numShared : Nat, aOnly : Seq(Nat \X Nat), bOnly : Seq(Nat \X Nat)]

\* What is queued of one side's history, and of both.
SideOf(st, side) == {v \in st.queue : st.flags[v] \in {side, "Shared"}}
SharedOf(st)     == {v \in st.queue : st.flags[v] = "Shared"}

\* Of vs, the queued ones have flags.
Flagged(st, vs) == \A v \in vs : v \in st.queue <=> st.flags[v] # "None"

\* The versions vs are queued, on the sides of their flag, and numShared is how
\* many queued versions are shared.
Enqueued(g, st, vs, flag, new) ==
  /\ new \in DiffLoops(g)
  /\ new.queue = st.queue \cup vs
  /\ \A v \in vs : new.flags[v] # "None"
  /\ \A v \in Versions(g) \ vs : new.flags[v] = st.flags[v]
  /\ new.numShared = Cardinality(SharedOf(new))
  /\ \A side \in {"A", "B"} :
       SideOf(new, side) = SideOf(st, side) \cup {v \in vs : flag \in {side, "Shared"}}
  /\ new.aOnly = st.aOnly /\ new.bOnly = st.bOnly

\* That is what enq() of each of them does.
LEMMA EnqAllQueues ==
  ASSUME NEW g, GraphInv(g), NEW st \in DiffLoops(g), NEW vs \in SUBSET Versions(g), NEW flag \in DiffFlags,
         Flagged(st, vs), st.numShared = Cardinality(SharedOf(st))
  PROVE  Enqueued(g, st, vs, flag, EnqAll(st, vs, flag))
<1> DEFINE new   == EnqAll(st, vs, flag)
           flags == [v \in DOMAIN st.flags |->
                       IF v \notin vs THEN st.flags[v]
                       ELSE IF st.flags[v] \in {"None", flag} THEN flag ELSE "Shared"]
           more  == {v \in vs : flags[v] = "Shared" /\ st.flags[v] # "Shared"}
<1>1. /\ st.queue \in SUBSET Versions(g) /\ st.numShared \in Nat
      /\ st.flags \in [Versions(g) -> DiffFlags \cup {"None"}]
      /\ st.aOnly \in Seq(Nat \X Nat) /\ st.bOnly \in Seq(Nat \X Nat)
      /\ DOMAIN st.flags = Versions(g)
  BY DEF DiffLoops
<1>2. /\ new.queue = st.queue \cup {v \in vs : st.flags[v] = "None"}
      /\ new.flags = flags
      /\ new.numShared = st.numShared + Cardinality(more)
      /\ new.aOnly = st.aOnly /\ new.bOnly = st.bOnly
      /\ new = [queue |-> new.queue, flags |-> new.flags, numShared |-> new.numShared,
                aOnly |-> new.aOnly, bOnly |-> new.bOnly]
  BY DEF EnqAll
<1>3. /\ \A v \in vs : flags[v] = IF st.flags[v] \in {"None", flag} THEN flag ELSE "Shared"
      /\ \A v \in Versions(g) \ vs : flags[v] = st.flags[v]
      /\ flags \in [Versions(g) -> DiffFlags \cup {"None"}]
      /\ \A v \in Versions(g) : st.flags[v] \in {"A", "B", "Shared", "None"}
  BY <1>1 DEF DiffFlags
<1>4. flag \in {"A", "B", "Shared"}
  BY DEF DiffFlags
<1> HIDE DEF new, flags
<1>5. new.queue = st.queue \cup vs
  BY <1>2 DEF Flagged
<1>6. SharedOf(new) = SharedOf(st) \cup more /\ SharedOf(st) \cap more = {}
  <2>1. \A v \in vs : flags[v] = "Shared" <=> (v \in st.queue /\ st.flags[v] = "Shared") \/ v \in more
    BY <1>3, <1>4 DEF Flagged
  <2>2. \A v \in st.queue : v \in Versions(g)
    BY <1>1
  <2>3. \A v : v \in SharedOf(new) <=> v \in SharedOf(st) \/ v \in more
    BY <1>2, <1>3, <1>5, <2>1, <2>2 DEF SharedOf
  <2>4. SharedOf(st) \cap more = {}
    BY DEF SharedOf
  <2> QED
    BY <2>3, <2>4
<1>7. new.numShared \in Nat /\ new.numShared = Cardinality(SharedOf(new))
  <2>1. IsFiniteSet(Versions(g))
    <3>1. 0 \in Int /\ NextLV(g) - 1 \in Int
      BY NextLVType DEF GraphInv
    <3> QED
      BY <3>1, FS_Interval DEF Versions
  <2>2. SharedOf(st) \in SUBSET Versions(g) /\ more \in SUBSET Versions(g)
    BY <1>1 DEF SharedOf
  <2> HIDE DEF more
  <2>3. IsFiniteSet(SharedOf(st)) /\ IsFiniteSet(more)
    BY <2>1, <2>2, FS_Subset
  <2>4. Cardinality(SharedOf(st)) \in Nat /\ Cardinality(more) \in Nat
    BY <2>3, FS_CardinalityType
  <2>5. Cardinality(SharedOf(st) \cup more) =
          Cardinality(SharedOf(st)) + Cardinality(more) - Cardinality(SharedOf(st) \cap more)
    BY <2>3, FS_Union
  <2>6. Cardinality(SharedOf(st) \cap more) = 0
    BY <1>6, FS_EmptySet
  <2> QED
    BY <1>2, <1>6, <2>4, <2>5, <2>6
<1>8. \A side \in {"A", "B"} :
        SideOf(new, side) = SideOf(st, side) \cup {v \in vs : flag \in {side, "Shared"}}
  <2> SUFFICES ASSUME NEW side \in {"A", "B"}
               PROVE  SideOf(new, side) = SideOf(st, side) \cup {v \in vs : flag \in {side, "Shared"}}
    OBVIOUS
  <2>1. \A v \in vs : flags[v] \in {side, "Shared"} <=>
                        (v \in st.queue /\ st.flags[v] \in {side, "Shared"}) \/ flag \in {side, "Shared"}
    <3> SUFFICES ASSUME NEW v \in vs
                 PROVE  flags[v] \in {side, "Shared"} <=>
                          (v \in st.queue /\ st.flags[v] \in {side, "Shared"}) \/ flag \in {side, "Shared"}
      OBVIOUS
    <3>1. /\ st.flags[v] \in {"A", "B", "Shared", "None"}
          /\ v \in st.queue <=> st.flags[v] # "None"
          /\ flags[v] = IF st.flags[v] \in {"None", flag} THEN flag ELSE "Shared"
      BY <1>3 DEF Flagged
    <3> QED
      BY <1>4, <3>1
  <2>2. \A v \in st.queue : v \notin vs => flags[v] = st.flags[v]
    BY <1>1, <1>3
  <2> QED
    BY <1>2, <1>5, <2>1, <2>2 DEF SideOf
<1>9. \A v \in vs : flags[v] # "None"
  BY <1>3, <1>4
<1>10. new \in DiffLoops(g)
  BY <1>1, <1>2, <1>3, <1>5, <1>7 DEF DiffLoops
<1> QED
  BY <1>2, <1>3, <1>5, <1>7, <1>8, <1>9, <1>10 DEF new, Enqueued

\* What the loop keeps when all from l up is decided: the flags of what is
\* queued say whose history goes on there.
DiffInv(g, a, b, st, l) ==
  LET h == Histories(g)
  IN  /\ st \in DiffLoops(g)
      /\ l \in 0 .. NextLV(g)
      /\ st.queue \subseteq 0 .. (l - 1)
      /\ Flagged(st, 0 .. (l - 1))
      /\ st.numShared = Cardinality(SharedOf(st))
      /\ Follows(h, a, SideOf(st, "A"), l)
      /\ Follows(h, b, SideOf(st, "B"), l)
      /\ DescendingTo(st.aOnly, l) /\ RangesToSet(st.aOnly) = OnlyFrom(h, a, b, l)
      /\ DescendingTo(st.bOnly, l) /\ RangesToSet(st.bOnly) = OnlyFrom(h, b, a, l)

\* Histories are of the graph's versions.
LEMMA EventsAreVersions ==
  ASSUME NEW g, GraphInv(g), NEW f \in SUBSET Versions(g)
  PROVE  EventsOf(Histories(g), f) \subseteq Versions(g) /\ Versions(g) \subseteq Nat
<1>1. /\ Topological(ParentsIn(g), NextLV(g)) /\ Versions(g) = 0 .. (NextLV(g) - 1)
      /\ Histories(g) = HistoriesOf(ParentsIn(g), NextLV(g))
  BY GraphIsTopological DEF Histories, ParentsIn
<1>2. \A v \in f : \A w \in Histories(g)[v] : w \in Versions(g)
  BY <1>1, HistoryOrder
<1>3. EventsOf(Histories(g), f) \subseteq Versions(g)
  BY <1>2 DEF EventsOf
<1>4. Versions(g) \subseteq Nat
  BY NextLVType DEF GraphInv, Versions
<1> QED
  BY <1>3, <1>4

\* The versions within the entry are taken off with their share of the counter.
LEMMA CountTakenOff ==
  ASSUME NEW g, GraphInv(g), NEW st \in DiffLoops(g), st.numShared = Cardinality(SharedOf(st)),
         NEW within \in SUBSET st.queue, NEW new, new.queue = st.queue \ within, new.flags = st.flags,
         new.numShared = st.numShared - Cardinality({w \in within : st.flags[w] = "Shared"})
  PROVE  new.numShared \in Nat /\ new.numShared = Cardinality(SharedOf(new))
<1> DEFINE off == {w \in within : st.flags[w] = "Shared"}
<1>1. st.queue \in SUBSET Versions(g)
  BY DEF DiffLoops
<1>2. IsFiniteSet(Versions(g))
  <2>1. 0 \in Int /\ NextLV(g) - 1 \in Int
    BY NextLVType DEF GraphInv
  <2> QED
    BY <2>1, FS_Interval DEF Versions
<1>3. SharedOf(st) = SharedOf(new) \cup off /\ SharedOf(new) \cap off = {}
  BY DEF SharedOf
<1>4. SharedOf(new) \in SUBSET Versions(g) /\ off \in SUBSET Versions(g)
  BY <1>1 DEF SharedOf
<1> HIDE DEF off
<1>5. IsFiniteSet(SharedOf(new)) /\ IsFiniteSet(off)
  BY <1>2, <1>4, FS_Subset
<1>6. Cardinality(SharedOf(new)) \in Nat /\ Cardinality(off) \in Nat
  BY <1>5, FS_CardinalityType
<1>7. Cardinality(SharedOf(new) \cup off) =
        Cardinality(SharedOf(new)) + Cardinality(off) - Cardinality(SharedOf(new) \cap off)
  BY <1>5, FS_Union
<1>8. Cardinality(SharedOf(new) \cap off) = 0
  BY <1>3, FS_EmptySet
<1> QED
  BY <1>3, <1>6, <1>7, <1>8 DEF off

\* A list above l is above what is below l.
LEMMA DescendingBelow ==
  ASSUME NEW l \in Nat, NEW k \in Nat, k <= l, NEW list, DescendingTo(list, l)
  PROVE  DescendingTo(list, k)
<1>1. DOMAIN list = 1 .. Len(list) /\ \A i \in 1 .. Len(list) : list[i][1] \in Nat /\ list[i][2] \in Nat
  BY RangesInList
<1>2. \A i \in DOMAIN list : l <= list[i][1] => k <= list[i][1]
  BY <1>1
<1> QED
  BY <1>2 DEF DescendingTo

\* An entry is consumed: the invariant holds at its start.
LEMMA DiffStepKeeps ==
  ASSUME NEW g, GraphInv(g), NEW a \in SUBSET Versions(g), NEW b \in SUBSET Versions(g),
         NEW st, NEW l, DiffInv(g, a, b, st, l), ~ DiffDone(st)
  PROVE  \E k \in 0 .. (l - 1) : DiffInv(g, a, b, DiffStep(g, st), k)
<1> DEFINE h      == Histories(g)
           m      == Highest(st.queue)
           e      == FindEntryContaining(g, m)
           s      == e.version
           flag   == st.flags[m]
           within == {w \in st.queue : w >= e.version}
           others == {w \in within : st.flags[w] # flag}
           start  == IF others = {} THEN e.version ELSE Highest(others) + 1
           left   == IF others = {} THEN flag ELSE "Shared"
           marked == MarkRun(st, within, start, m, flag)
           new    == EnqAll(marked, e.parents, left)
<1>1. DiffStep(g, st) = new
  BY DEF DiffStep, ConsumeEntry
<1>2. /\ st \in DiffLoops(g) /\ l \in 0 .. NextLV(g) /\ l \in Nat
      /\ NextLV(g) \in Nat /\ Versions(g) = 0 .. (NextLV(g) - 1)
      /\ st.queue \subseteq 0 .. (l - 1) /\ st.queue \in SUBSET Versions(g)
      /\ st.numShared \in Nat
      /\ st.flags \in [Versions(g) -> DiffFlags \cup {"None"}]
  <2>1. NextLV(g) \in Nat
    BY NextLVType DEF GraphInv
  <2>2. st \in DiffLoops(g) /\ l \in 0 .. NextLV(g) /\ st.queue \subseteq 0 .. (l - 1)
    BY DEF DiffInv
  <2> QED
    BY <2>1, <2>2 DEF DiffLoops, Versions
<1>3. st.queue # {}
  <2>1. Cardinality({}) = 0
    BY FS_EmptySet
  <2>2. Cardinality({}) <= st.numShared
    BY <1>2, <2>1
  <2> QED
    BY <2>2 DEF DiffDone
<1>4. m \in st.queue /\ m \in 0 .. (l - 1) /\ m \in Nat /\ m \in Versions(g) /\ \A v \in st.queue : v \in 0 .. m
  <2>1. m \in st.queue /\ \A v \in st.queue : v <= m
    BY <1>2, <1>3, HighestProperties
  <2> HIDE DEF m
  <2> QED
    BY <1>2, <2>1
<1> HIDE DEF m
<1>5. s \in 0 .. m /\ s \in Nat /\ e.parents \subseteq 0 .. (s - 1)
  <2>1. s \in 0 .. m /\ e.parents \subseteq 0 .. (s - 1)
    BY <1>4, RunOfEntry
  <2> HIDE DEF s
  <2> QED
    BY <1>4, <2>1
<1>6. \A v \in st.queue : st.flags[v] \in {"A", "B", "Shared"}
  <2>1. \A v \in st.queue : v \in 0 .. (l - 1) /\ st.flags[v] # "None"
    BY <1>2 DEF DiffInv, Flagged
  <2> QED
    BY <1>2, <2>1 DEF DiffFlags
<1>7. SideOf(st, "A") \in SUBSET (0 .. m) /\ SideOf(st, "B") \in SUBSET (0 .. m)
  BY <1>4 DEF SideOf
<1>8. RunPassed(h, a, SideOf(st, "A"), e.parents, s, m, l)
  <2>1. Follows(h, a, SideOf(st, "A"), l) /\ SideOf(st, "A") \in SUBSET (0 .. m)
    BY <1>7 DEF DiffInv
  <2> QED
    BY <1>2, <1>4, <2>1, FollowsBelowEntry
<1>9. RunPassed(h, b, SideOf(st, "B"), e.parents, s, m, l)
  <2>1. Follows(h, b, SideOf(st, "B"), l) /\ SideOf(st, "B") \in SUBSET (0 .. m)
    BY <1>7 DEF DiffInv
  <2> QED
    BY <1>2, <1>4, <2>1, FollowsBelowEntry
<1>10. EventsOf(h, a) \subseteq Nat /\ EventsOf(h, b) \subseteq Nat
  BY EventsAreVersions, Zenon
<1> HIDE DEF h, e
\* What is marked is what one side alone has.
<1>11. /\ OnlyBySide(h, a, b, SideOf(st, "A"), SideOf(st, "B"), s, m, l)
      /\ OnlyBySide(h, b, a, SideOf(st, "B"), SideOf(st, "A"), s, m, l)
  <2> HIDE DEF s
  <2>1. l \in Nat /\ m \in 0 .. (l - 1) /\ s \in 0 .. m
    BY <1>2, <1>4, <1>5
  <2> QED
    BY <1>7, <1>8, <1>9, <1>10, <2>1, OnlyInRun
<1>12. flag \in {"A", "B", "Shared"} /\ m \in within /\ within \in SUBSET st.queue
       /\ \A v \in st.queue : v \notin within <=> v < s
  <2>1. \A v \in st.queue : v \in Nat
    BY <1>2
  <2> QED
    BY <1>4, <1>5, <1>6, <2>1
<1>13. flag = "A" => others = {q \in SideOf(st, "B") : q >= s}
  BY <1>6 DEF SideOf
<1>14. flag = "B" => others = {q \in SideOf(st, "A") : q >= s}
  BY <1>6 DEF SideOf
<1>15. /\ flag = "A" <=> m \in SideOf(st, "A") \ SideOf(st, "B")
       /\ flag = "B" <=> m \in SideOf(st, "B") \ SideOf(st, "A")
       /\ flag = "Shared" <=> m \in SideOf(st, "A") /\ m \in SideOf(st, "B")
  BY <1>4, <1>6 DEF SideOf
\* The run is marked.
<1>16. /\ DescendingTo(marked.aOnly, s)
       /\ RangesToSet(marked.aOnly) = OnlyFrom(h, a, b, s)
  <2>1. DescendingTo(st.aOnly, l) /\ RangesToSet(st.aOnly) = OnlyFrom(h, a, b, l)
    BY DEF DiffInv, h
  <2>2. CASE flag = "A"
    <3>1. start \in s .. m /\ OnlyFrom(h, a, b, s) = OnlyFrom(h, a, b, l) \cup (start .. m)
      <4>1. start = FirstAbove(SideOf(st, "B"), s)
        BY <1>13, <2>2 DEF FirstAbove
      <4>2. m \in SideOf(st, "A") \ SideOf(st, "B")
        BY <1>15, <2>2
      <4> HIDE DEF start, s, flag
      <4> QED
        BY <1>11, <4>1, <4>2 DEF OnlyBySide
    <3>2. marked.aOnly = PushReversedRLE(st.aOnly, start, m + 1)
      BY <2>2 DEF MarkRun
    <3> HIDE DEF start, s, marked
    <3>3. start \in Nat /\ s <= start /\ start < m + 1 /\ m + 1 <= l /\ m + 1 \in Nat /\ (m + 1) - 1 = m
      BY <1>2, <1>4, <1>5, <3>1
    <3>4. DescendingTo(marked.aOnly, start) /\ RangesToSet(marked.aOnly) = RangesToSet(st.aOnly) \cup (start .. m)
      BY <1>2, <2>1, <3>2, <3>3, PushRange
    <3>5. DescendingTo(marked.aOnly, s)
      BY <1>5, <3>3, <3>4, DescendingBelow
    <3> QED
      BY <2>1, <3>1, <3>4, <3>5
  <2>3. CASE flag # "A"
    <3>1. m \in SideOf(st, "B")
      BY <1>12, <1>15, <2>3
    <3>2. marked.aOnly = st.aOnly
      BY <2>3 DEF MarkRun
    <3> HIDE DEF s, marked
    <3>3. OnlyFrom(h, a, b, s) = OnlyFrom(h, a, b, l)
      BY <1>11, <3>1 DEF OnlyBySide
    <3>4. s \in Nat /\ s <= l
      BY <1>2, <1>4, <1>5
    <3>5. DescendingTo(marked.aOnly, s)
      BY <1>2, <2>1, <3>2, <3>4, DescendingBelow
    <3> QED
      BY <2>1, <3>2, <3>3, <3>5
  <2> QED
    BY <2>2, <2>3
<1>17. /\ DescendingTo(marked.bOnly, s)
       /\ RangesToSet(marked.bOnly) = OnlyFrom(h, b, a, s)
  <2>1. DescendingTo(st.bOnly, l) /\ RangesToSet(st.bOnly) = OnlyFrom(h, b, a, l)
    BY DEF DiffInv, h
  <2>2. CASE flag = "B"
    <3>1. start \in s .. m /\ OnlyFrom(h, b, a, s) = OnlyFrom(h, b, a, l) \cup (start .. m)
      <4>1. start = FirstAbove(SideOf(st, "A"), s)
        BY <1>14, <2>2 DEF FirstAbove
      <4>2. m \in SideOf(st, "B") \ SideOf(st, "A")
        BY <1>15, <2>2
      <4> HIDE DEF start, s, flag
      <4> QED
        BY <1>11, <4>1, <4>2 DEF OnlyBySide
    <3>2. marked.bOnly = PushReversedRLE(st.bOnly, start, m + 1)
      BY <2>2 DEF MarkRun
    <3> HIDE DEF start, s, marked
    <3>3. start \in Nat /\ s <= start /\ start < m + 1 /\ m + 1 <= l /\ m + 1 \in Nat /\ (m + 1) - 1 = m
      BY <1>2, <1>4, <1>5, <3>1
    <3>4. DescendingTo(marked.bOnly, start) /\ RangesToSet(marked.bOnly) = RangesToSet(st.bOnly) \cup (start .. m)
      BY <1>2, <2>1, <3>2, <3>3, PushRange
    <3>5. DescendingTo(marked.bOnly, s)
      BY <1>5, <3>3, <3>4, DescendingBelow
    <3> QED
      BY <2>1, <3>1, <3>4, <3>5
  <2>3. CASE flag # "B"
    <3>1. m \in SideOf(st, "A")
      BY <1>12, <1>15, <2>3
    <3>2. marked.bOnly = st.bOnly
      BY <2>3 DEF MarkRun
    <3> HIDE DEF s, marked
    <3>3. OnlyFrom(h, b, a, s) = OnlyFrom(h, b, a, l)
      BY <1>11, <3>1 DEF OnlyBySide
    <3>4. s \in Nat /\ s <= l
      BY <1>2, <1>4, <1>5
    <3>5. DescendingTo(marked.bOnly, s)
      BY <1>2, <2>1, <3>2, <3>4, DescendingBelow
    <3> QED
      BY <2>1, <3>2, <3>3, <3>5
  <2> QED
    BY <2>2, <2>3
\* The parents are queued.
<1>18. /\ marked.queue = st.queue \ within /\ marked.flags = st.flags
       /\ marked.numShared = st.numShared - Cardinality({w \in within : st.flags[w] = "Shared"})
       /\ marked = [queue |-> marked.queue, flags |-> marked.flags, numShared |-> marked.numShared,
                    aOnly |-> marked.aOnly, bOnly |-> marked.bOnly]
  BY DEF MarkRun
<1>19. marked.numShared \in Nat /\ marked.numShared = Cardinality(SharedOf(marked))
  <2>1. st.numShared = Cardinality(SharedOf(st))
    BY DEF DiffInv
  <2> HIDE DEF marked, within
  <2> QED
    BY <1>2, <1>12, <1>18, <2>1, CountTakenOff
<1>20. marked \in DiffLoops(g)
  <2>1. marked.aOnly \in Seq(Nat \X Nat) /\ marked.bOnly \in Seq(Nat \X Nat)
    BY <1>16, <1>17, ZenonT(60) DEF DescendingTo
  <2>2. marked.queue \in SUBSET Versions(g)
    BY <1>2, <1>18
  <2> HIDE DEF marked
  <2> QED
    BY <1>2, <1>18, <1>19, <2>1, <2>2 DEF DiffLoops
<1>21. e.parents \in SUBSET Versions(g) /\ left \in DiffFlags
  <2>1. e.parents \subseteq 0 .. (NextLV(g) - 1)
    <3> HIDE DEF s
    <3> QED
      BY <1>2, <1>4, <1>5
  <2>2. left \in DiffFlags
    BY <1>12 DEF DiffFlags
  <2> QED
    BY <1>2, <2>1, <2>2
<1>22. \A v \in 0 .. (s - 1) : v \in 0 .. (l - 1) /\ (v \in marked.queue <=> st.flags[v] # "None")
  <2> SUFFICES ASSUME NEW v \in 0 .. (s - 1)
               PROVE  v \in 0 .. (l - 1) /\ (v \in marked.queue <=> st.flags[v] # "None")
    OBVIOUS
  <2>1. v \in 0 .. (l - 1) /\ v < s
    <3> HIDE DEF s
    <3> QED
      BY <1>2, <1>4, <1>5
  <2>2. v \in st.queue <=> st.flags[v] # "None"
    BY <2>1 DEF DiffInv, Flagged
  <2>3. v \in st.queue => v \notin within
    BY <1>12, <2>1
  <2> HIDE DEF marked, within
  <2> QED
    BY <1>18, <2>1, <2>2, <2>3
<1> HIDE DEF marked
<1>23. Enqueued(g, marked, e.parents, left, new)
  <2>1. Flagged(marked, e.parents)
    BY <1>5, <1>18, <1>22 DEF Flagged
  <2>2. marked.numShared = Cardinality(SharedOf(marked))
    BY <1>19
  <2> HIDE DEF left
  <2> QED
    BY <1>20, <1>21, <2>1, <2>2, EnqAllQueues
<1>24. \A side \in {"A", "B"} :
         SideOf(new, side) = {q \in SideOf(st, side) : q < s} \cup
                             {p \in e.parents : \E q \in SideOf(st, side) : s <= q}
  <2> SUFFICES ASSUME NEW side \in {"A", "B"}
               PROVE  SideOf(new, side) = {q \in SideOf(st, side) : q < s} \cup
                                          {p \in e.parents : \E q \in SideOf(st, side) : s <= q}
    OBVIOUS
  <2>1. SideOf(marked, side) = {q \in SideOf(st, side) : q < s}
    BY <1>12, <1>18 DEF SideOf
  <2>2. left \in {side, "Shared"} <=> \E q \in SideOf(st, side) : s <= q
    <3>1. \A q \in st.queue : q \in within <=> s <= q
      <4>1. \A q \in st.queue : q \in Nat
        BY <1>2
      <4> QED
        BY <1>5, <4>1
    <3>2. (\E q \in SideOf(st, side) : s <= q) <=> \E q \in within : st.flags[q] \in {side, "Shared"}
      BY <1>12, <3>1 DEF SideOf
    <3>3. CASE others = {}
      <4>1. left = flag /\ \A q \in within : st.flags[q] = flag
        BY <3>3
      <4> QED
        BY <1>12, <3>2, <4>1
    <3>4. CASE others # {}
      <4>1. PICK c \in within : st.flags[c] # flag
        BY <3>4
      <4>2. st.flags[c] \in {"A", "B", "Shared"} /\ flag = st.flags[m] /\ left = "Shared"
        BY <1>6, <1>12, <3>4
      <4>3. \E q \in within : st.flags[q] \in {side, "Shared"}
        <5>1. CASE flag \in {side, "Shared"}
          BY <1>12, <4>2, <5>1
        <5>2. CASE flag \notin {side, "Shared"}
          BY <1>12, <4>1, <4>2, <5>2
        <5> QED
          BY <5>1, <5>2
      <4> QED
        BY <3>2, <4>2, <4>3
    <3> QED
      BY <3>3, <3>4
  <2> HIDE DEF new, left
  <2> QED
    BY <1>23, <2>1, <2>2 DEF Enqueued
<1> HIDE DEF new, left
<1>25. Follows(h, a, SideOf(new, "A"), s) /\ Follows(h, b, SideOf(new, "B"), s)
  BY <1>8, <1>9, <1>24 DEF RunPassed
<1>26. new.queue \subseteq 0 .. (s - 1)
  <2>1. \A v \in marked.queue : v \in Nat /\ v < s
    BY <1>2, <1>12, <1>18
  <2> HIDE DEF s
  <2> QED
    BY <1>5, <1>23, <2>1 DEF Enqueued
<1>27. Flagged(new, 0 .. (s - 1))
  <2> SUFFICES ASSUME NEW v \in 0 .. (s - 1) PROVE v \in new.queue <=> new.flags[v] # "None"
    BY DEF Flagged
  <2>1. v \in Versions(g)
    <3> HIDE DEF s
    <3> QED
      BY <1>2, <1>4, <1>5
  <2>2. CASE v \in e.parents
    BY <1>23, <2>2 DEF Enqueued
  <2>3. CASE v \notin e.parents
    <3>1. new.flags[v] = st.flags[v] /\ (v \in new.queue <=> v \in marked.queue)
      BY <1>18, <1>23, <2>1, <2>3 DEF Enqueued
    <3> QED
      BY <1>22, <3>1
  <2> QED
    BY <2>2, <2>3
<1>28. s \in 0 .. NextLV(g) /\ s \in 0 .. (l - 1)
  <2> HIDE DEF s
  <2> QED
    BY <1>2, <1>4, <1>5
<1>29. DiffInv(g, a, b, new, s)
  <2> HIDE DEF s
  <2> QED
    BY <1>16, <1>17, <1>23, <1>25, <1>26, <1>27, <1>28 DEF DiffInv, h, Enqueued
<1> QED
  BY <1>1, <1>28, <1>29

\* Before the first iteration nothing is decided.
LEMMA DiffStarts ==
  ASSUME NEW g, GraphInv(g), NEW a \in SUBSET Versions(g), NEW b \in SUBSET Versions(g)
  PROVE  DiffInv(g, a, b, DiffStart(g, a, b), NextLV(g))
<1> DEFINE n     == NextLV(g)
           h     == Histories(g)
           empty == [queue |-> {}, flags |-> [v \in Versions(g) |-> "None"],
                     numShared |-> 0, aOnly |-> <<>>, bOnly |-> <<>>]
           one   == EnqAll(empty, a, "A")
           two   == EnqAll(one, b, "B")
<1>1. DiffStart(g, a, b) = two
  BY DEF DiffStart
<1>2. n \in Nat /\ Versions(g) = 0 .. (n - 1) /\ n \in 0 .. n
  BY NextLVType DEF GraphInv, Versions
<1>3. /\ empty.queue = {} /\ empty.numShared = 0 /\ empty.aOnly = <<>> /\ empty.bOnly = <<>>
      /\ \A v \in Versions(g) : empty.flags[v] = "None"
      /\ empty \in DiffLoops(g)
  BY DEF DiffLoops
<1>4. SharedOf(empty) = {} /\ \A side \in {"A", "B"} : SideOf(empty, side) = {}
  BY <1>3 DEF SharedOf, SideOf
<1>5. empty.numShared = Cardinality(SharedOf(empty))
  BY <1>3, <1>4, FS_EmptySet
<1>6. Flagged(empty, a)
  BY <1>3 DEF Flagged
<1> HIDE DEF empty
<1>7. Enqueued(g, empty, a, "A", one)
  <2>1. "A" \in DiffFlags
    BY DEF DiffFlags
  <2> QED
    BY <1>3, <1>5, <1>6, <2>1, EnqAllQueues
<1> HIDE DEF one
<1>8. Flagged(one, b)
  BY <1>3, <1>7 DEF Flagged, Enqueued
<1>9. Enqueued(g, one, b, "B", two)
  <2>1. "B" \in DiffFlags /\ one.numShared = Cardinality(SharedOf(one)) /\ one \in DiffLoops(g)
    BY <1>7 DEF DiffFlags, Enqueued
  <2> QED
    BY <1>8, <2>1, EnqAllQueues
<1> HIDE DEF two
<1>10. two.queue = a \cup b /\ SideOf(two, "A") = a /\ SideOf(two, "B") = b
  BY <1>3, <1>4, <1>7, <1>9 DEF Enqueued
<1>11. Flagged(two, 0 .. (n - 1))
  <2> SUFFICES ASSUME NEW v \in Versions(g) PROVE v \in two.queue <=> two.flags[v] # "None"
    BY <1>2 DEF Flagged
  <2>1. CASE v \in b
    BY <1>9, <1>10, <2>1 DEF Enqueued
  <2>2. CASE v \notin b
    <3>1. two.flags[v] = one.flags[v]
      BY <1>9, <2>2 DEF Enqueued
    <3>2. v \in a <=> one.flags[v] # "None"
      BY <1>3, <1>7 DEF Enqueued
    <3> QED
      BY <1>10, <2>2, <3>1, <3>2
  <2> QED
    BY <2>1, <2>2
<1>12. Follows(h, a, SideOf(two, "A"), n) /\ Follows(h, b, SideOf(two, "B"), n)
  BY <1>10 DEF Follows
<1>13. \A list : list = <<>> => DescendingTo(list, n) /\ RangesToSet(list) = {}
  BY DEF DescendingTo, RangesToSet
<1>14. OnlyFrom(h, a, b, n) = {} /\ OnlyFrom(h, b, a, n) = {}
  <2>1. EventsOf(h, a) \subseteq 0 .. (n - 1) /\ EventsOf(h, b) \subseteq 0 .. (n - 1)
    <3> HIDE DEF h, n
    <3>1. EventsOf(h, a) \subseteq Versions(g) /\ EventsOf(h, b) \subseteq Versions(g)
      BY EventsAreVersions DEF h
    <3> QED
      BY <1>2, <3>1
  <2> HIDE DEF h, n
  <2>2. \A u \in 0 .. (n - 1) : ~ (n <= u)
    BY <1>2
  <2> QED
    BY <2>1, <2>2 DEF OnlyFrom
<1>15. /\ DescendingTo(two.aOnly, n) /\ RangesToSet(two.aOnly) = OnlyFrom(h, a, b, n)
       /\ DescendingTo(two.bOnly, n) /\ RangesToSet(two.bOnly) = OnlyFrom(h, b, a, n)
  <2>1. two.aOnly = <<>> /\ two.bOnly = <<>>
    BY <1>3, <1>7, <1>9 DEF Enqueued
  <2> HIDE DEF h, n
  <2> QED
    BY <1>13, <1>14, <2>1
<1>16. two.queue \subseteq 0 .. (n - 1)
  BY <1>2, <1>10
<1> QED
  BY <1>1, <1>2, <1>9, <1>11, <1>12, <1>15, <1>16 DEF DiffInv, Enqueued

\* When only shared versions are queued, all that is one side's is marked.
LEMMA DiffEnds ==
  ASSUME NEW g, GraphInv(g), NEW a \in SUBSET Versions(g), NEW b \in SUBSET Versions(g),
         NEW st, NEW l, DiffInv(g, a, b, st, l), DiffDone(st)
  PROVE  LET h == Histories(g)
         IN  /\ RangesToSet(st.aOnly) = EventsOf(h, a) \ EventsOf(h, b)
             /\ RangesToSet(st.bOnly) = EventsOf(h, b) \ EventsOf(h, a)
<1> DEFINE h == Histories(g)
<1>1. st.queue \in SUBSET Versions(g) /\ l \in Nat
  <2>1. NextLV(g) \in Nat
    BY NextLVType DEF GraphInv
  <2> QED
    BY <2>1 DEF DiffInv, DiffLoops
<1>2. SharedOf(st) = st.queue
  <2>1. IsFiniteSet(Versions(g))
    <3>1. 0 \in Int /\ NextLV(g) - 1 \in Int
      BY NextLVType DEF GraphInv
    <3> QED
      BY <3>1, FS_Interval DEF Versions
  <2>2. IsFiniteSet(st.queue)
    BY <1>1, <2>1, FS_Subset
  <2>3. SharedOf(st) \in SUBSET st.queue
    BY DEF SharedOf
  <2>4. Cardinality(SharedOf(st)) <= Cardinality(st.queue) /\ IsFiniteSet(SharedOf(st))
        /\ (Cardinality(st.queue) = Cardinality(SharedOf(st)) => st.queue = SharedOf(st))
    BY <2>2, <2>3, FS_Subset
  <2>5. Cardinality(st.queue) <= Cardinality(SharedOf(st))
    BY DEF DiffDone, DiffInv
  <2>6. Cardinality(st.queue) \in Nat /\ Cardinality(SharedOf(st)) \in Nat
    BY <2>2, <2>4, FS_CardinalityType
  <2> QED
    BY <2>4, <2>5, <2>6
<1>3. SideOf(st, "A") = st.queue /\ SideOf(st, "B") = st.queue
  BY <1>2 DEF SharedOf, SideOf
<1>4. \A u \in 0 .. (l - 1) : u \in EventsOf(h, a) <=> u \in EventsOf(h, b)
  <2>1. Follows(h, a, st.queue, l) /\ Follows(h, b, st.queue, l)
    BY <1>3 DEF DiffInv
  <2> QED
    BY <2>1 DEF Follows, EventsOf
<1>5. \A u \in EventsOf(h, a) \cup EventsOf(h, b) : u \in 0 .. (l - 1) \/ l <= u
  <2>1. EventsOf(h, a) \subseteq Nat /\ EventsOf(h, b) \subseteq Nat
    BY EventsAreVersions, Zenon
  <2> HIDE DEF h
  <2> QED
    BY <1>1, <2>1
<1>6. OnlyFrom(h, a, b, l) = EventsOf(h, a) \ EventsOf(h, b)
  BY <1>4, <1>5 DEF OnlyFrom
<1>7. OnlyFrom(h, b, a, l) = EventsOf(h, b) \ EventsOf(h, a)
  BY <1>4, <1>5 DEF OnlyFrom
<1> QED
  BY <1>6, <1>7 DEF DiffInv

\* diff() returns the difference of the two histories, each way, as ascending
\* runs that do not touch.
LEMMA DiffOfGraph ==
  ASSUME NEW g, GraphInv(g), NEW a \in SUBSET Versions(g), NEW b \in SUBSET Versions(g)
  PROVE  LET h == Histories(g)
             d == Diff(g, a, b)
         IN  /\ RangesToSet(d.aOnly) = EventsOf(h, a) \ EventsOf(h, b)
             /\ RangesToSet(d.bOnly) = EventsOf(h, b) \ EventsOf(h, a)
             /\ Canonical(d.aOnly) /\ Canonical(d.bOnly)
             /\ d.aOnly \in Seq(Nat \X Nat) /\ d.bOnly \in Seq(Nat \X Nat)
<1> DEFINE n       == NextLV(g)
           Loop(f) == f = [k \in 0 .. n |-> IF k = 0 THEN DiffStart(g, a, b) ELSE DiffIterate(g, f[k - 1])]
           after   == CHOOSE f : Loop(f)
           first   == DiffStart(g, a, b)
           T       == {st \in DiffLoops(g) : \E l \in 0 .. n : DiffInv(g, a, b, st, l)}
           step    == [st \in T |-> DiffIterate(g, st)]
           done    == {st \in T : DiffDone(st)}
           level   == [st \in T |-> {l \in 0 .. n : DiffInv(g, a, b, st, l)}]
<1>1. n \in Nat
  BY NextLVType DEF GraphInv
<1>2. Diff(g, a, b) = DiffResult(after[n])
  BY DEF Diff
<1>3. \A st, l : DiffInv(g, a, b, st, l) => st \in T /\ l \in 0 .. n
  BY DEF DiffInv
<1>4. first \in T
  BY <1>3, DiffStarts
<1>5. ASSUME NEW st \in T, ~ DiffDone(st), NEW l \in level[st]
      PROVE  step[st] \in T /\ \E k \in level[step[st]] : k < l
  <2>1. DiffInv(g, a, b, st, l) /\ step[st] = DiffStep(g, st) /\ l \in 0 .. n
    BY <1>5 DEF DiffIterate
  <2>2. PICK k \in 0 .. (l - 1) : DiffInv(g, a, b, DiffStep(g, st), k)
    BY <1>5, <2>1, DiffStepKeeps
  <2>3. step[st] \in T /\ k \in 0 .. n /\ DiffInv(g, a, b, step[st], k)
    BY <1>3, <2>1, <2>2
  <2> HIDE DEF step, T
  <2>4. k \in level[step[st]]
    BY <2>3
  <2>5. k < l
    BY <1>1, <2>1, <2>2
  <2> QED
    BY <2>3, <2>4, <2>5
<1>6. Descent(T, step, done, level, n)
  <2> SUFFICES ASSUME NEW st \in T
               PROVE  /\ level[st] \subseteq 0 .. n /\ level[st] # {}
                      /\ st \in done => step[st] = st
                      /\ st \notin done => step[st] \in T /\ \A l \in level[st] : \E k \in level[step[st]] : k < l
    BY DEF Descent
  <2>1. level[st] \subseteq 0 .. n /\ level[st] # {}
    OBVIOUS
  <2>2. st \in done => step[st] = st
    BY DEF DiffIterate
  <2>3. st \notin done => ~ DiffDone(st)
    OBVIOUS
  <2> HIDE DEF T, step, level, done
  <2> QED
    BY <1>5, <2>1, <2>2, <2>3
<1>7. \A st \in T : step[st] = DiffIterate(g, st)
  OBVIOUS
<1>8. \A st \in done : DiffDone(st)
  OBVIOUS
<1>9. \A st \in T : \E l : DiffInv(g, a, b, st, l)
  OBVIOUS
<1> HIDE DEF n, T, step, done, level, first
<1>10. \E f : Loop(f)
  <2>1. PICK f : Iteration(f, first, step, n, T)
    BY <1>1, <1>4, <1>6, IterationEnds
  <2>2. \A k \in 0 .. n : f[k] = IF k = 0 THEN first ELSE DiffIterate(g, f[k - 1])
    <3> SUFFICES ASSUME NEW k \in 0 .. n, k # 0 PROVE f[k] = DiffIterate(g, f[k - 1])
      BY <2>1 DEF Iteration
    <3>1. k \in 1 .. n /\ k - 1 \in 0 .. n
      BY <1>1
    <3> QED
      BY <1>7, <2>1, <3>1 DEF Iteration
  <2> QED
    BY <2>1, <2>2 DEF first, Iteration
<1>11. Loop(after)
  BY <1>10
<1> HIDE DEF after
<1>12. Iterates(after, first, step, n, T)
  <2>1. \A k \in 0 .. n : after[k] = IF k = 0 THEN first ELSE DiffIterate(g, after[k - 1])
    BY <1>11 DEF first
  <2>2. 0 \in 0 .. n /\ \A k \in 1 .. n : k \in 0 .. n /\ k # 0
    BY <1>1
  <2> QED
    BY <1>7, <2>1, <2>2 DEF Iterates
<1>13. after[n] \in T /\ after[n] \in done
  BY <1>1, <1>4, <1>6, <1>12, IterationEnds
<1>14. PICK l : DiffInv(g, a, b, after[n], l)
  BY <1>9, <1>13
<1>15. DiffDone(after[n])
  BY <1>8, <1>13
<1>16. LET h == Histories(g)
       IN  /\ RangesToSet(after[n].aOnly) = EventsOf(h, a) \ EventsOf(h, b)
           /\ RangesToSet(after[n].bOnly) = EventsOf(h, b) \ EventsOf(h, a)
  BY <1>14, <1>15, DiffEnds
<1>17. DescendingTo(after[n].aOnly, l) /\ DescendingTo(after[n].bOnly, l)
  BY <1>14 DEF DiffInv
<1>18. Diff(g, a, b).aOnly = Reversed(after[n].aOnly) /\ Diff(g, a, b).bOnly = Reversed(after[n].bOnly)
  BY <1>2 DEF DiffResult
<1> QED
  BY <1>16, <1>17, <1>18, RangesReversed

-----------------------------------------------------------------------------
(* findDominators()                                                        *)

\* A history reaches down from its version, has the run of the version's entry
\* up to it, and the history of all it has.
LEMMA HistoryOfVersion ==
  ASSUME NEW g, GraphInv(g), NEW v \in Versions(g)
  PROVE  LET h == Histories(g)
         IN  /\ v \in h[v] /\ h[v] \subseteq 0 .. v
             /\ \A w \in h[v] : h[w] \subseteq h[v]
             /\ \A u \in FindEntryContaining(g, v).version .. v : u \in h[v]
<1> DEFINE par == ParentsIn(g)
           n   == NextLV(g)
           s   == FindEntryContaining(g, v).version
<1>1. Topological(par, n) /\ v \in 0 .. (n - 1) /\ Histories(g) = HistoriesOf(par, n)
  BY GraphIsTopological DEF Histories, ParentsIn
<1>2. s \in 0 .. v /\ IsRun(par, s, v)
  BY RunOfEntry
<1> HIDE DEF par, n, s
<1>3. \A u \in s .. v : u \in HistoriesOf(par, n)[v]
  BY <1>1, <1>2, RunHistory DEF IsRun
<1>4. LET h == HistoriesOf(par, n)
      IN  /\ v \in h[v] /\ h[v] \subseteq 0 .. v
          /\ \A w \in h[v] : h[w] \subseteq h[v]
  BY <1>1, HistoryOrder
<1> QED
  BY <1>1, <1>3, <1>4 DEF s

\* The variables of the loop.
DominatorLoops == [queue : SUBSET Nat, remaining : Nat, found : Seq(Nat)]

InputsOf(st)   == {v \in Nat : 2 * v \in st.queue}
PassedOn(st)   == {p \in Nat : 2 * p + 1 \in st.queue}
EvenOnes(S)    == {x \in S : x % 2 = 0}

\* From the highest down, and none below l.
FallingTo(list, l) ==
  /\ list \in Seq(Nat)
  /\ \A i \in DOMAIN list : l <= list[i]
  /\ \A i \in DOMAIN list \ {1} : list[i] < list[i - 1]

\* What the loop keeps when all from l up is decided: the inputs below l are
\* queued, and so is what stands for the histories of the others.
DominatorInv(g, S, st, l) ==
  LET h == Histories(g)
  IN  /\ st \in DominatorLoops
      /\ l \in 0 .. NextLV(g)
      /\ st.queue \subseteq 0 .. (2 * l - 1)
      /\ InputsOf(st) = {v \in S : v < l}
      /\ st.remaining = Cardinality(EvenOnes(st.queue))
      /\ Follows(h, {v \in S : l <= v}, PassedOn(st), l)
      /\ FallingTo(st.found, l)
      /\ VersionsIn(st.found) = {v \in DominatorsOf(h, S) : l <= v}

\* A lower version follows the list.
LEMMA AppendFalling ==
  ASSUME NEW l \in Nat, NEW k \in Nat, NEW m \in Nat, k <= m, m < l, NEW list, FallingTo(list, l)
  PROVE  /\ FallingTo(list, k) /\ FallingTo(Append(list, m), k)
         /\ VersionsIn(Append(list, m)) = VersionsIn(list) \cup {m}
<1> DEFINE n   == Len(list)
           new == Append(list, m)
<1>1. /\ n \in Nat /\ DOMAIN list = 1 .. n /\ list \in Seq(Nat)
      /\ \A i \in 1 .. n : list[i] \in Nat /\ l <= list[i]
      /\ \A i \in (1 .. n) \ {1} : list[i] < list[i - 1]
  <2>1. list \in Seq(Nat) /\ n \in Nat /\ DOMAIN list = 1 .. n
    BY DEF FallingTo
  <2>2. \A i \in 1 .. n : list[i] \in Nat
    BY <2>1
  <2> HIDE DEF n
  <2> QED
    BY <2>1, <2>2 DEF FallingTo
<1>2. /\ new \in Seq(Nat) /\ DOMAIN new = 1 .. (n + 1) /\ new[n + 1] = m
      /\ \A i \in 1 .. n : new[i] = list[i]
  BY <1>1
<1> HIDE DEF n, new
<1>3. \A i \in 1 .. n : k <= list[i]
  BY <1>1
<1>4. FallingTo(list, k)
  BY <1>1, <1>3 DEF FallingTo
<1>5. \A i \in 1 .. (n + 1) : i = n + 1 \/ i \in 1 .. n
  BY <1>1
<1>6. \A i \in 1 .. (n + 1) : k <= new[i]
  BY <1>2, <1>3, <1>5
<1>7. \A i \in (1 .. (n + 1)) \ {1} : new[i] < new[i - 1]
  <2> SUFFICES ASSUME NEW i \in (1 .. (n + 1)) \ {1} PROVE new[i] < new[i - 1]
    OBVIOUS
  <2>1. i - 1 \in 1 .. n /\ new[i - 1] = list[i - 1] /\ l <= list[i - 1] /\ list[i - 1] \in Nat
    BY <1>1, <1>2
  <2>2. CASE i = n + 1
    BY <1>2, <2>1, <2>2
  <2>3. CASE i \in 1 .. n
    BY <1>1, <1>2, <2>1, <2>3
  <2> QED
    BY <1>5, <2>2, <2>3
<1>8. FallingTo(new, k)
  BY <1>2, <1>6, <1>7 DEF FallingTo
<1>9. VersionsIn(new) = VersionsIn(list) \cup {m}
  <2>1. n + 1 \in 1 .. (n + 1) /\ \A i \in 1 .. n : i \in 1 .. (n + 1)
    BY <1>1
  <2>2. \A u : u \in VersionsIn(new) <=> \E i \in 1 .. (n + 1) : u = new[i]
    BY <1>2 DEF VersionsIn
  <2>3. \A u : u \in VersionsIn(list) <=> \E i \in 1 .. n : u = list[i]
    BY <1>1 DEF VersionsIn
  <2>4. \A u : u \in VersionsIn(new) <=> u \in VersionsIn(list) \/ u = m
    BY <1>2, <1>5, <2>1, <2>2, <2>3
  <2> QED
    BY <2>4
<1> QED
  BY <1>4, <1>8, <1>9 DEF new

\* From s up to l only m is dominant, and that unless it is in P.
DominantIs(h, S, s, l, m, P) ==
  \A v \in S : s <= v /\ v < l => (v \in DominatorsOf(h, S) <=> v = m /\ m \notin P)

\* Nothing of an entry is dominant below the highest version that is queued,
\* and that one is dominant if it is queued as an input only.
LEMMA DominantInRun ==
  ASSUME NEW g, GraphInv(g), NEW S \in SUBSET Versions(g), NEW l \in 0 .. NextLV(g),
         NEW m \in 0 .. (l - 1), NEW P \in SUBSET (0 .. m), \A v \in S : v < l => v <= m,
         Follows(Histories(g), {v \in S : l <= v}, P, l), m \in P \/ m \in S
  PROVE  DominantIs(Histories(g), S, FindEntryContaining(g, m).version, l, m, P)
<1> DEFINE h == Histories(g)
           s == FindEntryContaining(g, m).version
<1>1. /\ NextLV(g) \in Nat /\ Versions(g) = 0 .. (NextLV(g) - 1)
      /\ l \in Nat /\ m \in Nat /\ m < l /\ m \in Versions(g)
  BY NextLVType DEF GraphInv, Versions
<1>2. \A v \in Versions(g) : v \in Nat /\ v \in h[v] /\ h[v] \subseteq 0 .. v /\ \A w \in h[v] : h[w] \subseteq h[v]
  <2>1. \A v \in Versions(g) : v \in Nat
    BY <1>1
  <2> QED
    BY <2>1, HistoryOfVersion
<1>3. \A u \in s .. m : u \in h[m]
  BY <1>1, HistoryOfVersion
<1>4. s \in Nat /\ s <= m
  <2>1. s \in 0 .. m
    BY <1>1, RunOfEntry
  <2> HIDE DEF s
  <2> QED
    BY <1>1, <2>1
<1>5. \A u \in 0 .. (l - 1) : (\E v \in S : l <= v /\ u \in h[v]) <=> (\E p \in P : u \in h[p])
  BY DEF Follows
<1>6. DominatorsOf(h, S) = {v \in S : \A w \in S \ {v} : v \notin h[w]}
  BY DEF DominatorsOf
<1> HIDE DEF h, s
<1>7. ASSUME NEW v \in S, s <= v, v < l
      PROVE  v \in DominatorsOf(h, S) <=> v = m /\ m \notin P
  <2>1. v \in Versions(g) /\ v \in Nat /\ v <= m /\ v \in s .. m /\ v \in h[m]
    <3>1. v \in Versions(g) /\ v \in Nat /\ v <= m
      BY <1>2, <1>7
    <3>2. v \in s .. m
      BY <1>1, <1>4, <1>7, <3>1
    <3> QED
      BY <1>3, <3>1, <3>2
  <2>2. CASE m \in P
    <3>1. m \in h[m] /\ m \in 0 .. (l - 1)
      BY <1>1, <1>2
    <3>2. PICK w \in S : l <= w /\ m \in h[w]
      BY <1>5, <2>2, <3>1
    <3>3. w \in Versions(g) /\ h[m] \subseteq h[w]
      BY <1>2, <3>2
    <3>4. v \in h[w] /\ w # v
      BY <1>1, <1>2, <1>7, <2>1, <3>2, <3>3
    <3> QED
      BY <1>6, <2>2, <3>4
  <2>3. CASE m \notin P /\ v # m
    BY <1>6, <2>1, <2>3
  <2>4. CASE m \notin P /\ v = m
    <3>1. ASSUME NEW w \in S \ {m}, m \in h[w]
          PROVE  FALSE
      <4>1. w \in Nat /\ w \in Versions(g) /\ m \in 0 .. w
        BY <1>2, <3>1
      <4>2. l <= w
        BY <1>1, <3>1, <4>1
      <4>3. PICK p \in P : m \in h[p]
        BY <1>1, <1>5, <3>1, <4>2
      <4>4. p \in Versions(g) /\ p <= m /\ p \in Nat
        BY <1>1, <4>3
      <4>5. m \in 0 .. p
        BY <1>2, <4>3, <4>4
      <4>6. p = m
        BY <1>1, <4>4, <4>5
      <4> QED
        BY <2>4, <4>3, <4>6
    <3> QED
      BY <1>6, <2>4, <3>1
  <2> QED
    BY <2>2, <2>3, <2>4
<1> QED
  BY <1>7 DEF h, s, DominantIs

\* With what is queued of an entry joined to the inputs that are decided, and
\* the entry's parents in its place, the histories go on below the entry.
LEMMA InputsPassed ==
  ASSUME NEW g, GraphInv(g), NEW S \in SUBSET Versions(g), NEW l \in 0 .. NextLV(g),
         NEW m \in 0 .. (l - 1), NEW P \in SUBSET (0 .. m), \A v \in S : v < l => v <= m,
         Follows(Histories(g), {v \in S : l <= v}, P, l), m \in P \/ m \in S
  PROVE  LET e == FindEntryContaining(g, m)
             s == e.version
         IN  Follows(Histories(g), {v \in S : s <= v}, {p \in P : p < s} \cup e.parents, s)
<1> DEFINE h == Histories(g)
           e == FindEntryContaining(g, m)
           s == e.version
           W == {v \in S : s <= v /\ v < l}
           Q == P \cup W
           X == {v \in S : s <= v}
           R == {p \in P : p < s} \cup e.parents
<1>1. /\ NextLV(g) \in Nat /\ Versions(g) = 0 .. (NextLV(g) - 1)
      /\ l \in Nat /\ m \in Nat /\ m < l /\ m \in Versions(g)
  BY NextLVType DEF GraphInv, Versions
<1>2. s \in Nat /\ s <= m
  <2>1. s \in 0 .. m
    BY <1>1, RunOfEntry
  <2> HIDE DEF s
  <2> QED
    BY <1>1, <2>1
<1>3. \A u \in 0 .. (l - 1) : (\E v \in S : l <= v /\ u \in h[v]) <=> (\E p \in P : u \in h[p])
  BY DEF Follows
<1> HIDE DEF h, e, s
<1>4. Q \in SUBSET (0 .. m)
  <2>1. \A v \in W : v \in 0 .. m
    <3> SUFFICES ASSUME NEW v \in W PROVE v \in 0 .. m
      OBVIOUS
    <3>1. v \in Versions(g) /\ v <= m
      OBVIOUS
    <3> QED
      BY <1>1, <3>1
  <2> QED
    BY <2>1
<1>5. Follows(h, X, Q, l)
  <2>1. \A v \in S : s <= v <=> (l <= v \/ v \in W)
    <3> SUFFICES ASSUME NEW v \in S PROVE s <= v <=> (l <= v \/ (s <= v /\ v < l))
      OBVIOUS
    <3>1. v \in Nat
      BY <1>1
    <3> QED
      BY <1>1, <1>2, <3>1
  <2>2. W \subseteq S
    OBVIOUS
  <2> HIDE DEF W
  <2> QED
    BY <1>3, <2>1, <2>2 DEF Follows
<1>6. RunPassed(h, X, Q, e.parents, s, m, l)
  <2>1. Follows(Histories(g), X, Q, l)
    BY <1>5 DEF h
  <2> HIDE DEF X, Q
  <2> QED
    BY <1>4, <2>1, FollowsBelowEntry DEF h, e, s
<1>7. {q \in Q : q < s} \cup {p \in e.parents : \E q \in Q : s <= q} = R
  <2>1. m \in Q
    BY <1>1, <1>2
  <2>2. \A v \in W : ~ (v < s)
    <3> SUFFICES ASSUME NEW v \in W PROVE ~ (v < s)
      OBVIOUS
    <3>1. v \in Nat /\ s <= v
      BY <1>1
    <3> QED
      BY <1>2, <3>1
  <2> HIDE DEF W
  <2> QED
    BY <1>2, <2>1, <2>2
<1>8. Follows(h, X, R, s)
  BY <1>6, <1>7 DEF RunPassed
<1> QED
  BY <1>8 DEF h, e, s

\* The inputs within the entry are counted off.
LEMMA InputsCounted ==
  ASSUME NEW queue, NEW n \in Nat, queue \subseteq 0 .. n, NEW within \in SUBSET queue,
         NEW new, EvenOnes(new) = EvenOnes(queue \ within)
  PROVE  /\ Cardinality(EvenOnes(queue)) - Cardinality(EvenOnes(within)) \in Nat
         /\ Cardinality(EvenOnes(new)) = Cardinality(EvenOnes(queue)) - Cardinality(EvenOnes(within))
<1>1. IsFiniteSet(0 .. n)
  BY FS_Interval
<1>2. EvenOnes(queue) = EvenOnes(new) \cup EvenOnes(within) /\ EvenOnes(new) \cap EvenOnes(within) = {}
  BY DEF EvenOnes
<1>3. EvenOnes(new) \in SUBSET (0 .. n) /\ EvenOnes(within) \in SUBSET (0 .. n)
  BY DEF EvenOnes
<1>4. IsFiniteSet(EvenOnes(new)) /\ IsFiniteSet(EvenOnes(within))
  BY <1>1, <1>3, FS_Subset
<1>5. Cardinality(EvenOnes(new)) \in Nat /\ Cardinality(EvenOnes(within)) \in Nat
  BY <1>4, FS_CardinalityType
<1>6. Cardinality(EvenOnes(new) \cup EvenOnes(within)) =
        Cardinality(EvenOnes(new)) + Cardinality(EvenOnes(within)) - Cardinality(EvenOnes(new) \cap EvenOnes(within))
  BY <1>4, FS_Union
<1>7. Cardinality(EvenOnes(new) \cap EvenOnes(within)) = 0
  BY <1>2, FS_EmptySet
<1> QED
  BY <1>2, <1>5, <1>6, <1>7

\* An entry is passed: the invariant holds at its start.
LEMMA DominatorStepKeeps ==
  ASSUME NEW g, GraphInv(g), NEW S \in SUBSET Versions(g), NEW st, NEW l,
         DominatorInv(g, S, st, l), st.queue # {}
  PROVE  \E k \in 0 .. (l - 1) :
           DominatorInv(g, S, DominatorStep(st, Highest(st.queue),
                                            FindEntryContaining(g, Highest(st.queue) \div 2)), k)
<1> DEFINE h      == Histories(g)
           top    == Highest(st.queue)
           m      == top \div 2
           e      == FindEntryContaining(g, m)
           s      == e.version
           P      == PassedOn(st)
           within == {x \in st.queue : x >= 2 * e.version}
           new    == DominatorStep(st, top, e)
<1>1. /\ new.queue = (st.queue \ within) \cup {2 * p + 1 : p \in e.parents}
      /\ new.remaining = st.remaining - Cardinality(EvenOnes(within))
      /\ new.found = IF top % 2 = 0 THEN Append(st.found, m) ELSE st.found
      /\ new = [queue |-> new.queue, remaining |-> new.remaining, found |-> new.found]
  BY DEF DominatorStep, EvenOnes
<1>2. /\ NextLV(g) \in Nat /\ Versions(g) = 0 .. (NextLV(g) - 1)
      /\ l \in 0 .. NextLV(g) /\ l \in Nat /\ st \in DominatorLoops
      /\ st.queue \subseteq 0 .. (2 * l - 1) /\ 2 * l \in Nat
      /\ InputsOf(st) = {v \in S : v < l}
      /\ \A v \in S : v \in Nat /\ v \in Versions(g)
  <2>1. NextLV(g) \in Nat /\ Versions(g) = 0 .. (NextLV(g) - 1)
    BY NextLVType DEF GraphInv, Versions
  <2> QED
    BY <2>1 DEF DominatorInv
<1>3. top \in st.queue /\ top \in 0 .. (2 * l - 1) /\ \A x \in st.queue : x \in Nat /\ x <= top
  <2>1. Highest(st.queue) \in st.queue /\ \A x \in st.queue : x <= Highest(st.queue)
    BY <1>2, HighestProperties
  <2> QED
    BY <1>2, <2>1
<1> HIDE DEF top
<1>4. /\ top % 2 \in {0, 1} /\ m \in Nat
      /\ top % 2 = 0 => top = 2 * m
      /\ top % 2 = 1 => top = 2 * m + 1
  <2>1. top \in Nat
    BY <1>3
  <2>2. top % 2 \in {0, 1} /\ m \in Nat /\ top = 2 * m + (top % 2)
    BY <2>1, HalfOf
  <2> HIDE DEF m
  <2> QED
    BY <2>2
<1> HIDE DEF m
<1>5. m \in 0 .. (l - 1) /\ m \in Versions(g)
  <2>1. 2 * m <= top
    BY <1>3, <1>4
  <2> QED
    BY <1>2, <1>3, <1>4, <2>1
<1>6. s \in 0 .. m /\ s \in Nat /\ s <= m /\ e.parents \subseteq 0 .. (s - 1)
  <2>1. s \in 0 .. m /\ e.parents \subseteq 0 .. (s - 1)
    BY <1>5, RunOfEntry
  <2> HIDE DEF s, e
  <2> QED
    BY <1>4, <2>1
<1>7. P \in SUBSET (0 .. m) /\ (m \in P <=> top % 2 = 1)
  <2>1. \A p \in P : p \in Nat /\ 2 * p + 1 <= top
    BY <1>3 DEF PassedOn
  <2>2. \A p \in P : p \in 0 .. m /\ (p = m => top % 2 = 1)
    <3> HIDE DEF P
    <3> QED
      BY <1>4, <2>1
  <2>3. top % 2 = 1 => m \in P
    BY <1>3, <1>4 DEF PassedOn
  <2> QED
    BY <2>2, <2>3
<1>8. (\A v \in S : v < l => v <= m) /\ (top % 2 = 0 => m \in S)
  <2>1. ASSUME NEW v \in S, v < l PROVE v <= m
    <3>1. v \in InputsOf(st) /\ v \in Nat
      BY <1>2, <2>1
    <3>2. 2 * v <= top
      BY <1>3, <3>1 DEF InputsOf
    <3> QED
      BY <1>4, <3>1, <3>2
  <2>2. ASSUME top % 2 = 0 PROVE m \in S
    <3>1. m \in InputsOf(st)
      BY <1>3, <1>4, <2>2 DEF InputsOf
    <3> QED
      BY <1>2, <3>1
  <2> QED
    BY <2>1, <2>2
<1>9. Follows(h, {v \in S : l <= v}, P, l) /\ (m \in P \/ m \in S)
  BY <1>4, <1>7, <1>8 DEF DominatorInv
<1>10. Follows(h, {v \in S : s <= v}, {p \in P : p < s} \cup e.parents, s)
  BY <1>2, <1>5, <1>7, <1>8, <1>9, InputsPassed
<1>11. DominantIs(h, S, s, l, m, P)
  BY <1>2, <1>5, <1>7, <1>8, <1>9, DominantInRun
<1> HIDE DEF h, P, e
<1>12. \A x \in st.queue : x \in within <=> 2 * s <= x
  BY <1>3
<1>13. \A x : x \in new.queue <=> (x \in st.queue /\ x < 2 * s) \/ \E p \in e.parents : x = 2 * p + 1
  <2>1. \A x \in st.queue : x \notin within <=> x < 2 * s
    BY <1>3, <1>6, <1>12
  <2> HIDE DEF within, new
  <2> QED
    BY <1>1, <2>1
<1>14. within \in SUBSET st.queue
  OBVIOUS
<1> HIDE DEF within, new
<1>15. new.queue \subseteq 0 .. (2 * s - 1) /\ new.queue \in SUBSET Nat
  <2> SUFFICES ASSUME NEW x \in new.queue PROVE x \in 0 .. (2 * s - 1) /\ x \in Nat
    OBVIOUS
  <2>1. CASE x \in st.queue /\ x < 2 * s
    BY <1>3, <1>6, <2>1
  <2>2. CASE \E p \in e.parents : x = 2 * p + 1
    <3>1. PICK p \in 0 .. (s - 1) : x = 2 * p + 1
      BY <1>6, <2>2
    <3> HIDE DEF s
    <3> QED
      BY <1>6, <3>1
  <2> QED
    BY <1>13, <2>1, <2>2
<1>16. InputsOf(new) = {v \in S : v < s}
  <2>1. ASSUME NEW v \in Nat PROVE 2 * v \in new.queue <=> v \in S /\ v < s
    <3>1. ~ \E p \in e.parents : 2 * v = 2 * p + 1
      <4> SUFFICES ASSUME NEW p \in Nat, 2 * v = 2 * p + 1 PROVE FALSE
        BY <1>6
      <4> QED
        OBVIOUS
    <3>2. 2 * v < 2 * s <=> v < s
      <4> HIDE DEF s
      <4> QED
        BY <1>6
    <3>3. 2 * v \in st.queue <=> v \in S /\ v < l
      BY <1>2 DEF InputsOf
    <3>4. v < s => v < l
      <4> HIDE DEF s
      <4> QED
        BY <1>2, <1>5, <1>6
    <3> QED
      BY <1>13, <3>1, <3>2, <3>3, <3>4
  <2> QED
    BY <1>2, <2>1 DEF InputsOf
<1>17. PassedOn(new) = {p \in P : p < s} \cup e.parents
  <2>1. ASSUME NEW p \in Nat
        PROVE  2 * p + 1 \in new.queue <=> (p \in P /\ p < s) \/ p \in e.parents
    <3>1. (\E q \in e.parents : 2 * p + 1 = 2 * q + 1) <=> p \in e.parents
      <4>1. \A q \in e.parents : q \in Nat
        BY <1>6
      <4>2. \A q \in Nat : 2 * p + 1 = 2 * q + 1 => p = q
        OBVIOUS
      <4> QED
        BY <4>1, <4>2
    <3>2. 2 * p + 1 < 2 * s <=> p < s
      <4> HIDE DEF s
      <4> QED
        BY <1>6
    <3> QED
      BY <1>13, <3>1, <3>2 DEF P, PassedOn
  <2>2. \A p \in e.parents : p \in Nat
    BY <1>6
  <2>3. P \subseteq Nat
    BY DEF P, PassedOn
  <2> QED
    BY <2>1, <2>2, <2>3 DEF PassedOn
<1>18. new.remaining \in Nat /\ new.remaining = Cardinality(EvenOnes(new.queue))
  <2>1. EvenOnes(new.queue) = EvenOnes(st.queue \ within)
    <3>1. ASSUME NEW p \in Nat PROVE (2 * p + 1) % 2 # 0
      BY <3>1, HalfIs
    <3>2. \A p \in e.parents : p \in Nat
      BY <1>6
    <3> QED
      BY <1>1, <3>1, <3>2 DEF EvenOnes
  <2>2. 2 * l - 1 \in Nat
    BY <1>2, <1>3
  <2>3. st.remaining = Cardinality(EvenOnes(st.queue))
    BY DEF DominatorInv
  <2> DEFINE n == 2 * l - 1
  <2>4. n \in Nat /\ st.queue \subseteq 0 .. n
    BY <1>2, <2>2
  <2> HIDE DEF n
  <2>5. /\ Cardinality(EvenOnes(st.queue)) - Cardinality(EvenOnes(within)) \in Nat
        /\ Cardinality(EvenOnes(new.queue)) = Cardinality(EvenOnes(st.queue)) - Cardinality(EvenOnes(within))
    BY <1>14, <2>1, <2>4, InputsCounted
  <2> QED
    BY <1>1, <2>3, <2>5
<1>19. FallingTo(new.found, s) /\ VersionsIn(new.found) = {v \in DominatorsOf(h, S) : s <= v}
  <2>1. FallingTo(st.found, l) /\ VersionsIn(st.found) = {v \in DominatorsOf(h, S) : l <= v}
    BY DEF DominatorInv, h
  <2>2. DominatorsOf(h, S) \subseteq S
    BY DEF DominatorsOf
  <2>3. \A v \in S : s <= v <=> l <= v \/ (s <= v /\ v < l)
    <3> SUFFICES ASSUME NEW v \in Nat PROVE s <= v <=> l <= v \/ (s <= v /\ v < l)
      BY <1>2
    <3> HIDE DEF s
    <3> QED
      BY <1>2, <1>5, <1>6
  <2>4. s \in Nat /\ m \in Nat /\ s <= m /\ m < l /\ l \in Nat
    BY <1>2, <1>5, <1>6
  <2> HIDE DEF s
  <2>5. /\ FallingTo(st.found, s) /\ FallingTo(Append(st.found, m), s)
        /\ VersionsIn(Append(st.found, m)) = VersionsIn(st.found) \cup {m}
    BY <2>1, <2>4, AppendFalling
  <2>6. CASE top % 2 = 0
    <3>1. m \in S /\ m \notin P /\ new.found = Append(st.found, m)
      BY <1>1, <1>7, <1>8, <2>6
    <3>2. m \in DominatorsOf(h, S)
      BY <1>11, <2>4, <3>1 DEF DominantIs
    <3>3. \A v \in DominatorsOf(h, S) : s <= v <=> l <= v \/ v = m
      BY <1>11, <2>2, <2>3, <2>4, <3>1 DEF DominantIs
    <3>4. {v \in DominatorsOf(h, S) : s <= v} = {v \in DominatorsOf(h, S) : l <= v} \cup {m}
      BY <3>2, <3>3
    <3> QED
      BY <2>1, <2>5, <3>1, <3>4
  <2>7. CASE top % 2 = 1
    <3>1. m \in P /\ new.found = st.found
      BY <1>1, <1>7, <2>7
    <3>2. \A v \in DominatorsOf(h, S) : s <= v <=> l <= v
      BY <1>11, <2>2, <2>3, <3>1 DEF DominantIs
    <3> QED
      BY <2>1, <2>5, <3>1, <3>2
  <2> QED
    BY <1>4, <2>6, <2>7
<1>20. s \in 0 .. NextLV(g) /\ s \in 0 .. (l - 1)
  <2> HIDE DEF s
  <2> QED
    BY <1>2, <1>5, <1>6
<1>21. new \in DominatorLoops
  <2>1. new.found \in Seq(Nat)
    BY <1>19 DEF FallingTo
  <2> QED
    BY <1>1, <1>15, <1>18, <2>1 DEF DominatorLoops
<1>22. Follows(h, {v \in S : s <= v}, PassedOn(new), s)
  BY <1>10, <1>17
<1>23. DominatorInv(g, S, new, s)
  <2> HIDE DEF s
  <2> QED
    BY <1>15, <1>16, <1>18, <1>19, <1>20, <1>21, <1>22 DEF DominatorInv, h
<1> QED
  BY <1>20, <1>23 DEF new, top, e, m

\* Before the first iteration every input is queued.
LEMMA DominatorStarts ==
  ASSUME NEW g, GraphInv(g), NEW S \in SUBSET Versions(g)
  PROVE  DominatorInv(g, S, DominatorStart(S), NextLV(g))
<1> DEFINE n  == NextLV(g)
           h  == Histories(g)
           st == DominatorStart(S)
<1>1. /\ n \in Nat /\ Versions(g) = 0 .. (n - 1) /\ n \in 0 .. n
      /\ IsFiniteSet(S) /\ \A v \in S : v \in Nat /\ v < n
  <2>1. n \in Nat /\ Versions(g) = 0 .. (n - 1)
    BY NextLVType DEF GraphInv, Versions
  <2> HIDE DEF n
  <2>2. IsFiniteSet(0 .. (n - 1))
    BY <2>1, FS_Interval
  <2>3. IsFiniteSet(S)
    BY <2>1, <2>2, FS_Subset
  <2> QED
    BY <2>1, <2>3
<1>2. st = [queue |-> {2 * v : v \in S}, remaining |-> Cardinality(S), found |-> <<>>]
  BY DEF DominatorStart
<1> HIDE DEF n, h, st
<1>3. st.queue = {2 * v : v \in S} /\ st.remaining = Cardinality(S) /\ st.found = <<>>
  BY <1>2
<1>4. st.queue \subseteq 0 .. (2 * n - 1) /\ st.queue \in SUBSET Nat
  BY <1>1, <1>3
<1>5. EvenOnes(st.queue) = st.queue
  <2>1. \A v \in Nat : (2 * v) % 2 = 0
    BY HalfIs
  <2> QED
    BY <1>1, <1>3, <2>1 DEF EvenOnes
<1>6. st.remaining \in Nat /\ st.remaining = Cardinality(EvenOnes(st.queue))
  <2> DEFINE double == [v \in S |-> 2 * v]
  <2>1. double \in Bijection(S, st.queue)
    <3>1. double \in [S -> st.queue] /\ \A t \in st.queue : \E v \in S : double[v] = t
      BY <1>3
    <3>2. \A v, w \in S : double[v] = double[w] => v = w
      BY <1>1
    <3> QED
      BY <3>1, <3>2 DEF Bijection, Injection, Surjection, IsInjective
  <2>2. ExistsBijection(S, st.queue)
    BY <2>1 DEF ExistsBijection
  <2>3. Cardinality(st.queue) = Cardinality(S)
    BY <1>1, <2>2, FS_Bijection
  <2>4. Cardinality(S) \in Nat
    BY <1>1, FS_CardinalityType
  <2> QED
    BY <1>3, <1>5, <2>3, <2>4
<1>7. InputsOf(st) = {v \in S : v < n}
  <2>1. \A v, w \in Nat : 2 * v = 2 * w => v = w
    OBVIOUS
  <2> QED
    BY <1>1, <1>3, <2>1 DEF InputsOf
<1>8. {v \in S : n <= v} = {} /\ {v \in DominatorsOf(h, S) : n <= v} = {}
  <2>1. \A v \in S : ~ (n <= v)
    BY <1>1
  <2>2. DominatorsOf(h, S) \subseteq S
    BY DEF DominatorsOf
  <2> QED
    BY <2>1, <2>2
<1>9. PassedOn(st) = {}
  <2>1. \A v, p \in Nat : 2 * p + 1 # 2 * v
    OBVIOUS
  <2> QED
    BY <1>1, <1>3, <2>1 DEF PassedOn
<1>10. Follows(h, {v \in S : n <= v}, PassedOn(st), n)
  BY <1>8, <1>9 DEF Follows
<1>11. FallingTo(st.found, n) /\ VersionsIn(st.found) = {}
  BY <1>3 DEF FallingTo, VersionsIn
<1>12. st \in DominatorLoops
  BY <1>2, <1>3, <1>4, <1>6 DEF DominatorLoops
<1> QED
  BY <1>1, <1>4, <1>6, <1>7, <1>8, <1>10, <1>11, <1>12 DEF DominatorInv, n, h, st

\* When no input is queued, every dominant one is found.
LEMMA DominatorEnds ==
  ASSUME NEW g, GraphInv(g), NEW S \in SUBSET Versions(g), NEW st, NEW l,
         DominatorInv(g, S, st, l), st.queue = {} \/ st.remaining <= 0
  PROVE  VersionsIn(st.found) = DominatorsOf(Histories(g), S)
<1>1. l \in Nat /\ 2 * l - 1 \in Int /\ st.queue \subseteq 0 .. (2 * l - 1) /\ \A v \in S : v \in Nat
  <2>1. NextLV(g) \in Nat
    BY NextLVType DEF GraphInv
  <2>2. l \in Nat
    BY <2>1 DEF DominatorInv
  <2> QED
    BY <2>1, <2>2 DEF DominatorInv, Versions
<1>2. EvenOnes(st.queue) = {}
  <2>1. CASE st.queue = {}
    BY <2>1 DEF EvenOnes
  <2>2. CASE st.remaining <= 0
    <3>1. IsFiniteSet(0 .. (2 * l - 1))
      BY <1>1, FS_Interval
    <3>2. EvenOnes(st.queue) \in SUBSET (0 .. (2 * l - 1))
      BY <1>1 DEF EvenOnes
    <3>3. IsFiniteSet(EvenOnes(st.queue))
      BY <3>1, <3>2, FS_Subset
    <3>4. Cardinality(EvenOnes(st.queue)) = 0
      <4>1. Cardinality(EvenOnes(st.queue)) \in Nat
        BY <3>3, FS_CardinalityType
      <4> QED
        BY <2>2, <4>1 DEF DominatorInv
    <3> QED
      BY <3>3, <3>4, FS_EmptySet
  <2> QED
    BY <2>1, <2>2
<1>3. \A v \in S : l <= v
  <2> SUFFICES ASSUME NEW v \in S, ~ (l <= v) PROVE FALSE
    OBVIOUS
  <2>1. v \in Nat /\ v < l
    BY <1>1
  <2>2. v \in InputsOf(st)
    BY <2>1 DEF DominatorInv
  <2>3. 2 * v \in st.queue /\ (2 * v) % 2 = 0
    BY <2>1, <2>2, HalfIs DEF InputsOf
  <2> QED
    BY <1>2, <2>3 DEF EvenOnes
<1> QED
  BY <1>3 DEF DominatorInv, DominatorsOf

\* The loop finds what is dominant, from the highest down.
LEMMA DominatorLoopOfGraph ==
  ASSUME NEW g, GraphInv(g), NEW S \in SUBSET Versions(g)
  PROVE  /\ VersionsIn(DominatorLoop(g, S)) = DominatorsOf(Histories(g), S)
         /\ \E l : FallingTo(DominatorLoop(g, S), l)
<1> DEFINE n       == NextLV(g)
           Over(st) == st.queue = {} \/ st.remaining <= 0
           Loop(f) == f = [k \in 0 .. n |-> IF k = 0 THEN DominatorStart(S) ELSE DominatorIterate(g, f[k - 1])]
           after   == CHOOSE f : Loop(f)
           first   == DominatorStart(S)
           T       == {st \in DominatorLoops : \E l \in 0 .. n : DominatorInv(g, S, st, l)}
           step    == [st \in T |-> DominatorIterate(g, st)]
           done    == {st \in T : Over(st)}
           level   == [st \in T |-> {l \in 0 .. n : DominatorInv(g, S, st, l)}]
<1>1. n \in Nat
  BY NextLVType DEF GraphInv
<1>2. DominatorLoop(g, S) = after[n].found
  BY DEF DominatorLoop
<1>3. \A st, l : DominatorInv(g, S, st, l) => st \in T /\ l \in 0 .. n
  BY DEF DominatorInv
<1>4. first \in T
  BY <1>3, DominatorStarts
<1>5. ASSUME NEW st \in T, ~ Over(st), NEW l \in level[st]
      PROVE  step[st] \in T /\ \E k \in level[step[st]] : k < l
  <2> DEFINE next == DominatorStep(st, Highest(st.queue), FindEntryContaining(g, Highest(st.queue) \div 2))
  <2>1. DominatorInv(g, S, st, l) /\ step[st] = next /\ l \in 0 .. n /\ st.queue # {}
    BY <1>5 DEF DominatorIterate
  <2>2. PICK k \in 0 .. (l - 1) : DominatorInv(g, S, next, k)
    BY <2>1, DominatorStepKeeps
  <2> HIDE DEF next
  <2>3. step[st] \in T /\ k \in 0 .. n /\ DominatorInv(g, S, step[st], k)
    BY <1>3, <2>1, <2>2
  <2> HIDE DEF step, T
  <2>4. k \in level[step[st]]
    BY <2>3
  <2>5. k < l
    BY <1>1, <2>1, <2>2
  <2> QED
    BY <2>3, <2>4, <2>5
<1>6. Descent(T, step, done, level, n)
  <2> SUFFICES ASSUME NEW st \in T
               PROVE  /\ level[st] \subseteq 0 .. n /\ level[st] # {}
                      /\ st \in done => step[st] = st
                      /\ st \notin done => step[st] \in T /\ \A l \in level[st] : \E k \in level[step[st]] : k < l
    BY DEF Descent
  <2>1. level[st] \subseteq 0 .. n /\ level[st] # {}
    OBVIOUS
  <2>2. st \in done => step[st] = st
    BY DEF DominatorIterate
  <2>3. st \notin done => ~ Over(st)
    OBVIOUS
  <2> HIDE DEF T, step, level, done
  <2> QED
    BY <1>5, <2>1, <2>2, <2>3
<1>7. \A st \in T : step[st] = DominatorIterate(g, st)
  OBVIOUS
<1>8. \A st \in done : Over(st)
  OBVIOUS
<1>9. \A st \in T : \E l : DominatorInv(g, S, st, l)
  OBVIOUS
<1> HIDE DEF n, T, step, done, level, first
<1>10. \E f : Loop(f)
  <2>1. PICK f : Iteration(f, first, step, n, T)
    BY <1>1, <1>4, <1>6, IterationEnds
  <2>2. \A k \in 0 .. n : f[k] = IF k = 0 THEN first ELSE DominatorIterate(g, f[k - 1])
    <3> SUFFICES ASSUME NEW k \in 0 .. n, k # 0 PROVE f[k] = DominatorIterate(g, f[k - 1])
      BY <2>1 DEF Iteration
    <3>1. k \in 1 .. n /\ k - 1 \in 0 .. n
      BY <1>1
    <3> QED
      BY <1>7, <2>1, <3>1 DEF Iteration
  <2> QED
    BY <2>1, <2>2 DEF first, Iteration
<1>11. Loop(after)
  BY <1>10
<1> HIDE DEF after
<1>12. Iterates(after, first, step, n, T)
  <2>1. \A k \in 0 .. n : after[k] = IF k = 0 THEN first ELSE DominatorIterate(g, after[k - 1])
    BY <1>11 DEF first
  <2>2. 0 \in 0 .. n /\ \A k \in 1 .. n : k \in 0 .. n /\ k # 0
    BY <1>1
  <2> QED
    BY <1>7, <2>1, <2>2 DEF Iterates
<1>13. after[n] \in T /\ after[n] \in done
  BY <1>1, <1>4, <1>6, <1>12, IterationEnds
<1>14. PICK l : DominatorInv(g, S, after[n], l)
  BY <1>9, <1>13
<1>15. Over(after[n])
  BY <1>8, <1>13
<1>16. VersionsIn(after[n].found) = DominatorsOf(Histories(g), S)
  BY <1>14, <1>15, DominatorEnds
<1>17. FallingTo(after[n].found, l)
  BY <1>14 DEF DominatorInv
<1> QED
  BY <1>2, <1>16, <1>17

\* Reversed, the list ascends.
LEMMA FallingReversed ==
  ASSUME NEW l, NEW list, FallingTo(list, l)
  PROVE  IsAscending(Reversed(list), VersionsIn(list))
<1> DEFINE n   == Len(list)
           rev == Reversed(list)
<1>1. n \in Nat /\ DOMAIN list = 1 .. n /\ \A i \in (1 .. n) \ {1} : list[i] < list[i - 1]
  <2>1. n \in Nat /\ DOMAIN list = 1 .. n
    BY DEF FallingTo
  <2> HIDE DEF n
  <2> QED
    BY <2>1 DEF FallingTo
<1>2. DOMAIN rev = 1 .. n /\ \A i \in 1 .. n : rev[i] = list[n + 1 - i]
  BY <1>1 DEF Reversed
<1> HIDE DEF n, rev
<1>3. \A i \in 1 .. n : n + 1 - i \in 1 .. n /\ n + 1 - (n + 1 - i) = i
  BY <1>1
<1>4. \A i \in (1 .. n) \ {1} : rev[i - 1] < rev[i]
  <2> SUFFICES ASSUME NEW i \in (1 .. n) \ {1} PROVE rev[i - 1] < rev[i]
    OBVIOUS
  <2>1. i - 1 \in 1 .. n /\ n + 1 - (i - 1) \in (1 .. n) \ {1} /\ (n + 1 - (i - 1)) - 1 = n + 1 - i
    BY <1>1
  <2>2. rev[i - 1] = list[n + 1 - (i - 1)] /\ rev[i] = list[n + 1 - i]
    BY <1>2, <2>1
  <2> QED
    BY <1>1, <2>1, <2>2
<1>5. VersionsIn(rev) = VersionsIn(list)
  <2>1. \A i \in 1 .. n : \E j \in 1 .. n : rev[i] = list[j]
    BY <1>2, <1>3
  <2>2. \A i \in 1 .. n : n + 1 - i \in 1 .. n /\ rev[n + 1 - i] = list[i]
    BY <1>2, <1>3
  <2>3. \A i \in 1 .. n : \E j \in 1 .. n : rev[j] = list[i]
    BY <2>2
  <2>4. \A u : u \in VersionsIn(rev) <=> \E i \in 1 .. n : u = rev[i]
    BY <1>2 DEF VersionsIn
  <2>5. \A u : u \in VersionsIn(list) <=> \E i \in 1 .. n : u = list[i]
    BY <1>1 DEF VersionsIn
  <2>6. \A u : u \in VersionsIn(rev) <=> u \in VersionsIn(list)
    BY <2>1, <2>3, <2>4, <2>5
  <2> QED
    BY <2>6
<1> QED
  BY <1>2, <1>4, <1>5 DEF rev, IsAscending

\* The dominant one or two of two versions.
LEMMA DominatorsOfPair ==
  ASSUME NEW g, GraphInv(g), NEW v0 \in Versions(g), NEW v1 \in Versions(g), v0 <= v1
  PROVE  IsAscending(DominatorsOfTwo(g, v0, v1), DominatorsOf(Histories(g), {v0, v1}))
<1> DEFINE h == Histories(g)
<1>1. v0 \in Nat /\ v1 \in Nat
  BY NextLVType DEF GraphInv, Versions
<1>2. v0 \in h[v0] /\ h[v0] \subseteq 0 .. v0
  BY HistoryOfVersion
<1>3. VersionContainsLV(g, {v1}, v0) <=> v0 \in h[v1]
  <2>1. {v1} \in SUBSET Versions(g)
    OBVIOUS
  <2>2. VersionContainsLV(g, {v1}, v0) <=> v0 \in EventsOf(Histories(g), {v1})
    BY <2>1, ContainmentOfGraph
  <2> QED
    BY <2>2 DEF EventsOf
<1>4. DominatorsOf(h, {v0, v1}) = {v \in {v0, v1} : \A w \in {v0, v1} \ {v} : v \notin h[w]}
  BY DEF DominatorsOf
<1> HIDE DEF h
<1>5. v0 # v1 => v1 \notin h[v0]
  BY <1>1, <1>2
<1>6. CASE v0 = v1 \/ v0 \in h[v1]
  <2>1. DominatorsOfTwo(g, v0, v1) = <<v1>>
    BY <1>3, <1>6 DEF DominatorsOfTwo
  <2>2. DominatorsOf(h, {v0, v1}) = {v1}
    BY <1>4, <1>5, <1>6
  <2>3. IsAscending(<<v1>>, {v1})
    BY DEF IsAscending, VersionsIn
  <2> QED
    BY <2>1, <2>2, <2>3 DEF h
<1>7. CASE v0 # v1 /\ v0 \notin h[v1]
  <2>1. DominatorsOfTwo(g, v0, v1) = <<v0, v1>>
    BY <1>3, <1>7 DEF DominatorsOfTwo
  <2>2. DominatorsOf(h, {v0, v1}) = {v0, v1}
    BY <1>4, <1>5, <1>7
  <2>3. IsAscending(<<v0, v1>>, {v0, v1})
    <3> DEFINE list == <<v0, v1>>
    <3>1. DOMAIN list = {1, 2} /\ list[1] = v0 /\ list[2] = v1
      OBVIOUS
    <3> HIDE DEF list
    <3>2. v0 < v1 /\ \A i \in {1, 2} \ {1} : i = 2 /\ i - 1 = 1
      BY <1>1, <1>7
    <3>3. IsAscending(list, {v0, v1})
      BY <3>1, <3>2 DEF IsAscending, VersionsIn
    <3> QED
      BY <3>3 DEF list
  <2> QED
    BY <2>1, <2>2, <2>3 DEF h
<1> QED
  BY <1>6, <1>7

\* findDominators() of any list of versions, repetitions and all, is the
\* frontier of what is in it, in ascending order.
LEMMA DominatorsOfGraph ==
  ASSUME NEW g, GraphInv(g), NEW list \in Seq(Versions(g))
  PROVE  IsAscending(FindDominators(g, list), DominatorsOf(Histories(g), VersionsIn(list)))
<1> DEFINE h == Histories(g)
           S == VersionsIn(list)
<1>1. Len(list) \in Nat /\ DOMAIN list = 1 .. Len(list) /\ \A i \in 1 .. Len(list) : list[i] \in Versions(g)
  OBVIOUS
<1>2. S \in SUBSET Versions(g)
  BY <1>1 DEF VersionsIn
<1>3. CASE Len(list) <= 1
  <2>1. FindDominators(g, list) = list
    BY <1>3 DEF FindDominators
  <2>2. \A i, j \in DOMAIN list : i = j /\ i = 1
    BY <1>1, <1>3
  <2>3. \A v, w \in S : v = w
    BY <2>2 DEF VersionsIn
  <2>4. DominatorsOf(h, S) = S
    BY <2>3 DEF DominatorsOf
  <2>5. IsAscending(list, S)
    BY <2>2 DEF IsAscending
  <2> QED
    BY <2>1, <2>4, <2>5
<1>4. CASE Len(list) = 2
  <2> DEFINE v0 == Lower(list[1], list[2])
             v1 == Higher(list[1], list[2])
  <2>1. DOMAIN list = {1, 2}
    BY <1>1, <1>4
  <2>2. list[1] \in Versions(g) /\ list[2] \in Versions(g) /\ S = {list[1], list[2]}
    BY <1>1, <2>1 DEF VersionsIn
  <2>3. list[1] \in Nat /\ list[2] \in Nat
    BY <2>2, NextLVType DEF GraphInv, Versions
  <2>4. v0 \in Versions(g) /\ v1 \in Versions(g) /\ v0 <= v1 /\ S = {v0, v1}
    BY <2>2, <2>3 DEF Lower, Higher
  <2>5. FindDominators(g, list) = DominatorsOfTwo(g, v0, v1)
    BY <1>4 DEF FindDominators
  <2> HIDE DEF v0, v1, S
  <2>6. IsAscending(DominatorsOfTwo(g, v0, v1), DominatorsOf(Histories(g), {v0, v1}))
    BY <2>4, DominatorsOfPair
  <2> QED
    BY <2>4, <2>5, <2>6 DEF S
<1>5. CASE ~ (Len(list) <= 1) /\ Len(list) # 2
  <2>1. FindDominators(g, list) = Reversed(DominatorLoop(g, S))
    BY <1>5 DEF FindDominators
  <2> HIDE DEF S
  <2>2. VersionsIn(DominatorLoop(g, S)) = DominatorsOf(Histories(g), S)
    BY <1>2, DominatorLoopOfGraph
  <2>3. PICK l : FallingTo(DominatorLoop(g, S), l)
    BY <1>2, DominatorLoopOfGraph
  <2>4. IsAscending(Reversed(DominatorLoop(g, S)), VersionsIn(DominatorLoop(g, S)))
    BY <2>3, FallingReversed
  <2> QED
    BY <2>1, <2>2, <2>4 DEF S
<1> QED
  BY <1>3, <1>4, <1>5

\* A set as an array: what is in it, nothing twice.
LEMMA AscendingOfSet ==
  ASSUME NEW g, GraphInv(g), NEW S \in SUBSET Versions(g)
  PROVE  Ascending(S) \in Seq(Versions(g)) /\ VersionsIn(Ascending(S)) = S
<1> DEFINE n       == Highest(S) + 1
           D       == Versions(g)
           Loop(f) == f = [k \in 0 .. n |-> IF k = 0 THEN <<>>
                                            ELSE IF k - 1 \in S THEN Append(f[k - 1], k - 1)
                                            ELSE f[k - 1]]
           below   == CHOOSE f : Loop(f)
           T       == Seq(D)
           step    == [k \in 1 .. n |-> [x \in T |-> IF k - 1 \in S THEN Append(x, k - 1) ELSE x]]
           Is(k)   == below[k] \in T /\ VersionsIn(below[k]) = {v \in S : v < k}
<1>1. CASE S = {}
  BY <1>1 DEF Ascending, VersionsIn
<1>2. CASE S # {}
  <2>1. Ascending(S) = below[n]
    BY <1>2 DEF Ascending
  <2>2. n \in Nat /\ \A v \in S : v \in Nat /\ v < n
    <3>1. NextLV(g) \in Nat /\ S \subseteq 0 .. (NextLV(g) - 1)
      BY NextLVType DEF GraphInv, Versions
    <3>2. Highest(S) \in S /\ \A v \in S : v <= Highest(S)
      BY <1>2, <3>1, HighestProperties
    <3>3. \A v \in S : v \in Nat
      BY <3>1
    <3> QED
      BY <3>2, <3>3
  <2>3. S \subseteq D
    OBVIOUS
  <2>4. <<>> \in T
    OBVIOUS
  <2>5. \A k \in 1 .. n, x \in T : step[k][x] = IF k - 1 \in S THEN Append(x, k - 1) ELSE x
    OBVIOUS
  <2> HIDE DEF n, D, step
  <2>6. StepsWithin(step, n, T)
    <3> SUFFICES ASSUME NEW k \in 1 .. n, NEW x \in T PROVE step[k][x] \in T
      BY DEF StepsWithin
    <3>1. k - 1 \in S => Append(x, k - 1) \in T
      BY <2>3
    <3> QED
      BY <2>5, <3>1
  <2> HIDE DEF T
  <2>7. Loop(below)
    <3>1. PICK f : Passed(f, <<>>, step, n, T)
      BY <2>2, <2>4, <2>6, StepsExist
    <3>2. \A k \in 0 .. n : f[k] = IF k = 0 THEN <<>> ELSE IF k - 1 \in S THEN Append(f[k - 1], k - 1) ELSE f[k - 1]
      <4> SUFFICES ASSUME NEW k \in 0 .. n, k # 0
                   PROVE  f[k] = IF k - 1 \in S THEN Append(f[k - 1], k - 1) ELSE f[k - 1]
        BY <3>1 DEF Passed
      <4>1. k \in 1 .. n /\ k - 1 \in 0 .. n
        BY <2>2
      <4>2. f[k] = step[k][f[k - 1]] /\ f[k - 1] \in T
        BY <3>1, <4>1 DEF Passed
      <4> QED
        BY <2>5, <4>1, <4>2
    <3>3. Loop(f)
      BY <3>1, <3>2 DEF Passed
    <3>4. \E f1 : Loop(f1)
      BY <3>3
    <3> HIDE DEF Loop
    <3> QED
      BY <3>4
  <2> HIDE DEF below
  <2>8. \A k \in 0 .. n : below[k] = IF k = 0 THEN <<>> ELSE IF k - 1 \in S THEN Append(below[k - 1], k - 1) ELSE below[k - 1]
    BY <2>7
  <2>9. \A k \in 0 .. n : Is(k)
    <3> DEFINE Wrong == {k \in 0 .. n : ~ Is(k)}
    <3> SUFFICES ASSUME Wrong # {} PROVE FALSE
      OBVIOUS
    <3>1. Wrong \subseteq Nat
      OBVIOUS
    <3> HIDE DEF Wrong
    <3>2. PICK k \in Wrong : \A j \in Wrong : k <= j
      BY <3>1, LeastElement
    <3>3. k \in 0 .. n /\ ~ Is(k)
      BY <3>2 DEF Wrong
    <3>4. CASE k = 0
      <4>1. below[k] = <<>>
        BY <2>8, <3>3, <3>4
      <4>2. {v \in S : v < k} = {}
        BY <2>2, <3>4
      <4> QED
        BY <2>4, <3>3, <4>1, <4>2 DEF VersionsIn
    <3>5. CASE k # 0
      <4>1. k - 1 \in 0 .. n /\ ~ (k <= k - 1) /\ k \in Nat
        BY <2>2, <3>3, <3>5
      <4>2. Is(k - 1)
        BY <3>2, <4>1 DEF Wrong
      <4>3. \A v \in S : v < k <=> v < k - 1 \/ v = k - 1
        BY <2>2, <4>1
      <4>4. CASE k - 1 \in S
        <5>1. below[k] = Append(below[k - 1], k - 1)
          BY <2>8, <3>3, <3>5, <4>4
        <5> DEFINE x == below[k - 1]
                   y == Append(x, k - 1)
        <5>2. x \in Seq(D) /\ k - 1 \in D
          BY <2>3, <4>2, <4>4 DEF T
        <5> HIDE DEF x
        <5>3. y \in Seq(D) /\ Len(x) \in Nat /\ DOMAIN x = 1 .. Len(x) /\ DOMAIN y = 1 .. (Len(x) + 1)
              /\ y[Len(x) + 1] = k - 1 /\ \A i \in 1 .. Len(x) : y[i] = x[i]
          BY <5>2
        <5> HIDE DEF y
        <5>4. \A i \in 1 .. (Len(x) + 1) : i = Len(x) + 1 \/ i \in 1 .. Len(x)
          BY <5>3
        <5>5. Len(x) + 1 \in 1 .. (Len(x) + 1) /\ \A i \in 1 .. Len(x) : i \in 1 .. (Len(x) + 1)
          BY <5>3
        <5>6. \A u : u \in VersionsIn(y) <=> \E i \in 1 .. (Len(x) + 1) : u = y[i]
          BY <5>3 DEF VersionsIn
        <5>7. \A u : u \in VersionsIn(x) <=> \E i \in 1 .. Len(x) : u = x[i]
          BY <5>3 DEF VersionsIn
        <5>8. \A u : u \in VersionsIn(y) <=> u \in VersionsIn(x) \/ u = k - 1
          BY <5>3, <5>4, <5>5, <5>6, <5>7
        <5>9. VersionsIn(y) = {v \in S : v < k}
          BY <4>2, <4>3, <4>4, <5>8 DEF x
        <5> QED
          BY <3>3, <5>1, <5>3, <5>9 DEF x, y, T
      <4>5. CASE k - 1 \notin S
        <5>1. below[k] = below[k - 1]
          BY <2>8, <3>3, <3>5, <4>5
        <5>2. {v \in S : v < k} = {v \in S : v < k - 1}
          BY <4>3, <4>5
        <5> QED
          BY <3>3, <4>2, <5>1, <5>2
      <4> QED
        BY <4>4, <4>5
    <3> QED
      BY <3>4, <3>5
  <2>10. Is(n) /\ {v \in S : v < n} = S
    BY <2>2, <2>9
  <2> QED
    BY <2>1, <2>10 DEF T, D
<1> QED
  BY <1>1, <1>2

\* Two arrays, one after the other.
LEMMA VersionsOfBoth ==
  ASSUME NEW D, NEW s \in Seq(D), NEW t \in Seq(D)
  PROVE  s \o t \in Seq(D) /\ VersionsIn(s \o t) = VersionsIn(s) \cup VersionsIn(t)
<1> DEFINE m == Len(s)
           n == Len(t)
           r == s \o t
<1>1. m \in Nat /\ n \in Nat /\ DOMAIN s = 1 .. m /\ DOMAIN t = 1 .. n
  OBVIOUS
<1>2. r \in Seq(D) /\ Len(r) = m + n
  OBVIOUS
<1>3. /\ \A i \in 1 .. m : r[i] = s[i]
      /\ \A i \in (m + 1) .. (m + n) : r[i] = t[i - m]
  BY DEF m, n
<1>4. DOMAIN r = 1 .. (m + n)
  BY <1>1, <1>2
<1> HIDE DEF m, n, r
<1>5. \A i \in 1 .. (m + n) : i \in 1 .. m \/ i \in (m + 1) .. (m + n)
  BY <1>1
<1>6. \A i \in 1 .. n : m + i \in 1 .. (m + n) /\ r[m + i] = t[i]
  <2> SUFFICES ASSUME NEW i \in 1 .. n PROVE m + i \in 1 .. (m + n) /\ r[m + i] = t[i]
    OBVIOUS
  <2>1. m + i \in (m + 1) .. (m + n) /\ (m + i) - m = i
    BY <1>1
  <2> QED
    BY <1>1, <1>3, <2>1
<1>7. \A i \in 1 .. m : i \in 1 .. (m + n)
  BY <1>1
<1>8. \A i \in (m + 1) .. (m + n) : i - m \in 1 .. n
  BY <1>1
<1>9. \A u : (\E i \in 1 .. (m + n) : u = r[i]) <=> (\E i \in 1 .. m : u = s[i]) \/ (\E i \in 1 .. n : u = t[i])
  BY <1>3, <1>5, <1>6, <1>7, <1>8
<1>10. \A u : /\ u \in VersionsIn(r) <=> \E i \in 1 .. (m + n) : u = r[i]
              /\ u \in VersionsIn(s) <=> \E i \in 1 .. m : u = s[i]
              /\ u \in VersionsIn(t) <=> \E i \in 1 .. n : u = t[i]
  BY <1>1, <1>4 DEF VersionsIn
<1>11. \A u : u \in VersionsIn(r) <=> u \in VersionsIn(s) \cup VersionsIn(t)
  BY <1>9, <1>10
<1> QED
  BY <1>2, <1>11 DEF r

-----------------------------------------------------------------------------
(* The heap.                                                               *)

Points(n) == [v : SUBSET (0 .. (n - 1)), flag : DiffFlags]

\* What a comparison of two different lists looks at.
LEMMA HighestDiffering ==
  ASSUME NEW n \in Nat, NEW S \in SUBSET (0 .. (n - 1)), NEW T \in SUBSET (0 .. (n - 1)), S # T
  PROVE  LET m == Highest(Differing(S, T))
         IN  /\ m \in 0 .. (n - 1)
             /\ m \in S <=> m \notin T
             /\ \A w \in 0 .. (n - 1) : m < w => (w \in S <=> w \in T)
<1> DEFINE D == Differing(S, T)
           m == Highest(D)
<1>1. D \subseteq 0 .. (n - 1) /\ D # {}
  BY DEF Differing
<1>2. m \in D /\ \A w \in D : w <= m
  BY <1>1, HighestProperties
<1> HIDE DEF m
<1>3. m \in 0 .. (n - 1) /\ (m \in S <=> m \notin T)
  BY <1>1, <1>2 DEF Differing
<1>4. ASSUME NEW w \in 0 .. (n - 1), m < w
      PROVE  w \in S <=> w \in T
  <2>1. ~ (w <= m)
    BY <1>3, <1>4
  <2> QED
    BY <1>2, <2>1 DEF Differing
<1> QED
  BY <1>3, <1>4 DEF m

\* Two lists differ in the same versions.
LEMMA DifferingSymmetric == \A S, T : Differing(S, T) = Differing(T, S)
BY DEF Differing

\* No two flags have the same rank.
LEMMA FlagRanks ==
  \A f \in DiffFlags : FlagRank[f] \in Nat /\ \A o \in DiffFlags : FlagRank[f] = FlagRank[o] => f = o
BY DEF DiffFlags, FlagRank

\* The order of the heap is a total order.
LEMMA HigherIsTotal ==
  ASSUME NEW n \in Nat, NEW p \in Points(n), NEW q \in Points(n)
  PROVE  /\ p # q => HigherPoint(p, q) \/ HigherPoint(q, p)
         /\ ~ (HigherPoint(p, q) /\ HigherPoint(q, p))
<1>1. p.v \in SUBSET (0 .. (n - 1)) /\ q.v \in SUBSET (0 .. (n - 1)) /\ p.flag \in DiffFlags /\ q.flag \in DiffFlags
  BY DEF Points
<1>2. p # q => p.v # q.v \/ p.flag # q.flag
  BY DEF Points
<1>3. CASE p.v = q.v
  <2>1. FlagRank[p.flag] \in Nat /\ FlagRank[q.flag] \in Nat /\ (FlagRank[p.flag] = FlagRank[q.flag] => p.flag = q.flag)
    BY <1>1, FlagRanks
  <2>2. HigherPoint(p, q) <=> FlagRank[p.flag] > FlagRank[q.flag]
    BY <1>3 DEF HigherPoint
  <2>3. HigherPoint(q, p) <=> FlagRank[q.flag] > FlagRank[p.flag]
    BY <1>3 DEF HigherPoint
  <2> QED
    BY <1>2, <1>3, <2>1, <2>2, <2>3
<1>4. CASE p.v # q.v
  <2> DEFINE m == Highest(Differing(p.v, q.v))
  <2>1. m \in p.v <=> m \notin q.v
    BY <1>1, <1>4, HighestDiffering
  <2>2. HigherPoint(p, q) <=> m \in p.v
    BY <1>4 DEF HigherPoint
  <2>3. HigherPoint(q, p) <=> m \in q.v
    BY <1>4, DifferingSymmetric DEF HigherPoint
  <2> QED
    BY <2>1, <2>2, <2>3
<1> QED
  BY <1>3, <1>4

\* And transitive.
LEMMA HigherIsTransitive ==
  ASSUME NEW n \in Nat, NEW p \in Points(n), NEW q \in Points(n), NEW r \in Points(n),
         HigherPoint(p, q), HigherPoint(q, r)
  PROVE  HigherPoint(p, r)
<1> DEFINE S == p.v
           T == q.v
           U == r.v
           a == Highest(Differing(S, T))
           b == Highest(Differing(T, U))
           c == Highest(Differing(S, U))
<1>1. S \in SUBSET (0 .. (n - 1)) /\ T \in SUBSET (0 .. (n - 1)) /\ U \in SUBSET (0 .. (n - 1))
      /\ p.flag \in DiffFlags /\ q.flag \in DiffFlags /\ r.flag \in DiffFlags
  BY DEF Points
<1>2. S # T => a \in 0 .. (n - 1) /\ a \in S /\ a \notin T /\ \A w \in 0 .. (n - 1) : a < w => (w \in S <=> w \in T)
  <2> SUFFICES ASSUME S # T PROVE a \in 0 .. (n - 1) /\ a \in S /\ a \notin T /\ \A w \in 0 .. (n - 1) : a < w => (w \in S <=> w \in T)
    OBVIOUS
  <2>1. a \in S
    BY DEF HigherPoint
  <2> QED
    BY <1>1, <2>1, HighestDiffering
<1>3. T # U => b \in 0 .. (n - 1) /\ b \in T /\ b \notin U /\ \A w \in 0 .. (n - 1) : b < w => (w \in T <=> w \in U)
  <2> SUFFICES ASSUME T # U PROVE b \in 0 .. (n - 1) /\ b \in T /\ b \notin U /\ \A w \in 0 .. (n - 1) : b < w => (w \in T <=> w \in U)
    OBVIOUS
  <2>1. b \in T
    BY DEF HigherPoint
  <2> QED
    BY <1>1, <2>1, HighestDiffering
<1>4. S # U => c \in 0 .. (n - 1) /\ (c \in S <=> c \notin U) /\ \A w \in 0 .. (n - 1) : c < w => (w \in S <=> w \in U)
  BY <1>1, HighestDiffering
<1>5. S = T => FlagRank[p.flag] > FlagRank[q.flag]
  BY DEF HigherPoint
<1>6. T = U => FlagRank[q.flag] > FlagRank[r.flag]
  BY DEF HigherPoint
<1>7. HigherPoint(p, r) <=> IF S = U THEN FlagRank[p.flag] > FlagRank[r.flag] ELSE c \in S
  BY DEF HigherPoint
<1>8. FlagRank[p.flag] \in Nat /\ FlagRank[q.flag] \in Nat /\ FlagRank[r.flag] \in Nat
  BY <1>1, FlagRanks
<1> HIDE DEF S, T, U, a, b, c
<1>9. CASE S = T /\ T = U
  BY <1>5, <1>6, <1>7, <1>8, <1>9
<1>10. CASE S = T /\ T # U
  <2>1. S # U /\ c \in 0 .. (n - 1) /\ b \in 0 .. (n - 1)
    BY <1>3, <1>4, <1>10
  <2>2. c = b
    BY <1>3, <1>4, <1>10, <2>1
  <2> QED
    BY <1>3, <1>7, <1>10, <2>1, <2>2
<1>11. CASE S # T /\ T = U
  <2>1. S # U /\ c \in 0 .. (n - 1) /\ a \in 0 .. (n - 1)
    BY <1>2, <1>4, <1>11
  <2>2. c = a
    BY <1>2, <1>4, <1>11, <2>1
  <2> QED
    BY <1>2, <1>7, <1>11, <2>1, <2>2
<1>12. CASE S # T /\ T # U
  <2>1. a \in 0 .. (n - 1) /\ b \in 0 .. (n - 1) /\ a # b
    BY <1>2, <1>3, <1>12
  <2>2. CASE a > b
    <3>1. a \notin U /\ \A w \in 0 .. (n - 1) : a < w => (w \in S <=> w \in U)
      BY <1>2, <1>3, <1>12, <2>1, <2>2
    <3>2. S # U /\ c \in 0 .. (n - 1)
      BY <1>2, <1>4, <1>12, <3>1
    <3>3. c = a
      BY <1>2, <1>4, <1>12, <2>1, <3>1, <3>2
    <3> QED
      BY <1>2, <1>7, <1>12, <3>2, <3>3
  <2>3. CASE b > a
    <3>1. b \in S /\ \A w \in 0 .. (n - 1) : b < w => (w \in S <=> w \in U)
      BY <1>2, <1>3, <1>12, <2>1, <2>3
    <3>2. S # U /\ c \in 0 .. (n - 1)
      BY <1>3, <1>4, <1>12, <3>1
    <3>3. c = b
      BY <1>3, <1>4, <1>12, <2>1, <3>1, <3>2
    <3> QED
      BY <1>3, <1>7, <1>12, <3>1, <3>2, <3>3
  <2> QED
    BY <2>1, <2>2, <2>3
<1> QED
  BY <1>9, <1>10, <1>11, <1>12

\* There are finitely many time points.
LEMMA PointsAreFinite ==
  ASSUME NEW n \in Nat
  PROVE  IsFiniteSet(Points(n))
<1> DEFINE L == SUBSET (0 .. (n - 1))
           P == L \X DiffFlags
           f == [x \in P |-> [v |-> x[1], flag |-> x[2]]]
<1>1. IsFiniteSet(L)
  <2>1. IsFiniteSet(0 .. (n - 1))
    BY FS_Interval
  <2> QED
    BY <2>1, FS_SUBSET
<1>2. IsFiniteSet(DiffFlags)
  <2>1. IsFiniteSet({})
    BY FS_EmptySet
  <2>2. IsFiniteSet({} \cup {"A"})
    BY <2>1, FS_AddElement
  <2>3. IsFiniteSet(({} \cup {"A"}) \cup {"B"})
    BY <2>2, FS_AddElement
  <2>4. IsFiniteSet((({} \cup {"A"}) \cup {"B"}) \cup {"Shared"})
    BY <2>3, FS_AddElement
  <2>5. DiffFlags = (({} \cup {"A"}) \cup {"B"}) \cup {"Shared"}
    BY DEF DiffFlags
  <2> QED
    BY <2>4, <2>5
<1> HIDE DEF L
<1>3. IsFiniteSet(P)
  BY <1>1, <1>2, FS_Product
<1>4. Points(n) = [v : L, flag : DiffFlags]
  BY DEF Points, L
<1>5. f \in Surjection(P, Points(n))
  <2>1. \A x \in P : f[x] \in Points(n)
    BY <1>4
  <2>2. \A p \in Points(n) : \E x \in P : f[x] = p
    <3> SUFFICES ASSUME NEW p \in Points(n) PROVE \E x \in P : f[x] = p
      OBVIOUS
    <3>1. p.v \in L /\ p.flag \in DiffFlags /\ p = [v |-> p.v, flag |-> p.flag]
      BY <1>4
    <3>2. <<p.v, p.flag>> \in P
      BY <3>1
    <3>3. f[<<p.v, p.flag>>] = p
      BY <3>1, <3>2
    <3> QED
      BY <3>2, <3>3
  <2> QED
    BY <2>1, <2>2 DEF Surjection
<1> HIDE DEF P, f
<1> QED
  BY <1>3, <1>5, FS_Surjection

\* A queue has a highest point, and no list in it has a version above the
\* highest one of that.
IsTop(p, queue) ==
  /\ p \in queue
  /\ \A q \in queue : q.v # {} => p.v # {} /\ Highest(q.v) <= Highest(p.v)

\* The heap's order yields one.
LEMMA TopOfQueue ==
  ASSUME NEW n \in Nat, NEW queue \in SUBSET Points(n), queue # {}
  PROVE  IsTop(TopPoint(queue), queue)
<1> DEFINE Under(p) == {q \in queue : HigherPoint(p, q)}
           Counts   == {Cardinality(Under(p)) : p \in queue}
           top      == TopPoint(queue)
<1>1. IsFiniteSet(queue)
  BY PointsAreFinite, FS_Subset
<1>2. \A p \in queue : IsFiniteSet(Under(p)) /\ Cardinality(Under(p)) \in Nat /\ Cardinality(Under(p)) <= Cardinality(queue)
  <2> SUFFICES ASSUME NEW p \in queue
               PROVE  IsFiniteSet(Under(p)) /\ Cardinality(Under(p)) \in Nat /\ Cardinality(Under(p)) <= Cardinality(queue)
    OBVIOUS
  <2>1. Under(p) \in SUBSET queue
    OBVIOUS
  <2> HIDE DEF Under
  <2> QED
    BY <1>1, <2>1, FS_Subset, FS_CardinalityType
<1>3. Cardinality(queue) \in Nat
  BY <1>1, FS_CardinalityType
<1>4. Counts \subseteq Nat /\ Counts # {} /\ \A c \in Counts : c <= Cardinality(queue)
  <2> HIDE DEF Under
  <2> QED
    BY <1>2
<1>5. PICK c \in Counts : \A d \in Counts : d <= c
  <2> HIDE DEF Counts
  <2> QED
    BY <1>3, <1>4, GreatestElement
<1>6. PICK p \in queue : c = Cardinality(Under(p))
  BY <1>5
<1>7. ASSUME NEW q \in queue \ {p} PROVE HigherPoint(p, q)
  <2> SUFFICES ASSUME ~ HigherPoint(p, q) PROVE FALSE
    OBVIOUS
  <2>1. HigherPoint(q, p)
    BY HigherIsTotal
  <2>2. Under(p) \cup {p} \subseteq Under(q)
    <3>1. \A r \in queue : HigherPoint(p, r) => HigherPoint(q, r)
      BY <2>1, HigherIsTransitive
    <3> QED
      BY <2>1, <3>1
  <2>3. p \notin Under(p)
    BY HigherIsTotal
  <2>4. Cardinality(Under(q)) <= c
    BY <1>5
  <2> HIDE DEF Under
  <2>5. Cardinality(Under(p) \cup {p}) = Cardinality(Under(p)) + 1
    BY <1>2, <2>3, FS_AddElement
  <2>6. Cardinality(Under(p) \cup {p}) <= Cardinality(Under(q))
    <3>1. Under(p) \cup {p} \in SUBSET Under(q)
      BY <2>2
    <3> QED
      BY <1>2, <3>1, FS_Subset
  <2>7. Cardinality(Under(p)) \in Nat /\ Cardinality(Under(q)) \in Nat
    BY <1>2
  <2> QED
    BY <1>6, <2>4, <2>5, <2>6, <2>7
<1>8. top \in queue /\ \A q \in queue \ {top} : HigherPoint(top, q)
  <2>1. \E r \in queue : \A q \in queue \ {r} : HigherPoint(r, q)
    BY <1>7
  <2> QED
    BY <2>1 DEF TopPoint
<1> HIDE DEF top
<1>9. ASSUME NEW q \in queue, q.v # {} PROVE top.v # {} /\ Highest(q.v) <= Highest(top.v)
  <2> DEFINE S == top.v
             T == q.v
             m == Highest(Differing(S, T))
  <2>1. S \in SUBSET (0 .. (n - 1)) /\ T \in SUBSET (0 .. (n - 1)) /\ T # {}
    <3>1. top \in Points(n) /\ q \in Points(n)
      BY <1>8
    <3> QED
      BY <1>9, <3>1 DEF Points
  <2>2. Highest(T) \in T /\ \A w \in T : w <= Highest(T)
    BY <2>1, HighestProperties
  <2>3. S # {} => Highest(S) \in S /\ \A w \in S : w <= Highest(S)
    BY <2>1, HighestProperties
  <2>4. CASE S = T
    BY <1>9, <2>1, <2>2, <2>3, <2>4
  <2>5. CASE S # T
    <3>1. m \in S
      BY <1>8, <2>5 DEF HigherPoint
    <3>2. m \in 0 .. (n - 1) /\ \A w \in 0 .. (n - 1) : m < w => (w \in S <=> w \in T)
      BY <2>1, <2>5, HighestDiffering
    <3> DEFINE y == Highest(T)
               x == Highest(S)
    <3>3. y \in T /\ x \in S /\ \A w \in S : w <= x
      BY <2>2, <2>3, <3>1
    <3> HIDE DEF S, T, m, x, y
    <3>4. y \in 0 .. (n - 1) /\ x \in 0 .. (n - 1)
      BY <2>1, <3>3
    <3>5. m < y => y <= x
      BY <3>2, <3>3, <3>4
    <3>6. ~ (m < y) => y <= m /\ m <= x
      BY <3>1, <3>2, <3>3, <3>4
    <3>7. y <= x /\ S # {}
      BY <3>2, <3>3, <3>4, <3>5, <3>6
    <3> QED
      BY <3>7 DEF S, T, x, y
  <2> QED
    BY <2>4, <2>5
<1> QED
  BY <1>8, <1>9 DEF top, IsTop

-----------------------------------------------------------------------------
(* What the walk keeps.                                                    *)

\* What points on one side have, taken together.
Side(V, side) == UNION {p.v : p \in {q \in V : q.flag \in {side, "Shared"}}}

\* Ranges from the highest down, none empty and none below l.
VisitedTo(visited, l) ==
  /\ visited \in Seq(Nat \X Nat \X DiffFlags)
  /\ \A i \in DOMAIN visited : l <= visited[i][1] /\ visited[i][1] < visited[i][2]
  /\ \A i \in DOMAIN visited \ {1} : visited[i][2] <= visited[i - 1][1]

\* What a range is.
LEMMA RangesVisited ==
  ASSUME NEW l, NEW visited, VisitedTo(visited, l)
  PROVE  /\ Len(visited) \in Nat /\ DOMAIN visited = 1 .. Len(visited)
         /\ \A i \in 1 .. Len(visited) : visited[i][1] \in Nat /\ visited[i][2] \in Nat /\ visited[i][3] \in DiffFlags
<1>1. visited \in Seq(Nat \X Nat \X DiffFlags)
  BY DEF VisitedTo
<1>2. Len(visited) \in Nat /\ DOMAIN visited = 1 .. Len(visited)
      /\ \A i \in 1 .. Len(visited) : visited[i] \in Nat \X Nat \X DiffFlags
  BY <1>1
<1>3. \A x \in Nat \X Nat \X DiffFlags : x[1] \in Nat /\ x[2] \in Nat /\ x[3] \in DiffFlags
  OBVIOUS
<1> QED
  BY <1>2, <1>3

\* A list above l is above what is below l.
LEMMA VisitedBelow ==
  ASSUME NEW l \in Nat, NEW k \in Nat, k <= l, NEW visited, VisitedTo(visited, l)
  PROVE  VisitedTo(visited, k)
<1>1. DOMAIN visited = 1 .. Len(visited) /\ \A i \in 1 .. Len(visited) : visited[i][1] \in Nat
  BY RangesVisited
<1>2. \A i \in DOMAIN visited : l <= visited[i][1] => k <= visited[i][1]
  BY <1>1
<1> QED
  BY <1>2 DEF VisitedTo

\* The next range is visited.
Visits(visited, flags, start, end, flag, new) ==
  VisitedWith(new, flags) = VisitedWith(visited, flags) \cup {u \in start .. (end - 1) : flag \in flags}

\* A range below the list is appended.
LEMMA VisitRange ==
  ASSUME NEW l \in Nat, NEW visited, VisitedTo(visited, l), NEW flag \in DiffFlags,
         NEW start \in Nat, NEW end \in Nat, start < end, end <= l
  PROVE  LET new == Append(visited, <<start, end, flag>>)
         IN  /\ VisitedTo(new, start)
             /\ \A flags : Visits(visited, flags, start, end, flag, new)
<1> DEFINE n   == Len(visited)
           r   == <<start, end, flag>>
           new == Append(visited, r)
<1>1. /\ n \in Nat /\ DOMAIN visited = 1 .. n
      /\ \A i \in 1 .. n : visited[i][1] \in Nat /\ visited[i][2] \in Nat /\ visited[i][3] \in DiffFlags
      /\ visited \in Seq(Nat \X Nat \X DiffFlags)
      /\ \A i \in 1 .. n : l <= visited[i][1] /\ visited[i][1] < visited[i][2]
      /\ \A i \in (1 .. n) \ {1} : visited[i][2] <= visited[i - 1][1]
  BY RangesVisited DEF VisitedTo
<1>2. r \in Nat \X Nat \X DiffFlags /\ r[1] = start /\ r[2] = end /\ r[3] = flag
  OBVIOUS
<1> HIDE DEF r
<1>3. /\ new \in Seq(Nat \X Nat \X DiffFlags) /\ DOMAIN new = 1 .. (n + 1) /\ new[n + 1] = r
      /\ \A i \in 1 .. n : new[i] = visited[i]
  <2>1. new \in Seq(Nat \X Nat \X DiffFlags)
    BY <1>1, <1>2
  <2>2. DOMAIN new = 1 .. (n + 1) /\ new[n + 1] = r /\ \A i \in 1 .. n : new[i] = visited[i]
    BY <1>1
  <2> QED
    BY <2>1, <2>2
<1> HIDE DEF n, new
<1>4. \A i \in 1 .. (n + 1) : i = n + 1 \/ i \in 1 .. n
  BY <1>1
<1>5. \A i \in 1 .. (n + 1) : start <= new[i][1] /\ new[i][1] < new[i][2]
  <2> SUFFICES ASSUME NEW i \in 1 .. (n + 1) PROVE start <= new[i][1] /\ new[i][1] < new[i][2]
    OBVIOUS
  <2>1. CASE i = n + 1
    BY <1>2, <1>3, <2>1
  <2>2. CASE i \in 1 .. n
    <3>1. new[i] = visited[i] /\ l <= visited[i][1] /\ visited[i][1] < visited[i][2] /\ visited[i][1] \in Nat
      BY <1>1, <1>3, <2>2
    <3>2. start <= l
      OBVIOUS
    <3> QED
      BY <3>1, <3>2
  <2> QED
    BY <1>4, <2>1, <2>2
<1>6. \A i \in (1 .. (n + 1)) \ {1} : new[i][2] <= new[i - 1][1]
  <2> SUFFICES ASSUME NEW i \in (1 .. (n + 1)) \ {1} PROVE new[i][2] <= new[i - 1][1]
    OBVIOUS
  <2>1. i - 1 \in 1 .. n /\ new[i - 1] = visited[i - 1] /\ l <= visited[i - 1][1] /\ visited[i - 1][1] \in Nat
    BY <1>1, <1>3, SMTT(30)
  <2>2. CASE i = n + 1
    BY <1>2, <1>3, <2>1, <2>2
  <2>3. CASE i \in 1 .. n
    BY <1>1, <1>3, <2>1, <2>3
  <2> QED
    BY <1>4, <2>2, <2>3
<1>7. VisitedTo(new, start)
  BY <1>3, <1>5, <1>6 DEF VisitedTo
<1>8. ASSUME NEW flags PROVE Visits(visited, flags, start, end, flag, new)
  <2>1. \A u : u \in VisitedWith(new, flags) <=> \E i \in 1 .. (n + 1) : new[i][3] \in flags /\ u \in new[i][1] .. (new[i][2] - 1)
    BY <1>3 DEF VisitedWith, Range2Set
  <2>2. \A u : u \in VisitedWith(visited, flags) <=> \E i \in 1 .. n : visited[i][3] \in flags /\ u \in visited[i][1] .. (visited[i][2] - 1)
    BY <1>1 DEF VisitedWith, Range2Set
  <2>3. n + 1 \in 1 .. (n + 1) /\ \A i \in 1 .. n : i \in 1 .. (n + 1)
    BY <1>1
  <2>4. \A u : u \in VisitedWith(new, flags) <=> u \in VisitedWith(visited, flags) \/ (flag \in flags /\ u \in start .. (end - 1))
    BY <1>2, <1>3, <1>4, <2>1, <2>2, <2>3, Zenon
  <2> QED
    BY <2>4 DEF Visits
<1> QED
  BY <1>7, <1>8 DEF new, r

\* The events from l up that both histories have.
CommonFrom(h, X, Y, l) == {u \in EventsOf(h, X) \cap EventsOf(h, Y) : l <= u}

\* All from l up is visited, each event with its flag.
AllVisited(h, a, b, visited, l) ==
  /\ VisitedTo(visited, l)
  /\ VisitedWith(visited, {"A"}) = OnlyFrom(h, a, b, l)
  /\ VisitedWith(visited, {"B"}) = OnlyFrom(h, b, a, l)
  /\ VisitedWith(visited, {"Shared"}) = CommonFrom(h, a, b, l)

\* Time points below l: frontiers, on both sides.
Queued(g, V, l) ==
  /\ V \subseteq Points(NextLV(g))
  /\ \A p \in V : p.v \subseteq 0 .. (l - 1) /\ DominatorsOf(Histories(g), p.v) = p.v
  /\ \A side \in {"A", "B"} : \E p \in V : p.flag \in {side, "Shared"}

\* Each of the events comes after all of some point.
Beneath(h, V, events) == \A u \in events : \E p \in V : EventsOf(h, p.v) \subseteq h[u]

\* What the walk keeps when all from l up is visited and V are the points that
\* are left, the one in hand among them.
ConflictInv(g, a, b, V, visited, l) ==
  LET h == Histories(g)
  IN  /\ l \in 0 .. NextLV(g)
      /\ Queued(g, V, l)
      /\ Follows(h, a, Side(V, "A"), l)
      /\ Follows(h, b, Side(V, "B"), l)
      /\ AllVisited(h, a, b, visited, l)
      /\ Beneath(h, V, VisitedWith(visited, DiffFlags))

\* The sides of the points are below l.
LEMMA SidesBelow ==
  ASSUME NEW g, NEW V, NEW l, Queued(g, V, l), NEW side
  PROVE  Side(V, side) \subseteq 0 .. (l - 1)
BY DEF Queued, Side

\* The frontiers have nothing between the points and l.
LEMMA NothingBetween ==
  ASSUME NEW g, GraphInv(g), NEW X \in SUBSET Versions(g), NEW l \in 0 .. NextLV(g), NEW k \in 0 .. l,
         NEW Q, Q \subseteq 0 .. (k - 1), Follows(Histories(g), X, Q, l)
  PROVE  /\ \A u \in EventsOf(Histories(g), X) : k <= u <=> l <= u
         /\ Follows(Histories(g), X, Q, k)
<1> DEFINE h == Histories(g)
<1>1. /\ NextLV(g) \in Nat /\ Versions(g) = 0 .. (NextLV(g) - 1) /\ l \in Nat /\ k \in Nat /\ k <= l
  BY NextLVType DEF GraphInv, Versions
<1>2. \A v \in Versions(g) : h[v] \subseteq 0 .. v
  BY HistoryOfVersion
<1>3. EventsOf(h, X) \subseteq Nat
  BY EventsAreVersions, Zenon
<1> HIDE DEF h
<1>4. ASSUME NEW u \in EventsOf(h, X) PROVE k <= u <=> l <= u
  <2>1. u \in Nat /\ \E v \in X : u \in h[v]
    BY <1>3 DEF EventsOf
  <2>2. CASE u \in 0 .. (l - 1)
    <3>1. PICK v \in Q : u \in h[v]
      BY <2>1, <2>2 DEF Follows, h
    <3>2. v \in Nat /\ v < k /\ v \in Versions(g)
      BY <1>1
    <3>3. u \in 0 .. v
      BY <1>2, <3>1, <3>2
    <3> QED
      BY <1>1, <2>1, <3>2, <3>3
  <2>3. CASE u \notin 0 .. (l - 1)
    BY <1>1, <2>1, <2>3
  <2> QED
    BY <2>2, <2>3
<1>5. \A u \in 0 .. (k - 1) : u \in 0 .. (l - 1)
  BY <1>1
<1> QED
  BY <1>4, <1>5 DEF Follows, h

\* Points may be taken apart and joined, as long as the sides have the same.
LEMMA Regroup ==
  ASSUME NEW g, GraphInv(g), NEW a \in SUBSET Versions(g), NEW b \in SUBSET Versions(g),
         NEW V, NEW visited, NEW l, ConflictInv(g, a, b, V, visited, l),
         NEW k \in 0 .. l, NEW W, Queued(g, W, k),
         Side(W, "A") = Side(V, "A"), Side(W, "B") = Side(V, "B"),
         \A p \in V : \E q \in W : q.v \subseteq p.v
  PROVE  ConflictInv(g, a, b, W, visited, k)
<1> DEFINE h == Histories(g)
<1>1. /\ NextLV(g) \in Nat /\ l \in 0 .. NextLV(g) /\ l \in Nat /\ k \in Nat /\ k <= l /\ k \in 0 .. NextLV(g)
  <2>1. NextLV(g) \in Nat /\ l \in 0 .. NextLV(g)
    BY NextLVType DEF GraphInv, ConflictInv
  <2> QED
    BY <2>1
<1>2. Side(W, "A") \subseteq 0 .. (k - 1) /\ Side(W, "B") \subseteq 0 .. (k - 1)
  BY SidesBelow
<1>3. Follows(h, a, Side(W, "A"), l) /\ Follows(h, b, Side(W, "B"), l)
  BY DEF ConflictInv
<1>4. Follows(h, a, Side(W, "A"), k) /\ \A u \in EventsOf(h, a) : k <= u <=> l <= u
  BY <1>1, <1>2, <1>3, NothingBetween
<1>5. Follows(h, b, Side(W, "B"), k) /\ \A u \in EventsOf(h, b) : k <= u <=> l <= u
  BY <1>1, <1>2, <1>3, NothingBetween
<1>6. AllVisited(h, a, b, visited, k)
  <2>1. AllVisited(h, a, b, visited, l)
    BY DEF ConflictInv
  <2> HIDE DEF h
  <2>2. OnlyFrom(h, a, b, k) = OnlyFrom(h, a, b, l) /\ OnlyFrom(h, b, a, k) = OnlyFrom(h, b, a, l)
        /\ CommonFrom(h, a, b, k) = CommonFrom(h, a, b, l)
    BY <1>4, <1>5 DEF OnlyFrom, CommonFrom
  <2>3. VisitedTo(visited, k)
    BY <1>1, <2>1, VisitedBelow DEF AllVisited
  <2> QED
    BY <2>1, <2>2, <2>3 DEF AllVisited
<1>7. Beneath(h, W, VisitedWith(visited, DiffFlags))
  <2>1. Beneath(h, V, VisitedWith(visited, DiffFlags))
    BY DEF ConflictInv
  <2> HIDE DEF h
  <2>2. \A p, q : q.v \subseteq p.v => EventsOf(h, q.v) \subseteq EventsOf(h, p.v)
    BY DEF EventsOf
  <2> QED
    BY <2>1, <2>2 DEF Beneath
<1> QED
  BY <1>1, <1>4, <1>5, <1>6, <1>7 DEF ConflictInv

\* The parents of every version are a frontier.
ParentFrontiers(g) ==
  \A v \in Versions(g) : DominatorsOf(Histories(g), ParentsOf(g, v)) = ParentsOf(g, v)

Hand(x, flag) == [v |-> {x}, flag |-> flag]

\* What is on one side.
LEMMA InSide ==
  ASSUME NEW V, NEW side, NEW u
  PROVE  u \in Side(V, side) <=> \E p \in V : p.flag \in {side, "Shared"} /\ u \in p.v
BY DEF Side

\* What one more point adds to a side.
LEMMA SideWith ==
  ASSUME NEW R, NEW side, NEW vs, NEW flag
  PROVE  Side(R \cup {[v |-> vs, flag |-> flag]}, side) =
           Side(R, side) \cup (IF flag \in {side, "Shared"} THEN vs ELSE {})
<1> DEFINE p == [v |-> vs, flag |-> flag]
           W == R \cup {p}
<1>1. p.v = vs /\ p.flag = flag
  OBVIOUS
<1>2. \A q : q \in W <=> q \in R \/ q = p
  OBVIOUS
<1> HIDE DEF p, W
<1>3. ASSUME NEW u
      PROVE  u \in Side(W, side) <=> u \in Side(R, side) \/ (flag \in {side, "Shared"} /\ u \in vs)
  BY <1>1, <1>2, InSide, Zenon
<1>4. Side(W, side) = Side(R, side) \cup (IF flag \in {side, "Shared"} THEN vs ELSE {})
  BY <1>3
<1> QED
  BY <1>4 DEF W, p

\* One side of a cut: from x down to c the frontier has the run if the point in
\* hand is on its side, and below c it has what the parents of c have.
LEMMA CutSide ==
  ASSUME NEW g, GraphInv(g), NEW X, NEW x \in Versions(g), NEW flag \in DiffFlags,
         NEW c \in FindEntryContaining(g, x).version .. x,
         NEW R, \A q \in R : q.v \subseteq 0 .. (c - 1), NEW side \in {"A", "B"},
         Follows(Histories(g), X, Side(R \cup {Hand(x, flag)}, side), x + 1)
  PROVE  /\ Follows(Histories(g), X, Side(R \cup {[v |-> ParentsOf(g, c), flag |-> flag]}, side), c)
         /\ \A u \in c .. x : u \in EventsOf(Histories(g), X) <=> flag \in {side, "Shared"}
<1> DEFINE h   == Histories(g)
           par == ParentsIn(g)
           n   == NextLV(g)
           s   == FindEntryContaining(g, x).version
           Q   == Side(R \cup {Hand(x, flag)}, side)
           W   == Side(R \cup {[v |-> ParentsOf(g, c), flag |-> flag]}, side)
           on  == flag \in {side, "Shared"}
<1>1. /\ Topological(par, n) /\ n \in Nat /\ Versions(g) = 0 .. (n - 1)
      /\ h = HistoriesOf(par, n)
  BY GraphIsTopological, NextLVType DEF GraphInv, Versions, Histories, ParentsIn
<1>2. s \in 0 .. x /\ IsRun(par, s, x)
  BY RunOfEntry
<1>3. Follows(h, X, Q, x + 1) /\ c \in s .. x
  OBVIOUS
<1>4. c \in Versions(g) => par[c] = ParentsOf(g, c)
  BY DEF ParentsIn
<1>5. Q = Side(R, side) \cup (IF on THEN {x} ELSE {})
  BY SideWith, ZenonT(60) DEF Hand
<1>6. W = Side(R, side) \cup (IF on THEN ParentsOf(g, c) ELSE {})
  BY SideWith, ZenonT(60)
<1>7. Side(R, side) \subseteq 0 .. (c - 1)
  BY DEF Side
<1>8. EventsOf(h, X) = UNION {h[v] : v \in X}
  BY DEF EventsOf
<1> HIDE DEF h, par, n, s, Q, W, on
<1>9. /\ c \in 0 .. x /\ c \in Nat /\ x \in Nat /\ c <= x /\ x \in 0 .. (n - 1) /\ x + 1 \in 0 .. n
      /\ x \in 0 .. ((x + 1) - 1) /\ c \in Versions(g)
  BY <1>1, <1>2, <1>3
<1>10. IsRun(par, c, x)
  <2>1. \A w \in (c + 1) .. x : w \in (s + 1) .. x
    BY <1>2, <1>3, <1>9
  <2> QED
    BY <1>2, <2>1 DEF IsRun
<1>11. Q \in SUBSET (0 .. x)
  BY <1>5, <1>7, <1>9
<1>12. Follows(HistoriesOf(par, n), X, Q, x + 1)
  BY <1>1, <1>3
<1>13. RunPassed(HistoriesOf(par, n), X, Q, par[c], c, x, x + 1)
  BY <1>1, <1>9, <1>10, <1>11, <1>12, FollowsBelow
<1>14. /\ \A u \in c .. x : (\E v \in X : u \in h[v]) <=> (\E q \in Q : u <= q)
       /\ Follows(h, X, {q \in Q : q < c} \cup {p \in par[c] : \E q \in Q : c <= q}, c)
  BY <1>1, <1>13 DEF RunPassed
<1>15. \A q \in Side(R, side) : q \in Nat /\ q < c /\ ~ (c <= q)
  BY <1>7, <1>9
<1>16. \A u \in c .. x : (\E q \in Q : u <= q) <=> on
  <2> SUFFICES ASSUME NEW u \in c .. x PROVE (\E q \in Q : u <= q) <=> on
    OBVIOUS
  <2>1. u \in Nat /\ c <= u /\ u <= x
    BY <1>9
  <2>2. \A q \in Side(R, side) : ~ (u <= q)
    BY <1>9, <1>15, <2>1
  <2> QED
    BY <1>5, <2>1, <2>2
<1>17. {q \in Q : q < c} \cup {p \in par[c] : \E q \in Q : c <= q} = W
  <2>1. (\E q \in Q : c <= q) <=> on
    BY <1>5, <1>9, <1>15
  <2>2. {q \in Q : q < c} = Side(R, side)
    <3>1. ~ (x < c)
      BY <1>9
    <3> QED
      BY <1>5, <1>15, <3>1
  <2> QED
    BY <1>4, <1>6, <1>9, <2>1, <2>2
<1>18. \A u \in c .. x : u \in EventsOf(h, X) <=> on
  BY <1>8, <1>14, <1>16
<1> QED
  BY <1>14, <1>17, <1>18 DEF h, W, on

\* A cut: the run from c to the point in hand is visited, and the parents of c
\* take its place.
LEMMA Cut ==
  ASSUME NEW g, GraphInv(g), ParentFrontiers(g), NEW a \in SUBSET Versions(g), NEW b \in SUBSET Versions(g),
         NEW x \in Versions(g), NEW flag \in DiffFlags, NEW R, NEW visited,
         ConflictInv(g, a, b, R \cup {Hand(x, flag)}, visited, x + 1),
         NEW c \in FindEntryContaining(g, x).version .. x, \A q \in R : q.v \subseteq 0 .. (c - 1)
  PROVE  ConflictInv(g, a, b, R \cup {[v |-> ParentsOf(g, c), flag |-> flag]}, Append(visited, <<c, x + 1, flag>>), c)
<1> DEFINE h   == Histories(g)
           n   == NextLV(g)
           s   == FindEntryContaining(g, x).version
           V   == R \cup {Hand(x, flag)}
           ps  == ParentsOf(g, c)
           new == [v |-> ps, flag |-> flag]
           W   == R \cup {new}
           seen == Append(visited, <<c, x + 1, flag>>)
<1>1. /\ n \in Nat /\ Versions(g) = 0 .. (n - 1) /\ s \in 0 .. x /\ c \in s .. x
  BY RunOfEntry, NextLVType DEF GraphInv, Versions
<1>2. /\ ConflictInv(g, a, b, V, visited, x + 1) /\ \A q \in R : q.v \subseteq 0 .. (c - 1)
  OBVIOUS
<1>3. /\ Follows(h, a, Side(W, "A"), c)
      /\ \A u \in c .. x : u \in EventsOf(h, a) <=> flag \in {"A", "Shared"}
  <2>1. Follows(Histories(g), a, Side(R \cup {Hand(x, flag)}, "A"), x + 1)
    BY DEF ConflictInv
  <2>2. "A" \in {"A", "B"}
    OBVIOUS
  <2> QED
    BY <2>1, <2>2, CutSide
<1>4. /\ Follows(h, b, Side(W, "B"), c)
      /\ \A u \in c .. x : u \in EventsOf(h, b) <=> flag \in {"B", "Shared"}
  <2>1. Follows(Histories(g), b, Side(R \cup {Hand(x, flag)}, "B"), x + 1)
    BY DEF ConflictInv
  <2>2. "B" \in {"A", "B"}
    OBVIOUS
  <2> QED
    BY <2>1, <2>2, CutSide
<1>5. \A u \in s .. x : u \in h[x]
  BY HistoryOfVersion
<1>6. EventsOf(h, a) \subseteq Nat /\ EventsOf(h, b) \subseteq Nat
  BY EventsAreVersions, Zenon
<1> HIDE DEF s
<1>7. /\ c \in Nat /\ x \in Nat /\ c <= x /\ c \in Versions(g) /\ c \in 0 .. n /\ x + 1 \in Nat /\ c < x + 1
      /\ (x + 1) - 1 = x
  BY <1>1
<1>8. ps \subseteq 0 .. (c - 1) /\ ps \in SUBSET (0 .. (n - 1)) /\ DominatorsOf(h, ps) = ps
  <2>1. ps \subseteq Versions(g) /\ \A p \in ps : p < c
    BY <1>7, ParentsAreVersions
  <2>2. DominatorsOf(h, ps) = ps
    BY <1>7 DEF ParentFrontiers
  <2> HIDE DEF ps
  <2> QED
    BY <1>1, <1>7, <2>1, <2>2
<1>9. Queued(g, W, c)
  <2>1. Queued(g, V, x + 1)
    BY <1>2 DEF ConflictInv
  <2>2. new \in Points(n) /\ new.v = ps /\ new.flag = flag
    BY <1>8 DEF Points
  <2>3. Hand(x, flag).flag = flag
    BY DEF Hand
  <2> HIDE DEF new, ps, n
  <2> QED
    BY <1>2, <1>8, <2>1, <2>2, <2>3 DEF Queued, h, n
<1>10. VisitedTo(visited, x + 1) /\ AllVisited(h, a, b, visited, x + 1)
  BY <1>2 DEF ConflictInv, AllVisited
<1> HIDE DEF h
<1>11. /\ VisitedTo(seen, c)
       /\ \A flags : Visits(visited, flags, c, x + 1, flag, seen)
  BY <1>7, <1>10, VisitRange
<1>12. \A u \in EventsOf(h, a) \cup EventsOf(h, b) : c <= u <=> u \in c .. x \/ x + 1 <= u
  BY <1>6, <1>7
<1>13. \A u \in c .. x : c <= u
  BY <1>7
<1>14. \A flags : VisitedWith(seen, flags) = VisitedWith(visited, flags) \cup {u \in c .. x : flag \in flags}
  BY <1>7, <1>11 DEF Visits
<1> HIDE DEF seen
<1>15. AllVisited(h, a, b, seen, c)
  <2>1. flag \in {"A", "B", "Shared"}
    BY DEF DiffFlags
  <2>2. OnlyFrom(h, a, b, c) = OnlyFrom(h, a, b, x + 1) \cup {u \in c .. x : flag \in {"A"}}
    BY <1>3, <1>4, <1>12, <1>13, <2>1 DEF OnlyFrom
  <2>3. OnlyFrom(h, b, a, c) = OnlyFrom(h, b, a, x + 1) \cup {u \in c .. x : flag \in {"B"}}
    BY <1>3, <1>4, <1>12, <1>13, <2>1 DEF OnlyFrom
  <2>4. CommonFrom(h, a, b, c) = CommonFrom(h, a, b, x + 1) \cup {u \in c .. x : flag \in {"Shared"}}
    BY <1>3, <1>4, <1>12, <1>13, <2>1 DEF CommonFrom
  <2> QED
    BY <1>10, <1>11, <1>14, <2>2, <2>3, <2>4 DEF AllVisited
<1>16. EventsOf(h, ps) \subseteq h[c]
  <2>1. /\ Topological(ParentsIn(g), n) /\ h = HistoriesOf(ParentsIn(g), n) /\ c \in 0 .. (n - 1)
        /\ ParentsIn(g)[c] = ps
    BY <1>1, <1>7, GraphIsTopological DEF Histories, ParentsIn, h
  <2>2. \A p \in ps : h[p] \subseteq h[c]
    BY <2>1, HistoryOrder
  <2> HIDE DEF ps
  <2> QED
    BY <2>2 DEF EventsOf
<1>17. \A u \in c .. x : h[c] \subseteq h[u]
  <2> SUFFICES ASSUME NEW u \in c .. x PROVE h[c] \subseteq h[u]
    OBVIOUS
  <2>1. u \in s .. x /\ u \in Versions(g)
    BY <1>1, <1>7
  <2>2. FindEntryContaining(g, u) = FindEntryContaining(g, x)
    BY <2>1, EntryOfVersion DEF s
  <2>3. \A w \in FindEntryContaining(g, u).version .. u : w \in h[u]
    BY <2>1, HistoryOfVersion DEF h
  <2>4. c \in s .. u
    BY <1>1, <1>7
  <2>5. c \in h[u]
    BY <2>2, <2>3, <2>4 DEF s
  <2> QED
    BY <2>1, <2>5, HistoryOfVersion DEF h
<1>18. Beneath(h, W, VisitedWith(seen, DiffFlags))
  <2> SUFFICES ASSUME NEW u \in VisitedWith(seen, DiffFlags)
               PROVE  \E p \in W : EventsOf(h, p.v) \subseteq h[u]
    BY DEF Beneath
  <2>1. new \in W /\ EventsOf(h, new.v) = EventsOf(h, ps)
    OBVIOUS
  <2>2. CASE u \in c .. x
    BY <1>16, <1>17, <2>1, <2>2
  <2>3. CASE u \in VisitedWith(visited, DiffFlags)
    <3>1. PICK p \in V : EventsOf(h, p.v) \subseteq h[u]
      BY <1>2, <2>3 DEF ConflictInv, Beneath, h
    <3>2. CASE p \in R
      BY <3>1, <3>2
    <3>3. CASE p = Hand(x, flag)
      <4>1. EventsOf(h, p.v) = h[x]
        BY <3>3 DEF Hand, EventsOf
      <4>2. x \in c .. x
        BY <1>7
      <4> QED
        BY <1>16, <1>17, <2>1, <3>1, <4>1, <4>2
    <3> QED
      BY <3>1, <3>2, <3>3
  <2> QED
    BY <1>14, <2>2, <2>3
<1> HIDE DEF W
<1>19. ConflictInv(g, a, b, W, seen, c)
  BY <1>3, <1>4, <1>7, <1>9, <1>15, <1>18 DEF ConflictInv, h, n
<1> QED
  BY <1>19 DEF W, seen

-----------------------------------------------------------------------------
(* One iteration.                                                          *)

\* The sides have the same when what each point has is in points of its sides.
Carries(V, W, side) ==
  \A p \in V : p.flag \in {side, "Shared"} =>
    \A u \in p.v : \E q \in W : q.flag \in {side, "Shared"} /\ u \in q.v

\* Then neither side gains or loses anything.
LEMMA SameSides ==
  ASSUME NEW V, NEW W, NEW side, Carries(V, W, side), Carries(W, V, side)
  PROVE  Side(W, side) = Side(V, side)
<1>1. ASSUME NEW u PROVE u \in Side(W, side) <=> u \in Side(V, side)
  <2>1. u \in Side(W, side) <=> \E p \in W : p.flag \in {side, "Shared"} /\ u \in p.v
    BY InSide
  <2>2. u \in Side(V, side) <=> \E p \in V : p.flag \in {side, "Shared"} /\ u \in p.v
    BY InSide
  <2> HIDE DEF Side
  <2> QED
    BY <2>1, <2>2 DEF Carries
<1> QED
  BY <1>1

\* The variables of the loop.
ConflictLoops(n) ==
  [queue : SUBSET Points(n), end : Nat, flag : DiffFlags, visited : Seq(Nat \X Nat \X DiffFlags), found : BOOLEAN]

\* A range of the entry e is in hand.
InHand(g, a, b, e, st) ==
  /\ st \in ConflictLoops(NextLV(g)) /\ ~ st.found
  /\ st.end >= 1 /\ st.end - 1 \in Versions(g) /\ FindEntryContaining(g, st.end - 1) = e
  /\ ConflictInv(g, a, b, st.queue \cup {Hand(st.end - 1, st.flag)}, st.visited, st.end)

\* What a merge is taken apart into: its highest version and the others.
Apart(n, p, flag, m) ==
  /\ m \in p.v /\ m \in 0 .. (n - 1) /\ \A w \in p.v : w \in 0 .. m
  /\ \A q \in Shatter(p, flag) : q \in Points(n) /\ q.flag = flag /\ \E w \in p.v \ {m} : q.v = {w}
  /\ \A w \in p.v \ {m} : \E q \in Shatter(p, flag) : q.flag = flag /\ q.v = {w}

\* Every list but the empty one comes apart.
LEMMA PointApart ==
  ASSUME NEW n \in Nat, NEW p \in Points(n), p.v # {}, NEW flag \in DiffFlags
  PROVE  Apart(n, p, flag, Highest(p.v))
<1> DEFINE m == Highest(p.v)
<1>1. p.v \subseteq 0 .. (n - 1)
  BY DEF Points
<1>2. m \in p.v /\ \A w \in p.v : w <= m
  BY <1>1, HighestProperties
<1>3. Shatter(p, flag) = {[v |-> {w}, flag |-> flag] : w \in p.v \ {m}}
  BY DEF Shatter
<1> HIDE DEF m
<1>4. \A w \in p.v : w \in 0 .. m
  BY <1>1, <1>2
<1>5. \A w \in p.v : [v |-> {w}, flag |-> flag] \in Points(n)
  BY <1>1 DEF Points
<1>6. \A q \in Shatter(p, flag) : q \in Points(n) /\ q.flag = flag /\ \E w \in p.v \ {m} : q.v = {w}
  BY <1>3, <1>5
<1>7. \A w \in p.v \ {m} : \E q \in Shatter(p, flag) : q.flag = flag /\ q.v = {w}
  <2> SUFFICES ASSUME NEW w \in p.v \ {m} PROVE \E q \in Shatter(p, flag) : q.flag = flag /\ q.v = {w}
    OBVIOUS
  <2>1. [v |-> {w}, flag |-> flag] \in Shatter(p, flag)
    BY <1>3
  <2> QED
    BY <2>1
<1> QED
  BY <1>1, <1>2, <1>4, <1>6, <1>7 DEF m, Apart

\* The point in hand is one.
LEMMA HandIsPoint ==
  ASSUME NEW n \in Nat, NEW m \in 0 .. (n - 1), NEW flag \in DiffFlags
  PROVE  Hand(m, flag) \in Points(n) /\ Hand(m, flag).v = {m} /\ Hand(m, flag).flag = flag
BY DEF Points, Hand

\* A single version is a frontier.
LEMMA SingleIsFrontier == \A h, v : DominatorsOf(h, {v}) = {v}
BY DEF DominatorsOf

\* Two sides that differ, or a side that is shared, are both.
LEMMA FlagsDiffer ==
  ASSUME NEW f \in DiffFlags, NEW o \in DiffFlags, f # o, NEW side \in {"A", "B"}
  PROVE  f \in {side, "Shared"} \/ o \in {side, "Shared"}
BY DEF DiffFlags

RangeStarted(g, a, b, st, top, l) ==
  /\ InHand(g, a, b, FindEntryContaining(g, Highest(top.v)), StartRange(st, top, {q \in st.queue : q.v = top.v}))
  /\ Highest(top.v) \in 0 .. (l - 1) /\ l \in Nat

\* The highest point is taken in hand.
LEMMA StartRangeKeeps ==
  ASSUME NEW g, GraphInv(g), NEW a \in SUBSET Versions(g), NEW b \in SUBSET Versions(g),
         NEW st \in ConflictLoops(NextLV(g)), ~ st.found,
         NEW l, ConflictInv(g, a, b, st.queue, st.visited, l),
         NEW top, IsTop(top, st.queue), top.v # {}
  PROVE  RangeStarted(g, a, b, st, top, l)
<1> DEFINE n    == NextLV(g)
           m    == Highest(top.v)
           same == {q \in st.queue : q.v = top.v}
           flag == IF \E q \in same : q.flag # top.flag THEN "Shared" ELSE top.flag
           new  == StartRange(st, top, same)
           rest == (st.queue \ same) \cup Shatter(top, flag)
           W    == rest \cup {Hand(m, flag)}
<1>1. n \in Nat /\ Versions(g) = 0 .. (n - 1) /\ l \in 0 .. n /\ l \in Nat
  <2>1. n \in Nat /\ Versions(g) = 0 .. (n - 1)
    BY NextLVType DEF GraphInv, Versions
  <2> QED
    BY <2>1 DEF ConflictInv
<1>2. /\ new.queue = rest /\ new.end = m + 1 /\ new.flag = flag /\ new.visited = st.visited /\ new.found = st.found
      /\ new = [queue |-> new.queue, end |-> new.end, flag |-> new.flag, visited |-> new.visited, found |-> new.found]
  BY DEF StartRange, ConflictLoops
<1>3. /\ st.queue \in SUBSET Points(n) /\ st.visited \in Seq(Nat \X Nat \X DiffFlags) /\ st.found = FALSE
      /\ top \in st.queue /\ top \in Points(n)
  BY DEF ConflictLoops, IsTop
<1>4. \A q \in st.queue : q.flag \in DiffFlags /\ q.v \subseteq 0 .. (n - 1)
  BY <1>3 DEF Points
<1>5. flag \in DiffFlags
  BY <1>3, <1>4 DEF DiffFlags
<1>6. \A side \in {"A", "B"} : flag \in {side, "Shared"} <=> \E q \in same : q.flag \in {side, "Shared"}
  <2> SUFFICES ASSUME NEW side \in {"A", "B"}
               PROVE  flag \in {side, "Shared"} <=> \E q \in same : q.flag \in {side, "Shared"}
    OBVIOUS
  <2>1. top \in same
    BY <1>3
  <2>2. CASE \E q \in same : q.flag # top.flag
    <3>1. PICK q \in same : q.flag # top.flag
      BY <2>2
    <3>2. q.flag \in {side, "Shared"} \/ top.flag \in {side, "Shared"}
      BY <1>3, <1>4, <3>1, FlagsDiffer
    <3> QED
      BY <2>1, <2>2, <3>1, <3>2
  <2>3. CASE \A q \in same : q.flag = top.flag
    BY <2>1, <2>3
  <2> QED
    BY <2>2, <2>3
<1> HIDE DEF flag
<1>7. /\ m \in top.v /\ m \in 0 .. (n - 1) /\ \A w \in top.v : w \in 0 .. m
      /\ \A q \in Shatter(top, flag) : q \in Points(n) /\ q.flag = flag /\ \E w \in top.v \ {m} : q.v = {w}
      /\ \A w \in top.v \ {m} : \E q \in Shatter(top, flag) : q.flag = flag /\ q.v = {w}
      /\ Hand(m, flag) \in Points(n) /\ Hand(m, flag).v = {m} /\ Hand(m, flag).flag = flag
  <2>1. Apart(n, top, flag, m)
    BY <1>1, <1>3, <1>5, PointApart
  <2> HIDE DEF m
  <2>2. m \in 0 .. (n - 1)
    BY <2>1 DEF Apart
  <2>3. Hand(m, flag) \in Points(n) /\ Hand(m, flag).v = {m} /\ Hand(m, flag).flag = flag
    BY <1>1, <1>5, <2>2, HandIsPoint
  <2> QED
    BY <2>1, <2>3 DEF Apart
<1>8. \A q \in st.queue : q.v \subseteq 0 .. m
  <2> SUFFICES ASSUME NEW q \in st.queue, NEW w \in q.v PROVE w \in 0 .. m
    OBVIOUS
  <2>1. Highest(q.v) \in q.v /\ w <= Highest(q.v)
    BY <1>1, <1>4, HighestProperties
  <2>2. Highest(q.v) <= m
    BY DEF IsTop
  <2>3. Highest(q.v) \in Nat /\ w \in Nat /\ m \in Nat
    BY <1>1, <1>4, <1>7, <2>1
  <2> HIDE DEF m
  <2> QED
    BY <2>1, <2>2, <2>3
<1>9. Queued(g, st.queue, l)
  BY DEF ConflictInv
<1>10. m \in 0 .. (l - 1)
  BY <1>3, <1>7, <1>9 DEF Queued
<1> HIDE DEF m, new, same
<1>11. \A q : q \in W <=> (q \in st.queue /\ q \notin same) \/ q \in Shatter(top, flag) \/ q = Hand(m, flag)
  OBVIOUS
<1>12. \A q \in st.queue : q \in same <=> q.v = top.v
  BY DEF same
<1>13. same \subseteq st.queue
  BY DEF same
<1> HIDE DEF W, rest
<1>14. /\ m \in Nat /\ m + 1 \in 0 .. l /\ (m + 1) - 1 = m /\ m + 1 \in Nat
  BY <1>1, <1>10
<1>15. Queued(g, W, m + 1)
  <2>1. \A q \in W : q \in Points(n) /\ q.v \subseteq 0 .. m /\ DominatorsOf(Histories(g), q.v) = q.v
    <3> SUFFICES ASSUME NEW q \in W
                 PROVE  q \in Points(n) /\ q.v \subseteq 0 .. m /\ DominatorsOf(Histories(g), q.v) = q.v
      OBVIOUS
    <3>1. CASE q \in st.queue /\ q \notin same
      BY <1>3, <1>8, <1>9, <3>1 DEF Queued
    <3>2. CASE q \in Shatter(top, flag)
      <4>1. PICK w \in top.v : q.v = {w}
        BY <1>7, <3>2
      <4>2. DominatorsOf(Histories(g), {w}) = {w}
        BY SingleIsFrontier
      <4> QED
        BY <1>7, <3>2, <4>1, <4>2
    <3>3. CASE q = Hand(m, flag)
      <4>1. m \in 0 .. m
        BY <1>14
      <4>2. DominatorsOf(Histories(g), {m}) = {m}
        BY SingleIsFrontier
      <4> QED
        BY <1>7, <3>3, <4>1, <4>2
    <3> QED
      BY <1>11, <3>1, <3>2, <3>3
  <2>2. \A side \in {"A", "B"} : \E p \in W : p.flag \in {side, "Shared"}
    <3> SUFFICES ASSUME NEW side \in {"A", "B"} PROVE \E p \in W : p.flag \in {side, "Shared"}
      OBVIOUS
    <3>1. PICK p \in st.queue : p.flag \in {side, "Shared"}
      BY <1>9 DEF Queued
    <3>2. CASE p \in same
      BY <1>6, <1>7, <1>11, <3>1, <3>2
    <3>3. CASE p \notin same
      BY <1>11, <3>1, <3>3
    <3> QED
      BY <3>2, <3>3
  <2> QED
    BY <1>14, <2>1, <2>2 DEF Queued, n
<1>16. \A side \in {"A", "B"} : Side(W, side) = Side(st.queue, side)
  <2> SUFFICES ASSUME NEW side \in {"A", "B"} PROVE Side(W, side) = Side(st.queue, side)
    OBVIOUS
  <2>1. Carries(st.queue, W, side)
    <3> SUFFICES ASSUME NEW p \in st.queue, p.flag \in {side, "Shared"}, NEW u \in p.v
                 PROVE  \E q \in W : q.flag \in {side, "Shared"} /\ u \in q.v
      BY DEF Carries
    <3>1. CASE p \notin same
      BY <1>11, <3>1
    <3>2. CASE p \in same
      <4>1. flag \in {side, "Shared"} /\ u \in top.v
        BY <1>6, <1>12, <3>2
      <4>2. CASE u = m
        BY <1>7, <1>11, <4>1, <4>2
      <4>3. CASE u # m
        BY <1>7, <1>11, <4>1, <4>3, SMTT(30)
      <4> QED
        BY <4>2, <4>3
    <3> QED
      BY <3>1, <3>2
  <2>2. Carries(W, st.queue, side)
    <3> SUFFICES ASSUME NEW p \in W, p.flag \in {side, "Shared"}, NEW u \in p.v
                 PROVE  \E q \in st.queue : q.flag \in {side, "Shared"} /\ u \in q.v
      BY DEF Carries
    <3>1. CASE p \in st.queue
      BY <3>1
    <3>2. CASE p \in Shatter(top, flag) \/ p = Hand(m, flag)
      <4>1. flag \in {side, "Shared"} /\ u \in top.v
        BY <1>7, <3>2
      <4> QED
        BY <1>6, <1>12, <1>13, <4>1
    <3> QED
      BY <1>11, <3>1, <3>2
  <2> QED
    BY <2>1, <2>2, SameSides
<1>17. \A p \in st.queue : \E q \in W : q.v \subseteq p.v
  <2> SUFFICES ASSUME NEW p \in st.queue PROVE \E q \in W : q.v \subseteq p.v
    OBVIOUS
  <2>1. CASE p \in same
    <3>1. Hand(m, flag) \in W /\ Hand(m, flag).v \subseteq p.v
      BY <1>7, <1>11, <1>12, <2>1
    <3> QED
      BY <3>1
  <2>2. CASE p \notin same
    BY <1>11, <2>2
  <2> QED
    BY <2>1, <2>2
<1>18. ConflictInv(g, a, b, W, st.visited, m + 1)
  BY <1>14, <1>15, <1>16, <1>17, Regroup
<1>19. new \in ConflictLoops(n)
  <2>1. rest \in SUBSET Points(n)
    BY <1>3, <1>7 DEF rest
  <2> QED
    BY <1>2, <1>3, <1>5, <1>14, <2>1 DEF ConflictLoops
<1>20. InHand(g, a, b, FindEntryContaining(g, m), new)
  <2>1. new.queue \cup {Hand(new.end - 1, new.flag)} = W
    BY <1>2, <1>14 DEF W
  <2>2. m \in Versions(g) /\ m + 1 >= 1 /\ ~ new.found
    BY <1>1, <1>2, <1>3, <1>7, <1>14
  <2> QED
    BY <1>2, <1>14, <1>18, <1>19, <2>1, <2>2 DEF InHand, n
<1> QED
  BY <1>1, <1>10, <1>20 DEF RangeStarted, m, new, same

\* What is in hand is in the entry.
LEMMA HandInEntry ==
  ASSUME NEW g, GraphInv(g), NEW x \in Versions(g), NEW y \in FindEntryContaining(g, x).version .. x
  PROVE  /\ y \in Versions(g) /\ FindEntryContaining(g, y) = FindEntryContaining(g, x)
         /\ ParentsOf(g, y) = IF y = FindEntryContaining(g, x).version
                              THEN FindEntryContaining(g, x).parents ELSE {y - 1}
         /\ y \in Nat /\ x \in Nat /\ FindEntryContaining(g, x).version \in Nat
<1>1. NextLV(g) \in Nat /\ Versions(g) = 0 .. (NextLV(g) - 1)
  BY NextLVType DEF GraphInv, Versions
<1> DEFINE s == FindEntryContaining(g, x).version
<1>2. s \in Nat /\ y \in s .. x
  BY EntryOfVersion
<1> HIDE DEF s
<1>3. y \in Nat /\ x \in Nat
  BY <1>1, <1>2
<1> QED
  BY <1>2, <1>3, EntryOfVersion DEF s

\* The points within the entry.
Met(queue, e) == {q \in queue : LiesWithin(q, e)}

\* The point in hand is brought down to a version of its entry above the others.
LEMMA HandLowered ==
  ASSUME NEW g, GraphInv(g), ParentFrontiers(g), NEW a \in SUBSET Versions(g), NEW b \in SUBSET Versions(g),
         NEW x \in Versions(g), NEW flag \in DiffFlags, NEW R, NEW visited,
         ConflictInv(g, a, b, R \cup {Hand(x, flag)}, visited, x + 1),
         NEW m \in FindEntryContaining(g, x).version .. x, \A q \in R : q.v \subseteq 0 .. m
  PROVE  ConflictInv(g, a, b, R \cup {Hand(m, flag)},
                     IF m + 1 < x + 1 THEN Append(visited, <<m + 1, x + 1, flag>>) ELSE visited, m + 1)
<1> DEFINE s == FindEntryContaining(g, x).version
<1>1. m \in Nat /\ x \in Nat /\ s \in Nat /\ m \in s .. x
  BY HandInEntry
<1>2. CASE m + 1 < x + 1
  <2> DEFINE c == m + 1
  <2>1. c \in s .. x /\ c # s /\ c - 1 = m
    <3> HIDE DEF s
    <3> QED
      BY <1>1, <1>2
  <2>2. \A q \in R : q.v \subseteq 0 .. (c - 1)
    BY <2>1
  <2> HIDE DEF c
  <2>3. ParentsOf(g, c) = {m}
    BY <2>1, HandInEntry
  <2>4. ConflictInv(g, a, b, R \cup {[v |-> ParentsOf(g, c), flag |-> flag]}, Append(visited, <<c, x + 1, flag>>), c)
    BY <2>1, <2>2, Cut
  <2> QED
    BY <1>2, <2>3, <2>4 DEF Hand, c
<1>3. CASE ~ (m + 1 < x + 1)
  <2>1. m = x
    <3> HIDE DEF s
    <3> QED
      BY <1>1, <1>3
  <2> QED
    BY <1>3, <2>1
<1> QED
  BY <1>2, <1>3

\* No time point has two versions in one entry.
LEMMA OthersBelow ==
  ASSUME NEW g, GraphInv(g), NEW S \in SUBSET Versions(g), DominatorsOf(Histories(g), S) = S,
         NEW m \in S, NEW w \in S, w < m
  PROVE  w < FindEntryContaining(g, m).version
<1> DEFINE s == FindEntryContaining(g, m).version
<1>1. m \in Nat /\ w \in Nat
  BY NextLVType DEF GraphInv, Versions
<1>2. \A u \in s .. m : u \in Histories(g)[m]
  BY HistoryOfVersion
<1>3. w \notin Histories(g)[m]
  <2>1. m \in S \ {w}
    BY <1>1
  <2> QED
    BY <2>1 DEF DominatorsOf
<1>4. s \in Nat
  BY EntryOfVersion
<1> HIDE DEF s
<1>5. ~ (w \in s .. m)
  BY <1>2, <1>3
<1>6. w < s
  BY <1>1, <1>4, <1>5
<1> QED
  BY <1>6 DEF s

\* The highest of some lower versions lies below the entry.
LEMMA SingleWithin ==
  ASSUME NEW w \in Nat, NEW q, q.v = {w}, NEW e
  PROVE  LiesWithin(q, e) <=> w >= e.version
<1>1. Highest({w}) = w
  <2>1. {w} \subseteq 0 .. ((w + 1) - 1) /\ w + 1 \in Nat
    OBVIOUS
  <2>2. Highest({w}) \in {w}
    BY <2>1, HighestProperties
  <2> QED
    BY <2>2
<1> QED
  BY <1>1 DEF LiesWithin

\* Where the loop stands after the next point is taken off.
Absorbed(g, a, b, e, st, peek) ==
  /\ InHand(g, a, b, e, AbsorbTo(st, peek, Highest(peek.v) + 1))
  /\ Met(AbsorbTo(st, peek, Highest(peek.v) + 1).queue, e) = Met(st.queue, e) \ {peek}

\* The next point within the entry is taken off.
LEMMA AbsorbKeeps ==
  ASSUME NEW g, GraphInv(g), ParentFrontiers(g), NEW a \in SUBSET Versions(g), NEW b \in SUBSET Versions(g),
         NEW e, NEW st, InHand(g, a, b, e, st),
         NEW peek, IsTop(peek, st.queue), LiesWithin(peek, e)
  PROVE  Absorbed(g, a, b, e, st, peek)
<1> DEFINE n    == NextLV(g)
           m    == Highest(peek.v)
           x    == st.end - 1
           f    == st.flag
           o    == peek.flag
           new  == AbsorbTo(st, peek, m + 1)
           seen == IF m + 1 < x + 1 THEN Append(st.visited, <<m + 1, x + 1, f>>) ELSE st.visited
           rest == (st.queue \ {peek}) \cup Shatter(peek, o)
           both == Blend(f, o)
           V    == st.queue \cup {Hand(m, f)}
           W    == rest \cup {Hand(m, both)}
<1>1. n \in Nat /\ Versions(g) = 0 .. (n - 1)
  BY NextLVType DEF GraphInv, Versions
<1>2. /\ st \in ConflictLoops(n) /\ st.found = FALSE /\ st.end \in Nat /\ x + 1 = st.end /\ x \in Versions(g)
      /\ FindEntryContaining(g, x) = e
      /\ f \in DiffFlags /\ st.queue \in SUBSET Points(n)
      /\ ConflictInv(g, a, b, st.queue \cup {Hand(x, f)}, st.visited, x + 1)
  BY DEF InHand, ConflictLoops
<1>3. /\ new.queue = rest /\ new.end = Lower(st.end, m + 1) /\ new.flag = both
      /\ new.visited = (IF m + 1 < st.end THEN Append(st.visited, <<m + 1, st.end, f>>) ELSE st.visited)
      /\ new.found = st.found
      /\ new = [queue |-> new.queue, end |-> new.end, flag |-> new.flag, visited |-> new.visited, found |-> new.found]
  BY DEF AbsorbTo
<1>4. peek \in st.queue /\ peek \in Points(n) /\ o \in DiffFlags /\ peek.v # {}
  <2>1. peek \in st.queue /\ peek \in Points(n)
    BY <1>2 DEF IsTop
  <2> QED
    BY <2>1 DEF Points, LiesWithin
<1>5. /\ m \in peek.v /\ m \in 0 .. (n - 1) /\ \A w \in peek.v : w \in 0 .. m
      /\ \A q \in Shatter(peek, o) : q \in Points(n) /\ q.flag = o /\ \E w \in peek.v \ {m} : q.v = {w}
      /\ \A w \in peek.v \ {m} : \E q \in Shatter(peek, o) : q.flag = o /\ q.v = {w}
  <2>1. Apart(n, peek, o, m)
    BY <1>1, <1>4, PointApart
  <2> HIDE DEF m
  <2> QED
    BY <2>1 DEF Apart
<1>6. m >= e.version
  BY DEF LiesWithin
<1>7. \A q \in st.queue : q.v \subseteq 0 .. (n - 1)
  BY <1>2 DEF Points
<1>8. \A q \in st.queue : q.v \subseteq 0 .. m
  <2> SUFFICES ASSUME NEW q \in st.queue, NEW w \in q.v PROVE w \in 0 .. m
    OBVIOUS
  <2>1. Highest(q.v) \in q.v /\ w <= Highest(q.v)
    BY <1>1, <1>7, HighestProperties
  <2>2. Highest(q.v) <= m
    BY DEF IsTop
  <2>3. Highest(q.v) \in Nat /\ w \in Nat /\ m \in Nat
    BY <1>1, <1>5, <1>7, <2>1
  <2> HIDE DEF m
  <2> QED
    BY <2>1, <2>2, <2>3
<1>9. Queued(g, st.queue \cup {Hand(x, f)}, x + 1)
  BY <1>2 DEF ConflictInv
<1> HIDE DEF m, x, f, o, new
<1>10. m \in e.version .. x /\ m \in Nat /\ x \in Nat /\ m < x + 1
  <2>1. peek.v \subseteq 0 .. ((x + 1) - 1)
    BY <1>4, <1>9 DEF Queued
  <2>2. x \in Nat /\ m \in Nat /\ e.version \in Nat
    BY <1>1, <1>2, <1>5, EntryOfVersion
  <2> QED
    BY <1>5, <1>6, <2>1, <2>2
<1>11. ConflictInv(g, a, b, V, seen, m + 1)
  BY <1>2, <1>8, <1>10, HandLowered
<1>12. both \in DiffFlags /\ \A side \in {"A", "B"} : both \in {side, "Shared"} <=> f \in {side, "Shared"} \/ o \in {side, "Shared"}
  <2>1. CASE f = o
    BY <1>2, <1>4, <2>1 DEF Blend
  <2>2. CASE f # o
    <3>1. \A side \in {"A", "B"} : f \in {side, "Shared"} \/ o \in {side, "Shared"}
      BY <1>2, <1>4, <2>2, FlagsDiffer
    <3> QED
      BY <2>2, <3>1 DEF Blend, DiffFlags
  <2> QED
    BY <2>1, <2>2
<1> HIDE DEF both
<1>13. /\ Hand(m, f).v = {m} /\ Hand(m, f).flag = f
       /\ Hand(m, both).v = {m} /\ Hand(m, both).flag = both /\ Hand(m, both) \in Points(n)
  <2>1. Hand(m, both).v = {m} /\ Hand(m, both).flag = both /\ Hand(m, both) \in Points(n)
    BY <1>1, <1>5, <1>12, HandIsPoint
  <2> QED
    BY <2>1 DEF Hand
<1>14. \A q : q \in W <=> (q \in st.queue /\ q # peek) \/ q \in Shatter(peek, o) \/ q = Hand(m, both)
  OBVIOUS
<1>15. \A q : q \in V <=> q \in st.queue \/ q = Hand(m, f)
  OBVIOUS
<1>16. Queued(g, V, m + 1)
  BY <1>11 DEF ConflictInv
<1>17. rest \in SUBSET Points(n)
  BY <1>2, <1>5
<1>18. rest = (st.queue \ {peek}) \cup Shatter(peek, o)
  OBVIOUS
<1>19. W = rest \cup {Hand(m, both)}
  OBVIOUS
<1> HIDE DEF V, W, seen, rest
<1>20. Queued(g, W, m + 1)
  <2>1. \A q \in W : q \in Points(n) /\ q.v \subseteq 0 .. ((m + 1) - 1) /\ DominatorsOf(Histories(g), q.v) = q.v
    <3> SUFFICES ASSUME NEW q \in W
                 PROVE  q \in Points(n) /\ q.v \subseteq 0 .. ((m + 1) - 1) /\ DominatorsOf(Histories(g), q.v) = q.v
      OBVIOUS
    <3>1. (m + 1) - 1 = m /\ m \in 0 .. m
      BY <1>10
    <3>2. CASE q \in st.queue
      BY <1>2, <1>15, <1>16, <3>2 DEF Queued
    <3>3. CASE q \in Shatter(peek, o)
      <4>1. PICK w \in peek.v : q.v = {w}
        BY <1>5, <3>3
      <4>2. DominatorsOf(Histories(g), {w}) = {w}
        BY SingleIsFrontier
      <4> QED
        BY <1>5, <3>1, <3>3, <4>1, <4>2
    <3>4. CASE q = Hand(m, both)
      <4>1. DominatorsOf(Histories(g), {m}) = {m}
        BY SingleIsFrontier
      <4> QED
        BY <1>13, <3>1, <3>4, <4>1
    <3> QED
      BY <1>14, <3>2, <3>3, <3>4
  <2>2. \A side \in {"A", "B"} : \E p \in W : p.flag \in {side, "Shared"}
    <3> SUFFICES ASSUME NEW side \in {"A", "B"} PROVE \E p \in W : p.flag \in {side, "Shared"}
      OBVIOUS
    <3>1. PICK p \in V : p.flag \in {side, "Shared"}
      BY <1>16 DEF Queued
    <3>2. CASE p = peek \/ p = Hand(m, f)
      BY <1>12, <1>13, <1>14, <3>1, <3>2 DEF o
    <3>3. CASE p \in st.queue /\ p # peek
      BY <1>14, <3>1, <3>3
    <3> QED
      BY <1>15, <3>2, <3>3
  <2> QED
    BY <2>1, <2>2 DEF Queued, n
<1>21. \A side \in {"A", "B"} : Side(W, side) = Side(V, side)
  <2> SUFFICES ASSUME NEW side \in {"A", "B"} PROVE Side(W, side) = Side(V, side)
    OBVIOUS
  <2>1. Carries(V, W, side)
    <3> SUFFICES ASSUME NEW p \in V, p.flag \in {side, "Shared"}, NEW u \in p.v
                 PROVE  \E q \in W : q.flag \in {side, "Shared"} /\ u \in q.v
      BY DEF Carries
    <3>1. CASE p \in st.queue /\ p # peek
      BY <1>14, <3>1
    <3>2. CASE p = Hand(m, f)
      BY <1>12, <1>13, <1>14, <3>2
    <3>3. CASE p = peek
      <4>1. o \in {side, "Shared"} /\ u \in peek.v
        BY <3>3 DEF o
      <4>2. CASE u = m
        BY <1>12, <1>13, <1>14, <4>1, <4>2
      <4>3. CASE u # m
        <5>1. PICK q \in Shatter(peek, o) : q.flag = o /\ q.v = {u}
          BY <1>5, <4>1, <4>3
        <5>2. q \in W
          BY <1>14
        <5> QED
          BY <4>1, <5>1, <5>2
      <4> QED
        BY <4>2, <4>3
    <3> QED
      BY <1>15, <3>1, <3>2, <3>3
  <2>2. Carries(W, V, side)
    <3> SUFFICES ASSUME NEW p \in W, p.flag \in {side, "Shared"}, NEW u \in p.v
                 PROVE  \E q \in V : q.flag \in {side, "Shared"} /\ u \in q.v
      BY DEF Carries
    <3>1. CASE p \in st.queue
      BY <1>15, <3>1
    <3>2. CASE p \in Shatter(peek, o)
      <4>1. peek.flag \in {side, "Shared"} /\ u \in peek.v
        BY <1>5, <3>2 DEF o
      <4> QED
        BY <1>4, <1>15, <4>1
    <3>3. CASE p = Hand(m, both)
      <4>1. u = m /\ (f \in {side, "Shared"} \/ peek.flag \in {side, "Shared"})
        BY <1>12, <1>13, <3>3 DEF o
      <4> QED
        BY <1>4, <1>5, <1>13, <1>15, <4>1
    <3> QED
      BY <1>14, <3>1, <3>2, <3>3
  <2> QED
    BY <2>1, <2>2, SameSides
<1>22. \A p \in V : \E q \in W : q.v \subseteq p.v
  <2> SUFFICES ASSUME NEW p \in V PROVE \E q \in W : q.v \subseteq p.v
    OBVIOUS
  <2>1. CASE p = peek \/ p = Hand(m, f)
    <3>1. Hand(m, both) \in W /\ Hand(m, both).v \subseteq p.v
      BY <1>5, <1>13, <1>14, <2>1
    <3> QED
      BY <3>1
  <2>2. CASE p \in st.queue /\ p # peek
    BY <1>14, <2>2
  <2> QED
    BY <1>15, <2>1, <2>2
<1>23. m + 1 \in Nat /\ m + 1 \in 0 .. (m + 1) /\ (m + 1) - 1 = m /\ Lower(x + 1, m + 1) = m + 1
  BY <1>10 DEF Lower
<1>24. ConflictInv(g, a, b, W, seen, m + 1)
  BY <1>11, <1>20, <1>21, <1>22, <1>23, Regroup
<1>25. new.end = m + 1 /\ new.visited = seen
  BY <1>2, <1>3, <1>23 DEF seen
<1>26. new \in ConflictLoops(n)
  <2>1. seen \in Seq(Nat \X Nat \X DiffFlags)
    BY <1>24 DEF ConflictInv, AllVisited, VisitedTo
  <2> QED
    BY <1>2, <1>3, <1>12, <1>17, <1>23, <1>25, <2>1 DEF ConflictLoops
<1>27. InHand(g, a, b, e, new)
  <2>1. new.queue \cup {Hand(new.end - 1, new.flag)} = W
    BY <1>3, <1>19, <1>23, <1>25
  <2>2. m \in Versions(g) /\ FindEntryContaining(g, m) = e
    BY <1>2, <1>10, HandInEntry
  <2>3. m + 1 >= 1
    BY <1>10
  <2> QED
    BY <1>2, <1>3, <1>23, <1>24, <1>25, <1>26, <2>1, <2>2, <2>3 DEF InHand, n
<1>28. Met(new.queue, e) = Met(st.queue, e) \ {peek}
  <2>1. \A q \in Shatter(peek, o) : ~ LiesWithin(q, e)
    <3> SUFFICES ASSUME NEW q \in Shatter(peek, o) PROVE ~ LiesWithin(q, e)
      OBVIOUS
    <3>1. PICK w \in peek.v \ {m} : q.v = {w}
      BY <1>5
    <3>2. peek.v \in SUBSET Versions(g) /\ DominatorsOf(Histories(g), peek.v) = peek.v
      BY <1>1, <1>4, <1>7, <1>15, <1>16 DEF Queued
    <3>3. w < m /\ w \in Nat
      BY <1>5, <1>10, <3>1
    <3>4. FindEntryContaining(g, m) = e
      BY <1>2, <1>10, HandInEntry
    <3>5. w < e.version
      BY <1>5, <3>1, <3>2, <3>3, <3>4, OthersBelow
    <3>6. e.version \in Nat
      BY <1>2, EntryOfVersion
    <3> QED
      BY <3>1, <3>3, <3>5, <3>6, SingleWithin
  <2>2. new.queue = (st.queue \ {peek}) \cup Shatter(peek, o)
    BY <1>3, <1>18
  <2> QED
    BY <2>1, <2>2 DEF Met
<1> QED
  BY <1>27, <1>28 DEF Absorbed, new, m

-----------------------------------------------------------------------------
(* The entry is passed.                                                    *)

\* Where an iteration starts: all from l up is visited, or an ancestor is found.
ConflictAt(g, a, b, st, l) ==
  /\ st \in ConflictLoops(NextLV(g))
  /\ st.found => l = 0 /\ ConflictInv(g, a, b, {Hand(st.end - 1, st.flag)}, st.visited, st.end)
  /\ ~ st.found => ConflictInv(g, a, b, st.queue, st.visited, l)

\* Any values of their types are values of the loop's variables.
LEMMA LoopType ==
  ASSUME NEW n, NEW queue \in SUBSET Points(n), NEW end \in Nat, NEW flag \in DiffFlags,
         NEW visited \in Seq(Nat \X Nat \X DiffFlags), NEW found \in BOOLEAN
  PROVE  [queue |-> queue, end |-> end, flag |-> flag, visited |-> visited, found |-> found] \in ConflictLoops(n)
BY DEF ConflictLoops

\* With nothing left within the entry it is passed.
LEMMA PassKeeps ==
  ASSUME NEW g, GraphInv(g), ParentFrontiers(g), NEW a \in SUBSET Versions(g), NEW b \in SUBSET Versions(g),
         NEW e, NEW st, InHand(g, a, b, e, st), Met(st.queue, e) = {}
  PROVE  \E k \in 0 .. (st.end - 1) : ConflictAt(g, a, b, PassEntry(e, st), k)
<1> DEFINE n == NextLV(g)
           x == st.end - 1
           f == st.flag
           c == e.version
<1>1. n \in Nat /\ Versions(g) = 0 .. (n - 1)
  BY NextLVType DEF GraphInv, Versions
<1>2. /\ st \in ConflictLoops(n) /\ st.found = FALSE /\ st.end \in Nat /\ x + 1 = st.end /\ x \in Versions(g)
      /\ FindEntryContaining(g, x) = e
      /\ f \in DiffFlags /\ st.queue \in SUBSET Points(n) /\ st.visited \in Seq(Nat \X Nat \X DiffFlags)
      /\ ConflictInv(g, a, b, st.queue \cup {Hand(x, f)}, st.visited, x + 1)
  BY DEF InHand, ConflictLoops
<1>3. c \in 0 .. x /\ c \in Nat /\ x \in Nat
  <2>1. c \in 0 .. x
    BY <1>2, EntryOfVersion
  <2> QED
    BY <1>1, <1>2, <2>1
<1>4. CASE st.queue = {}
  <2> DEFINE new == PassEntry(e, st)
  <2>1. new = [st EXCEPT !.found = TRUE]
    BY <1>4 DEF PassEntry
  <2>2. /\ new.found = TRUE /\ new.end = st.end /\ new.flag = f /\ new.visited = st.visited
        /\ new \in ConflictLoops(n)
    BY <1>2, <2>1 DEF ConflictLoops
  <2>3. ConflictInv(g, a, b, {Hand(x, f)}, st.visited, st.end)
    <3>1. st.queue \cup {Hand(x, f)} = {Hand(x, f)}
      BY <1>4
    <3> QED
      BY <1>2, <3>1
  <2> HIDE DEF new
  <2>4. ConflictAt(g, a, b, new, 0)
    BY <2>2, <2>3 DEF ConflictAt
  <2>5. 0 \in 0 .. x
    BY <1>3
  <2> QED
    BY <2>4, <2>5 DEF new
<1>5. CASE st.queue # {}
  <2> DEFINE new   == PassEntry(e, st)
             point == [v |-> e.parents, flag |-> f]
             seen  == Append(st.visited, <<c, st.end, f>>)
  <2>1. /\ new.queue = st.queue \cup {point} /\ new.visited = seen /\ new.found = FALSE
        /\ new = [queue |-> new.queue, end |-> st.end, flag |-> f, visited |-> new.visited, found |-> FALSE]
    BY <1>2, <1>5 DEF PassEntry
  <2>2. \A q \in st.queue : q.v \subseteq 0 .. (c - 1)
    <3> SUFFICES ASSUME NEW q \in st.queue, NEW w \in q.v PROVE w \in 0 .. (c - 1)
      OBVIOUS
    <3>1. q.v \subseteq 0 .. (n - 1) /\ ~ LiesWithin(q, e)
      BY <1>2 DEF Points, Met
    <3>2. Highest(q.v) \in q.v /\ w <= Highest(q.v)
      BY <1>1, <3>1, HighestProperties
    <3>3. ~ (Highest(q.v) >= e.version)
      BY <3>1 DEF LiesWithin
    <3>4. Highest(q.v) \in Nat /\ w \in Nat
      BY <1>1, <3>1, <3>2
    <3> QED
      BY <1>3, <3>2, <3>3, <3>4
  <2>3. c \in FindEntryContaining(g, x).version .. x
    BY <1>2, <1>3
  <2>4. ParentsOf(g, c) = e.parents
    <3>1. ParentsOf(g, c) = IF c = FindEntryContaining(g, x).version
                            THEN FindEntryContaining(g, x).parents ELSE {c - 1}
      BY <1>2, <2>3, HandInEntry
    <3> QED
      BY <1>2, <3>1
  <2>5. ConflictInv(g, a, b, st.queue \cup {[v |-> ParentsOf(g, c), flag |-> f]}, Append(st.visited, <<c, x + 1, f>>), c)
    <3> HIDE DEF x, c, f
    <3> QED
      BY <1>2, <2>2, <2>3, Cut
  <2>6. ConflictInv(g, a, b, new.queue, new.visited, c)
    BY <1>2, <2>1, <2>4, <2>5
  <2> HIDE DEF new, point, seen
  <2>7. new \in ConflictLoops(n)
    <3>1. new.queue \in SUBSET Points(n) /\ new.visited \in Seq(Nat \X Nat \X DiffFlags)
      BY <2>6 DEF ConflictInv, Queued, AllVisited, VisitedTo, n
    <3>2. f \in DiffFlags /\ st.end \in Nat /\ FALSE \in BOOLEAN
      BY <1>2
    <3> HIDE DEF f, n
    <3>3. [queue |-> new.queue, end |-> st.end, flag |-> f, visited |-> new.visited, found |-> FALSE] \in ConflictLoops(n)
      BY <3>1, <3>2, LoopType
    <3> QED
      BY <2>1, <3>3, Zenon
  <2>8. ConflictAt(g, a, b, new, c)
    BY <2>1, <2>6, <2>7 DEF ConflictAt
  <2> QED
    BY <1>3, <2>8 DEF new
<1> QED
  BY <1>4, <1>5

\* There are finitely many points within the entry.
LEMMA MetIsFinite ==
  ASSUME NEW n \in Nat, NEW queue \in SUBSET Points(n), NEW e
  PROVE  /\ IsFiniteSet(queue) /\ Cardinality(queue) \in Nat
         /\ IsFiniteSet(Met(queue, e)) /\ Cardinality(Met(queue, e)) \in Nat
         /\ Cardinality(Met(queue, e)) <= Cardinality(queue)
<1>1. IsFiniteSet(queue)
  BY PointsAreFinite, FS_Subset
<1>2. Met(queue, e) \subseteq queue
  BY DEF Met
<1> QED
  BY <1>1, <1>2, FS_Subset, FS_CardinalityType

\* The inner loop takes a point off or is at its end.
AbsorbDone(e, st) == st.queue = {} \/ ~ LiesWithin(TopPoint(st.queue), e)

\* At its end no point lies within the entry.
LEMMA AbsorbLast ==
  ASSUME NEW n \in Nat, NEW st, st.queue \in SUBSET Points(n), NEW e, AbsorbDone(e, st), e.version \in Nat
  PROVE  Met(st.queue, e) = {}
<1> SUFFICES ASSUME NEW q \in st.queue, LiesWithin(q, e) PROVE FALSE
  BY DEF Met
<1> DEFINE top == TopPoint(st.queue)
<1>1. IsTop(top, st.queue) /\ ~ LiesWithin(top, e)
  BY TopOfQueue DEF AbsorbDone
<1>2. q.v # {} /\ Highest(q.v) >= e.version
  BY DEF LiesWithin
<1>3. top.v # {} /\ Highest(q.v) <= Highest(top.v) /\ top \in st.queue
  BY <1>1, <1>2 DEF IsTop
<1>4. ~ (Highest(top.v) >= e.version)
  BY <1>1, <1>3 DEF LiesWithin
<1>5. q.v \subseteq 0 .. (n - 1) /\ top.v \subseteq 0 .. (n - 1)
  BY <1>3 DEF Points
<1>6. Highest(q.v) \in 0 .. (n - 1) /\ Highest(top.v) \in 0 .. (n - 1)
  BY <1>2, <1>3, <1>5, HighestProperties
<1> HIDE DEF top
<1> QED
  BY <1>2, <1>3, <1>4, <1>6

\* Until then, a point that does is taken off.
LEMMA AbsorbNextKeeps ==
  ASSUME NEW g, GraphInv(g), ParentFrontiers(g), NEW a \in SUBSET Versions(g), NEW b \in SUBSET Versions(g),
         NEW e, NEW st, InHand(g, a, b, e, st), ~ AbsorbDone(e, st)
  PROVE  /\ InHand(g, a, b, e, AbsorbNext(e, st))
         /\ Cardinality(Met(AbsorbNext(e, st).queue, e)) < Cardinality(Met(st.queue, e))
<1> DEFINE n    == NextLV(g)
           peek == TopPoint(st.queue)
           new  == AbsorbTo(st, peek, Highest(peek.v) + 1)
<1>1. n \in Nat
  BY NextLVType DEF GraphInv
<1>2. st.queue \in SUBSET Points(n) /\ st.queue # {} /\ LiesWithin(peek, e)
  BY DEF InHand, ConflictLoops, AbsorbDone
<1>3. IsTop(peek, st.queue)
  BY <1>1, <1>2, TopOfQueue
<1>4. AbsorbNext(e, st) = new
  BY <1>2 DEF AbsorbNext
<1>5. Absorbed(g, a, b, e, st, peek)
  <2> HIDE DEF peek
  <2> QED
    BY <1>2, <1>3, AbsorbKeeps
<1>6. InHand(g, a, b, e, new) /\ Met(new.queue, e) = Met(st.queue, e) \ {peek}
  BY <1>5 DEF Absorbed
<1>7. peek \in Met(st.queue, e)
  BY <1>2, <1>3 DEF IsTop, Met
<1> HIDE DEF peek, new
<1>8. IsFiniteSet(Met(st.queue, e)) /\ Cardinality(Met(st.queue, e)) \in Nat
  BY <1>1, <1>2, MetIsFinite
<1>9. Cardinality(Met(new.queue, e)) = Cardinality(Met(st.queue, e)) - 1
  BY <1>6, <1>7, <1>8, FS_RemoveElement, ZenonT(60)
<1>10. Cardinality(Met(new.queue, e)) < Cardinality(Met(st.queue, e))
  BY <1>8, <1>9
<1> QED
  BY <1>4, <1>6, <1>10
\* And the range that is left ends no higher.
LEMMA AbsorbNextDescends ==
  ASSUME NEW g, NEW a, NEW b, NEW e, NEW st, InHand(g, a, b, e, st), InHand(g, a, b, e, AbsorbNext(e, st)), GraphInv(g)
  PROVE  AbsorbNext(e, st).end <= st.end
<1> DEFINE peek == TopPoint(st.queue)
           m    == Highest(peek.v)
<1>1. NextLV(g) \in Nat
  BY NextLVType DEF GraphInv
<1>2. st.queue \in SUBSET Points(NextLV(g)) /\ st.end \in Nat
  BY DEF InHand, ConflictLoops
<1>3. CASE ~ (st.queue # {} /\ LiesWithin(peek, e))
  BY <1>2, <1>3 DEF AbsorbNext
<1>4. CASE st.queue # {} /\ LiesWithin(peek, e)
  <2>1. AbsorbNext(e, st).end = Lower(st.end, m + 1)
    BY <1>4 DEF AbsorbNext, AbsorbTo
  <2>2. peek \in st.queue
    BY <1>1, <1>2, <1>4, TopOfQueue DEF IsTop
  <2>3. peek.v \subseteq 0 .. (NextLV(g) - 1) /\ peek.v # {}
    BY <1>2, <1>4, <2>2 DEF Points, LiesWithin
  <2>4. m \in 0 .. (NextLV(g) - 1)
    BY <1>1, <2>3, HighestProperties
  <2> HIDE DEF m
  <2> QED
    BY <1>1, <1>2, <2>1, <2>4 DEF Lower
<1> QED
  BY <1>3, <1>4

\* The inner loop passes the entry.
LEMMA WithinKeeps ==
  ASSUME NEW g, GraphInv(g), ParentFrontiers(g), NEW a \in SUBSET Versions(g), NEW b \in SUBSET Versions(g),
         NEW e, NEW start, InHand(g, a, b, e, start)
  PROVE  \E k \in 0 .. (start.end - 1) : ConflictAt(g, a, b, ConflictWithin(e, start), k)
<1> DEFINE n       == Cardinality(start.queue)
           Loop(f) == f = [k \in 0 .. n |-> IF k = 0 THEN start ELSE AbsorbNext(e, f[k - 1])]
           after   == CHOOSE f : Loop(f)
           left(st) == Cardinality(Met(st.queue, e))
           T       == {st \in ConflictLoops(NextLV(g)) : InHand(g, a, b, e, st) /\ st.end <= start.end /\ left(st) <= n}
           step    == [st \in T |-> AbsorbNext(e, st)]
           done    == {st \in T : AbsorbDone(e, st)}
           level   == [st \in T |-> {left(st)}]
<1>1. /\ NextLV(g) \in Nat
      /\ \A st : InHand(g, a, b, e, st) => /\ st \in ConflictLoops(NextLV(g)) /\ st.end \in Nat /\ left(st) \in Nat
                                           /\ st.queue \in SUBSET Points(NextLV(g))
                                           /\ left(st) <= Cardinality(st.queue) /\ Cardinality(st.queue) \in Nat
  <2>1. NextLV(g) \in Nat
    BY NextLVType DEF GraphInv
  <2>2. ASSUME NEW st, InHand(g, a, b, e, st)
        PROVE  /\ st \in ConflictLoops(NextLV(g)) /\ st.end \in Nat /\ left(st) \in Nat
               /\ st.queue \in SUBSET Points(NextLV(g))
               /\ left(st) <= Cardinality(st.queue) /\ Cardinality(st.queue) \in Nat
    <3>1. st \in ConflictLoops(NextLV(g)) /\ st.end \in Nat /\ st.queue \in SUBSET Points(NextLV(g))
      BY <2>2 DEF InHand, ConflictLoops
    <3> QED
      BY <2>1, <3>1, MetIsFinite
  <2> QED
    BY <2>1, <2>2
<1>2. n \in Nat /\ start.end \in Nat
  BY <1>1
<1>3. ConflictWithin(e, start) = PassEntry(e, after[n])
  BY DEF ConflictWithin
<1>4. start \in T
  <2>1. start.end <= start.end /\ left(start) <= n
    BY <1>1
  <2> QED
    BY <1>1, <2>1
<1>5. \A st \in T : InHand(g, a, b, e, st) /\ st.end <= start.end /\ left(st) <= n
  OBVIOUS
<1>6. \A st : InHand(g, a, b, e, st) /\ st.end <= start.end /\ left(st) <= n => st \in T
  BY <1>1
<1>7. \A st \in T : step[st] = AbsorbNext(e, st) /\ level[st] = {left(st)} /\ (st \in done <=> AbsorbDone(e, st))
  OBVIOUS
<1>8. \A st : InHand(g, a, b, e, st) /\ ~ AbsorbDone(e, st) =>
         InHand(g, a, b, e, AbsorbNext(e, st)) /\ left(AbsorbNext(e, st)) < left(st) /\ AbsorbNext(e, st).end <= st.end
  <2> SUFFICES ASSUME NEW st, InHand(g, a, b, e, st), ~ AbsorbDone(e, st)
               PROVE  InHand(g, a, b, e, AbsorbNext(e, st)) /\ left(AbsorbNext(e, st)) < left(st) /\ AbsorbNext(e, st).end <= st.end
    OBVIOUS
  <2>1. InHand(g, a, b, e, AbsorbNext(e, st)) /\ left(AbsorbNext(e, st)) < left(st)
    BY AbsorbNextKeeps
  <2> QED
    BY <2>1, AbsorbNextDescends
<1> HIDE DEF n, T, step, done, level, left
<1>9. Descent(T, step, done, level, n)
  <2> SUFFICES ASSUME NEW st \in T
               PROVE  /\ level[st] \subseteq 0 .. n /\ level[st] # {}
                      /\ st \in done => step[st] = st
                      /\ st \notin done => step[st] \in T /\ \A l \in level[st] : \E k \in level[step[st]] : k < l
    BY DEF Descent
  <2>1. InHand(g, a, b, e, st) /\ st.end <= start.end /\ left(st) <= n /\ left(st) \in Nat /\ st.end \in Nat
    BY <1>1, <1>5
  <2>2. level[st] \subseteq 0 .. n /\ level[st] # {}
    BY <1>2, <1>7, <2>1
  <2>3. st \in done => step[st] = st
    BY <1>7 DEF AbsorbDone, AbsorbNext
  <2>4. ASSUME st \notin done
        PROVE  step[st] \in T /\ \A l \in level[st] : \E k \in level[step[st]] : k < l
    <3> DEFINE next == AbsorbNext(e, st)
    <3>1. ~ AbsorbDone(e, st) /\ step[st] = next
      BY <1>7, <2>4
    <3>2. InHand(g, a, b, e, next) /\ left(next) < left(st) /\ next.end <= st.end
      BY <1>8, <2>1, <3>1
    <3> HIDE DEF next
    <3>3. left(next) \in Nat /\ next.end \in Nat
      BY <1>1, <3>2
    <3>4. next \in T
      BY <1>2, <1>6, <2>1, <3>2, <3>3
    <3> QED
      BY <1>7, <3>1, <3>2, <3>4
  <2> QED
    BY <2>2, <2>3, <2>4
<1>10. \E f : Loop(f)
  <2>1. PICK f : Iteration(f, start, step, n, T)
    BY <1>2, <1>4, <1>9, IterationEnds
  <2>2. \A k \in 0 .. n : f[k] = IF k = 0 THEN start ELSE AbsorbNext(e, f[k - 1])
    <3> SUFFICES ASSUME NEW k \in 0 .. n, k # 0 PROVE f[k] = AbsorbNext(e, f[k - 1])
      BY <2>1 DEF Iteration
    <3>1. k \in 1 .. n /\ k - 1 \in 0 .. n
      BY <1>2
    <3> QED
      BY <1>7, <2>1, <3>1 DEF Iteration
  <2> QED
    BY <2>1, <2>2 DEF Iteration
<1>11. Loop(after)
  BY <1>10
<1> HIDE DEF after
<1>12. Iterates(after, start, step, n, T)
  <2>1. \A k \in 0 .. n : after[k] = IF k = 0 THEN start ELSE AbsorbNext(e, after[k - 1])
    BY <1>11
  <2>2. 0 \in 0 .. n /\ \A k \in 1 .. n : k \in 0 .. n /\ k # 0
    BY <1>2
  <2> QED
    BY <1>7, <2>1, <2>2 DEF Iterates
<1> DEFINE last == after[n]
<1>13. last \in T /\ last \in done
  BY <1>2, <1>4, <1>9, <1>12, IterationEnds
<1>14. InHand(g, a, b, e, last) /\ last.end <= start.end /\ AbsorbDone(e, last)
  BY <1>5, <1>7, <1>13
<1> HIDE DEF last
<1>15. Met(last.queue, e) = {}
  <2>1. e.version \in Nat
    BY <1>14, EntryOfVersion DEF InHand
  <2> QED
    BY <1>1, <1>14, <2>1, AbsorbLast
<1>16. PICK k \in 0 .. (last.end - 1) : ConflictAt(g, a, b, PassEntry(e, last), k)
  BY <1>14, <1>15, PassKeeps
<1>17. k \in 0 .. (start.end - 1)
  BY <1>1, <1>2, <1>14, <1>16
<1> QED
  BY <1>3, <1>16, <1>17 DEF last

-----------------------------------------------------------------------------
(* The whole walk.                                                         *)

\* An iteration passes the entry of the highest point.
LEMMA ConflictStepKeeps ==
  ASSUME NEW g, GraphInv(g), ParentFrontiers(g), NEW a \in SUBSET Versions(g), NEW b \in SUBSET Versions(g),
         NEW st, NEW l, ConflictAt(g, a, b, st, l), ~ ConflictDone(st)
  PROVE  \E k \in 0 .. (l - 1) : ConflictAt(g, a, b, ConflictStep(g, st, TopPoint(st.queue)), k)
<1> DEFINE top   == TopPoint(st.queue)
           m     == Highest(top.v)
           e     == FindEntryContaining(g, m)
           start == StartRange(st, top, {q \in st.queue : q.v = top.v})
<1>1. NextLV(g) \in Nat /\ st \in ConflictLoops(NextLV(g)) /\ st.queue \in SUBSET Points(NextLV(g))
  BY NextLVType DEF GraphInv, ConflictAt, ConflictLoops
<1>2. ~ st.found /\ top.v # {} /\ ConflictInv(g, a, b, st.queue, st.visited, l) /\ st.queue # {}
  BY DEF ConflictDone, ConflictAt
<1>3. IsTop(top, st.queue)
  BY <1>1, <1>2, TopOfQueue
<1>4. ConflictStep(g, st, top) = ConflictWithin(e, start)
  BY DEF ConflictStep
<1>5. start.end = m + 1
  BY DEF StartRange
<1>6. InHand(g, a, b, e, start) /\ m \in 0 .. (l - 1) /\ l \in Nat
  <2>1. RangeStarted(g, a, b, st, top, l)
    <3> HIDE DEF top
    <3> QED
      BY <1>1, <1>2, <1>3, StartRangeKeeps
  <2> QED
    BY <2>1 DEF RangeStarted
<1> HIDE DEF top, m, e, start
<1>7. PICK k \in 0 .. (start.end - 1) : ConflictAt(g, a, b, ConflictWithin(e, start), k)
  BY <1>6, WithinKeeps
<1>8. k \in 0 .. (l - 1)
  BY <1>5, <1>6, <1>7
<1> QED
  BY <1>4, <1>7, <1>8 DEF top

\* The walk starts with the two frontiers and nothing visited.
LEMMA ConflictStarts ==
  ASSUME NEW g, GraphInv(g), NEW a \in SUBSET Versions(g), NEW b \in SUBSET Versions(g),
         DominatorsOf(Histories(g), a) = a, DominatorsOf(Histories(g), b) = b
  PROVE  ConflictAt(g, a, b, ConflictStart(a, b), NextLV(g))
<1> DEFINE h == Histories(g)
           n == NextLV(g)
           p == [v |-> a, flag |-> "A"]
           q == [v |-> b, flag |-> "B"]
           V == {p, q}
<1>1. n \in Nat /\ Versions(g) = 0 .. (n - 1) /\ n \in 0 .. n
  BY NextLVType DEF GraphInv, Versions
<1>2. p \in Points(n) /\ q \in Points(n) /\ p.v = a /\ q.v = b /\ p.flag = "A" /\ q.flag = "B"
  BY <1>1 DEF Points, DiffFlags
<1>3. ConflictStart(a, b) = [queue |-> V, end |-> 0, flag |-> "A", visited |-> <<>>, found |-> FALSE]
  BY DEF ConflictStart
<1> HIDE DEF p, q
<1>4. Queued(g, V, n)
  BY <1>1, <1>2 DEF Queued, n
<1>5. Side(V, "A") = a /\ Side(V, "B") = b
  <2>1. ASSUME NEW u PROVE (u \in Side(V, "A") <=> u \in a) /\ (u \in Side(V, "B") <=> u \in b)
    <3>1. u \in Side(V, "A") <=> \E r \in V : r.flag \in {"A", "Shared"} /\ u \in r.v
      BY InSide
    <3>2. u \in Side(V, "B") <=> \E r \in V : r.flag \in {"B", "Shared"} /\ u \in r.v
      BY InSide
    <3>3. \A r : r \in V <=> r = p \/ r = q
      OBVIOUS
    <3> HIDE DEF V
    <3> QED
      BY <1>2, <3>1, <3>2, <3>3
  <2> QED
    BY <2>1
<1>6. \A X \in SUBSET Versions(g) : \A u \in EventsOf(h, X) : ~ (n <= u)
  <2> SUFFICES ASSUME NEW X \in SUBSET Versions(g), NEW u \in EventsOf(h, X) PROVE ~ (n <= u)
    OBVIOUS
  <2>1. EventsOf(h, X) \subseteq Versions(g)
    BY EventsAreVersions
  <2>2. u \in 0 .. (n - 1)
    BY <1>1, <2>1
  <2> HIDE DEF n
  <2> QED
    BY <1>1, <2>2
<1>7. \A flags : VisitedWith(<<>>, flags) = {}
  BY DEF VisitedWith
<1>8. AllVisited(h, a, b, <<>>, n)
  <2>1. VisitedTo(<<>>, n)
    BY DEF VisitedTo
  <2>2. OnlyFrom(h, a, b, n) = {} /\ OnlyFrom(h, b, a, n) = {} /\ CommonFrom(h, a, b, n) = {}
    BY <1>6 DEF OnlyFrom, CommonFrom
  <2> QED
    BY <1>7, <2>1, <2>2 DEF AllVisited
<1>9. Beneath(h, V, VisitedWith(<<>>, DiffFlags))
  BY <1>7 DEF Beneath
<1>10. ConflictInv(g, a, b, V, <<>>, n)
  BY <1>1, <1>4, <1>5, <1>8, <1>9 DEF ConflictInv, Follows
<1>11. ConflictStart(a, b) \in ConflictLoops(n)
  <2>1. V \in SUBSET Points(n)
    BY <1>2
  <2>2. <<>> \in Seq(Nat \X Nat \X DiffFlags) /\ "A" \in DiffFlags /\ 0 \in Nat /\ FALSE \in BOOLEAN
    BY DEF DiffFlags
  <2> HIDE DEF V, n
  <2> QED
    BY <1>3, <2>1, <2>2, LoopType
<1> HIDE DEF V
<1> QED
  BY <1>3, <1>10, <1>11 DEF ConflictAt

\* What the property says of one result.
Splits(h, a, b, c) ==
  LET all  == VisitedWith(c.visited, DiffFlags)
      past == EventsOf(h, c.common)
  IN  /\ DominatorsOf(h, c.common) = c.common
      /\ all \cap past = {}
      /\ all \cup past = EventsOf(h, a) \cup EventsOf(h, b)
      /\ VisitedWith(c.visited, {"A"}) = EventsOf(h, a) \ EventsOf(h, b)
      /\ VisitedWith(c.visited, {"B"}) = EventsOf(h, b) \ EventsOf(h, a)
      /\ VisitedWith(c.visited, {"Shared"}) = (EventsOf(h, a) \cap EventsOf(h, b)) \ past
      /\ \A v \in all : past \subseteq h[v]
      /\ \A i \in DOMAIN c.visited :
           /\ c.visited[i][1] < c.visited[i][2]
           /\ i > 1 => c.visited[i][2] <= c.visited[i - 1][1]

\* The common version is in the graph, and the ranges are ranges.
Reports(g, c) ==
  /\ c.common \subseteq Versions(g)
  /\ \E l \in Nat : VisitedTo(c.visited, l)

\* It ends when all points that are left are the same version.
LEMMA OnePointLeft ==
  ASSUME NEW g, GraphInv(g), NEW a \in SUBSET Versions(g), NEW b \in SUBSET Versions(g),
         NEW V, NEW visited, NEW l, ConflictInv(g, a, b, V, visited, l),
         NEW common, \A p \in V : p.v = common,
         NEW c, c.common = common, c.visited = visited
  PROVE  Splits(Histories(g), a, b, c) /\ Reports(g, c)
<1> DEFINE h    == Histories(g)
           all  == VisitedWith(visited, DiffFlags)
           past == EventsOf(h, common)
<1>1. NextLV(g) \in Nat /\ Versions(g) = 0 .. (NextLV(g) - 1) /\ l \in 0 .. NextLV(g) /\ l \in Nat
  BY NextLVType DEF GraphInv, Versions, ConflictInv
<1>2. \A side \in {"A", "B"} : Side(V, side) = common
  <2> SUFFICES ASSUME NEW side \in {"A", "B"} PROVE Side(V, side) = common
    OBVIOUS
  <2>1. PICK p \in V : p.flag \in {side, "Shared"}
    BY DEF ConflictInv, Queued
  <2>2. \A u : u \in Side(V, side) <=> \E q \in V : q.flag \in {side, "Shared"} /\ u \in q.v
    BY InSide
  <2> HIDE DEF Side
  <2>3. \A u : u \in Side(V, side) <=> u \in common
    BY <2>1, <2>2
  <2> QED
    BY <2>3
<1>3. DominatorsOf(h, common) = common /\ common \subseteq 0 .. (l - 1) /\ \E p \in V : TRUE
  BY DEF ConflictInv, Queued
<1>4. Follows(h, a, common, l) /\ Follows(h, b, common, l)
  BY <1>2 DEF ConflictInv
<1>5. AllVisited(h, a, b, visited, l) /\ Beneath(h, V, all)
  BY DEF ConflictInv
<1>6. \A u : u \in all <=> \/ u \in VisitedWith(visited, {"A"})
                           \/ u \in VisitedWith(visited, {"B"})
                           \/ u \in VisitedWith(visited, {"Shared"})
  <2>1. \A i \in DOMAIN visited : visited[i][3] \in DiffFlags => visited[i][3] = "A" \/ visited[i][3] = "B" \/ visited[i][3] = "Shared"
    BY DEF DiffFlags
  <2>2. "A" \in DiffFlags /\ "B" \in DiffFlags /\ "Shared" \in DiffFlags
    BY DEF DiffFlags
  <2>3. \A flags, u : u \in VisitedWith(visited, flags) <=>
                      \E i \in DOMAIN visited : visited[i][3] \in flags /\ u \in Range2Set(visited[i])
    BY DEF VisitedWith
  <2> HIDE DEF all
  <2>4. \A u : u \in VisitedWith(visited, DiffFlags) <=>
                 \/ u \in VisitedWith(visited, {"A"})
                 \/ u \in VisitedWith(visited, {"B"})
                 \/ u \in VisitedWith(visited, {"Shared"})
    BY <2>1, <2>2, <2>3
  <2> QED
    BY <2>4 DEF all
<1>7. past \subseteq 0 .. (l - 1)
  <2> SUFFICES ASSUME NEW v \in common, NEW u \in h[v] PROVE u \in 0 .. (l - 1)
    BY DEF EventsOf
  <2>1. v \in 0 .. (l - 1) /\ v \in Versions(g)
    BY <1>1, <1>3
  <2>2. u \in 0 .. v
    BY <2>1, HistoryOfVersion
  <2> HIDE DEF h
  <2> QED
    BY <1>1, <2>1, <2>2
<1>8. EventsOf(h, a) \subseteq Nat /\ EventsOf(h, b) \subseteq Nat
  BY <1>1, EventsAreVersions
<1>9. \A u \in 0 .. (l - 1) : (u \in EventsOf(h, a) <=> u \in past) /\ (u \in EventsOf(h, b) <=> u \in past)
  BY <1>4 DEF Follows, EventsOf
<1>10. \A u \in Nat : u \in 0 .. (l - 1) <=> ~ (l <= u)
  BY <1>1
<1>11. \A v \in all : past \subseteq h[v]
  <2> SUFFICES ASSUME NEW v \in all PROVE past \subseteq h[v]
    OBVIOUS
  <2>1. PICK p \in V : EventsOf(h, p.v) \subseteq h[v]
    BY <1>5 DEF Beneath
  <2> QED
    BY <2>1
<1> HIDE DEF h, past, all
<1>12. /\ VisitedWith(visited, {"A"}) = {u \in EventsOf(h, a) \ EventsOf(h, b) : l <= u}
       /\ VisitedWith(visited, {"B"}) = {u \in EventsOf(h, b) \ EventsOf(h, a) : l <= u}
       /\ VisitedWith(visited, {"Shared"}) = {u \in EventsOf(h, a) \cap EventsOf(h, b) : l <= u}
  BY <1>5 DEF AllVisited, OnlyFrom, CommonFrom
<1>13. VisitedWith(visited, {"A"}) = EventsOf(h, a) \ EventsOf(h, b)
  BY <1>8, <1>9, <1>10, <1>12
<1>14. VisitedWith(visited, {"B"}) = EventsOf(h, b) \ EventsOf(h, a)
  BY <1>8, <1>9, <1>10, <1>12
<1>18. VisitedWith(visited, {"Shared"}) = (EventsOf(h, a) \cap EventsOf(h, b)) \ past
  BY <1>7, <1>8, <1>9, <1>10, <1>12
<1>15. all \cap past = {}
  <2>1. \A u \in all : u \in Nat /\ l <= u
    BY <1>6, <1>8, <1>12
  <2> QED
    BY <1>7, <1>10, <2>1
<1>16. all \cup past = EventsOf(h, a) \cup EventsOf(h, b)
  <2>1. ASSUME NEW u PROVE u \in all \/ u \in past <=> u \in EventsOf(h, a) \/ u \in EventsOf(h, b)
    <3>1. CASE u \in Nat /\ l <= u
      BY <1>6, <1>7, <1>10, <1>12, <3>1
    <3>2. CASE u \in Nat /\ ~ (l <= u)
      BY <1>6, <1>9, <1>10, <1>12, <3>2
    <3>3. CASE u \notin Nat
      <4>1. 0 .. (l - 1) \subseteq Nat
        BY <1>1
      <4> QED
        BY <1>6, <1>7, <1>8, <1>12, <3>3, <4>1
    <3> QED
      BY <3>1, <3>2, <3>3
  <2> QED
    BY <2>1
<1>17. \A i \in DOMAIN visited : visited[i][1] < visited[i][2] /\ (i > 1 => visited[i][2] <= visited[i - 1][1])
  <2>1. VisitedTo(visited, l)
    BY <1>5 DEF AllVisited
  <2>2. \A i \in DOMAIN visited : i > 1 => i # 1
    BY <2>1, RangesVisited
  <2> QED
    BY <2>1, <2>2 DEF VisitedTo
<1>19. Splits(h, a, b, c)
  BY <1>3, <1>11, <1>13, <1>14, <1>15, <1>16, <1>17, <1>18 DEF Splits, h, past, all
<1>20. Reports(g, c)
  <2>1. VisitedTo(visited, l)
    BY <1>5 DEF AllVisited
  <2>2. 0 .. (l - 1) \subseteq Versions(g)
    BY <1>1
  <2> QED
    BY <1>1, <1>3, <2>1, <2>2 DEF Reports
<1> QED
  BY <1>19, <1>20 DEF h

\* So the result of findConflicting() has the property.
LEMMA ConflictEnds ==
  ASSUME NEW g, GraphInv(g), NEW a \in SUBSET Versions(g), NEW b \in SUBSET Versions(g),
         NEW st, NEW l, ConflictAt(g, a, b, st, l), ConflictDone(st)
  PROVE  Splits(Histories(g), a, b, ConflictResult(st)) /\ Reports(g, ConflictResult(st))
<1> DEFINE r == ConflictResult(st)
<1>1. NextLV(g) \in Nat /\ st \in ConflictLoops(NextLV(g)) /\ st.queue \in SUBSET Points(NextLV(g))
  BY NextLVType DEF GraphInv, ConflictAt, ConflictLoops
<1>2. r.visited = st.visited /\ r.common = IF st.found THEN {st.end - 1} ELSE TopPoint(st.queue).v
  BY DEF ConflictResult
<1> HIDE DEF r
<1>3. CASE st.found
  <2> DEFINE V == {Hand(st.end - 1, st.flag)}
  <2>1. ConflictInv(g, a, b, V, st.visited, st.end)
    BY <1>3 DEF ConflictAt
  <2>2. \A p \in V : p.v = r.common
    BY <1>2, <1>3 DEF Hand
  <2> HIDE DEF V
  <2> QED
    BY <1>2, <2>1, <2>2, OnePointLeft DEF r
<1>4. CASE ~ st.found
  <2> DEFINE top == TopPoint(st.queue)
  <2>1. ConflictInv(g, a, b, st.queue, st.visited, l)
    BY <1>4 DEF ConflictAt
  <2>2. st.queue # {}
    BY <2>1 DEF ConflictInv, Queued
  <2>3. IsTop(top, st.queue)
    BY <1>1, <2>2, TopOfQueue
  <2>4. top.v = {} \/ \A q \in st.queue : q.v = top.v
    BY <1>4 DEF ConflictDone
  <2>5. \A q \in st.queue : q.v = top.v
    BY <2>3, <2>4 DEF IsTop
  <2>6. r.common = top.v
    BY <1>2, <1>4
  <2> HIDE DEF top
  <2> QED
    BY <1>2, <2>1, <2>5, <2>6, OnePointLeft DEF r
<1> QED
  BY <1>3, <1>4

\* The level of an iteration is a version, or the end of the versions.
LEMMA ConflictLevels ==
  ASSUME NEW g, GraphInv(g), NEW a, NEW b, NEW st, NEW l, ConflictAt(g, a, b, st, l)
  PROVE  l \in 0 .. NextLV(g) /\ st \in ConflictLoops(NextLV(g))
<1>1. NextLV(g) \in Nat
  BY NextLVType DEF GraphInv
<1>2. CASE st.found
  BY <1>1, <1>2 DEF ConflictAt
<1>3. CASE ~ st.found
  BY <1>3 DEF ConflictAt, ConflictInv
<1> QED
  BY <1>2, <1>3 DEF ConflictAt

\* findConflicting() splits the histories of two frontiers.
LEMMA ConflictOfGraph ==
  ASSUME NEW g, GraphInv(g), ParentFrontiers(g), NEW a \in SUBSET Versions(g), NEW b \in SUBSET Versions(g),
         DominatorsOf(Histories(g), a) = a, DominatorsOf(Histories(g), b) = b
  PROVE  /\ Splits(Histories(g), a, b, FindConflicting(g, a, b))
         /\ Reports(g, FindConflicting(g, a, b))
<1> DEFINE n       == NextLV(g)
           first   == ConflictStart(a, b)
           Loop(f) == f = [k \in 0 .. n |-> IF k = 0 THEN ConflictStart(a, b) ELSE ConflictIterate(g, f[k - 1])]
           after   == CHOOSE f : Loop(f)
           T       == {st \in ConflictLoops(n) : \E l \in 0 .. n : ConflictAt(g, a, b, st, l)}
           step    == [st \in T |-> ConflictIterate(g, st)]
           done    == {st \in T : ConflictDone(st)}
           level   == [st \in T |-> {l \in 0 .. n : ConflictAt(g, a, b, st, l)}]
<1>1. n \in Nat
  BY NextLVType DEF GraphInv
<1>2. FindConflicting(g, a, b) = ConflictResult(after[n])
  BY DEF FindConflicting
<1>3. \A st, l : ConflictAt(g, a, b, st, l) => st \in T /\ l \in 0 .. n
  BY ConflictLevels
<1>4. first \in T
  BY <1>3, ConflictStarts
<1>5. ASSUME NEW st \in T, ~ ConflictDone(st), NEW l \in level[st]
      PROVE  step[st] \in T /\ \E k \in level[step[st]] : k < l
  <2>1. ConflictAt(g, a, b, st, l) /\ step[st] = ConflictStep(g, st, TopPoint(st.queue)) /\ l \in 0 .. n
    BY <1>5 DEF ConflictIterate
  <2>2. PICK k \in 0 .. (l - 1) : ConflictAt(g, a, b, ConflictStep(g, st, TopPoint(st.queue)), k)
    BY <1>5, <2>1, ConflictStepKeeps
  <2>3. step[st] \in T /\ k \in 0 .. n /\ ConflictAt(g, a, b, step[st], k)
    BY <1>3, <2>1, <2>2
  <2>4. k \in level[step[st]]
    BY <2>3
  <2> HIDE DEF step, T, level
  <2>5. k < l
    BY <1>1, <2>1, <2>2
  <2> QED
    BY <2>3, <2>4, <2>5
<1>6. Descent(T, step, done, level, n)
  <2> SUFFICES ASSUME NEW st \in T
               PROVE  /\ level[st] \subseteq 0 .. n /\ level[st] # {}
                      /\ st \in done => step[st] = st
                      /\ st \notin done => step[st] \in T /\ \A l \in level[st] : \E k \in level[step[st]] : k < l
    BY DEF Descent
  <2>1. level[st] \subseteq 0 .. n /\ level[st] # {}
    OBVIOUS
  <2>2. st \in done => step[st] = st
    BY DEF ConflictIterate
  <2>3. st \notin done => ~ ConflictDone(st)
    OBVIOUS
  <2> HIDE DEF T, step, level, done
  <2> QED
    BY <1>5, <2>1, <2>2, <2>3
<1>7. \A st \in T : step[st] = ConflictIterate(g, st)
  OBVIOUS
<1>8. \A st \in done : ConflictDone(st)
  OBVIOUS
<1>9. \A st \in T : \E l : ConflictAt(g, a, b, st, l)
  OBVIOUS
<1> HIDE DEF n, T, step, done, level, first
<1>10. \E f : Loop(f)
  <2>1. PICK f : Iteration(f, first, step, n, T)
    BY <1>1, <1>4, <1>6, IterationEnds
  <2>2. \A k \in 0 .. n : f[k] = IF k = 0 THEN first ELSE ConflictIterate(g, f[k - 1])
    <3> SUFFICES ASSUME NEW k \in 0 .. n, k # 0 PROVE f[k] = ConflictIterate(g, f[k - 1])
      BY <2>1 DEF Iteration
    <3>1. k \in 1 .. n /\ k - 1 \in 0 .. n
      BY <1>1
    <3> QED
      BY <1>7, <2>1, <3>1 DEF Iteration
  <2> QED
    BY <2>1, <2>2 DEF first, Iteration
<1>11. Loop(after)
  BY <1>10
<1> HIDE DEF after
<1>12. Iterates(after, first, step, n, T)
  <2>1. \A k \in 0 .. n : after[k] = IF k = 0 THEN first ELSE ConflictIterate(g, after[k - 1])
    BY <1>11 DEF first
  <2>2. 0 \in 0 .. n /\ \A k \in 1 .. n : k \in 0 .. n /\ k # 0
    BY <1>1
  <2> QED
    BY <1>7, <2>1, <2>2 DEF Iterates
<1>13. after[n] \in T /\ after[n] \in done
  BY <1>1, <1>4, <1>6, <1>12, IterationEnds
<1>14. PICK l : ConflictAt(g, a, b, after[n], l)
  BY <1>9, <1>13
<1>15. ConflictDone(after[n])
  BY <1>8, <1>13
<1> DEFINE last == after[n]
<1> HIDE DEF last
<1>16. Splits(Histories(g), a, b, ConflictResult(last)) /\ Reports(g, ConflictResult(last))
  BY <1>14, <1>15, ConflictEnds DEF last
<1> QED
  BY <1>2, <1>16 DEF last

-----------------------------------------------------------------------------
(* What is added on a frontier.                                            *)

\* A version's history depends on no later version.
LEMMA HistoriesAgree ==
  ASSUME NEW par, NEW n, Topological(par, n), NEW new, NEW m, Topological(new, m), n <= m,
         \A v \in 0 .. (n - 1) : new[v] = par[v]
  PROVE  \A v \in 0 .. (n - 1) : HistoriesOf(new, m)[v] = HistoriesOf(par, n)[v]
<1> DEFINE h == HistoriesOf(par, n)
           k == HistoriesOf(new, m)
           Wrong == {v \in 0 .. (n - 1) : k[v] # h[v]}
<1> SUFFICES ASSUME Wrong # {} PROVE FALSE
  OBVIOUS
<1>1. n \in Nat /\ m \in Nat /\ n <= m
  BY DEF Topological
<1>2. Wrong \subseteq Nat
  OBVIOUS
<1>3. \A v \in 0 .. (n - 1) : h[v] = {v} \cup UNION {h[p] : p \in par[v]}
  BY HistoryEquation
<1>4. \A v \in 0 .. (m - 1) : k[v] = {v} \cup UNION {k[p] : p \in new[v]}
  BY HistoryEquation
<1>5. \A v \in 0 .. (n - 1) : v \in 0 .. (m - 1)
  BY <1>1
<1>6. \A v \in 0 .. (n - 1) : par[v] \subseteq 0 .. (v - 1)
  BY DEF Topological
<1> HIDE DEF Wrong
<1>7. PICK v \in Wrong : \A w \in Wrong : v <= w
  BY <1>2, LeastElement
<1>8. v \in 0 .. (n - 1) /\ k[v] # h[v]
  BY <1>7 DEF Wrong
<1> HIDE DEF h, k
<1>9. ASSUME NEW p \in par[v] PROVE k[p] = h[p]
  <2>1. p \in 0 .. (v - 1)
    BY <1>6, <1>8
  <2>2. p \in 0 .. (n - 1) /\ ~ (v <= p)
    BY <1>1, <1>8, <2>1
  <2> QED
    BY <1>7, <2>2 DEF Wrong
<1>10. {k[p] : p \in par[v]} = {h[p] : p \in par[v]}
  BY <1>9
<1>11. k[v] = {v} \cup UNION {k[p] : p \in par[v]}
  <2>1. new[v] = par[v]
    BY <1>8
  <2> QED
    BY <1>4, <1>5, <1>8, <2>1
<1> QED
  BY <1>3, <1>8, <1>10, <1>11

\* Inserting a run leaves the histories of the versions before it.
LEMMA OldHistoriesStay ==
  ASSUME NEW g, GraphInv(g), NEW e, Insertable(g, e), NEW v \in Versions(g)
  PROVE  Histories(InsertEntry(g, e))[v] = Histories(g)[v]
<1> DEFINE new == InsertEntry(g, e)
<1>1. GraphInv(new)
  BY InsertKeepsInv
<1>2. NextLV(new) = e.vEnd /\ NextLV(g) \in Nat /\ e.vEnd \in Nat /\ NextLV(g) < e.vEnd
  BY InsertExtends
<1>3. \A w \in Versions(g) : ParentsOf(new, w) = ParentsOf(g, w)
  BY OldEventsStay
<1> HIDE DEF new
<1>4. /\ Topological(ParentsIn(g), NextLV(g)) /\ Versions(g) = 0 .. (NextLV(g) - 1)
      /\ Topological(ParentsIn(new), NextLV(new)) /\ Versions(new) = 0 .. (NextLV(new) - 1)
  BY <1>1, GraphIsTopological
<1>5. /\ NextLV(g) <= NextLV(new)
      /\ \A w \in 0 .. (NextLV(g) - 1) : w \in 0 .. (NextLV(new) - 1)
  BY <1>2
<1>6. \A w \in 0 .. (NextLV(g) - 1) : ParentsIn(new)[w] = ParentsIn(g)[w]
  BY <1>3, <1>4, <1>5 DEF ParentsIn
<1>7. \A w \in 0 .. (NextLV(g) - 1) :
         HistoriesOf(ParentsIn(new), NextLV(new))[w] = HistoriesOf(ParentsIn(g), NextLV(g))[w]
  BY <1>4, <1>5, <1>6, HistoriesAgree
<1> QED
  BY <1>4, <1>7 DEF Histories, ParentsIn, new

\* What is a frontier stays one.
LEMMA SameDominators ==
  ASSUME NEW h, NEW k, NEW S, \A w \in S : h[w] = k[w]
  PROVE  DominatorsOf(h, S) = DominatorsOf(k, S)
BY DEF DominatorsOf

\* A run whose parents are a frontier may be inserted.
LEMMA InsertKeepsFrontiers ==
  ASSUME NEW g, GraphInv(g), ParentFrontiers(g), NEW e, Insertable(g, e),
         DominatorsOf(Histories(g), e.parents) = e.parents
  PROVE  ParentFrontiers(InsertEntry(g, e))
<1> DEFINE new == InsertEntry(g, e)
<1>1. NextLV(new) = e.vEnd /\ NextLV(g) \in Nat /\ e.vEnd \in Nat /\ NextLV(g) < e.vEnd /\ e.version = NextLV(g)
  BY InsertExtends DEF Insertable
<1>2. \A w \in Versions(g) : ParentsOf(new, w) = ParentsOf(g, w) /\ Histories(new)[w] = Histories(g)[w]
  BY OldEventsStay, OldHistoriesStay
<1>3. \A w \in e.version .. (e.vEnd - 1) : ParentsOf(new, w) = IF w = e.version THEN e.parents ELSE {w - 1}
  BY ParentsOfNewEvents
<1>4. e.parents \subseteq Versions(g)
  <2>1. e.parents \subseteq Nat /\ \A p \in e.parents : p < e.version
    BY DEF Insertable, Entry, LV
  <2> QED
    BY <1>1, <2>1 DEF Versions
<1> SUFFICES ASSUME NEW v \in Versions(new)
             PROVE  DominatorsOf(Histories(new), ParentsOf(new, v)) = ParentsOf(new, v)
  BY DEF ParentFrontiers
<1>5. v \in Versions(g) \/ v \in e.version .. (e.vEnd - 1)
  BY <1>1 DEF Versions
<1> HIDE DEF new
<1>6. CASE v \in Versions(g)
  <2>1. ParentsOf(g, v) \subseteq Versions(g)
    BY <1>6, ParentsAreVersions
  <2>2. DominatorsOf(Histories(new), ParentsOf(g, v)) = DominatorsOf(Histories(g), ParentsOf(g, v))
    BY <1>2, <2>1, SameDominators
  <2>3. DominatorsOf(Histories(g), ParentsOf(g, v)) = ParentsOf(g, v)
    BY <1>6 DEF ParentFrontiers
  <2> QED
    BY <1>2, <1>6, <2>2, <2>3
<1>7. CASE v \in e.version .. (e.vEnd - 1) /\ v = e.version
  <2>1. DominatorsOf(Histories(new), e.parents) = DominatorsOf(Histories(g), e.parents)
    BY <1>2, <1>4, SameDominators
  <2> QED
    BY <1>3, <1>7, <2>1
<1>8. CASE v \in e.version .. (e.vEnd - 1) /\ v # e.version
  <2>1. ParentsOf(new, v) = {v - 1}
    BY <1>3, <1>8
  <2>2. DominatorsOf(Histories(new), {v - 1}) = {v - 1}
    BY SingleIsFrontier
  <2> QED
    BY <2>1, <2>2
<1> QED
  BY <1>5, <1>6, <1>7, <1>8

\* And so may any span written on a frontier, whatever prefix of it is known.
LEMMA AddKeepsFrontiers ==
  ASSUME NEW g, GraphInv(g), ParentFrontiers(g),
         NEW agent \in Agents, NEW seqStart \in Nat, NEW seqEnd \in Nat, seqStart < seqEnd,
         NEW parents \in Frontiers(g)
  PROVE  ParentFrontiers(Add(g, agent, seqStart, seqEnd, parents))
<1>1. parents \subseteq Versions(g) /\ DominatorsOf(Histories(g), parents) = parents
  BY DEF Frontiers
<1>2. CASE UnknownSeqs(g, agent, seqStart, seqEnd) = {}
  BY <1>2 DEF Add
<1>3. CASE UnknownSeqs(g, agent, seqStart, seqEnd) # {}
  <2> DEFINE e == NewEntry(g, agent, seqStart, seqEnd, parents)
             s == FirstUnknown(g, agent, seqStart, seqEnd)
  <2>1. g \in CG /\ \A a \in Agents : RunsWithin(g.agentToVersion[a], NextLV(g))
    BY DEF GraphInv
  <2>2. Insertable(g, e)
    BY <1>1, <1>3, <2>1, NewEntryInsertable
  <2>3. e.parents = parents \/ e.parents = {RawToLV(g, agent, s - 1)}
    BY DEF NewEntry
  <2>4. Add(g, agent, seqStart, seqEnd, parents) = InsertEntry(g, e)
    BY <1>3 DEF Add
  <2> HIDE DEF e
  <2>5. DominatorsOf(Histories(g), e.parents) = e.parents
    BY <1>1, <2>3, SingleIsFrontier
  <2> QED
    BY <2>2, <2>4, <2>5, InsertKeepsFrontiers
<1> QED
  BY <1>2, <1>3

\* The empty graph has no parents.
LEMMA EmptyFrontiers == ParentFrontiers(EmptyCG)
<1>1. Versions(EmptyCG) = {}
  BY DEF EmptyCG, NextLV, Versions
<1> QED
  BY <1>1 DEF ParentFrontiers

-----------------------------------------------------------------------------
(* Parts of a graph, in order.                                             *)

\* Two such lists, the second above the first, are one.
LEMMA RisingJoins ==
  ASSUME NEW s, NEW A, Rising(s, A), NEW t, NEW B, Rising(t, B), \A a \in A, b \in B : a < b
  PROVE  Rising(s \o t, A \cup B)
<1> DEFINE m == Len(s)
           n == Len(t)
           r == s \o t
<1>1. /\ s \in Seq(Nat) /\ t \in Seq(Nat)
      /\ m \in Nat /\ n \in Nat /\ DOMAIN s = 1 .. m /\ DOMAIN t = 1 .. n
  BY DEF Rising
<1>2. /\ r \in Seq(Nat) /\ DOMAIN r = 1 .. (m + n)
      /\ \A i \in 1 .. m : r[i] = s[i]
      /\ \A i \in (m + 1) .. (m + n) : r[i] = t[i - m]
  BY <1>1, ConcatProperties
<1> HIDE DEF m, n, r
<1>3. \A i \in 1 .. (m + n) : i \in 1 .. m \/ (i \in (m + 1) .. (m + n) /\ i - m \in 1 .. n /\ ~ (i \in 1 .. m))
  BY <1>1
<1>4. \A i \in 1 .. m : r[i] \in A
  BY <1>1, <1>2 DEF Rising
<1>5. \A i \in (m + 1) .. (m + n) : i - m \in 1 .. n /\ r[i] \in B
  <2> SUFFICES ASSUME NEW i \in (m + 1) .. (m + n) PROVE i - m \in 1 .. n /\ r[i] \in B
    OBVIOUS
  <2>1. i - m \in 1 .. n
    BY <1>1
  <2> QED
    BY <1>1, <1>2, <2>1 DEF Rising
<1>6. ASSUME NEW i \in 1 .. (m + n), NEW j \in 1 .. (m + n), i < j PROVE r[i] < r[j]
  <2>1. CASE j \in 1 .. m
    <3>1. i \in 1 .. m
      BY <1>1, <1>6, <2>1
    <3> QED
      BY <1>1, <1>2, <1>6, <2>1, <3>1 DEF Rising
  <2>2. CASE i \in 1 .. m /\ j \in (m + 1) .. (m + n)
    BY <1>4, <1>5, <2>2
  <2>3. CASE i \in (m + 1) .. (m + n)
    <3>1. j \in (m + 1) .. (m + n) /\ i - m \in 1 .. n /\ j - m \in 1 .. n /\ i - m < j - m
      BY <1>1, <1>6, <2>3
    <3>2. t[i - m] < t[j - m]
      BY <1>1, <3>1 DEF Rising
    <3> QED
      BY <1>2, <2>3, <3>1, <3>2
  <2> QED
    BY <1>3, <2>1, <2>2, <2>3
<1>7. ASSUME NEW u \in A \cup B PROVE \E i \in 1 .. (m + n) : u = r[i]
  <2>1. CASE u \in A
    <3>1. PICK i \in 1 .. m : u = s[i]
      BY <1>1, <2>1 DEF Rising
    <3>2. i \in 1 .. (m + n)
      BY <1>1
    <3> QED
      BY <1>2, <3>1, <3>2
  <2>2. CASE u \in B
    <3>1. PICK i \in 1 .. n : u = t[i]
      BY <1>1, <2>2 DEF Rising
    <3>2. i + m \in (m + 1) .. (m + n) /\ i + m \in 1 .. (m + n) /\ (i + m) - m = i
      BY <1>1
    <3> QED
      BY <1>2, <3>1, <3>2
  <2> QED
    BY <1>7, <2>1, <2>2
<1>8. \A i \in 1 .. (m + n) : r[i] \in A \cup B
  BY <1>3, <1>4, <1>5
<1> QED
  BY <1>2, <1>6, <1>7, <1>8 DEF Rising, r

\* A range, one number at a time.
LEMMA RangeRises ==
  ASSUME NEW r, r[1] \in Nat, r[2] \in Nat, r[1] <= r[2]
  PROVE  Rising(RangeLVs(r), Range2Set(r))
<1> DEFINE a    == r[1]
           b    == r[2]
           list == RangeLVs(r)
<1>1. a \in Nat /\ b \in Nat /\ a <= b /\ b - a \in Nat
  OBVIOUS
<1>2. list = [i \in 1 .. (b - a) |-> a + i - 1] /\ Range2Set(r) = a .. (b - 1)
  BY DEF RangeLVs, Range2Set
<1> HIDE DEF a, b, list
<1>3. \A i \in 1 .. (b - a) : a + i - 1 \in Nat
  BY <1>1
<1>4. list \in Seq(Nat) /\ DOMAIN list = 1 .. (b - a) /\ \A i \in 1 .. (b - a) : list[i] = a + i - 1
  <2>1. list \in [1 .. (b - a) -> Nat]
    BY <1>2, <1>3
  <2> QED
    BY <1>1, <1>2, <2>1
<1>5. \A i, j \in 1 .. (b - a) : i < j => list[i] < list[j]
  BY <1>1, <1>4
<1>6. ASSUME NEW u \in a .. (b - 1) PROVE \E i \in 1 .. (b - a) : u = list[i]
  <2>1. u - a + 1 \in 1 .. (b - a) /\ a + (u - a + 1) - 1 = u
    BY <1>1
  <2> QED
    BY <1>4, <2>1
<1>7. \A i \in 1 .. (b - a) : list[i] \in a .. (b - 1)
  BY <1>1, <1>4
<1> QED
  BY <1>2, <1>4, <1>5, <1>6, <1>7 DEF Rising, list

\* The versions of the first ranges.
FirstRanges(rs, k) == UNION {Range2Set(rs[i]) : i \in 1 .. k}

\* Each of ascending ranges lies above the ones before it.
LEMMA RangesAscend ==
  ASSUME NEW rs \in Seq(Nat \X Nat), Canonical(rs)
  PROVE  /\ FirstRanges(rs, 0) = {} /\ FirstRanges(rs, Len(rs)) = RangesToSet(rs)
         /\ \A k \in 1 .. Len(rs) :
              /\ rs[k][1] \in Nat /\ rs[k][2] \in Nat /\ rs[k][1] < rs[k][2]
              /\ FirstRanges(rs, k) = FirstRanges(rs, k - 1) \cup Range2Set(rs[k])
              /\ \A a \in FirstRanges(rs, k - 1), b \in Range2Set(rs[k]) : a < b
<1> DEFINE n       == Len(rs)
           low     == [k \in 1 .. n |-> rs[k][1]]
           high    == [k \in 1 .. n |-> rs[k][2]]
           Good(k) == \A i \in 1 .. k : high[i] <= high[k]
           S       == {k \in 0 .. n : Good(k)}
<1>1. n \in Nat /\ DOMAIN rs = 1 .. n /\ \A k \in 1 .. n : rs[k][1] \in Nat /\ rs[k][2] \in Nat
  <2>1. \A k \in DOMAIN rs : rs[k] \in Nat \X Nat
    OBVIOUS
  <2> QED
    BY <2>1
<1>2. \A k \in 1 .. n : /\ low[k] = rs[k][1] /\ high[k] = rs[k][2]
                        /\ low[k] \in Nat /\ high[k] \in Nat /\ low[k] < high[k]
                        /\ k # 1 => high[k - 1] < low[k]
  <2> SUFFICES ASSUME NEW k \in 1 .. n
               PROVE  /\ low[k] = rs[k][1] /\ high[k] = rs[k][2]
                      /\ low[k] \in Nat /\ high[k] \in Nat /\ low[k] < high[k]
                      /\ k # 1 => high[k - 1] < low[k]
    OBVIOUS
  <2>1. k # 1 => k - 1 \in 1 .. n
    BY <1>1
  <2> QED
    BY <1>1, <2>1 DEF Canonical
<1>3. FirstRanges(rs, n) = RangesToSet(rs) /\ FirstRanges(rs, 0) = {}
  BY <1>1 DEF RangesToSet, FirstRanges
<1> HIDE DEF n, low, high
<1>4. 0 \in S
  BY <1>1
<1>5. ASSUME NEW k \in 1 .. n, k - 1 \in S PROVE k \in S
  <2>1. k \in 0 .. n /\ \A i \in 1 .. (k - 1) : high[i] <= high[k - 1]
    BY <1>1, <1>5
  <2> SUFFICES ASSUME NEW i \in 1 .. k PROVE high[i] <= high[k]
    BY <2>1
  <2>2. CASE i = k
    BY <1>2, <2>2
  <2>3. CASE i # k
    <3>1. i \in 1 .. (k - 1) /\ i \in 1 .. n /\ k - 1 \in 1 .. n /\ k # 1
      BY <1>1, <2>3
    <3>2. /\ high[i] <= high[k - 1] /\ high[k - 1] < low[k] /\ low[k] < high[k]
          /\ high[i] \in Nat /\ high[k - 1] \in Nat /\ low[k] \in Nat /\ high[k] \in Nat
      BY <1>2, <2>1, <3>1
    <3> QED
      BY <3>2
  <2> QED
    BY <2>2, <2>3
<1> HIDE DEF S
<1>6. \A k \in 0 .. n : k \in S
  BY <1>1, <1>4, <1>5, InductionTo
<1>7. ASSUME NEW k \in 1 .. n
      PROVE  /\ FirstRanges(rs, k) = FirstRanges(rs, k - 1) \cup Range2Set(rs[k])
             /\ \A a \in FirstRanges(rs, k - 1), b \in Range2Set(rs[k]) : a < b
  <2>1. \A i : i \in 1 .. k <=> i \in 1 .. (k - 1) \/ i = k
    BY <1>1
  <2>2. \A j, u : u \in FirstRanges(rs, j) <=> \E i \in 1 .. j : u \in Range2Set(rs[i])
    BY DEF FirstRanges
  <2>3. \A u : u \in FirstRanges(rs, k) <=> u \in FirstRanges(rs, k - 1) \/ u \in Range2Set(rs[k])
    BY <2>1, <2>2, Zenon
  <2>4. ASSUME NEW a \in FirstRanges(rs, k - 1), NEW b \in Range2Set(rs[k]) PROVE a < b
    <3>1. PICK i \in 1 .. (k - 1) : a \in Range2Set(rs[i])
      BY <2>2
    <3>2. i \in 1 .. n /\ k - 1 \in 1 .. n /\ k - 1 \in 0 .. n /\ k # 1
      BY <1>1
    <3>3. k - 1 \in S
      BY <1>6, <3>2
    <3>4. high[i] <= high[k - 1]
      BY <3>3 DEF S
    <3>5. /\ high[k - 1] < low[k] /\ low[i] \in Nat /\ high[i] \in Nat
          /\ high[k - 1] \in Nat /\ low[k] \in Nat /\ high[k] \in Nat
      BY <1>2, <3>2
    <3>6. a \in low[i] .. (high[i] - 1) /\ b \in low[k] .. (high[k] - 1)
      BY <1>2, <3>1, <3>2 DEF Range2Set
    <3> QED
      BY <3>4, <3>5, <3>6
  <2> QED
    BY <2>3, <2>4
<1> QED
  BY <1>1, <1>2, <1>3, <1>7 DEF n

\* The versions of ascending ranges, the lowest first.
LEMMA RangesRise ==
  ASSUME NEW rs \in Seq(Nat \X Nat), Canonical(rs)
  PROVE  Rising(RangesLVs(rs), RangesToSet(rs))
<1> DEFINE n       == Len(rs)
           Loop(f) == f = [k \in 0 .. n |-> IF k = 0 THEN <<>> ELSE f[k - 1] \o RangeLVs(rs[k])]
           upTo    == CHOOSE f : Loop(f)
           T       == Seq(Nat)
           step    == [k \in 1 .. n |-> [list \in T |-> list \o RangeLVs(rs[k])]]
<1>1. n \in Nat /\ FirstRanges(rs, 0) = {} /\ FirstRanges(rs, n) = RangesToSet(rs)
  BY RangesAscend
<1>2. RangesLVs(rs) = upTo[n]
  BY DEF RangesLVs
<1>3. \A k \in 1 .. n : /\ rs[k][1] \in Nat /\ rs[k][2] \in Nat /\ rs[k][1] <= rs[k][2]
                        /\ FirstRanges(rs, k) = FirstRanges(rs, k - 1) \cup Range2Set(rs[k])
                        /\ \A a \in FirstRanges(rs, k - 1), b \in Range2Set(rs[k]) : a < b
  BY RangesAscend
<1>4. \A k \in 1 .. n : Rising(RangeLVs(rs[k]), Range2Set(rs[k]))
  BY <1>3, RangeRises
<1>5. <<>> \in T /\ StepsWithin(step, n, T) /\ \A k \in 1 .. n, list \in T : step[k][list] = list \o RangeLVs(rs[k])
  <2>1. \A k \in 1 .. n : RangeLVs(rs[k]) \in Seq(Nat)
    BY <1>4 DEF Rising
  <2>2. \A k \in 1 .. n, list \in T : step[k][list] = list \o RangeLVs(rs[k])
    OBVIOUS
  <2>3. \A k \in 1 .. n, list \in T : list \o RangeLVs(rs[k]) \in T
    BY <2>1
  <2>4. <<>> \in T
    OBVIOUS
  <2> HIDE DEF step, T
  <2> QED
    BY <2>2, <2>3, <2>4 DEF StepsWithin
<1> HIDE DEF n, T, step
<1>6. PICK f : Passed(f, <<>>, step, n, T)
  BY <1>1, <1>5, StepsExist
<1>7. \A k \in 1 .. n : k - 1 \in 0 .. n /\ k # 0 /\ k \in 0 .. n
  BY <1>1
<1>8. Loop(f)
  <2>1. \A k \in 0 .. n : f[k] = IF k = 0 THEN <<>> ELSE f[k - 1] \o RangeLVs(rs[k])
    <3> SUFFICES ASSUME NEW k \in 0 .. n, k # 0 PROVE f[k] = f[k - 1] \o RangeLVs(rs[k])
      BY <1>6 DEF Passed
    <3>1. k \in 1 .. n /\ k - 1 \in 0 .. n
      BY <1>1
    <3> QED
      BY <1>5, <1>6, <3>1 DEF Passed
  <2> QED
    BY <1>6, <2>1 DEF Passed
<1>9. Loop(upTo)
  BY <1>8
<1> HIDE DEF upTo
<1>10. upTo[0] = <<>> /\ \A k \in 1 .. n : upTo[k] = upTo[k - 1] \o RangeLVs(rs[k])
  <2>1. \A k \in 0 .. n : upTo[k] = IF k = 0 THEN <<>> ELSE upTo[k - 1] \o RangeLVs(rs[k])
    BY <1>9
  <2>2. 0 \in 0 .. n
    BY <1>1
  <2> QED
    BY <1>7, <2>1, <2>2
<1> DEFINE S == {k \in 0 .. n : Rising(upTo[k], FirstRanges(rs, k))}
<1>11. 0 \in S
  <2>1. Rising(<<>>, {})
    BY DEF Rising
  <2>2. upTo[0] = <<>> /\ FirstRanges(rs, 0) = {} /\ 0 \in 0 .. n
    BY <1>1, <1>10
  <2>3. Rising(upTo[0], FirstRanges(rs, 0))
    BY <2>1, <2>2, Zenon
  <2> QED
    BY <2>2, <2>3
<1>12. ASSUME NEW k \in 1 .. n, k - 1 \in S PROVE k \in S
  <2>1. Rising(upTo[k - 1], FirstRanges(rs, k - 1))
    BY <1>12
  <2>2. Rising(upTo[k - 1] \o RangeLVs(rs[k]), FirstRanges(rs, k - 1) \cup Range2Set(rs[k]))
    BY <1>3, <1>4, <2>1, RisingJoins
  <2> QED
    BY <1>3, <1>7, <1>10, <2>2
<1> HIDE DEF S
<1>13. \A k \in 0 .. n : k \in S
  BY <1>1, <1>11, <1>12, InductionTo
<1>14. n \in S
  BY <1>1, <1>13
<1> QED
  BY <1>1, <1>2, <1>14 DEF S

\* What IterVersionsBetween makes of an entry.
Part == [version : Nat, vEnd : Nat, agent : Agents, seq : Nat, parents : SUBSET Nat]

\* The versions of a part.
Extent(p) == p.version .. (p.vEnd - 1)

\* A part lies within an entry.
PartFits(g, p) ==
  /\ p \in Part
  /\ p.version < p.vEnd /\ p.vEnd <= NextLV(g)
  /\ p.parents = ParentsOf(g, p.version)
  /\ \A v \in (p.version + 1) .. (p.vEnd - 1) : ParentsOf(g, v) = {v - 1}
  /\ \A v \in Extent(p) : LvToRaw(g, v) = <<p.agent, p.seq + (v - p.version)>>

\* Parts from the lowest up, over a set.
Slices(g, list, S) ==
  /\ list \in Seq(Part)
  /\ \A i \in DOMAIN list : PartFits(g, list[i])
  /\ \A i, j \in DOMAIN list : i < j => list[i].vEnd <= list[j].version
  /\ \A u : u \in S <=> \E i \in DOMAIN list : u \in Extent(list[i])

\* What an entry has of a range is a part.
LEMMA SliceFits ==
  ASSUME NEW g, GraphInv(g), NEW i \in DOMAIN g.entries, NEW vStart \in Nat, NEW vEnd \in Nat, vEnd <= NextLV(g),
         Higher(vStart, g.entries[i].version) < Lower(vEnd, g.entries[i].vEnd)
  PROVE  LET p == SliceOf(g, g.entries[i], vStart, vEnd)
         IN  /\ PartFits(g, p)
             /\ g.entries[i].version <= p.version /\ p.vEnd <= g.entries[i].vEnd
             /\ Extent(p) = (vStart .. (vEnd - 1)) \cap (g.entries[i].version .. (g.entries[i].vEnd - 1))
<1> DEFINE e     == g.entries[i]
           start == Higher(vStart, e.version)
           end   == Lower(vEnd, e.vEnd)
           p     == SliceOf(g, e, vStart, vEnd)
<1>1. /\ g \in CG /\ g.entries \in Seq(Entry) /\ Ordered(g.entries) /\ Disjoint(g.entries) /\ NextLV(g) \in Nat
  BY NextLVType DEF GraphInv, CG
<1>2. /\ e \in Entry /\ e.version \in Nat /\ e.vEnd \in Nat /\ e.agent \in Agents /\ e.seq \in Nat /\ e.parents \subseteq Nat
  <2>1. e \in Entry
    BY <1>1
  <2> HIDE DEF e
  <2> QED
    BY <2>1 DEF Entry, LV
<1>3. /\ p.version = start /\ p.vEnd = end /\ p.agent = e.agent /\ p.seq = e.seq + (start - e.version)
      /\ p.parents = ParentsOf(g, start)
      /\ p = [version |-> p.version, vEnd |-> p.vEnd, agent |-> p.agent, seq |-> p.seq, parents |-> p.parents]
  BY DEF SliceOf
<1>4. \A v \in e.version .. (e.vEnd - 1) : ParentsOf(g, v) = IF v = e.version THEN e.parents ELSE {v - 1}
  <2> SUFFICES ASSUME NEW v \in e.version .. (e.vEnd - 1)
               PROVE  ParentsOf(g, v) = IF v = e.version THEN e.parents ELSE {v - 1}
    OBVIOUS
  <2>1. v \in Nat /\ Holds(g.entries, i, v)
    BY <1>2 DEF Holds
  <2>2. FindEntryContaining(g, v) = e
    BY <1>1, <2>1, EntryByVersion
  <2> QED
    BY <2>2 DEF ParentsOf
<1>13. \A v \in e.version .. (e.vEnd - 1) : LvToRaw(g, v) = <<e.agent, e.seq + (v - e.version)>>
  <2> SUFFICES ASSUME NEW v \in e.version .. (e.vEnd - 1)
               PROVE  LvToRaw(g, v) = <<e.agent, e.seq + (v - e.version)>>
    OBVIOUS
  <2>1. v \in Nat /\ Holds(g.entries, i, v)
    BY <1>2 DEF Holds
  <2>2. FindEntryContaining(g, v) = e
    BY <1>1, <2>1, EntryByVersion
  <2> QED
    BY <2>2 DEF LvToRaw
<1> HIDE DEF e, p
<1>5. /\ start \in Nat /\ end \in Nat /\ start < end /\ end <= vEnd /\ end <= e.vEnd
      /\ vStart <= start /\ e.version <= start
      /\ start .. (end - 1) = (vStart .. (vEnd - 1)) \cap (e.version .. (e.vEnd - 1))
  <2>1. start < end
    BY DEF e
  <2> QED
    BY <1>2, <2>1 DEF Higher, Lower
<1> HIDE DEF start, end
<1>6. ParentsOf(g, start) \subseteq Nat
  <2>1. start \in e.version .. (e.vEnd - 1) /\ (start # e.version => start - 1 \in Nat)
    BY <1>2, <1>5
  <2> QED
    BY <1>2, <1>4, <2>1
<1>7. p.seq \in Nat
  BY <1>2, <1>3, <1>5
<1>8. p \in Part
  BY <1>2, <1>3, <1>5, <1>6, <1>7 DEF Part
<1>9. \A v \in (start + 1) .. (end - 1) : ParentsOf(g, v) = {v - 1}
  <2> SUFFICES ASSUME NEW v \in (start + 1) .. (end - 1) PROVE ParentsOf(g, v) = {v - 1}
    OBVIOUS
  <2>1. v \in e.version .. (e.vEnd - 1) /\ v # e.version
    BY <1>2, <1>5
  <2> QED
    BY <1>4, <2>1
<1>10. end <= NextLV(g)
  BY <1>1, <1>5
<1>11. Extent(p) = (vStart .. (vEnd - 1)) \cap (e.version .. (e.vEnd - 1))
  BY <1>3, <1>5 DEF Extent
<1>12. \A v \in Extent(p) : LvToRaw(g, v) = <<p.agent, p.seq + (v - p.version)>>
  <2> SUFFICES ASSUME NEW v \in start .. (end - 1) PROVE LvToRaw(g, v) = <<e.agent, e.seq + (start - e.version) + (v - start)>>
    BY <1>3 DEF Extent
  <2>1. LvToRaw(g, v) = <<e.agent, e.seq + (v - e.version)>>
    BY <1>5, <1>13
  <2> QED
    BY <1>2, <1>5, <2>1
<1>14. PartFits(g, p)
  BY <1>3, <1>5, <1>8, <1>9, <1>10, <1>12 DEF PartFits
<1> QED
  BY <1>3, <1>5, <1>11, <1>14 DEF e, p

\* A part behind the others.
LEMMA SlicesAppend ==
  ASSUME NEW g, NEW list, NEW S, Slices(g, list, S), NEW p, PartFits(g, p),
         \A i \in DOMAIN list : list[i].vEnd <= p.version
  PROVE  Slices(g, Append(list, p), S \cup Extent(p))
<1> DEFINE n == Len(list)
           r == Append(list, p)
           T == Part
<1>1. /\ list \in Seq(T) /\ n \in Nat /\ DOMAIN list = 1 .. n /\ p \in T
      /\ \A i \in 1 .. n : PartFits(g, list[i])
      /\ \A i, j \in 1 .. n : i < j => list[i].vEnd <= list[j].version
      /\ \A i \in 1 .. n : list[i].vEnd <= p.version
      /\ \A u : u \in S <=> \E i \in 1 .. n : u \in Extent(list[i])
  BY DEF Slices, PartFits
<1> HIDE DEF T
<1>2. /\ r \in Seq(T) /\ DOMAIN r = 1 .. (n + 1) /\ r[n + 1] = p /\ \A i \in 1 .. n : r[i] = list[i]
  BY <1>1
<1> HIDE DEF n, r
<1>3. \A i \in 1 .. (n + 1) : i \in 1 .. n \/ i = n + 1
  BY <1>1
<1>4. n + 1 \in 1 .. (n + 1) /\ \A i \in 1 .. n : i \in 1 .. (n + 1)
  BY <1>1
<1>5. \A i \in 1 .. (n + 1) : PartFits(g, r[i])
  BY <1>1, <1>2, <1>3
<1>6. \A i, j \in 1 .. (n + 1) : i < j => r[i].vEnd <= r[j].version
  <2> SUFFICES ASSUME NEW i \in 1 .. (n + 1), NEW j \in 1 .. (n + 1), i < j PROVE r[i].vEnd <= r[j].version
    OBVIOUS
  <2>1. i \in 1 .. n
    BY <1>1
  <2> QED
    BY <1>1, <1>2, <1>3, <2>1
<1>7. \A u : u \in S \cup Extent(p) <=> \E i \in 1 .. (n + 1) : u \in Extent(r[i])
  <2> SUFFICES ASSUME NEW u
               PROVE  (u \in S \/ u \in Extent(p)) <=> \E i \in 1 .. (n + 1) : u \in Extent(r[i])
    OBVIOUS
  <2> QED
    BY <1>1, <1>2, <1>3, <1>4, Zenon
<1> QED
  BY <1>2, <1>5, <1>6, <1>7 DEF Slices, r, T

\* The parts of a range are the range.
LEMMA SlicesOfRange ==
  ASSUME NEW g, GraphInv(g), NEW vStart \in Nat, NEW vEnd \in Nat, vEnd <= NextLV(g)
  PROVE  Slices(g, IterVersionsBetween(g, vStart, vEnd), vStart .. (vEnd - 1))
<1> DEFINE n       == Len(g.entries)
           e(k)    == g.entries[k]
           Has(k)  == Higher(vStart, e(k).version) < Lower(vEnd, e(k).vEnd)
           p(k)    == SliceOf(g, e(k), vStart, vEnd)
           Take(k, list) == IF Has(k) THEN Append(list, p(k)) ELSE list
           Loop(f) == f = [k \in 0 .. n |-> IF k = 0 THEN <<>> ELSE Take(k, f[k - 1])]
           upTo    == CHOOSE f : Loop(f)
           T       == Seq(Part)
           step    == [k \in 1 .. n |-> [list \in T |-> Take(k, list)]]
           end     == [k \in 0 .. n |-> IF k = 0 THEN 0 ELSE e(k).vEnd]
           Some(k) == (vStart .. (vEnd - 1)) \cap (0 .. (end[k] - 1))
<1>1. /\ g \in CG /\ g.entries \in Seq(Entry) /\ Ordered(g.entries) /\ n \in Nat /\ DOMAIN g.entries = 1 .. n
      /\ NextLV(g) \in Nat
  BY NextLVType DEF GraphInv, CG
<1>2. IterVersionsBetween(g, vStart, vEnd) = upTo[n]
  <2>1. upTo = CHOOSE f : f = [k \in 0 .. Len(g.entries) |->
                   IF k = 0 THEN <<>>
                   ELSE IF Higher(vStart, g.entries[k].version) < Lower(vEnd, g.entries[k].vEnd)
                   THEN Append(f[k - 1], SliceOf(g, g.entries[k], vStart, vEnd))
                   ELSE f[k - 1]]
    OBVIOUS
  <2> HIDE DEF upTo
  <2> QED
    BY <2>1 DEF IterVersionsBetween
<1>3. \A k \in 1 .. n : e(k).version \in Nat /\ e(k).vEnd \in Nat /\ e(k).version < e(k).vEnd
  BY <1>1, EntryFields DEF Ordered
<1>4. \A k \in 1 .. n : Has(k) => /\ PartFits(g, p(k)) /\ e(k).version <= p(k).version /\ p(k).vEnd <= e(k).vEnd
                                  /\ Extent(p(k)) = (vStart .. (vEnd - 1)) \cap (e(k).version .. (e(k).vEnd - 1))
  <2> SUFFICES ASSUME NEW k \in 1 .. n, Has(k)
               PROVE  /\ PartFits(g, p(k)) /\ e(k).version <= p(k).version /\ p(k).vEnd <= e(k).vEnd
                      /\ Extent(p(k)) = (vStart .. (vEnd - 1)) \cap (e(k).version .. (e(k).vEnd - 1))
    OBVIOUS
  <2>1. k \in DOMAIN g.entries
    BY <1>1
  <2> QED
    BY <2>1, SliceFits
<1>5. \A k \in 1 .. n, list \in T : Take(k, list) \in T
  <2> SUFFICES ASSUME NEW k \in 1 .. n, NEW list \in T PROVE Take(k, list) \in T
    OBVIOUS
  <2> HIDE DEF p, Met
  <2>1. Has(k) => p(k) \in Part
    BY <1>4 DEF PartFits
  <2> QED
    BY <2>1
<1>6. <<>> \in T /\ StepsWithin(step, n, T) /\ \A k \in 1 .. n, list \in T : step[k][list] = Take(k, list)
  <2> HIDE DEF Take
  <2>1. \A k \in 1 .. n, list \in T : step[k][list] = Take(k, list)
    OBVIOUS
  <2>2. <<>> \in T
    OBVIOUS
  <2> HIDE DEF step, T
  <2> QED
    BY <1>5, <2>1, <2>2 DEF StepsWithin
<1>7. \A k \in 1 .. n : /\ end[k] = e(k).vEnd /\ end[k - 1] = e(k).version
                        /\ end[k] \in Nat /\ end[k - 1] \in Nat /\ end[k - 1] <= end[k]
  <2> SUFFICES ASSUME NEW k \in 1 .. n
               PROVE  /\ end[k] = e(k).vEnd /\ end[k - 1] = e(k).version
                      /\ end[k] \in Nat /\ end[k - 1] \in Nat /\ end[k - 1] <= end[k]
    OBVIOUS
  <2>1. k \in 0 .. n /\ k # 0 /\ k - 1 \in 0 .. n
    BY <1>1
  <2>2. e(k).version = IF k = 1 THEN 0 ELSE e(k - 1).vEnd
    BY <1>1 DEF Ordered
  <2> HIDE DEF e
  <2>3. end[k] = e(k).vEnd /\ end[k - 1] = e(k).version
    BY <2>1, <2>2
  <2>4. e(k).version \in Nat /\ e(k).vEnd \in Nat /\ e(k).version <= e(k).vEnd
    BY <1>3
  <2> HIDE DEF end
  <2> QED
    BY <2>3, <2>4
<1>8. n # 0 => end[n] = NextLV(g)
  BY <1>1, EmptySeq DEF NextLV, LastOf
<1>9. n = 0 => NextLV(g) = 0 /\ end[0] = 0
  BY <1>1, EmptySeq DEF NextLV
<1>10. end[0] = 0
  BY <1>1
<1> HIDE DEF n, T, step, Take, end
<1>11. PICK f : Passed(f, <<>>, step, n, T)
  BY <1>1, <1>6, StepsExist
<1>12. \A k \in 1 .. n : k - 1 \in 0 .. n /\ k # 0 /\ k \in 0 .. n
  BY <1>1
<1>13. Loop(f)
  <2>1. \A k \in 0 .. n : f[k] = IF k = 0 THEN <<>> ELSE Take(k, f[k - 1])
    <3> SUFFICES ASSUME NEW k \in 0 .. n, k # 0 PROVE f[k] = Take(k, f[k - 1])
      BY <1>11 DEF Passed
    <3>1. k \in 1 .. n /\ k - 1 \in 0 .. n
      BY <1>1
    <3> QED
      BY <1>6, <1>11, <3>1 DEF Passed
  <2> QED
    BY <1>11, <2>1 DEF Passed
<1>14. Loop(upTo)
  <2>1. upTo = CHOOSE u : u = [k \in 0 .. n |-> IF k = 0 THEN <<>> ELSE Take(k, u[k - 1])]
    BY DEF Take, n
  <2> QED
    BY <1>13, <2>1
<1> HIDE DEF upTo
<1>15. upTo[0] = <<>> /\ \A k \in 1 .. n : upTo[k] = Take(k, upTo[k - 1])
  <2>1. \A k \in 0 .. n : upTo[k] = IF k = 0 THEN <<>> ELSE Take(k, upTo[k - 1])
    BY <1>14
  <2>2. 0 \in 0 .. n
    BY <1>1
  <2> QED
    BY <1>12, <2>1, <2>2
<1> DEFINE Good(k) == Slices(g, upTo[k], Some(k)) /\ \A i \in DOMAIN upTo[k] : upTo[k][i].vEnd <= end[k]
           S == {k \in 0 .. n : Good(k)}
<1>16. 0 \in S
  <2>1. Some(0) = {} /\ 0 \in 0 .. n
    BY <1>1, <1>10
  <2>2. Slices(g, <<>>, {})
    BY DEF Slices
  <2>3. \A i \in DOMAIN <<>> : <<>>[i].vEnd <= end[0]
    OBVIOUS
  <2> HIDE DEF Some
  <2>4. Good(0)
    BY <1>15, <2>1, <2>2, <2>3
  <2> QED
    BY <2>1, <2>4
<1>17. ASSUME NEW k \in 1 .. n, k - 1 \in S PROVE k \in S
  <2>1. Good(k - 1) /\ k \in 0 .. n
    BY <1>12, <1>17
  <2>2. upTo[k] = Take(k, upTo[k - 1])
    BY <1>15
  <2> DEFINE a     == end[k - 1]
             b     == end[k]
             old   == upTo[k - 1]
  <2>3. a \in Nat /\ b \in Nat /\ a <= b /\ a = e(k).version /\ b = e(k).vEnd
    BY <1>7
  <2> HIDE DEF a, b
  <2>4. Some(k) = Some(k - 1) \cup ((vStart .. (vEnd - 1)) \cap (a .. (b - 1)))
    <3>1. 0 .. (b - 1) = (0 .. (a - 1)) \cup (a .. (b - 1))
      BY <2>3
    <3> QED
      BY <3>1 DEF a, b
  <2>5. Slices(g, old, Some(k - 1)) /\ \A i \in DOMAIN old : old[i].vEnd <= a /\ old[i].vEnd \in Nat
    <3>1. Slices(g, old, Some(k - 1)) /\ \A i \in DOMAIN old : old[i].vEnd <= a
      BY <2>1 DEF a
    <3> HIDE DEF Some, old
    <3>2. \A i \in DOMAIN old : old[i].vEnd \in Nat
      BY <3>1 DEF Slices, PartFits, Part
    <3> QED
      BY <3>1, <3>2
  <2> HIDE DEF Some, old
  <2>6. CASE Has(k)
    <3> DEFINE q == p(k)
    <3>1. upTo[k] = Append(old, q)
      BY <2>2, <2>6 DEF Take, old
    <3>2. /\ PartFits(g, q) /\ a <= q.version /\ q.vEnd <= b
          /\ Extent(q) = (vStart .. (vEnd - 1)) \cap (a .. (b - 1))
      BY <1>4, <2>3, <2>6
    <3>3. q.version \in Nat /\ q.vEnd \in Nat
      BY <3>2 DEF PartFits, Part
    <3> HIDE DEF q
    <3>4. \A i \in DOMAIN old : old[i].vEnd <= q.version /\ old[i].vEnd <= b
      <4> SUFFICES ASSUME NEW i \in DOMAIN old PROVE old[i].vEnd <= q.version /\ old[i].vEnd <= b
        OBVIOUS
      <4> DEFINE last == old[i].vEnd
      <4>1. last \in Nat /\ last <= a
        BY <2>5
      <4> HIDE DEF last
      <4>2. last <= q.version /\ last <= b
        BY <2>3, <3>2, <3>3, <4>1
      <4> QED
        BY <4>2 DEF last
    <3>5. Slices(g, Append(old, q), Some(k))
      <4>1. Slices(g, Append(old, q), Some(k - 1) \cup Extent(q))
        BY <2>5, <3>2, <3>4, SlicesAppend
      <4> QED
        BY <2>4, <3>2, <4>1
    <3>6. \A i \in DOMAIN Append(old, q) : Append(old, q)[i].vEnd <= b
      <4> SUFFICES ASSUME NEW i \in DOMAIN Append(old, q) PROVE Append(old, q)[i].vEnd <= b
        OBVIOUS
      <4>1. old \in Seq(Part)
        BY <2>5 DEF Slices
      <4>2. i \in DOMAIN old \/ (i = Len(old) + 1 /\ Append(old, q)[i] = q)
        BY <4>1
      <4>3. i \in DOMAIN old => Append(old, q)[i] = old[i]
        BY <4>1
      <4> QED
        BY <3>2, <3>4, <4>2, <4>3
    <3>7. Good(k)
      BY <3>1, <3>5, <3>6 DEF b
    <3> QED
      BY <2>1, <3>7
  <2>7. CASE ~ Has(k)
    <3>1. upTo[k] = old
      BY <2>2, <2>7 DEF Take, old
    <3>2. (vStart .. (vEnd - 1)) \cap (a .. (b - 1)) = {}
      <4>1. ~ (Higher(vStart, a) < Lower(vEnd, b))
        BY <2>3, <2>7
      <4> QED
        BY <2>3, <4>1 DEF Higher, Lower
    <3>3. \A i \in DOMAIN old : old[i].vEnd <= b
      <4> SUFFICES ASSUME NEW i \in DOMAIN old PROVE old[i].vEnd <= b
        OBVIOUS
      <4> DEFINE last == old[i].vEnd
      <4>1. last \in Nat /\ last <= a
        BY <2>5
      <4> HIDE DEF last
      <4>2. last <= b
        BY <2>3, <4>1
      <4> QED
        BY <4>2 DEF last
    <3>4. Good(k)
      BY <2>4, <2>5, <3>1, <3>2, <3>3 DEF b
    <3> QED
      BY <2>1, <3>4
  <2> QED
    BY <2>6, <2>7
<1> HIDE DEF S
<1>18. \A k \in 0 .. n : k \in S
  BY <1>1, <1>16, <1>17, InductionTo
<1>19. Slices(g, upTo[n], Some(n))
  <2>1. n \in S
    BY <1>1, <1>18
  <2> HIDE DEF Some
  <2> QED
    BY <2>1 DEF S
<1>20. Some(n) = vStart .. (vEnd - 1)
  BY <1>1, <1>8, <1>9
<1> QED
  BY <1>2, <1>19, <1>20

-----------------------------------------------------------------------------
(* What one graph sends another.                                           *)

\* The encoding is in order, the two indexes agree, and the parents of every
\* event are a frontier.
Sound(g) == IdInv(g) /\ ParentFrontiers(g)

\* An event that two graphs know is the same event in both.
Agree(a, b) ==
  \A v \in Versions(a), u \in Versions(b) : LvToRaw(a, v) = LvToRaw(b, u) => EventAt(a, v) = EventAt(b, u)

\* The versions of b whose events a knows.
KnownTo(a, b) == {u \in Versions(b) : \E v \in Versions(a) : LvToRaw(a, v) = LvToRaw(b, u)}

\* Agreement goes both ways.
LEMMA AgreeIsSymmetric == \A a, b : Agree(a, b) => Agree(b, a)
BY DEF Agree

\* A version is the only one with its identity.
LEMMA OneVersion ==
  ASSUME NEW g, IdInv(g), NEW v \in Versions(g), NEW u \in Versions(g), LvToRaw(g, v) = LvToRaw(g, u)
  PROVE  v = u
<1>1. PICK agent \in Agents, s \in Nat : LvToRaw(g, v) = <<agent, s>>
  BY RawType DEF IdInv
<1>2. \A t \in Versions(g) : LvToRaw(g, t) = <<agent, s>> => RawToLV(g, agent, s) = t
  BY LookupsInvert
<1> QED
  BY <1>1, <1>2

\* What a graph knows of another is what it finds by identity.
LEMMA KnownById ==
  ASSUME NEW a, IdInv(a), NEW b, IdInv(b), NEW u \in Versions(b)
  PROVE  LET id == LvToRaw(b, u)
         IN  /\ id[1] \in Agents /\ id[2] \in Nat /\ id = <<id[1], id[2]>>
             /\ HasVersion(a, id[1], id[2]) <=> u \in KnownTo(a, b)
             /\ u \in KnownTo(a, b) =>
                  RawToLV(a, id[1], id[2]) \in Versions(a) /\ LvToRaw(a, RawToLV(a, id[1], id[2])) = id
<1>1. PICK agent \in Agents, s \in Nat : LvToRaw(b, u) = <<agent, s>>
  BY RawType DEF IdInv
<1>2. HasVersion(a, agent, s) =>
        RawToLV(a, agent, s) \in Versions(a) /\ LvToRaw(a, RawToLV(a, agent, s)) = <<agent, s>>
  BY LookupsInvert
<1>3. \A v \in Versions(a) : LvToRaw(a, v) = <<agent, s>> => HasVersion(a, agent, s)
  BY LookupsInvert
<1>4. HasVersion(a, agent, s) <=> u \in KnownTo(a, b)
  BY <1>1, <1>2, <1>3 DEF KnownTo
<1> QED
  BY <1>1, <1>2, <1>4

\* With an event its parents are known.
LEMMA ParentsTravel ==
  ASSUME NEW a, GraphInv(a), NEW b, Agree(a, b),
         NEW v \in Versions(a), NEW u \in Versions(b), LvToRaw(a, v) = LvToRaw(b, u),
         NEW p \in ParentsOf(b, u)
  PROVE  \E q \in ParentsOf(a, v) : q \in Versions(a) /\ LvToRaw(a, q) = LvToRaw(b, p)
<1>1. LvToRawList(a, ParentsOf(a, v)) = LvToRawList(b, ParentsOf(b, u))
  BY DEF Agree, EventAt
<1>2. LvToRaw(b, p) \in LvToRawList(a, ParentsOf(a, v))
  BY <1>1 DEF LvToRawList
<1>3. PICK q \in ParentsOf(a, v) : LvToRaw(a, q) = LvToRaw(b, p)
  BY <1>2 DEF LvToRawList
<1>4. ParentsOf(a, v) \subseteq Versions(a)
  BY ParentsAreVersions
<1> QED
  BY <1>3, <1>4

\* What is known is closed under parents.
LEMMA KnownIsClosed ==
  ASSUME NEW a, GraphInv(a), NEW b, GraphInv(b), Agree(a, b), NEW u \in KnownTo(a, b)
  PROVE  ParentsOf(b, u) \subseteq KnownTo(a, b)
<1> SUFFICES ASSUME NEW p \in ParentsOf(b, u) PROVE p \in KnownTo(a, b)
  OBVIOUS
<1>1. u \in Versions(b)
  BY DEF KnownTo
<1>2. PICK v \in Versions(a) : LvToRaw(a, v) = LvToRaw(b, u)
  BY DEF KnownTo
<1>3. p \in Versions(b)
  BY <1>1, ParentsAreVersions
<1> QED
  BY <1>1, <1>2, <1>3, ParentsTravel DEF KnownTo

\* A set of versions that has the parents of each has the history of each.
LEMMA HistoriesWithin ==
  ASSUME NEW g, GraphInv(g), NEW S \in SUBSET Versions(g), \A u \in S : ParentsOf(g, u) \subseteq S
  PROVE  EventsOf(Histories(g), S) = S
<1> DEFINE par == ParentsIn(g)
           n   == NextLV(g)
<1>1. Topological(par, n) /\ Versions(g) = 0 .. (n - 1) /\ Histories(g) = HistoriesOf(par, n)
  BY GraphIsTopological DEF Histories, ParentsIn
<1>2. ClosedUnder(par, S)
  BY DEF ClosedUnder, ParentsIn
<1> HIDE DEF par, n
<1>3. \A u \in S : u \in 0 .. (n - 1) /\ Histories(g)[u] = Past(par, n, u)
  <2>1. Histories(g) = [u \in 0 .. (n - 1) |-> Past(par, n, u)]
    BY <1>1, HistoryIsPast
  <2> QED
    BY <1>1, <2>1
<1>4. S \in SUBSET (0 .. (n - 1))
  BY <1>1
<1>5. \A u \in S : Histories(g)[u] \subseteq S
  BY <1>2, <1>3, <1>4 DEF Past
<1>6. \A u \in S : u \in Histories(g)[u]
  BY HistoryOfVersion
<1> QED
  BY <1>5, <1>6 DEF EventsOf

\* With an event its whole history is known.
LEMMA HistoriesTravel ==
  ASSUME NEW a, GraphInv(a), NEW b, GraphInv(b), Agree(a, b),
         NEW v \in Versions(a), NEW u \in Versions(b), LvToRaw(a, v) = LvToRaw(b, u),
         NEW x \in Histories(a)[v]
  PROVE  \E y \in Histories(b)[u] : LvToRaw(a, x) = LvToRaw(b, y)
<1> DEFINE S == {t \in Versions(a) : \E y \in Histories(b)[u] : y \in Versions(b) /\ LvToRaw(a, t) = LvToRaw(b, y)}
<1>1. /\ u \in Histories(b)[u] /\ \A t \in Histories(b)[u] : t \in Versions(b) /\ Histories(b)[t] \subseteq Histories(b)[u]
  <2>1. Topological(ParentsIn(b), NextLV(b)) /\ Versions(b) = 0 .. (NextLV(b) - 1)
        /\ Histories(b) = HistoriesOf(ParentsIn(b), NextLV(b))
    BY GraphIsTopological DEF Histories, ParentsIn
  <2> QED
    BY <2>1, HistoryOrder
<1>2. \A y \in Versions(b) : ParentsOf(b, y) \subseteq Histories(b)[y]
  <2> SUFFICES ASSUME NEW y \in Versions(b), NEW p \in ParentsOf(b, y) PROVE p \in Histories(b)[y]
    OBVIOUS
  <2>1. Topological(ParentsIn(b), NextLV(b)) /\ Versions(b) = 0 .. (NextLV(b) - 1)
        /\ Histories(b) = HistoriesOf(ParentsIn(b), NextLV(b)) /\ ParentsIn(b)[y] = ParentsOf(b, y)
    BY GraphIsTopological DEF Histories, ParentsIn
  <2>2. p \in 0 .. (NextLV(b) - 1) /\ Histories(b)[p] \subseteq Histories(b)[y]
    BY <2>1, HistoryOrder
  <2>3. p \in Histories(b)[p]
    BY <2>1, <2>2, HistoryOfVersion
  <2> QED
    BY <2>2, <2>3
<1>3. v \in S
  BY <1>1
<1>4. ASSUME NEW t \in S PROVE ParentsOf(a, t) \subseteq S
  <2> SUFFICES ASSUME NEW p \in ParentsOf(a, t) PROVE p \in S
    OBVIOUS
  <2>1. PICK y \in Histories(b)[u] : y \in Versions(b) /\ LvToRaw(a, t) = LvToRaw(b, y)
    OBVIOUS
  <2>2. t \in Versions(a) /\ p \in Versions(a)
    BY ParentsAreVersions
  <2>3. PICK q \in ParentsOf(b, y) : q \in Versions(b) /\ LvToRaw(b, q) = LvToRaw(a, p)
    BY <2>1, <2>2, ParentsTravel, AgreeIsSymmetric
  <2>4. q \in Histories(b)[u]
    BY <1>1, <1>2, <2>1, <2>3
  <2> QED
    BY <2>2, <2>3, <2>4
<1>5. S \in SUBSET Versions(a)
  OBVIOUS
<1> HIDE DEF S
<1>6. EventsOf(Histories(a), S) = S
  BY <1>4, <1>5, HistoriesWithin
<1>7. x \in S
  BY <1>3, <1>6 DEF EventsOf
<1> QED
  BY <1>7 DEF S

\* Versions that are concurrent in one graph are concurrent in the other.
LEMMA FrontiersTravel ==
  ASSUME NEW a, IdInv(a), NEW b, IdInv(b), Agree(a, b),
         NEW S \in SUBSET Versions(a), DominatorsOf(Histories(a), S) = S,
         NEW T \in SUBSET Versions(b), LvToRawList(a, S) = LvToRawList(b, T)
  PROVE  DominatorsOf(Histories(b), T) = T
<1> SUFFICES ASSUME NEW v \in T, NEW u \in T, u # v, v \in Histories(b)[u] PROVE FALSE
  BY DEF DominatorsOf
<1>1. GraphInv(a) /\ GraphInv(b)
  BY DEF IdInv
<1>2. \A t \in T : \E s \in S : LvToRaw(a, s) = LvToRaw(b, t)
  BY DEF LvToRawList
<1>3. PICK x \in S : LvToRaw(a, x) = LvToRaw(b, v)
  BY <1>2
<1>4. PICK y \in S : LvToRaw(a, y) = LvToRaw(b, u)
  BY <1>2
<1>5. x # y
  BY <1>3, <1>4, OneVersion
<1>6. PICK z \in Histories(a)[y] : LvToRaw(b, v) = LvToRaw(a, z)
  BY <1>1, <1>4, HistoriesTravel, AgreeIsSymmetric
<1>7. z \in Versions(a)
  <2>1. EventsOf(Histories(a), {y}) \subseteq Versions(a)
    BY <1>1, EventsAreVersions
  <2> QED
    BY <2>1 DEF EventsOf
<1>8. z = x
  BY <1>3, <1>6, <1>7, OneVersion
<1> QED
  BY <1>5, <1>6, <1>8 DEF DominatorsOf

\* Everything in a set is in the history of one of its dominators.
LEMMA DominatorsCover ==
  ASSUME NEW g, GraphInv(g), NEW S \in SUBSET Versions(g)
  PROVE  /\ DominatorsOf(Histories(g), S) \subseteq S
         /\ EventsOf(Histories(g), DominatorsOf(Histories(g), S)) = EventsOf(Histories(g), S)
<1> DEFINE h == Histories(g)
           n == NextLV(g)
<1>1. n \in Nat /\ Versions(g) = 0 .. (n - 1)
  BY NextLVType DEF GraphInv, Versions
<1>2. \A v \in S : v \in h[v] /\ h[v] \subseteq 0 .. v /\ \A u \in h[v] : h[u] \subseteq h[v]
  BY HistoryOfVersion
<1> HIDE DEF h, n
<1>3. ASSUME NEW u \in EventsOf(h, S) PROVE u \in EventsOf(h, DominatorsOf(h, S))
  <2> DEFINE above == {v \in S : u \in h[v]}
  <2>1. above # {} /\ above \subseteq Nat /\ \A v \in above : v <= n
    BY <1>1 DEF EventsOf
  <2>2. PICK m \in above : \A v \in above : v <= m
    BY <1>1, <2>1, GreatestElement
  <2>3. \A v \in S \ {m} : m \notin h[v]
    <3> SUFFICES ASSUME NEW v \in S, v # m, m \in h[v] PROVE FALSE
      OBVIOUS
    <3>1. v \in above
      BY <1>2, <2>2
    <3>2. m <= v /\ v <= m /\ v \in Nat /\ m \in Nat
      BY <1>2, <2>1, <2>2, <3>1
    <3> QED
      BY <3>2
  <2>4. m \in DominatorsOf(h, S)
    BY <2>2, <2>3 DEF DominatorsOf
  <2> QED
    BY <2>2, <2>4 DEF EventsOf
<1>4. DominatorsOf(h, S) \subseteq S
  BY DEF DominatorsOf
<1>5. EventsOf(h, DominatorsOf(h, S)) \subseteq EventsOf(h, S)
  BY <1>4 DEF EventsOf
<1> QED
  BY <1>3, <1>4, <1>5 DEF h

\* The heads are the frontier of the whole graph, and their history is all of it.
LEMMA HeadsCover ==
  ASSUME NEW g, GraphInv(g)
  PROVE  /\ g.heads = DominatorsOf(Histories(g), Versions(g))
         /\ g.heads \subseteq Versions(g)
         /\ EventsOf(Histories(g), g.heads) = Versions(g)
<1>1. g.heads = {v \in Versions(g) : \A u \in Versions(g) : v \notin ParentsOf(g, u)}
  BY DEF GraphInv, Childless
<1>2. \A u \in Versions(g) : ParentsIn(g)[u] = ParentsOf(g, u)
  BY DEF ParentsIn
<1>3. DominatorsOf(HistoriesOf(ParentsIn(g), NextLV(g)), 0 .. (NextLV(g) - 1)) =
        {v \in 0 .. (NextLV(g) - 1) : \A u \in 0 .. (NextLV(g) - 1) : v \notin ParentsIn(g)[u]}
  BY GraphIsTopological, DominatorsAreChildless
<1>4. Histories(g) = HistoriesOf(ParentsIn(g), NextLV(g)) /\ Versions(g) = 0 .. (NextLV(g) - 1)
  BY DEF Histories, ParentsIn, Versions
<1>5. g.heads = DominatorsOf(Histories(g), Versions(g))
  BY <1>1, <1>2, <1>3, <1>4
<1>6. \A u \in Versions(g) : ParentsOf(g, u) \subseteq Versions(g)
  BY ParentsAreVersions
<1>7. EventsOf(Histories(g), Versions(g)) = Versions(g)
  BY <1>6, HistoriesWithin
<1> QED
  BY <1>1, <1>5, <1>7, DominatorsCover

\* What is inserted leaves the events that were there as they were.
LEMMA EventsStay ==
  ASSUME NEW g, GraphInv(g), NEW e, Insertable(g, e), NEW v \in Versions(g)
  PROVE  EventAt(InsertEntry(g, e), v) = EventAt(g, v)
<1> DEFINE new == InsertEntry(g, e)
<1>1. \A u \in Versions(g) : ParentsOf(new, u) = ParentsOf(g, u) /\ LvToRaw(new, u) = LvToRaw(g, u)
  BY OldEventsStay
<1> HIDE DEF new
<1>2. ParentsOf(g, v) \subseteq Versions(g)
  BY ParentsAreVersions
<1>3. LvToRawList(new, ParentsOf(new, v)) = LvToRawList(g, ParentsOf(g, v))
  BY <1>1, <1>2 DEF LvToRawList
<1> QED
  BY <1>1, <1>3 DEF EventAt, new

\* The versions that stand for the parents of known events.
LEMMA IdsFound ==
  ASSUME NEW g, IdInv(g), NEW s, IdInv(s), NEW S \in SUBSET KnownTo(g, s)
  PROVE  LET ids == LvToRawList(s, S)
         IN  /\ KnowsAll(g, ids)
             /\ RawToLVList(g, ids) \in SUBSET Versions(g)
             /\ LvToRawList(g, RawToLVList(g, ids)) = ids
<1> DEFINE ids   == LvToRawList(s, S)
           lv(i) == RawToLV(g, i[1], i[2])
<1>1. \A i \in ids : HasVersion(g, i[1], i[2]) /\ lv(i) \in Versions(g) /\ LvToRaw(g, lv(i)) = i
  <2> SUFFICES ASSUME NEW u \in S
               PROVE  LET i == LvToRaw(s, u)
                      IN  HasVersion(g, i[1], i[2]) /\ lv(i) \in Versions(g) /\ LvToRaw(g, lv(i)) = i
    BY DEF LvToRawList
  <2>1. u \in Versions(s) /\ u \in KnownTo(g, s)
    BY DEF KnownTo
  <2> QED
    BY <2>1, KnownById
<1> HIDE DEF ids
<1>2. KnowsAll(g, ids)
  BY <1>1 DEF KnowsAll
<1>3. RawToLVList(g, ids) = {lv(i) : i \in ids}
  BY DEF RawToLVList
<1> HIDE DEF lv
<1>4. RawToLVList(g, ids) \in SUBSET Versions(g)
  BY <1>1, <1>3
<1>5. LvToRawList(g, RawToLVList(g, ids)) = {LvToRaw(g, lv(i)) : i \in ids}
  BY <1>3 DEF LvToRawList
<1>6. LvToRawList(g, RawToLVList(g, ids)) = ids
  BY <1>1, <1>5
<1> QED
  BY <1>2, <1>4, <1>6 DEF ids

\* The graph new is g with the events of s that are in the part p behind its own.
Extended(g, s, p, new) ==
  /\ Sound(new)
  /\ NextLV(new) = NextLV(g) + (p.vEnd - p.version)
  /\ \A v \in Versions(g) : EventAt(new, v) = EventAt(g, v)
  /\ \A u \in Extent(p) : EventAt(new, NextLV(g) + (u - p.version)) = EventAt(s, u)

\* A part whose events are unknown and whose parents are known is added as it is.
LEMMA PartAdds ==
  ASSUME NEW g, Sound(g), NEW s, Sound(s), Agree(g, s), NEW p, PartFits(s, p),
         Extent(p) \cap KnownTo(g, s) = {}, p.parents \subseteq KnownTo(g, s)
  PROVE  LET d == SerializePart(s, p)
         IN  KnowsAll(g, d.parents) /\ Extended(g, s, p, AddRaw(g, <<d.agent, d.seq>>, d.len, d.parents))
<1> DEFINE ids  == LvToRawList(s, p.parents)
           ps   == RawToLVList(g, ids)
           n    == NextLV(g)
           len  == p.vEnd - p.version
           end  == p.seq + len
           e    == NewEntry(g, p.agent, p.seq, end, ps)
           new  == InsertEntry(g, e)
           d    == SerializePart(s, p)
<1>1. /\ IdInv(g) /\ IdInv(s) /\ GraphInv(g) /\ GraphInv(s) /\ ParentFrontiers(g) /\ ParentFrontiers(s)
      /\ g \in CG /\ n \in Nat /\ Versions(g) = 0 .. (n - 1)
      /\ NextLV(s) \in Nat /\ Versions(s) = 0 .. (NextLV(s) - 1)
  BY NextLVType DEF Sound, IdInv, GraphInv, Versions
<1>2. /\ p \in Part /\ p.version \in Nat /\ p.vEnd \in Nat /\ p.agent \in Agents /\ p.seq \in Nat
      /\ p.version < p.vEnd /\ p.vEnd <= NextLV(s) /\ p.parents = ParentsOf(s, p.version)
      /\ \A v \in (p.version + 1) .. (p.vEnd - 1) : ParentsOf(s, v) = {v - 1}
      /\ \A v \in Extent(p) : LvToRaw(s, v) = <<p.agent, p.seq + (v - p.version)>>
      /\ Extent(p) = p.version .. (p.vEnd - 1) /\ Extent(p) \subseteq Versions(s)
  BY <1>1 DEF PartFits, Part, Extent
<1>3. KnowsAll(g, ids) /\ ps \in SUBSET Versions(g) /\ LvToRawList(g, ps) = ids
  BY <1>1, IdsFound
<1>4. d = [agent |-> p.agent, seq |-> p.seq, len |-> len, parents |-> ids]
  BY DEF SerializePart
<1>5. AddRaw(g, <<d.agent, d.seq>>, d.len, d.parents) = Add(g, p.agent, p.seq, end, ps)
  BY <1>4 DEF AddRaw
<1>6. len \in Nat \ {0} /\ end \in Nat /\ p.seq < end
  BY <1>2
<1>7. \A t \in p.seq .. (end - 1) : ~ HasVersion(g, p.agent, t)
  <2> SUFFICES ASSUME NEW t \in p.seq .. (end - 1), HasVersion(g, p.agent, t) PROVE FALSE
    OBVIOUS
  <2> DEFINE u == p.version + (t - p.seq)
  <2>1. u \in Extent(p) /\ p.seq + (u - p.version) = t
    BY <1>2, SMTT(30)
  <2> HIDE DEF u
  <2>2. LvToRaw(s, u) = <<p.agent, t>> /\ u \in Versions(s)
    BY <1>2, <2>1
  <2>3. u \in KnownTo(g, s)
    BY <1>1, <2>2, KnownById
  <2> QED
    BY <2>1, <2>3
<1>8. UnknownSeqs(g, p.agent, p.seq, end) = p.seq .. (end - 1)
  BY <1>6, <1>7 DEF UnknownSeqs
<1>9. FirstUnknown(g, p.agent, p.seq, end) = p.seq
  <2> DEFINE first == FirstUnknown(g, p.agent, p.seq, end)
  <2>1. p.seq \in p.seq .. (end - 1)
    BY <1>2, <1>6
  <2>2. first \in p.seq .. (end - 1) /\ \A t \in p.seq .. (end - 1) : first <= t
    BY <1>2, <1>6, <1>8, <2>1, FirstUnknownIsLeast, ZenonT(60)
  <2> HIDE DEF first
  <2>3. first = p.seq
    BY <1>2, <1>6, <2>1, <2>2
  <2> QED
    BY <2>3 DEF first
<1>10. /\ e.version = n /\ e.vEnd = n + (end - p.seq) /\ e.agent = p.agent /\ e.seq = p.seq /\ e.parents = ps
  BY <1>9 DEF NewEntry
<1>11. KnownFirst(g, p.agent, p.seq, end)
  BY <1>2, <1>6, <1>7 DEF KnownFirst
<1>12. UnknownSeqs(g, p.agent, p.seq, end) # {}
  <2> HIDE DEF end
  <2>1. p.seq \in p.seq .. (end - 1)
    BY <1>2, <1>6
  <2> QED
    BY <1>8, <2>1
<1>13. /\ Insertable(g, e) /\ Fresh(g, e) /\ Add(g, p.agent, p.seq, end, ps) = new
  <2> HIDE DEF end, ids, ps, n
  <2>1. Insertable(g, e)
    BY <1>1, <1>2, <1>3, <1>6, <1>12, NewEntryInsertable DEF GraphInv
  <2>2. Fresh(g, e)
    BY <1>1, <1>2, <1>6, <1>11, <1>12, NewEntryFresh
  <2>3. Add(g, p.agent, p.seq, end, ps) = new
    BY <1>12 DEF Add
  <2> QED
    BY <2>1, <2>2, <2>3
<1> HIDE DEF e, ids, ps
<1>14. /\ NextLV(new) = e.vEnd
       /\ \A v \in Versions(g) : EventAt(new, v) = EventAt(g, v) /\ LvToRaw(new, v) = LvToRaw(g, v)
       /\ \A v \in e.version .. (e.vEnd - 1) : /\ ParentsOf(new, v) = IF v = e.version THEN e.parents ELSE {v - 1}
                                               /\ LvToRaw(new, v) = <<e.agent, e.seq + (v - e.version)>>
  BY <1>1, <1>13, InsertExtends, EventsStay, OldEventsStay, ParentsOfNewEvents, RawOfNewEvents
<1>15. IdInv(new)
  BY <1>1, <1>13, InsertKeepsIds
<1>16. ParentFrontiers(new)
  <2>1. p.version \in Versions(s) /\ p.parents \in SUBSET Versions(s)
    BY <1>1, <1>2, ParentsAreVersions
  <2>2. DominatorsOf(Histories(s), p.parents) = p.parents
    BY <1>1, <1>2, <2>1 DEF ParentFrontiers
  <2>3. DominatorsOf(Histories(g), ps) = ps
    BY <1>1, <1>3, <2>1, <2>2, FrontiersTravel, AgreeIsSymmetric DEF ids
  <2> QED
    BY <1>1, <1>10, <1>13, <2>3, InsertKeepsFrontiers
<1>17. NextLV(new) = n + len /\ e.vEnd = n + len
  BY <1>2, <1>10, <1>14
<1> HIDE DEF new, n
<1>18. ASSUME NEW u \in Extent(p)
       PROVE  EventAt(new, n + (u - p.version)) = EventAt(s, u)
  <2> DEFINE a == p.version
             v == n + (u - a)
             b == p.vEnd
             q == p.seq
             m == e.version
             c == e.vEnd
             d0 == e.seq
  <2>9. /\ a \in Nat /\ b \in Nat /\ q \in Nat /\ n \in Nat /\ m = n /\ u \in a .. (b - 1)
        /\ c = n + (b - a) /\ d0 = q /\ Extent(p) = a .. (b - 1)
    BY <1>1, <1>2, <1>10, <1>17
  <2> HIDE DEF a, b, q, m, c, d0, len
  <2>8. /\ a \in Nat /\ b \in Nat /\ q \in Nat /\ n \in Nat /\ u \in Nat /\ a <= u /\ u < b
        /\ m = n /\ c = n + (b - a) /\ d0 = q
    BY <2>9
  <2>7. /\ u - 1 \in Int /\ v \in Nat /\ n <= v /\ v < c /\ q + (v - n) = q + (u - a) /\ (v = n <=> u = a)
        /\ u # a => /\ a <= u - 1 /\ u - 1 < b /\ n <= v - 1 /\ v - 1 < c /\ q + ((v - 1) - n) = q + ((u - 1) - a)
    BY <2>8
  <2>0. /\ v \in m .. (c - 1) /\ d0 + (v - m) = q + (u - a)
        /\ (v = m <=> u = a) /\ u \in Nat /\ v \in Nat
        /\ u # a => /\ u - 1 \in a .. (b - 1) /\ v - 1 \in m .. (c - 1)
                    /\ d0 + ((v - 1) - m) = q + ((u - 1) - a) /\ u \in (a + 1) .. (b - 1)
    <3> HIDE DEF v
    <3> QED
      BY <2>7, <2>8
  <2>1. /\ v \in e.version .. (e.vEnd - 1) /\ e.seq + (v - e.version) = p.seq + (u - p.version)
        /\ (v = e.version <=> u = p.version) /\ u \in Nat /\ v \in Nat
    BY <2>0 DEF a, q, m, c, d0
  <2>2. LvToRaw(new, v) = LvToRaw(s, u)
    BY <1>2, <1>10, <1>14, <2>1
  <2>3. CASE u = p.version
    <3>1. ParentsOf(new, v) = ps /\ ParentsOf(s, u) = p.parents
      BY <1>2, <1>10, <1>14, <2>1, <2>3
    <3>2. LvToRawList(new, ps) = LvToRawList(g, ps)
      BY <1>3, <1>14 DEF LvToRawList
    <3>3. LvToRawList(new, ParentsOf(new, v)) = LvToRawList(s, ParentsOf(s, u))
      BY <1>3, <3>1, <3>2 DEF ids
    <3> QED
      BY <2>2, <3>3 DEF EventAt, a
  <2>4. CASE u # p.version
    <3>1. /\ u - 1 \in Extent(p) /\ v - 1 \in e.version .. (e.vEnd - 1)
          /\ e.seq + ((v - 1) - e.version) = p.seq + ((u - 1) - p.version)
          /\ u \in (p.version + 1) .. (p.vEnd - 1)
      BY <2>0, <2>4, <2>9 DEF a, b, q, m, c, d0
    <3>2. LvToRaw(new, v - 1) = LvToRaw(s, u - 1)
      BY <1>2, <1>10, <1>14, <3>1, ZenonT(60)
    <3>3. ParentsOf(new, v) = {v - 1} /\ ParentsOf(s, u) = {u - 1}
      BY <1>2, <1>14, <2>1, <2>4, <3>1
    <3>4. LvToRawList(new, {v - 1}) = LvToRawList(s, {u - 1})
      BY <3>2 DEF LvToRawList
    <3>5. LvToRawList(new, ParentsOf(new, v)) = LvToRawList(s, ParentsOf(s, u))
      BY <3>3, <3>4
    <3> QED
      BY <2>2, <3>5 DEF EventAt, a
  <2> QED
    BY <2>3, <2>4
<1>19. Extended(g, s, p, new)
  BY <1>14, <1>15, <1>16, <1>17, <1>18 DEF Extended, Sound, n, len
<1> QED
  BY <1>3, <1>4, <1>5, <1>13, <1>19 DEF ids

\* The graph g has the events of d, and behind them those of s in the list.
Replays(d, s, ord, g) ==
  /\ Sound(g)
  /\ ord \in Seq(Versions(s))
  /\ NextLV(g) = NextLV(d) + Len(ord)
  /\ \A v \in Versions(d) : EventAt(g, v) = EventAt(d, v)
  /\ \A i \in 1 .. Len(ord) : EventAt(g, NextLV(d) + (i - 1)) = EventAt(s, ord[i])

\* Each event of the graph is one of either.
LEMMA ReplayedFrom ==
  ASSUME NEW d, d \in CG, NEW s, NEW ord, NEW g, Replays(d, s, ord, g)
  PROVE  /\ NextLV(d) \in Nat /\ Versions(d) = 0 .. (NextLV(d) - 1) /\ Versions(d) \subseteq Versions(g)
         /\ Len(ord) \in Nat /\ Versions(g) = 0 .. (NextLV(d) + Len(ord) - 1)
         /\ \A i \in 1 .. Len(ord) : ord[i] \in Versions(s) /\ NextLV(d) + (i - 1) \in Versions(g)
         /\ \A v \in Versions(g) : \/ v \in Versions(d)
                                   \/ \E i \in 1 .. Len(ord) : v = NextLV(d) + (i - 1)
<1> DEFINE n == NextLV(d)
           m == Len(ord)
<1>1. n \in Nat /\ m \in Nat /\ NextLV(g) = n + m /\ \A i \in 1 .. m : ord[i] \in Versions(s)
  BY NextLVType DEF Replays
<1>2. Versions(d) = 0 .. (n - 1) /\ Versions(g) = 0 .. (n + m - 1)
  BY <1>1 DEF Versions
<1> HIDE DEF n, m
<1>3. \A i \in 1 .. m : n + (i - 1) \in 0 .. (n + m - 1)
  BY <1>1
<1>4. ASSUME NEW v \in 0 .. (n + m - 1), v \notin 0 .. (n - 1) PROVE \E i \in 1 .. m : v = n + (i - 1)
  <2>1. v - n + 1 \in 1 .. m /\ v = n + ((v - n + 1) - 1)
    BY <1>1, <1>4
  <2> QED
    BY <2>1
<1>5. 0 .. (n - 1) \subseteq 0 .. (n + m - 1)
  BY <1>1
<1> QED
  BY <1>1, <1>2, <1>3, <1>4, <1>5 DEF n, m

\* What a graph knows when events were replayed into it.
LEMMA ReplayKnows ==
  ASSUME NEW d, d \in CG, NEW s, Sound(s), Agree(d, s), NEW ord, NEW g, Replays(d, s, ord, g)
  PROVE  /\ Agree(g, s)
         /\ \A u \in Versions(s) : u \in KnownTo(g, s) <=> u \in KnownTo(d, s) \/ \E i \in 1 .. Len(ord) : u = ord[i]
<1> DEFINE n == NextLV(d)
           m == Len(ord)
<1>1. /\ \A i \in 1 .. m : ord[i] \in Versions(s) /\ n + (i - 1) \in Versions(g)
      /\ Versions(d) \subseteq Versions(g)
      /\ \A v \in Versions(g) : v \in Versions(d) \/ \E i \in 1 .. m : v = n + (i - 1)
  BY ReplayedFrom
<1>2. /\ \A v \in Versions(d) : EventAt(g, v) = EventAt(d, v)
      /\ \A i \in 1 .. m : EventAt(g, n + (i - 1)) = EventAt(s, ord[i])
  BY DEF Replays
<1> HIDE DEF n, m
<1>3. \A x, v : EventAt(x, v).id = LvToRaw(x, v)
  BY DEF EventAt
<1>4. /\ \A v \in Versions(d) : LvToRaw(g, v) = LvToRaw(d, v)
      /\ \A i \in 1 .. m : LvToRaw(g, n + (i - 1)) = LvToRaw(s, ord[i])
  BY <1>2, <1>3
<1>5. \A u, t \in Versions(s) : LvToRaw(s, u) = LvToRaw(s, t) => u = t
  BY OneVersion DEF Sound
<1>6. ASSUME NEW v \in Versions(g), NEW u \in Versions(s), LvToRaw(g, v) = LvToRaw(s, u)
      PROVE  EventAt(g, v) = EventAt(s, u) /\ (v \in Versions(d) \/ \E i \in 1 .. m : u = ord[i])
  <2>1. CASE v \in Versions(d)
    BY <1>2, <1>4, <1>6, <2>1 DEF Agree
  <2>2. CASE v \notin Versions(d)
    <3>1. PICK i \in 1 .. m : v = n + (i - 1)
      BY <1>1, <2>2
    <3>2. u = ord[i]
      BY <1>1, <1>4, <1>5, <1>6, <3>1
    <3> QED
      BY <1>2, <3>1, <3>2
  <2> QED
    BY <2>1, <2>2
<1>7. ASSUME NEW u \in KnownTo(g, s) PROVE u \in KnownTo(d, s) \/ \E i \in 1 .. m : u = ord[i]
  <2>1. PICK v \in Versions(g) : LvToRaw(g, v) = LvToRaw(s, u)
    BY DEF KnownTo
  <2>2. u \in Versions(s)
    BY DEF KnownTo
  <2>3. v \in Versions(d) => u \in KnownTo(d, s)
    BY <1>4, <2>1, <2>2 DEF KnownTo
  <2> QED
    BY <1>6, <2>1, <2>2, <2>3
<1>8. ASSUME NEW u \in KnownTo(d, s) PROVE u \in KnownTo(g, s)
  BY <1>1, <1>4 DEF KnownTo
<1>9. ASSUME NEW i \in 1 .. m PROVE ord[i] \in KnownTo(g, s)
  BY <1>1, <1>4 DEF KnownTo
<1>10. Agree(g, s)
  BY <1>6 DEF Agree
<1> QED
  BY <1>7, <1>8, <1>9, <1>10 DEF m

\* A part behind what is replayed.
LEMMA PartReplays ==
  ASSUME NEW d, d \in CG, NEW s, NextLV(s) \in Nat, NEW ord, NEW g, Replays(d, s, ord, g), NEW p, PartFits(s, p),
         NEW new, Extended(g, s, p, new)
  PROVE  Replays(d, s, ord \o RangeLVs(<<p.version, p.vEnd>>), new)
<1> DEFINE n == NextLV(d)
           m == Len(ord)
           a == p.version
           b == p.vEnd
           t == RangeLVs(<<a, b>>)
           r == ord \o t
<1>1. /\ n \in Nat /\ m \in Nat /\ NextLV(g) = n + m /\ Versions(d) \subseteq Versions(g)
      /\ \A i \in 1 .. m : n + (i - 1) \in Versions(g)
  BY ReplayedFrom DEF Replays
<1>2. /\ a \in Nat /\ b \in Nat /\ a < b /\ b <= NextLV(s) /\ Extent(p) = a .. (b - 1)
      /\ Versions(s) = 0 .. (NextLV(s) - 1)
  BY DEF PartFits, Part, Extent, Versions
<1>3. /\ Sound(new) /\ NextLV(new) = NextLV(g) + (b - a)
      /\ \A v \in Versions(g) : EventAt(new, v) = EventAt(g, v)
      /\ \A u \in a .. (b - 1) : EventAt(new, NextLV(g) + (u - a)) = EventAt(s, u)
  BY <1>2 DEF Extended
<1>4. /\ ord \in Seq(Versions(s))
      /\ \A v \in Versions(d) : EventAt(g, v) = EventAt(d, v)
      /\ \A i \in 1 .. m : EventAt(g, n + (i - 1)) = EventAt(s, ord[i])
  BY DEF Replays
<1>5. t = [i \in 1 .. (b - a) |-> a + i - 1]
  BY DEF RangeLVs
<1> HIDE DEF n, m, a, b, t
<1>6. \A i \in 1 .. (b - a) : a + i - 1 \in Versions(s) /\ a + i - 1 \in a .. (b - 1)
  BY <1>2
<1>7. t \in Seq(Versions(s)) /\ Len(t) = b - a /\ \A i \in 1 .. (b - a) : t[i] = a + i - 1
  <2>1. b - a \in Nat
    BY <1>2
  <2>2. t \in [1 .. (b - a) -> Versions(s)]
    BY <1>5, <1>6
  <2> QED
    BY <1>5, <2>1, <2>2
<1>8. /\ r \in Seq(Versions(s)) /\ Len(r) = m + (b - a)
      /\ \A i \in 1 .. m : r[i] = ord[i]
      /\ \A i \in (m + 1) .. (m + (b - a)) : r[i] = t[i - m]
  <2> DEFINE c == b - a
             D == Versions(s)
  <2>1. c \in Nat /\ m \in Nat /\ Len(ord) = m /\ Len(t) = c /\ ord \in Seq(D) /\ t \in Seq(D)
    BY <1>1, <1>2, <1>4, <1>7 DEF m
  <2> HIDE DEF c, D, m
  <2>2. /\ r \in Seq(D) /\ Len(r) = m + c
        /\ \A i \in 1 .. (m + c) : r[i] = IF i <= m THEN ord[i] ELSE t[i - m]
    BY <2>1, ConcatProperties
  <2> HIDE DEF r
  <2>3. /\ \A i \in 1 .. m : i \in 1 .. (m + c) /\ i <= m
        /\ \A i \in (m + 1) .. (m + c) : i \in 1 .. (m + c) /\ ~ (i <= m)
    BY <2>1
  <2> QED
    BY <2>2, <2>3 DEF c, D
<1> HIDE DEF r
<1>9. NextLV(new) = n + Len(r)
  BY <1>1, <1>2, <1>3, <1>8
<1>10. \A v \in Versions(d) : EventAt(new, v) = EventAt(d, v)
  BY <1>1, <1>3, <1>4
<1>11. ASSUME NEW i \in 1 .. Len(r) PROVE EventAt(new, n + (i - 1)) = EventAt(s, r[i])
  <2>1. CASE i \in 1 .. m
    BY <1>1, <1>3, <1>4, <1>8, <2>1
  <2>2. CASE i \notin 1 .. m
    <3> DEFINE j == i - m
    <3>1. i \in (m + 1) .. (m + (b - a)) /\ j \in 1 .. (b - a) /\ a + j - 1 \in a .. (b - 1)
          /\ (n + m) + ((a + j - 1) - a) = n + (i - 1)
      <4> DEFINE l == Len(r)
      <4>1. l = m + (b - a) /\ i \in 1 .. l
        BY <1>8
      <4> HIDE DEF l
      <4>2. i \in Nat /\ m < i /\ i <= m + (b - a)
        BY <1>1, <1>2, <2>2, <4>1
      <4> QED
        BY <1>1, <1>2, <4>2
    <3>2. r[i] = a + j - 1
      BY <1>7, <1>8, <3>1
    <3>3. EventAt(new, NextLV(g) + ((a + j - 1) - a)) = EventAt(s, a + j - 1)
      BY <1>3, <3>1
    <3> HIDE DEF j
    <3> QED
      BY <1>1, <3>1, <3>2, <3>3
  <2> QED
    BY <2>1, <2>2
<1>12. Replays(d, s, r, new)
  BY <1>3, <1>8, <1>9, <1>10, <1>11 DEF Replays, n
<1> QED
  BY <1>12 DEF r, t, a, b

\* The versions of the first parts.
FirstParts(parts, k) == UNION {Extent(parts[i]) : i \in 1 .. k}

\* The graph has the first parts, and nothing was thrown.
Merges(d, s, parts, k, st) ==
  /\ st \in [cg : CG, thrown : BOOLEAN]
  /\ ~ st.thrown
  /\ \E ord : Replays(d, s, ord, st.cg) /\ Rising(ord, FirstParts(parts, k))

\* What may be sent: unknown events that have their parents among them or known.
Sendable(d, s, R) ==
  /\ R \subseteq Versions(s) \ KnownTo(d, s)
  /\ \A u \in R : ParentsOf(s, u) \subseteq R \cup KnownTo(d, s)

\* One part merged is one more part replayed.
LEMMA MergeStep ==
  ASSUME NEW d, d \in CG, NEW s, Sound(s), Agree(d, s), NEW parts, NEW R, Slices(s, parts, R), Sendable(d, s, R),
         NEW k \in 1 .. Len(parts), NEW st, Merges(d, s, parts, k - 1, st)
  PROVE  Merges(d, s, parts, k, MergePart(st, SerializePart(s, parts[k])))
<1> DEFINE p   == parts[k]
           g   == st.cg
           x   == SerializePart(s, p)
           new == AddRaw(g, <<x.agent, x.seq>>, x.len, x.parents)
           S   == FirstParts(parts, k - 1)
<1>1. /\ Len(parts) \in Nat /\ DOMAIN parts = 1 .. Len(parts) /\ PartFits(s, p)
      /\ \A i \in 1 .. Len(parts) : PartFits(s, parts[i])
      /\ \A i, j \in 1 .. Len(parts) : i < j => parts[i].vEnd <= parts[j].version
      /\ \A u : u \in R <=> \E i \in 1 .. Len(parts) : u \in Extent(parts[i])
  BY DEF Slices
<1>2. \A i \in 1 .. Len(parts) : parts[i].version \in Nat /\ parts[i].vEnd \in Nat /\ parts[i].version < parts[i].vEnd
  BY <1>1 DEF PartFits, Part
<1>3. GraphInv(s) /\ IdInv(s)
  BY DEF Sound, IdInv
<1>4. PICK ord : Replays(d, s, ord, g) /\ Rising(ord, S)
  BY DEF Merges
<1>5. Sound(g) /\ ~ st.thrown /\ st = [cg |-> g, thrown |-> st.thrown]
  BY <1>4 DEF Replays, Merges
<1>6. Agree(g, s) /\ \A u \in Versions(s) : u \in KnownTo(g, s) <=> u \in KnownTo(d, s) \/ u \in S
  <2>1. /\ Agree(g, s)
        /\ \A u \in Versions(s) : u \in KnownTo(g, s) <=> u \in KnownTo(d, s) \/ \E i \in 1 .. Len(ord) : u = ord[i]
    BY <1>4, ReplayKnows
  <2>2. \A u : u \in S <=> \E i \in 1 .. Len(ord) : u = ord[i]
    <3>1. DOMAIN ord = 1 .. Len(ord)
      BY <1>4 DEF Rising
    <3> QED
      BY <1>4, <3>1 DEF Rising
  <2> QED
    BY <2>1, <2>2
<1>7. \A u : u \in S <=> \E i \in 1 .. (k - 1) : u \in Extent(parts[i])
  BY DEF FirstParts
<1>8. \A a \in S, b \in Extent(p) : a < b /\ a \in Nat /\ b \in Nat
  <2> SUFFICES ASSUME NEW i \in 1 .. (k - 1), NEW a \in Extent(parts[i]), NEW b \in Extent(p)
               PROVE  a < b /\ a \in Nat /\ b \in Nat
    BY <1>7
  <2>1. i \in 1 .. Len(parts) /\ i < k
    BY <1>1
  <2>2. /\ parts[i].vEnd <= p.version /\ parts[i].version \in Nat /\ parts[i].vEnd \in Nat
        /\ p.version \in Nat /\ p.vEnd \in Nat
    BY <1>1, <1>2, <2>1
  <2>3. a \in parts[i].version .. (parts[i].vEnd - 1) /\ b \in p.version .. (p.vEnd - 1)
    BY DEF Extent
  <2> QED
    BY <2>2, <2>3
<1>9. Extent(p) \subseteq R /\ R \subseteq Versions(s) /\ R \cap KnownTo(d, s) = {}
  BY <1>1 DEF Sendable
<1>10. Extent(p) \cap KnownTo(g, s) = {}
  <2> SUFFICES ASSUME NEW u \in Extent(p), u \in KnownTo(g, s) PROVE FALSE
    OBVIOUS
  <2>1. u \in S
    BY <1>6, <1>9
  <2> QED
    BY <1>8, <2>1
<1>11. p.parents \subseteq KnownTo(g, s)
  <2> SUFFICES ASSUME NEW q \in p.parents PROVE q \in KnownTo(g, s)
    OBVIOUS
  <2>1. p.version \in Extent(p) /\ p.parents = ParentsOf(s, p.version)
    BY <1>1, <1>2 DEF PartFits, Extent
  <2>2. q \in Versions(s) /\ q < p.version
    BY <1>3, <1>9, <2>1, ParentsAreVersions
  <2>3. q \in R \/ q \in KnownTo(d, s)
    BY <1>9, <2>1 DEF Sendable
  <2>4. ASSUME q \in R PROVE q \in S
    <3>1. PICK i \in 1 .. Len(parts) : q \in Extent(parts[i])
      BY <1>1, <2>4
    <3>2. /\ parts[i].version <= q /\ parts[i].version \in Nat /\ q \in Nat
          /\ p.version \in Nat /\ p.vEnd \in Nat /\ p.version < p.vEnd
      BY <1>2, <3>1 DEF Extent
    <3>3. i # k
      BY <2>2, <3>2
    <3>4. ~ (k < i)
      <4> SUFFICES ASSUME k < i PROVE FALSE
        OBVIOUS
      <4>1. p.vEnd <= parts[i].version
        BY <1>1
      <4> QED
        BY <2>2, <3>2, <4>1
    <3>5. i \in 1 .. (k - 1)
      BY <1>1, <3>3, <3>4
    <3> QED
      BY <1>7, <3>1, <3>5
  <2> QED
    BY <1>6, <2>2, <2>3, <2>4
<1>12. KnowsAll(g, x.parents) /\ Extended(g, s, p, new)
  BY <1>1, <1>5, <1>6, <1>10, <1>11, PartAdds
<1>13. MergePart(st, x) = [cg |-> new, thrown |-> st.thrown]
  BY <1>5, <1>12 DEF MergePart
<1>14. Replays(d, s, ord \o RangeLVs(<<p.version, p.vEnd>>), new)
  <2>1. NextLV(s) \in Nat
    BY <1>3, NextLVType DEF GraphInv
  <2> HIDE DEF p, new, g
  <2> QED
    BY <1>1, <1>4, <1>12, <2>1, PartReplays
<1>15. Rising(ord \o RangeLVs(<<p.version, p.vEnd>>), S \cup Extent(p))
  <2> DEFINE rg == <<p.version, p.vEnd>>
  <2>1. rg[1] \in Nat /\ rg[2] \in Nat /\ rg[1] <= rg[2] /\ Range2Set(rg) = Extent(p)
    BY <1>2 DEF Range2Set, Extent
  <2> HIDE DEF rg
  <2>2. Rising(RangeLVs(rg), Extent(p))
    BY <2>1, RangeRises
  <2>3. Rising(ord \o RangeLVs(rg), S \cup Extent(p))
    BY <1>4, <1>8, <2>2, RisingJoins
  <2> QED
    BY <2>3 DEF rg
<1>16. FirstParts(parts, k) = S \cup Extent(p)
  <2>1. \A i : i \in 1 .. k <=> i \in 1 .. (k - 1) \/ i = k
    BY <1>1
  <2>2. \A u : u \in FirstParts(parts, k) <=> \E i \in 1 .. k : u \in Extent(parts[i])
    BY DEF FirstParts
  <2>3. \A u : u \in FirstParts(parts, k) <=> u \in S \/ u \in Extent(p)
    BY <1>7, <2>1, <2>2, Zenon
  <2> HIDE DEF S, p
  <2> QED
    BY <2>3
<1>17. new \in CG
  BY <1>12 DEF Extended, Sound, IdInv, GraphInv
<1> HIDE DEF new, S
<1>18. Merges(d, s, parts, k, [cg |-> new, thrown |-> st.thrown])
  <2> DEFINE res == [cg |-> new, thrown |-> st.thrown]
  <2>1. res \in [cg : CG, thrown : BOOLEAN] /\ ~ res.thrown /\ res.cg = new
    BY <1>5, <1>17 DEF Merges
  <2>2. Rising(ord \o RangeLVs(<<p.version, p.vEnd>>), FirstParts(parts, k))
    BY <1>15, <1>16
  <2> HIDE DEF res
  <2>3. Merges(d, s, parts, k, res)
    BY <1>14, <2>1, <2>2 DEF Merges
  <2> QED
    BY <2>3 DEF res
<1> QED
  BY <1>13, <1>18

\* All the parts, one after the other.
LEMMA MergeReplays ==
  ASSUME NEW d, Sound(d), NEW s, Sound(s), Agree(d, s), NEW parts, NEW R, Slices(s, parts, R), Sendable(d, s, R),
         NEW data, Len(data) = Len(parts), \A i \in 1 .. Len(parts) : data[i] = SerializePart(s, parts[i])
  PROVE  Merges(d, s, parts, Len(parts), MergePartialVersions(d, data))
<1> DEFINE n         == Len(parts)
           first     == [cg |-> d, thrown |-> FALSE]
           T         == [cg : CG, thrown : BOOLEAN]
           Good(k, x) == Merges(d, s, parts, k, x)
           Take(k, x) == MergePart(x, data[k])
           step      == [k \in 1 .. n |-> [x \in T |-> IF Good(k - 1, x) THEN Take(k, x) ELSE x]]
           Loop(f)   == f = [k \in 0 .. n |-> IF k = 0 THEN first ELSE Take(k, f[k - 1])]
           upTo      == CHOOSE f : Loop(f)
<1>1. n \in Nat /\ d \in CG
  BY DEF Slices, Sound, IdInv, GraphInv
<1>2. MergePartialVersions(d, data) = upTo[n]
  <2>1. upTo = CHOOSE f : f = [k \in 0 .. Len(data) |->
                   IF k = 0 THEN [cg |-> d, thrown |-> FALSE] ELSE MergePart(f[k - 1], data[k])]
    OBVIOUS
  <2> HIDE DEF upTo
  <2> QED
    BY <2>1 DEF MergePartialVersions
<1>3. \A k \in 1 .. n, x \in T : Good(k - 1, x) => Good(k, Take(k, x)) /\ Take(k, x) \in T
  <2> SUFFICES ASSUME NEW k \in 1 .. n, NEW x \in T, Good(k - 1, x) PROVE Good(k, Take(k, x)) /\ Take(k, x) \in T
    OBVIOUS
  <2>1. Merges(d, s, parts, k, MergePart(x, SerializePart(s, parts[k])))
    BY <1>1, MergeStep
  <2>2. Good(k, Take(k, x))
    BY <2>1
  <2>3. Take(k, x) \in T
    BY <2>2 DEF Merges
  <2> QED
    BY <2>2, <2>3
<1>4. Good(0, first) /\ first \in T
  <2>1. first \in T /\ ~ first.thrown /\ first.cg = d
    BY <1>1
  <2>2. Replays(d, s, <<>>, d)
    <3>1. NextLV(d) \in Nat
      BY <1>1, NextLVType
    <3> QED
      BY <3>1 DEF Replays
  <2>3. FirstParts(parts, 0) = {}
    BY DEF FirstParts
  <2>4. Rising(<<>>, {})
    BY DEF Rising
  <2>5. Rising(<<>>, FirstParts(parts, 0))
    BY <2>3, <2>4, Zenon
  <2> HIDE DEF first
  <2> QED
    BY <2>1, <2>2, <2>5 DEF Merges
<1>5. \A k \in 1 .. n, x \in T : step[k][x] = IF Good(k - 1, x) THEN Take(k, x) ELSE x
  <2> HIDE DEF T, Take, Good
  <2> QED
    OBVIOUS
<1> HIDE DEF T, step, Take, Good, first, n
<1>6. StepsWithin(step, n, T)
  BY <1>3, <1>5 DEF StepsWithin
<1>7. PICK f : Passed(f, first, step, n, T)
  BY <1>1, <1>4, <1>6, StepsExist
<1>8. /\ \A k \in 1 .. n : k - 1 \in 0 .. n /\ k # 0 /\ k \in 0 .. n
      /\ \A k \in 0 .. n : k = 0 \/ k \in 1 .. n
      /\ 0 \in 0 .. n /\ n \in 0 .. n
  BY <1>1
<1>9. \A k \in 0 .. n : Good(k, f[k]) /\ f[k] \in T
  <2> DEFINE S == {k \in 0 .. n : Good(k, f[k])}
  <2>1. 0 \in S
    BY <1>4, <1>7, <1>8 DEF Passed
  <2>2. \A k \in 0 .. n : f[k] \in T
    BY <1>7 DEF Passed
  <2>3. ASSUME NEW k \in 1 .. n, k - 1 \in S PROVE k \in S
    <3>1. f[k] = step[k][f[k - 1]] /\ f[k - 1] \in T /\ Good(k - 1, f[k - 1])
      BY <1>7, <1>8, <2>2, <2>3 DEF Passed
    <3>2. f[k] = Take(k, f[k - 1])
      BY <1>5, <3>1
    <3> QED
      BY <1>3, <1>8, <3>1, <3>2
  <2> HIDE DEF S
  <2>4. \A k \in 0 .. n : k \in S
    BY <1>1, <2>1, <2>3, InductionTo
  <2> QED
    BY <2>2, <2>4 DEF S
<1>10. Loop(f)
  <2>1. \A k \in 0 .. n : f[k] = IF k = 0 THEN first ELSE Take(k, f[k - 1])
    <3> SUFFICES ASSUME NEW k \in 0 .. n, k # 0 PROVE f[k] = Take(k, f[k - 1])
      BY <1>7 DEF Passed
    <3>1. k \in 1 .. n /\ k - 1 \in 0 .. n
      BY <1>8
    <3>2. f[k] = step[k][f[k - 1]] /\ f[k - 1] \in T /\ Good(k - 1, f[k - 1])
      BY <1>7, <1>9, <3>1 DEF Passed
    <3> QED
      BY <1>5, <3>1, <3>2
  <2> QED
    BY <1>7, <2>1 DEF Passed
<1>11. Loop(upTo)
  BY <1>10
<1> HIDE DEF upTo
<1>12. upTo[0] = first /\ \A k \in 1 .. n : upTo[k] = Take(k, upTo[k - 1])
  <2>1. \A k \in 0 .. n : upTo[k] = IF k = 0 THEN first ELSE Take(k, upTo[k - 1])
    BY <1>11
  <2> QED
    BY <1>8, <2>1
<1>13. \A k \in 0 .. n : Good(k, upTo[k]) /\ upTo[k] \in T
  <2> DEFINE S == {k \in 0 .. n : Good(k, upTo[k]) /\ upTo[k] \in T}
  <2>1. 0 \in S
    BY <1>4, <1>8, <1>12
  <2>2. ASSUME NEW k \in 1 .. n, k - 1 \in S PROVE k \in S
    BY <1>3, <1>8, <1>12, <2>2
  <2> HIDE DEF S
  <2>3. \A k \in 0 .. n : k \in S
    BY <1>1, <2>1, <2>2, InductionTo
  <2> QED
    BY <2>3 DEF S
<1>14. Good(n, upTo[n])
  BY <1>8, <1>13
<1> QED
  BY <1>2, <1>14 DEF Good, n

\* Parts of a set, and behind them those of a higher one.
LEMMA SlicesJoin ==
  ASSUME NEW g, NEW s, NEW A, Slices(g, s, A), NEW t, NEW B, Slices(g, t, B), \A a \in A, b \in B : a < b
  PROVE  Slices(g, s \o t, A \cup B)
<1> DEFINE m == Len(s)
           n == Len(t)
           r == s \o t
           T == Part
<1>1. /\ s \in Seq(T) /\ t \in Seq(T) /\ m \in Nat /\ n \in Nat /\ DOMAIN s = 1 .. m /\ DOMAIN t = 1 .. n
  BY DEF Slices
<1>2. /\ \A i \in 1 .. m : PartFits(g, s[i])
      /\ \A i, j \in 1 .. m : i < j => s[i].vEnd <= s[j].version
      /\ \A u : u \in A <=> \E i \in 1 .. m : u \in Extent(s[i])
      /\ \A i \in 1 .. n : PartFits(g, t[i])
      /\ \A i, j \in 1 .. n : i < j => t[i].vEnd <= t[j].version
      /\ \A u : u \in B <=> \E i \in 1 .. n : u \in Extent(t[i])
  BY <1>1 DEF Slices
<1> HIDE DEF T
<1>3. /\ r \in Seq(T) /\ Len(r) = m + n /\ DOMAIN r = 1 .. (m + n)
      /\ \A i \in 1 .. m : r[i] = s[i]
      /\ \A i \in (m + 1) .. (m + n) : r[i] = t[i - m]
  BY <1>1, ConcatProperties
<1> HIDE DEF m, n, r
<1>4. \A i \in 1 .. (m + n) : i \in 1 .. m \/ (i \in (m + 1) .. (m + n) /\ i - m \in 1 .. n /\ ~ (i \in 1 .. m))
  BY <1>1
<1>5. /\ \A i \in 1 .. m : i \in 1 .. (m + n)
      /\ \A i \in 1 .. n : m + i \in 1 .. (m + n) /\ m + i \in (m + 1) .. (m + n) /\ (m + i) - m = i
  BY <1>1
<1>6. \A i \in 1 .. (m + n) : PartFits(g, r[i])
  BY <1>2, <1>3, <1>4
<1>7. \A p : PartFits(g, p) => /\ p.version \in Nat /\ p.vEnd \in Nat /\ p.version < p.vEnd
                               /\ Extent(p) = p.version .. (p.vEnd - 1)
  BY DEF PartFits, Part, Extent
<1>8. ASSUME NEW i \in 1 .. m, NEW j \in 1 .. n PROVE s[i].vEnd <= t[j].version
  <2>1. /\ s[i].version \in Nat /\ s[i].vEnd \in Nat /\ s[i].version < s[i].vEnd
        /\ t[j].version \in Nat /\ t[j].vEnd \in Nat /\ t[j].version < t[j].vEnd
    BY <1>2, <1>7
  <2>2. s[i].vEnd - 1 \in Extent(s[i]) /\ t[j].version \in Extent(t[j])
    BY <2>1 DEF Extent
  <2>3. s[i].vEnd - 1 \in A /\ t[j].version \in B
    BY <1>2, <2>2
  <2>4. s[i].vEnd - 1 < t[j].version
    BY <2>3
  <2> QED
    BY <2>1, <2>4
<1>9. ASSUME NEW i \in 1 .. (m + n), NEW j \in 1 .. (m + n), i < j PROVE r[i].vEnd <= r[j].version
  <2>1. CASE j \in 1 .. m
    <3>1. i \in 1 .. m
      BY <1>1, <1>9, <2>1
    <3> QED
      BY <1>2, <1>3, <1>9, <2>1, <3>1
  <2>2. CASE i \in 1 .. m /\ j \in (m + 1) .. (m + n) /\ j - m \in 1 .. n
    BY <1>3, <1>8, <2>2
  <2>3. CASE i \in (m + 1) .. (m + n)
    <3>1. j \in (m + 1) .. (m + n) /\ i - m \in 1 .. n /\ j - m \in 1 .. n /\ i - m < j - m
      BY <1>1, <1>9, <2>3
    <3>2. t[i - m].vEnd <= t[j - m].version
      BY <1>2, <3>1
    <3> QED
      BY <1>3, <2>3, <3>1, <3>2
  <2> QED
    BY <1>4, <2>1, <2>2, <2>3
<1>10. \A u : u \in A \cup B <=> \E i \in 1 .. (m + n) : u \in Extent(r[i])
  <2> SUFFICES ASSUME NEW u PROVE (u \in A \/ u \in B) <=> \E i \in 1 .. (m + n) : u \in Extent(r[i])
    OBVIOUS
  <2>1. ASSUME u \in A PROVE \E i \in 1 .. (m + n) : u \in Extent(r[i])
    <3>1. PICK i \in 1 .. m : u \in Extent(s[i])
      BY <1>2, <2>1
    <3> QED
      BY <1>3, <1>5, <3>1
  <2>2. ASSUME u \in B PROVE \E i \in 1 .. (m + n) : u \in Extent(r[i])
    <3>1. PICK i \in 1 .. n : u \in Extent(t[i])
      BY <1>2, <2>2
    <3>2. r[m + i] = t[i] /\ m + i \in 1 .. (m + n)
      BY <1>3, <1>5
    <3> QED
      BY <3>1, <3>2
  <2>3. ASSUME NEW i \in 1 .. (m + n), u \in Extent(r[i]) PROVE u \in A \/ u \in B
    BY <1>2, <1>3, <1>4, <2>3
  <2> QED
    BY <2>1, <2>2, <2>3
<1> QED
  BY <1>3, <1>6, <1>9, <1>10 DEF Slices, r, T

\* What is sent for the parts.
Sent(s, parts) == [i \in DOMAIN parts |-> SerializePart(s, parts[i])]

\* What is sent joins up with what the receiver has.
LEMMA SentJoins ==
  ASSUME NEW s, NEW x \in Seq(Part), NEW y \in Seq(Part)
  PROVE  /\ Sent(s, x) \in Seq({SerializePart(s, p) : p \in Part})
         /\ Len(Sent(s, x)) = Len(x) /\ \A i \in 1 .. Len(x) : Sent(s, x)[i] = SerializePart(s, x[i])
         /\ Sent(s, x \o y) = Sent(s, x) \o Sent(s, y)
<1> DEFINE D    == {SerializePart(s, p) : p \in Part}
           T    == Part
           F(p) == SerializePart(s, p)
<1>1. \A p \in T : F(p) \in D
  OBVIOUS
<1>2. \A z \in Seq(T) : Sent(s, z) = [i \in DOMAIN z |-> F(z[i])]
  BY DEF Sent
<1> HIDE DEF T, F, D
<1>3. \A z \in Seq(T) : /\ Sent(s, z) \in Seq(D) /\ Len(Sent(s, z)) = Len(z)
                        /\ \A i \in 1 .. Len(z) : Sent(s, z)[i] = F(z[i])
  <2> SUFFICES ASSUME NEW z \in Seq(T)
               PROVE  /\ Sent(s, z) \in Seq(D) /\ Len(Sent(s, z)) = Len(z)
                      /\ \A i \in 1 .. Len(z) : Sent(s, z)[i] = F(z[i])
    OBVIOUS
  <2>1. Len(z) \in Nat /\ DOMAIN z = 1 .. Len(z) /\ \A i \in 1 .. Len(z) : z[i] \in T
    OBVIOUS
  <2>2. Sent(s, z) = [i \in 1 .. Len(z) |-> F(z[i])]
    BY <1>2, <2>1
  <2>3. Sent(s, z) \in [1 .. Len(z) -> D]
    BY <1>1, <2>1, <2>2
  <2> QED
    BY <2>1, <2>2, <2>3
<1>4. x \in Seq(T) /\ y \in Seq(T) /\ x \o y \in Seq(T)
  BY DEF T
<1>5. Sent(s, x \o y) = Sent(s, x) \o Sent(s, y)
  <2> DEFINE m == Len(x)
             n == Len(y)
             r == x \o y
             a == Sent(s, x)
             b == Sent(s, y)
             c == Sent(s, r)
  <2>1. /\ m \in Nat /\ n \in Nat /\ r \in Seq(T) /\ Len(r) = m + n
        /\ \A i \in 1 .. (m + n) : r[i] = IF i <= m THEN x[i] ELSE y[i - m]
    BY <1>4, ConcatProperties
  <2>2. /\ a \in Seq(D) /\ Len(a) = m /\ \A i \in 1 .. m : a[i] = F(x[i])
        /\ b \in Seq(D) /\ Len(b) = n /\ \A i \in 1 .. n : b[i] = F(y[i])
    BY <1>3, <1>4
  <2>3. c \in Seq(D) /\ Len(c) = m + n /\ \A i \in 1 .. (m + n) : c[i] = F(r[i])
    BY <1>3, <2>1
  <2> HIDE DEF m, n, r, a, b, c
  <2>4. /\ a \o b \in Seq(D) /\ Len(a \o b) = m + n
        /\ \A i \in 1 .. (m + n) : (a \o b)[i] = IF i <= m THEN a[i] ELSE b[i - m]
    BY <2>1, <2>2, ConcatProperties
  <2>5. \A i \in 1 .. (m + n) : (i <= m => i \in 1 .. m) /\ (~ (i <= m) => i - m \in 1 .. n)
    BY <2>1
  <2>6. ASSUME NEW i \in 1 .. (m + n) PROVE c[i] = (a \o b)[i]
    <3>1. c[i] = F(r[i]) /\ r[i] = (IF i <= m THEN x[i] ELSE y[i - m])
          /\ (a \o b)[i] = IF i <= m THEN a[i] ELSE b[i - m]
      BY <2>1, <2>3, <2>4
    <3>2. CASE i <= m
      <4>1. i \in 1 .. m
        BY <2>5, <3>2
      <4>2. a[i] = F(x[i])
        BY <2>2, <4>1
      <4>3. r[i] = x[i] /\ (a \o b)[i] = a[i]
        BY <3>1, <3>2
      <4> QED
        BY <3>1, <4>2, <4>3
    <3>3. CASE ~ (i <= m)
      <4>1. i - m \in 1 .. n
        BY <2>5, <3>3
      <4>2. b[i - m] = F(y[i - m])
        BY <2>2, <4>1
      <4>3. r[i] = y[i - m] /\ (a \o b)[i] = b[i - m]
        BY <3>1, <3>3
      <4> QED
        BY <3>1, <4>2, <4>3
    <3> QED
      BY <3>2, <3>3
  <2>7. c = a \o b
    BY <2>1, <2>3, <2>4, <2>6
  <2> QED
    BY <2>7 DEF a, b, c, r
<1> QED
  BY <1>3, <1>4, <1>5 DEF D, F

\* What is sent for ranges are their parts.
LEMMA DiffIsParts ==
  ASSUME NEW s, GraphInv(s), NEW rs \in Seq(Nat \X Nat), Canonical(rs), RangesToSet(rs) \subseteq Versions(s)
  PROVE  \E parts : Slices(s, parts, RangesToSet(rs)) /\ SerializeDiff(s, rs) = Sent(s, parts)
<1> DEFINE n       == Len(rs)
           D       == {SerializePart(s, p) : p \in Part}
           T       == Seq(D)
           it(k)   == IterVersionsBetween(s, rs[k][1], rs[k][2])
           Loop(f) == f = [k \in 0 .. n |-> IF k = 0 THEN <<>> ELSE f[k - 1] \o SerializeRange(s, rs[k])]
           upTo    == CHOOSE f : Loop(f)
           step    == [k \in 1 .. n |-> [list \in T |-> list \o SerializeRange(s, rs[k])]]
<1>1. n \in Nat /\ FirstRanges(rs, 0) = {} /\ FirstRanges(rs, n) = RangesToSet(rs) /\ NextLV(s) \in Nat
  BY RangesAscend, NextLVType DEF GraphInv
<1>2. SerializeDiff(s, rs) = upTo[n]
  BY DEF SerializeDiff
<1>3. \A k \in 1 .. n : /\ rs[k][1] \in Nat /\ rs[k][2] \in Nat /\ rs[k][1] < rs[k][2]
                        /\ FirstRanges(rs, k) = FirstRanges(rs, k - 1) \cup Range2Set(rs[k])
                        /\ \A a \in FirstRanges(rs, k - 1), b \in Range2Set(rs[k]) : a < b
  BY RangesAscend
<1>4. \A k \in 1 .. n : Range2Set(rs[k]) \subseteq Versions(s)
  <2>1. DOMAIN rs = 1 .. n
    OBVIOUS
  <2> QED
    BY <2>1 DEF RangesToSet
<1>5. \A k \in 1 .. n : Slices(s, it(k), Range2Set(rs[k])) /\ it(k) \in Seq(Part)
  <2> SUFFICES ASSUME NEW k \in 1 .. n PROVE Slices(s, it(k), Range2Set(rs[k])) /\ it(k) \in Seq(Part)
    OBVIOUS
  <2>1. rs[k][1] \in Nat /\ rs[k][2] \in Nat /\ rs[k][1] < rs[k][2] /\ Range2Set(rs[k]) = rs[k][1] .. (rs[k][2] - 1)
    BY <1>3 DEF Range2Set
  <2>2. rs[k][2] <= NextLV(s)
    <3>1. rs[k][2] - 1 \in Range2Set(rs[k])
      BY <2>1
    <3>2. rs[k][2] - 1 \in 0 .. (NextLV(s) - 1)
      BY <1>4, <3>1 DEF Versions
    <3> QED
      BY <1>1, <2>1, <3>2
  <2>3. Slices(s, it(k), Range2Set(rs[k]))
    BY <2>1, <2>2, SlicesOfRange
  <2> QED
    BY <2>3 DEF Slices
<1>6. \A k \in 1 .. n : SerializeRange(s, rs[k]) = Sent(s, it(k))
  BY DEF SerializeRange, Sent
<1>7. <<>> \in T /\ StepsWithin(step, n, T) /\ \A k \in 1 .. n, list \in T : step[k][list] = list \o SerializeRange(s, rs[k])
  <2>1. \A k \in 1 .. n : SerializeRange(s, rs[k]) \in T
    BY <1>5, <1>6, SentJoins, ZenonT(60)
  <2>2. \A k \in 1 .. n, list \in T : step[k][list] = list \o SerializeRange(s, rs[k])
    OBVIOUS
  <2>3. \A k \in 1 .. n, list \in T : list \o SerializeRange(s, rs[k]) \in T
    BY <2>1
  <2>4. <<>> \in T
    OBVIOUS
  <2> HIDE DEF step, T
  <2> QED
    BY <2>2, <2>3, <2>4 DEF StepsWithin
<1> HIDE DEF n, T, step, it, D
<1>8. PICK f : Passed(f, <<>>, step, n, T)
  BY <1>1, <1>7, StepsExist
<1>9. \A k \in 1 .. n : k - 1 \in 0 .. n /\ k # 0 /\ k \in 0 .. n
  BY <1>1
<1>10. Loop(f)
  <2>1. \A k \in 0 .. n : f[k] = IF k = 0 THEN <<>> ELSE f[k - 1] \o SerializeRange(s, rs[k])
    <3> SUFFICES ASSUME NEW k \in 0 .. n, k # 0 PROVE f[k] = f[k - 1] \o SerializeRange(s, rs[k])
      BY <1>8 DEF Passed
    <3>1. k \in 1 .. n /\ k - 1 \in 0 .. n
      BY <1>1
    <3> QED
      BY <1>7, <1>8, <3>1 DEF Passed
  <2> QED
    BY <1>8, <2>1 DEF Passed
<1>11. Loop(upTo)
  BY <1>10
<1> HIDE DEF upTo
<1>12. upTo[0] = <<>> /\ \A k \in 1 .. n : upTo[k] = upTo[k - 1] \o SerializeRange(s, rs[k])
  <2>1. \A k \in 0 .. n : upTo[k] = IF k = 0 THEN <<>> ELSE upTo[k - 1] \o SerializeRange(s, rs[k])
    BY <1>11
  <2>2. 0 \in 0 .. n
    BY <1>1
  <2> QED
    BY <1>9, <2>1, <2>2
<1> DEFINE S == {k \in 0 .. n : \E parts : Slices(s, parts, FirstRanges(rs, k)) /\ upTo[k] = Sent(s, parts)}
<1>13. 0 \in S
  <2>1. Slices(s, <<>>, {}) /\ Sent(s, <<>>) = <<>>
    <3>1. Slices(s, <<>>, {})
      BY DEF Slices
    <3>2. Sent(s, <<>>) = <<>>
      BY DEF Sent
    <3> QED
      BY <3>1, <3>2
  <2>2. upTo[0] = <<>> /\ FirstRanges(rs, 0) = {} /\ 0 \in 0 .. n
    BY <1>1, <1>12
  <2>3. Slices(s, <<>>, FirstRanges(rs, 0)) /\ upTo[0] = Sent(s, <<>>)
    BY <2>1, <2>2, Zenon
  <2> QED
    BY <2>2, <2>3
<1>14. ASSUME NEW k \in 1 .. n, k - 1 \in S PROVE k \in S
  <2>1. PICK parts : Slices(s, parts, FirstRanges(rs, k - 1)) /\ upTo[k - 1] = Sent(s, parts)
    BY <1>14
  <2>2. Slices(s, parts \o it(k), FirstRanges(rs, k - 1) \cup Range2Set(rs[k]))
    BY <1>3, <1>5, <2>1, SlicesJoin
  <2>3. Sent(s, parts \o it(k)) = Sent(s, parts) \o Sent(s, it(k))
    <3>1. parts \in Seq(Part) /\ it(k) \in Seq(Part)
      BY <1>5, <2>1 DEF Slices
    <3> QED
      BY <3>1, SentJoins
  <2>4. upTo[k] = Sent(s, parts \o it(k))
    BY <1>6, <1>12, <2>1, <2>3
  <2>5. k \in 0 .. n /\ Slices(s, parts \o it(k), FirstRanges(rs, k))
    BY <1>3, <1>9, <2>2
  <2> QED
    BY <2>4, <2>5
<1> HIDE DEF S
<1>15. \A k \in 0 .. n : k \in S
  BY <1>1, <1>13, <1>14, InductionTo
<1>16. n \in S
  BY <1>1, <1>15
<1> QED
  BY <1>1, <1>2, <1>16 DEF S

\* Ranges of what may be sent are taken in full, in their order.
LEMMA RangesReplay ==
  ASSUME NEW d, Sound(d), NEW s, Sound(s), Agree(d, s),
         NEW rs \in Seq(Nat \X Nat), Canonical(rs), Sendable(d, s, RangesToSet(rs))
  PROVE  LET r == MergePartialVersions(d, SerializeDiff(s, rs))
         IN  /\ r.thrown = FALSE
             /\ Replays(d, s, RangesLVs(rs), r.cg)
             /\ Rising(RangesLVs(rs), RangesToSet(rs))
<1> DEFINE R == RangesToSet(rs)
           r == MergePartialVersions(d, SerializeDiff(s, rs))
<1>1. GraphInv(s) /\ R \subseteq Versions(s)
  BY DEF Sound, IdInv, Sendable
<1>2. PICK parts : Slices(s, parts, R) /\ SerializeDiff(s, rs) = Sent(s, parts)
  BY <1>1, DiffIsParts
<1>3. /\ parts \in Seq(Part) /\ Len(parts) \in Nat /\ DOMAIN parts = 1 .. Len(parts)
      /\ \A u : u \in R <=> \E i \in 1 .. Len(parts) : u \in Extent(parts[i])
  <2> DEFINE T == Part
  <2> HIDE DEF R
  <2>1. parts \in Seq(T) /\ \A u : u \in R <=> \E i \in DOMAIN parts : u \in Extent(parts[i])
    BY <1>2 DEF Slices
  <2> HIDE DEF T
  <2>2. Len(parts) \in Nat /\ DOMAIN parts = 1 .. Len(parts)
    BY <2>1
  <2>3. \A u : u \in R <=> \E i \in 1 .. Len(parts) : u \in Extent(parts[i])
    BY <2>1, <2>2
  <2> QED
    BY <2>1, <2>2, <2>3 DEF T
<1>4. Len(Sent(s, parts)) = Len(parts) /\ \A i \in 1 .. Len(parts) : Sent(s, parts)[i] = SerializePart(s, parts[i])
  BY <1>3, SentJoins
<1> HIDE DEF R
<1>5. Merges(d, s, parts, Len(parts), MergePartialVersions(d, Sent(s, parts)))
  BY <1>2, <1>4, MergeReplays DEF R
<1>6. Merges(d, s, parts, Len(parts), r)
  BY <1>2, <1>5
<1> HIDE DEF r
<1>7. PICK ord : Replays(d, s, ord, r.cg) /\ Rising(ord, FirstParts(parts, Len(parts)))
  BY <1>6 DEF Merges
<1>8. FirstParts(parts, Len(parts)) = R
  BY <1>3 DEF FirstParts
<1>9. Rising(RangesLVs(rs), R)
  BY RangesRise DEF R
<1>10. ord = RangesLVs(rs)
  BY <1>7, <1>8, <1>9, RisingIsUnique
<1>11. r.thrown = FALSE
  BY <1>6 DEF Merges
<1> QED
  BY <1>7, <1>9, <1>10, <1>11 DEF R, r

-----------------------------------------------------------------------------
(* What a summary tells.                                                   *)

\* The sequence numbers of a list of runs.
HasSeq(list, s) == \E i \in 1 .. Len(list) : list[i][1] <= s /\ s < list[i][2]

\* A list of runs none of which is empty.
Summary(list) ==
  /\ list \in Seq(Nat \X Nat)
  /\ \A i \in 1 .. Len(list) : list[i][1] < list[i][2]

\* A run goes behind the last one, or lengthens it.
LEMMA RunSummed ==
  ASSUME NEW list, Summary(list), NEW a \in Nat, NEW b \in Nat, a < b
  PROVE  LET new == TryRangeAppend(list, <<a, b>>)
         IN  Summary(new) /\ \A s \in Nat : HasSeq(new, s) <=> HasSeq(list, s) \/ (a <= s /\ s < b)
<1> DEFINE n   == Len(list)
           r   == <<a, b>>
           new == TryRangeAppend(list, r)
           P   == Nat \X Nat
<1>1. list \in Seq(P) /\ n \in Nat /\ r \in P /\ r[1] = a /\ r[2] = b /\ \A i \in 1 .. n : list[i][1] < list[i][2]
  BY DEF Summary
<1>2. \A p \in P : p[1] \in Nat /\ p[2] \in Nat
  OBVIOUS
<1>3. \A i \in 1 .. n : list[i] \in P
  BY <1>1
<1>4. CASE list # <<>> /\ LastOf(list)[2] = a
  <2> DEFINE c == list[n][1]
             q == <<c, b>>
  <2>1. n \in 1 .. n /\ n - 1 \in Nat
    <3> HIDE DEF P
    <3>1. n # 0
      BY <1>1, <1>4
    <3> QED
      BY <1>1, <3>1
  <2>2. c \in Nat /\ list[n][2] = a /\ c < a
    BY <1>1, <1>2, <1>3, <1>4, <2>1 DEF LastOf
  <2>3. q \in P /\ q[1] = c /\ q[2] = b /\ c < b
    BY <2>2
  <2>4. new = [list EXCEPT ![n] = q]
    BY <1>1, <1>4 DEF TryRangeAppend, LastOf
  <2> HIDE DEF q, r, P, c, new, n
  <2>5. new \in Seq(P) /\ Len(new) = n /\ new[n] = q /\ \A i \in 1 .. n : i # n => new[i] = list[i]
    <3>1. DOMAIN list = 1 .. n
      BY <1>1 DEF n
    <3> QED
      BY <1>1, <2>1, <2>3, <2>4, <3>1
  <2>6. \A i \in 1 .. n : new[i][1] < new[i][2]
    BY <1>1, <2>3, <2>5
  <2>7. ASSUME NEW s \in Nat PROVE HasSeq(new, s) <=> HasSeq(list, s) \/ (a <= s /\ s < b)
    <3>1. ASSUME NEW i \in 1 .. n, new[i][1] <= s, s < new[i][2] PROVE HasSeq(list, s) \/ (a <= s /\ s < b)
      <4>1. CASE i = n
        <5>1. c <= s /\ s < b
          BY <2>3, <2>5, <3>1, <4>1
        <5>2. CASE s < a
          <6>1. list[n][1] <= s /\ s < list[n][2]
            BY <2>2, <5>1, <5>2 DEF c
          <6> QED
            BY <2>1, <6>1 DEF HasSeq, n
        <5>3. CASE ~ (s < a)
          BY <5>1, <5>3
        <5> QED
          BY <5>2, <5>3
      <4>2. CASE i # n
        <5>1. list[i][1] <= s /\ s < list[i][2]
          BY <2>5, <3>1, <4>2
        <5> QED
          BY <5>1 DEF HasSeq, n
      <4> QED
        BY <4>1, <4>2
    <3>2. ASSUME NEW i \in 1 .. n, list[i][1] <= s, s < list[i][2] PROVE \E j \in 1 .. n : new[j][1] <= s /\ s < new[j][2]
      <4>1. CASE i = n
        <5>1. c <= s /\ s < a
          BY <2>2, <3>2, <4>1 DEF c
        <5>2. c <= s /\ s < b
          BY <5>1
        <5> QED
          BY <2>1, <2>3, <2>5, <5>2
      <4>2. CASE i # n
        BY <2>5, <3>2, <4>2
      <4> QED
        BY <4>1, <4>2
    <3>3. ASSUME a <= s, s < b PROVE \E j \in 1 .. n : new[j][1] <= s /\ s < new[j][2]
      <4>1. c <= s /\ s < b
        BY <2>2, <3>3
      <4> QED
        BY <2>1, <2>3, <2>5, <4>1
    <3>4. HasSeq(list, s) <=> \E i \in 1 .. n : list[i][1] <= s /\ s < list[i][2]
      BY DEF HasSeq, n
    <3>5. HasSeq(new, s) <=> \E i \in 1 .. n : new[i][1] <= s /\ s < new[i][2]
      BY <2>5 DEF HasSeq
    <3> QED
      BY <3>1, <3>2, <3>3, <3>4, <3>5
  <2> QED
    BY <2>5, <2>6, <2>7 DEF Summary, new, r, P
<1>5. CASE ~ (list # <<>> /\ LastOf(list)[2] = a)
  <2>1. new = Append(list, r)
    BY <1>1, <1>5 DEF TryRangeAppend
  <2> HIDE DEF r, P, new, n
  <2>2. new \in Seq(P) /\ Len(new) = n + 1 /\ new[n + 1] = r /\ \A i \in 1 .. n : new[i] = list[i]
    BY <1>1, <2>1 DEF n
  <2>3. \A i \in 1 .. (n + 1) : i \in 1 .. n \/ i = n + 1
    BY <1>1
  <2>4. n + 1 \in 1 .. (n + 1) /\ \A i \in 1 .. n : i \in 1 .. (n + 1)
    BY <1>1
  <2>5. \A i \in 1 .. (n + 1) : new[i][1] < new[i][2]
    BY <1>1, <2>2, <2>3
  <2>6. ASSUME NEW s \in Nat PROVE HasSeq(new, s) <=> HasSeq(list, s) \/ (a <= s /\ s < b)
    <3>4. HasSeq(list, s) <=> \E i \in 1 .. n : list[i][1] <= s /\ s < list[i][2]
      BY DEF HasSeq, n
    <3>5. HasSeq(new, s) <=> \E i \in 1 .. (n + 1) : new[i][1] <= s /\ s < new[i][2]
      BY <2>2 DEF HasSeq
    <3> QED
      BY <1>1, <2>2, <2>3, <2>4, <3>4, <3>5
  <2> QED
    BY <2>2, <2>5, <2>6 DEF Summary, new, r, P
<1> QED
  BY <1>4, <1>5

\* An agent's summary has the sequence numbers of its runs.
LEMMA SummaryOfRuns ==
  ASSUME NEW av \in Seq(ClientEntry), NoneEmpty(av)
  PROVE  /\ Summary(SummaryOf(av))
         /\ \A s \in Nat : HasSeq(SummaryOf(av), s) <=> \E k \in DOMAIN av : InRun(av, k, s)
<1> DEFINE n       == Len(av)
           T       == Seq(Nat \X Nat)
           Next(k, list) == TryRangeAppend(list, <<av[k].seq, av[k].seqEnd>>)
           Loop(f) == f = [k \in 0 .. n |-> IF k = 0 THEN <<>> ELSE Next(k, f[k - 1])]
           upTo    == CHOOSE f : Loop(f)
           step    == [k \in 1 .. n |-> [list \in T |-> Next(k, list)]]
<1>1. n \in Nat /\ DOMAIN av = 1 .. n
  OBVIOUS
<1>2. \A k \in 1 .. n : av[k].seq \in Nat /\ av[k].seqEnd \in Nat /\ av[k].seq < av[k].seqEnd
  BY <1>1, RunFields DEF NoneEmpty
<1>3. SummaryOf(av) = upTo[n]
  BY DEF SummaryOf
<1>4. \A k \in 1 .. n, list \in T : Next(k, list) \in T
  <2> SUFFICES ASSUME NEW k \in 1 .. n, NEW list \in T PROVE Next(k, list) \in T
    OBVIOUS
  <2> DEFINE P == Nat \X Nat
             a == av[k].seq
             b == av[k].seqEnd
             m == Len(list)
  <2>1. a \in Nat /\ b \in Nat /\ list \in Seq(P) /\ m \in Nat
    BY <1>2
  <2>2. Append(list, <<a, b>>) \in Seq(P)
    BY <2>1
  <2>3. ASSUME list # <<>> PROVE [list EXCEPT ![m] = <<list[m][1], b>>] \in Seq(P)
    <3>1. m \in 1 .. m
      BY <2>1, <2>3
    <3>2. list[m] \in P
      BY <2>1, <3>1
    <3>3. <<list[m][1], b>> \in P
      BY <2>1, <3>2
    <3> HIDE DEF P, m
    <3> QED
      BY <2>1, <3>1, <3>3 DEF m
  <2> QED
    BY <2>2, <2>3 DEF TryRangeAppend, LastOf
<1>5. StepsWithin(step, n, T) /\ <<>> \in T /\ \A k \in 1 .. n, list \in T : step[k][list] = Next(k, list)
  <2>1. \A k \in 1 .. n, list \in T : step[k][list] = Next(k, list)
    OBVIOUS
  <2>2. <<>> \in T
    OBVIOUS
  <2> HIDE DEF step, T, Next
  <2> QED
    BY <1>4, <2>1, <2>2 DEF StepsWithin
<1> HIDE DEF n, T, step, Next
<1>6. PICK f : Passed(f, <<>>, step, n, T)
  BY <1>1, <1>5, StepsExist
<1>7. \A k \in 1 .. n : k - 1 \in 0 .. n /\ k # 0 /\ k \in 0 .. n
  BY <1>1
<1>8. Loop(f)
  <2>1. \A k \in 0 .. n : f[k] = IF k = 0 THEN <<>> ELSE Next(k, f[k - 1])
    <3> SUFFICES ASSUME NEW k \in 0 .. n, k # 0 PROVE f[k] = Next(k, f[k - 1])
      BY <1>6 DEF Passed
    <3>1. k \in 1 .. n /\ k - 1 \in 0 .. n
      BY <1>1
    <3> QED
      BY <1>5, <1>6, <3>1 DEF Passed
  <2> QED
    BY <1>6, <2>1 DEF Passed
<1>9. Loop(upTo)
  BY <1>8
<1> HIDE DEF upTo
<1>10. upTo[0] = <<>> /\ \A k \in 1 .. n : upTo[k] = Next(k, upTo[k - 1])
  <2>1. \A k \in 0 .. n : upTo[k] = IF k = 0 THEN <<>> ELSE Next(k, upTo[k - 1])
    BY <1>9
  <2>2. 0 \in 0 .. n
    BY <1>1
  <2> QED
    BY <1>7, <2>1, <2>2
<1> DEFINE Sums(k) == /\ Summary(upTo[k])
                      /\ \A s \in Nat : HasSeq(upTo[k], s) <=> \E j \in 1 .. k : InRun(av, j, s)
           S == {k \in 0 .. n : Sums(k)}
<1>11. 0 \in S
  <2>1. Summary(<<>>) /\ \A s : ~ HasSeq(<<>>, s)
    BY DEF Summary, HasSeq
  <2>2. \A j : ~ (j \in 1 .. 0)
    OBVIOUS
  <2>3. 0 \in 0 .. n
    BY <1>1
  <2> QED
    BY <1>10, <2>1, <2>2, <2>3
<1>12. ASSUME NEW k \in 1 .. n, k - 1 \in S PROVE k \in S
  <2> DEFINE list == upTo[k - 1]
             a    == av[k].seq
             b    == av[k].seqEnd
  <2>1. Summary(list) /\ \A s \in Nat : HasSeq(list, s) <=> \E j \in 1 .. (k - 1) : InRun(av, j, s)
    BY <1>12
  <2>2. a \in Nat /\ b \in Nat /\ a < b
    BY <1>2
  <2>3. \A s : InRun(av, k, s) <=> a <= s /\ s < b
    BY DEF InRun
  <2>4. upTo[k] = TryRangeAppend(list, <<a, b>>)
    BY <1>10 DEF Next
  <2> HIDE DEF list, a, b
  <2>5. Summary(upTo[k]) /\ \A s \in Nat : HasSeq(upTo[k], s) <=> HasSeq(list, s) \/ (a <= s /\ s < b)
    BY <2>1, <2>2, <2>4, RunSummed
  <2>6. \A j : j \in 1 .. k <=> j \in 1 .. (k - 1) \/ j = k
    BY <1>1
  <2>7. Sums(k)
    BY <2>1, <2>3, <2>5, <2>6
  <2> QED
    BY <1>7, <2>7
<1> HIDE DEF S
<1>13. \A k \in 0 .. n : k \in S
  BY <1>1, <1>11, <1>12, InductionTo
<1>14. n \in S
  BY <1>1, <1>13
<1> QED
  BY <1>1, <1>3, <1>14 DEF S

\* An agent's runs are in order and none is empty, as a graph keeps them.
LEMMA RunsOfGraph ==
  ASSUME NEW g, GraphInv(g), NEW agent \in Agents
  PROVE  g.agentToVersion[agent] \in Seq(ClientEntry) /\ NoneEmpty(g.agentToVersion[agent])
BY DEF GraphInv, CG, RunsWithin, NoneEmpty

\* A summary has the sequence numbers a graph knows.
LEMMA SummaryKnows ==
  ASSUME NEW g, GraphInv(g), NEW agent \in Agents
  PROVE  LET list == SummarizeVersion(g)[agent]
         IN  Summary(list) /\ \A s \in Nat : HasSeq(list, s) <=> HasVersion(g, agent, s)
<1> DEFINE av == g.agentToVersion[agent]
<1>1. SummarizeVersion(g)[agent] = SummaryOf(av)
  BY DEF SummarizeVersion
<1>2. /\ Summary(SummaryOf(av))
      /\ \A s \in Nat : HasSeq(SummaryOf(av), s) <=> \E k \in DOMAIN av : InRun(av, k, s)
  BY RunsOfGraph, SummaryOfRuns
<1>3. \A s : HasVersion(g, agent, s) <=> \E k \in DOMAIN av : InRun(av, k, s)
  BY KnownIsInRun
<1> QED
  BY <1>1, <1>2, <1>3

\* The last version that a range of sequence numbers, a run of the agent and an
\* entry of the graph have together.
EndOfRun(r, ce, e) ==
  LET from == Higher(r[1], ce.seq)
      to   == Lower(r[2], ce.seqEnd)
  IN  Lower(ce.version + (from - ce.seq) + (to - from), e.vEnd) - 1

\* A run of a summary and a stored run overlap on some event.
RunsMeet(r, ce, e) ==
  LET from  == Higher(r[1], ce.seq)
      to    == Lower(r[2], ce.seqEnd)
      start == ce.version + (from - ce.seq)
  IN  from < to /\ e.version < start + (to - from) /\ start < e.vEnd

\* They are the ends of the common runs.
LEMMA CommonEnds ==
  ASSUME NEW g, NEW summary,
         \A agent \in Agents : \A i \in DOMAIN summary[agent] : summary[agent][i][1] \in Nat /\ summary[agent][i][2] \in Nat,
         \A agent \in Agents : g.agentToVersion[agent] \in Seq(ClientEntry), NEW x
  PROVE  x \in CommonRunEnds(g, summary) <=>
           \E agent \in Agents : \E i \in DOMAIN summary[agent], k \in DOMAIN g.agentToVersion[agent], j \in DOMAIN g.entries :
             /\ RunsMeet(summary[agent][i], g.agentToVersion[agent][k], g.entries[j])
             /\ x = EndOfRun(summary[agent][i], g.agentToVersion[agent][k], g.entries[j])
<1> DEFINE Ends(r, ce) ==
             LET from  == Higher(r[1], ce.seq)
                 to    == Lower(r[2], ce.seqEnd)
                 start == ce.version + (from - ce.seq)
                 end   == start + (to - from)
             IN  IF from >= to THEN {}
                 ELSE {Lower(end, g.entries[j].vEnd) - 1 :
                         j \in {k \in DOMAIN g.entries : g.entries[k].version < end /\ start < g.entries[k].vEnd}}
<1>1. x \in CommonRunEnds(g, summary) <=>
        \E agent \in Agents : \E i \in DOMAIN summary[agent], k \in DOMAIN g.agentToVersion[agent] :
          x \in Ends(summary[agent][i], g.agentToVersion[agent][k])
  <2>1. CommonRunEnds(g, summary) =
          UNION {UNION {Ends(summary[agent][i], ce) :
                   i \in DOMAIN summary[agent],
                   ce \in {g.agentToVersion[agent][k] : k \in DOMAIN g.agentToVersion[agent]}} : agent \in Agents}
    BY DEF CommonRunEnds
  <2> HIDE DEF Ends
  <2> DEFINE Runs(agent) == {g.agentToVersion[agent][k] : k \in DOMAIN g.agentToVersion[agent]}
             All(agent)  == UNION {Ends(summary[agent][i], ce) : i \in DOMAIN summary[agent], ce \in Runs(agent)}
  <2>2. ASSUME NEW agent \in Agents
        PROVE  x \in All(agent)
               <=> \E i \in DOMAIN summary[agent], k \in DOMAIN g.agentToVersion[agent] :
                     x \in Ends(summary[agent][i], g.agentToVersion[agent][k])
    <3> HIDE DEF Runs
    <3>1. x \in All(agent) <=> \E i \in DOMAIN summary[agent], ce \in Runs(agent) : x \in Ends(summary[agent][i], ce)
      <4> DEFINE list == summary[agent]
                 runs == Runs(agent)
      <4> HIDE DEF list, runs
      <4>1. x \in UNION {Ends(list[i], ce) : i \in DOMAIN list, ce \in runs}
              <=> \E i \in DOMAIN list, ce \in runs : x \in Ends(list[i], ce)
        <5>1. ASSUME NEW i \in DOMAIN list, NEW ce \in runs, x \in Ends(list[i], ce)
              PROVE  x \in UNION {Ends(list[m], w) : m \in DOMAIN list, w \in runs}
          BY <5>1
        <5>2. ASSUME x \in UNION {Ends(list[i], ce) : i \in DOMAIN list, ce \in runs}
              PROVE  \E i \in DOMAIN list, ce \in runs : x \in Ends(list[i], ce)
          <6>1. PICK set \in {Ends(list[i], ce) : i \in DOMAIN list, ce \in runs} : x \in set
            BY <5>2
          <6> QED
            BY <6>1
        <5> QED
          BY <5>1, <5>2
      <4> QED
        BY <4>1 DEF list, runs
    <3>2. \A ce : ce \in Runs(agent) <=> \E k \in DOMAIN g.agentToVersion[agent] : ce = g.agentToVersion[agent][k]
      BY DEF Runs
    <3>3. ASSUME NEW i \in DOMAIN summary[agent], NEW ce \in Runs(agent), x \in Ends(summary[agent][i], ce)
          PROVE  \E m \in DOMAIN summary[agent], k \in DOMAIN g.agentToVersion[agent] :
                   x \in Ends(summary[agent][m], g.agentToVersion[agent][k])
      BY <3>2, <3>3
    <3>4. ASSUME NEW i \in DOMAIN summary[agent], NEW k \in DOMAIN g.agentToVersion[agent],
                 x \in Ends(summary[agent][i], g.agentToVersion[agent][k])
          PROVE  \E m \in DOMAIN summary[agent], ce \in Runs(agent) : x \in Ends(summary[agent][m], ce)
      <4>1. g.agentToVersion[agent][k] \in Runs(agent)
        BY <3>2
      <4> QED
        BY <3>4, <4>1
    <3> HIDE DEF All
    <3> QED
      BY <3>1, <3>3, <3>4
  <2>3. CommonRunEnds(g, summary) = UNION {All(agent) : agent \in Agents}
    BY <2>1
  <2> HIDE DEF All
  <2>4. x \in CommonRunEnds(g, summary) <=> \E agent \in Agents : x \in All(agent)
    BY <2>3
  <2> QED
    BY <2>2, <2>4
<1>2. ASSUME NEW agent \in Agents, NEW i \in DOMAIN summary[agent], NEW k \in DOMAIN g.agentToVersion[agent]
      PROVE  x \in Ends(summary[agent][i], g.agentToVersion[agent][k])
             <=> \E j \in DOMAIN g.entries :
                   /\ RunsMeet(summary[agent][i], g.agentToVersion[agent][k], g.entries[j])
                   /\ x = EndOfRun(summary[agent][i], g.agentToVersion[agent][k], g.entries[j])
  <2> DEFINE r    == summary[agent][i]
             ce   == g.agentToVersion[agent][k]
             from == Higher(r[1], ce.seq)
             to   == Lower(r[2], ce.seqEnd)
             start == ce.version + (from - ce.seq)
             end   == start + (to - from)
  <2>1. from \in Int /\ to \in Int
    <3>1. r[1] \in Nat /\ r[2] \in Nat /\ ce.seq \in Nat /\ ce.seqEnd \in Nat
      BY RunFields
    <3> QED
      BY <3>1 DEF Higher, Lower
  <2>2. from >= to <=> ~ (from < to)
    BY <2>1
  <2>3. Ends(r, ce) = IF from >= to THEN {}
                      ELSE {Lower(end, g.entries[j].vEnd) - 1 :
                         j \in {m \in DOMAIN g.entries : g.entries[m].version < end /\ start < g.entries[m].vEnd}}
    OBVIOUS
  <2>4. \A j : /\ RunsMeet(r, ce, g.entries[j]) <=> from < to /\ g.entries[j].version < end /\ start < g.entries[j].vEnd
               /\ EndOfRun(r, ce, g.entries[j]) = Lower(end, g.entries[j].vEnd) - 1
    BY DEF RunsMeet, EndOfRun
  <2> HIDE DEF Ends, from, to, start, end, r, ce
  <2> DEFINE At(j) == g.entries[j]
  <2>5. x \in Ends(r, ce) <=> \E j \in DOMAIN g.entries : RunsMeet(r, ce, At(j)) /\ x = EndOfRun(r, ce, At(j))
    BY <2>2, <2>3, <2>4
  <2> QED
    BY <2>5 DEF r, ce
<1> HIDE DEF Ends
<1> QED
  BY <1>1, <1>2

\* Such an end lies in both runs, and in the entry, and none that they have
\* together lies above it.
LEMMA EndOfRunLies ==
  ASSUME NEW r, r[1] \in Nat, r[2] \in Nat, NEW ce \in ClientEntry, NEW e, e.version \in Nat, e.vEnd \in Nat
  PROVE  /\ RunsMeet(r, ce, e) =>
              LET x == EndOfRun(r, ce, e)
                  t == ce.seq + (x - ce.version)
              IN  /\ t \in Nat /\ x \in Nat /\ x = ce.version + (t - ce.seq)
                  /\ r[1] <= t /\ t < r[2] /\ ce.seq <= t /\ t < ce.seqEnd
         /\ \A t \in Nat, u \in Nat :
              (/\ r[1] <= t /\ t < r[2] /\ ce.seq <= t /\ t < ce.seqEnd /\ u = ce.version + (t - ce.seq)
               /\ e.version <= u /\ u < e.vEnd)
              => /\ RunsMeet(r, ce, e)
                 /\ EndOfRun(r, ce, e) \in Nat
                 /\ u <= EndOfRun(r, ce, e) /\ EndOfRun(r, ce, e) < e.vEnd
<1> DEFINE a == r[1]
           b == r[2]
           c == ce.seq
           d == ce.seqEnd
           v == ce.version
           y == e.version
           z == e.vEnd
           from == Higher(a, c)
           to   == Lower(b, d)
           x    == Lower(v + (from - c) + (to - from), z) - 1
<1>1. a \in Nat /\ b \in Nat /\ c \in Nat /\ d \in Nat /\ v \in Nat /\ y \in Nat /\ z \in Nat
  BY DEF ClientEntry, LV
<1>2. /\ RunsMeet(r, ce, e) <=> from < to /\ y < v + (from - c) + (to - from) /\ v + (from - c) < z
      /\ EndOfRun(r, ce, e) = x
  BY DEF RunsMeet, EndOfRun
<1> HIDE DEF a, b, c, d, v, y, z
<1>3. /\ from \in Nat /\ to \in Nat /\ a <= from /\ c <= from /\ (from = a \/ from = c)
      /\ to <= b /\ to <= d /\ (to = b \/ to = d)
  BY <1>1 DEF Higher, Lower
<1>4. x < z /\ x < v + (from - c) + (to - from) /\ x \in Int
      /\ (x = z - 1 \/ x = v + (from - c) + (to - from) - 1)
  <2>1. v + (from - c) + (to - from) \in Int
    BY <1>1, <1>3
  <2> HIDE DEF from, to
  <2> QED
    BY <1>1, <1>3, <2>1 DEF Lower
<1> HIDE DEF from, to, x
<1>5. ASSUME RunsMeet(r, ce, e)
      PROVE  LET t == c + (x - v)
             IN  /\ t \in Nat /\ x \in Nat /\ x = v + (t - c)
                 /\ a <= t /\ t < b /\ c <= t /\ t < d
  <2>1. from < to /\ v + (from - c) < z
    BY <1>2, <1>5
  <2>2. v + (from - c) <= x
    BY <1>1, <1>3, <1>4, <2>1
  <2> QED
    BY <1>1, <1>3, <1>4, <2>1, <2>2
<1>6. ASSUME NEW t \in Nat, NEW u \in Nat, a <= t, t < b, c <= t, t < d, u = v + (t - c), y <= u, u < z
      PROVE  RunsMeet(r, ce, e) /\ x \in Nat /\ u <= x /\ x < z
  <2>1. from <= t /\ t < to
    BY <1>1, <1>3, <1>6
  <2>2. from < to /\ y < v + (from - c) + (to - from) /\ v + (from - c) < z
    BY <1>1, <1>3, <1>6, <2>1
  <2>3. u <= x
    BY <1>1, <1>3, <1>4, <1>6, <2>1
  <2> QED
    BY <1>2, <1>4, <2>2, <2>3
<1> QED
  BY <1>2, <1>5, <1>6 DEF a, b, c, d, v, y, z

\* What a run of one graph and the summary of another have together.
LEMMA CommonEndsKnown ==
  ASSUME NEW d, IdInv(d), NEW s, IdInv(s)
  PROVE  LET ends == CommonRunEnds(s, SummarizeVersion(d))
         IN  /\ ends \subseteq KnownTo(d, s)
             /\ \A u \in KnownTo(d, s) : \E x \in ends : u \in Histories(s)[x]
<1> DEFINE summary == SummarizeVersion(d)
           ends    == CommonRunEnds(s, summary)
           avs(agent) == s.agentToVersion[agent]
<1>1. GraphInv(d) /\ GraphInv(s) /\ IdsAgree(s) /\ s \in CG
  BY DEF IdInv, GraphInv
<1>2. \A agent \in Agents : /\ summary[agent] \in Seq(Nat \X Nat)
                            /\ \A t \in Nat : HasSeq(summary[agent], t) <=> HasVersion(d, agent, t)
  BY <1>1, SummaryKnows DEF Summary
<1>3. \A agent \in Agents : avs(agent) \in Seq(ClientEntry)
  BY <1>1, RunsOfGraph
<1>4. \A agent \in Agents : /\ DOMAIN summary[agent] = 1 .. Len(summary[agent])
                            /\ \A i \in DOMAIN summary[agent] : summary[agent][i][1] \in Nat /\ summary[agent][i][2] \in Nat
  <2> SUFFICES ASSUME NEW agent \in Agents
               PROVE  /\ DOMAIN summary[agent] = 1 .. Len(summary[agent])
                      /\ \A i \in DOMAIN summary[agent] : summary[agent][i][1] \in Nat /\ summary[agent][i][2] \in Nat
    OBVIOUS
  <2> DEFINE list == summary[agent]
  <2>1. list \in Seq(Nat \X Nat)
    BY <1>2
  <2> HIDE DEF list
  <2> QED
    BY <2>1 DEF list
<1> HIDE DEF summary
<1>5. \A x : x \in ends <=>
           \E agent \in Agents : \E i \in DOMAIN summary[agent], k \in DOMAIN avs(agent), j \in DOMAIN s.entries :
             /\ RunsMeet(summary[agent][i], avs(agent)[k], s.entries[j])
             /\ x = EndOfRun(summary[agent][i], avs(agent)[k], s.entries[j])
  BY <1>3, <1>4, CommonEnds, SMTT(30)
<1>6. \A agent \in Agents : \A k : k \in DOMAIN avs(agent) => avs(agent)[k] \in ClientEntry
  BY <1>3, RunFields
<1>7. \A j \in DOMAIN s.entries : s.entries[j].version \in Nat /\ s.entries[j].vEnd \in Nat
  BY <1>1, EntryFields
<1>8. \A agent \in Agents, t, v \in Nat : Maps(avs(agent), t, v) <=> v \in Versions(s) /\ LvToRaw(s, v) = <<agent, t>>
  BY <1>1 DEF IdsAgree
<1>9. ASSUME NEW x \in ends PROVE x \in KnownTo(d, s)
  <2> HIDE DEF ends, avs
  <2>1. PICK agent \in Agents : \E i \in DOMAIN summary[agent], k \in DOMAIN avs(agent), j \in DOMAIN s.entries :
             /\ RunsMeet(summary[agent][i], avs(agent)[k], s.entries[j])
             /\ x = EndOfRun(summary[agent][i], avs(agent)[k], s.entries[j])
    BY <1>5, <1>9
  <2>2. PICK i \in DOMAIN summary[agent], k \in DOMAIN avs(agent), j \in DOMAIN s.entries :
             /\ RunsMeet(summary[agent][i], avs(agent)[k], s.entries[j])
             /\ x = EndOfRun(summary[agent][i], avs(agent)[k], s.entries[j])
    BY <2>1
  <2> DEFINE r  == summary[agent][i]
             ce == avs(agent)[k]
             e  == s.entries[j]
             t  == ce.seq + (x - ce.version)
  <2>3. /\ ce \in ClientEntry /\ r[1] \in Nat /\ r[2] \in Nat /\ e.version \in Nat /\ e.vEnd \in Nat
        /\ RunsMeet(r, ce, e) /\ x = EndOfRun(r, ce, e)
    BY <1>4, <1>6, <1>7, <2>2
  <2> HIDE DEF r, ce, e
  <2>4. t \in Nat /\ x \in Nat /\ x = ce.version + (t - ce.seq) /\ r[1] <= t /\ t < r[2] /\ ce.seq <= t /\ t < ce.seqEnd
    BY <2>3, EndOfRunLies
  <2> HIDE DEF t
  <2>5. Maps(avs(agent), t, x)
    BY <2>2, <2>4 DEF Maps, InRun, ce
  <2>6. x \in Versions(s) /\ LvToRaw(s, x) = <<agent, t>>
    BY <1>8, <2>4, <2>5
  <2>7. HasVersion(d, agent, t)
    <3>1. HasSeq(summary[agent], t)
      BY <1>4, <2>2, <2>4 DEF HasSeq, r
    <3> QED
      BY <1>2, <2>4, <3>1
  <2> QED
    BY <2>6, <2>7, KnownById
<1>10. ASSUME NEW u \in KnownTo(d, s) PROVE \E x \in ends : u \in Histories(s)[x]
  <2>1. u \in Versions(s) /\ u \in Nat
    BY <1>1, NextLVType DEF KnownTo, Versions
  <2>2. PICK agent \in Agents, t \in Nat : LvToRaw(s, u) = <<agent, t>>
    BY <1>1, <2>1, RawType
  <2>3. HasVersion(d, agent, t)
    BY <2>1, <2>2, KnownById
  <2>4. Maps(avs(agent), t, u)
    BY <1>8, <2>1, <2>2
  <2>5. PICK k \in DOMAIN avs(agent) : InRun(avs(agent), k, t) /\ u = avs(agent)[k].version + (t - avs(agent)[k].seq)
    BY <2>4 DEF Maps
  <2>6. PICK i \in DOMAIN summary[agent] : summary[agent][i][1] <= t /\ t < summary[agent][i][2]
    BY <1>2, <1>4, <2>3 DEF HasSeq
  <2>7. PICK j \in DOMAIN s.entries : Holds(s.entries, j, u)
    <3>1. u \in 0 .. (NextLV(s) - 1)
      BY <2>1 DEF Versions
    <3> QED
      BY <1>1, <3>1 DEF GraphInv, Covers
  <2> DEFINE r  == summary[agent][i]
             ce == avs(agent)[k]
             e  == s.entries[j]
             x  == EndOfRun(r, ce, e)
  <2>8. /\ ce \in ClientEntry /\ r[1] \in Nat /\ r[2] \in Nat /\ e.version \in Nat /\ e.vEnd \in Nat
        /\ r[1] <= t /\ t < r[2] /\ ce.seq <= t /\ t < ce.seqEnd /\ u = ce.version + (t - ce.seq)
        /\ e.version <= u /\ u < e.vEnd
    BY <1>4, <1>6, <1>7, <2>5, <2>6, <2>7 DEF Holds, InRun
  <2> HIDE DEF r, ce, e, x, ends, avs
  <2>9. RunsMeet(r, ce, e) /\ x \in Nat /\ u <= x /\ x < e.vEnd
    BY <2>1, <2>2, <2>8, EndOfRunLies DEF x
  <2>10. x \in ends
    BY <1>5, <2>9 DEF x, r, ce, e
  <2>11. FindEntryContaining(s, x) = e
    <3>1. Holds(s.entries, j, x)
      BY <2>1, <2>8, <2>9 DEF Holds, e
    <3>2. s.entries \in Seq(Entry) /\ Disjoint(s.entries)
      BY <1>1 DEF GraphInv, CG
    <3> QED
      BY <2>9, <3>1, <3>2, EntryByVersion DEF e
  <2>12. x \in Versions(s)
    <3>1. e.vEnd <= NextLV(s)
      BY <1>1, EntriesEndBelow DEF GraphInv, e
    <3>2. NextLV(s) \in Nat
      BY <1>1, NextLVType
    <3> QED
      BY <2>8, <2>9, <3>1, <3>2 DEF Versions
  <2>13. u \in e.version .. x
    BY <2>1, <2>8, <2>9
  <2>14. u \in Histories(s)[x]
    BY <1>1, <2>11, <2>12, <2>13, HistoryOfVersion
  <2> QED
    BY <2>10, <2>14
<1> QED
  BY <1>9, <1>10 DEF summary

\* The version in common has exactly the events both graphs know.
LEMMA CommonIsKnown ==
  ASSUME NEW d, IdInv(d), NEW s, IdInv(s), Agree(d, s)
  PROVE  LET common == VersionsIn(IntersectWithSummary(s, SummarizeVersion(d)).common)
         IN  common \in SUBSET Versions(s) /\ EventsOf(Histories(s), common) = KnownTo(d, s)
<1> DEFINE h    == Histories(s)
           ends == CommonRunEnds(s, SummarizeVersion(d))
           K    == KnownTo(d, s)
           com  == VersionsIn(FindDominators(s, Ascending(ends)))
<1>1. GraphInv(d) /\ GraphInv(s)
  BY DEF IdInv
<1>2. ends \subseteq K /\ \A u \in K : \E x \in ends : u \in h[x]
  BY CommonEndsKnown
<1>3. K \subseteq Versions(s)
  BY DEF KnownTo
<1>4. EventsOf(h, K) = K
  BY <1>1, <1>3, KnownIsClosed, HistoriesWithin
<1>5. EventsOf(h, ends) = K
  BY <1>2, <1>4 DEF EventsOf
<1>6. Ascending(ends) \in Seq(Versions(s)) /\ VersionsIn(Ascending(ends)) = ends
  BY <1>1, <1>2, <1>3, AscendingOfSet
<1>7. com = DominatorsOf(h, ends)
  BY <1>1, <1>6, DominatorsOfGraph DEF IsAscending
<1>8. com \subseteq ends /\ EventsOf(h, com) = EventsOf(h, ends)
  BY <1>1, <1>2, <1>3, <1>7, DominatorsCover
<1>9. IntersectWithSummary(s, SummarizeVersion(d)).common = FindDominators(s, Ascending(ends))
  BY DEF IntersectWithSummary
<1> QED
  BY <1>2, <1>3, <1>5, <1>8, <1>9

\* What a graph lacks of another: the ranges sent to it.
LackingOf(d, s) ==
  Diff(s, VersionsIn(IntersectWithSummary(s, SummarizeVersion(d)).common), s.heads).bOnly

\* What a log lacks it does not know.
LEMMA LackingIsUnknown ==
  ASSUME NEW d, IdInv(d), NEW s, IdInv(s), Agree(d, s)
  PROVE  LET rs == LackingOf(d, s)
         IN  /\ rs \in Seq(Nat \X Nat) /\ Canonical(rs)
             /\ RangesToSet(rs) = Versions(s) \ KnownTo(d, s)
             /\ Sendable(d, s, RangesToSet(rs))
<1> DEFINE common == VersionsIn(IntersectWithSummary(s, SummarizeVersion(d)).common)
           rs     == LackingOf(d, s)
<1>1. GraphInv(s)
  BY DEF IdInv
<1>2. common \in SUBSET Versions(s) /\ EventsOf(Histories(s), common) = KnownTo(d, s)
  BY CommonIsKnown
<1>3. s.heads \in SUBSET Versions(s) /\ EventsOf(Histories(s), s.heads) = Versions(s)
  BY <1>1, HeadsCover
<1> HIDE DEF common
<1>4. /\ RangesToSet(Diff(s, common, s.heads).bOnly) = Versions(s) \ KnownTo(d, s)
      /\ Canonical(Diff(s, common, s.heads).bOnly)
      /\ Diff(s, common, s.heads).bOnly \in Seq(Nat \X Nat)
  BY <1>1, <1>2, <1>3, DiffOfGraph
<1>5. rs = Diff(s, common, s.heads).bOnly
  BY DEF LackingOf, common
<1> HIDE DEF rs
<1>6. Sendable(d, s, Versions(s) \ KnownTo(d, s))
  BY <1>1, ParentsAreVersions DEF Sendable
<1> QED
  BY <1>4, <1>5, <1>6 DEF rs

-----------------------------------------------------------------------------
(* Logs.                                                                   *)

\* A log of operations of O has one for every event of its graph.
Whole(log, O) ==
  /\ log \in [ops : Seq(O), cg : CG]
  /\ Sound(log.cg)
  /\ Len(log.ops) = NextLV(log.cg)

\* What a version stands for: an event and its operation.
FactAt(log, v) == <<EventAt(log.cg, v), OpAt(log, v)>>
\* What a log says of some versions, and of all.
FactsAt(log, S) == {FactAt(log, v) : v \in S}
FactsOf(log) == FactsAt(log, Versions(log.cg))

\* An identity stands for one event and one operation.
OneMeaning(S) == \A x, y \in S : x[1].id = y[1].id => x = y

\* The log "new" goes on where "log" ends.
GoesOn(log, new) ==
  /\ Versions(log.cg) \subseteq Versions(new.cg)
  /\ \A v \in Versions(log.cg) : FactAt(new, v) = FactAt(log, v)

\* The parts of a fact.
LEMMA FactFields ==
  \A log, v : /\ FactAt(log, v)[1] = EventAt(log.cg, v) /\ FactAt(log, v)[1].id = LvToRaw(log.cg, v)
              /\ FactAt(log, v)[2] = OpAt(log, v)
BY DEF FactAt, EventAt

\* The parts of a whole log.
LEMMA WholeLog ==
  ASSUME NEW O, NEW log, Whole(log, O)
  PROVE  /\ log.ops \in Seq(O) /\ log.cg \in CG /\ Sound(log.cg) /\ IdInv(log.cg) /\ GraphInv(log.cg)
         /\ Len(log.ops) = NextLV(log.cg) /\ NextLV(log.cg) \in Nat
         /\ Versions(log.cg) = 0 .. (NextLV(log.cg) - 1)
         /\ \A v \in Versions(log.cg) : v \in Nat /\ v + 1 \in 1 .. Len(log.ops) /\ OpAt(log, v) \in O
<1>1. log.ops \in Seq(O) /\ log.cg \in CG /\ Sound(log.cg) /\ Len(log.ops) = NextLV(log.cg)
  BY DEF Whole
<1>2. NextLV(log.cg) \in Nat /\ Versions(log.cg) = 0 .. (NextLV(log.cg) - 1)
  BY <1>1, NextLVType DEF Versions
<1>3. \A v \in 0 .. (NextLV(log.cg) - 1) : v \in Nat /\ v + 1 \in 1 .. Len(log.ops)
  BY <1>1, <1>2
<1>4. \A v \in 0 .. (NextLV(log.cg) - 1) : OpAt(log, v) \in O
  BY <1>1, <1>3 DEF OpAt
<1> QED
  BY <1>1, <1>2, <1>3, <1>4 DEF Sound, IdInv

\* Two logs for which this is so agree on what both know.
LEMMA MeaningsAgree ==
  ASSUME NEW a, NEW b, OneMeaning(FactsOf(a) \cup FactsOf(b))
  PROVE  /\ Agree(a.cg, b.cg)
         /\ \A v \in Versions(a.cg), u \in Versions(b.cg) : LvToRaw(a.cg, v) = LvToRaw(b.cg, u) =>
              FactAt(a, v) = FactAt(b, u)
<1>1. ASSUME NEW v \in Versions(a.cg), NEW u \in Versions(b.cg), LvToRaw(a.cg, v) = LvToRaw(b.cg, u)
      PROVE  FactAt(a, v) = FactAt(b, u)
  <2>1. FactAt(a, v) \in FactsOf(a) /\ FactAt(b, u) \in FactsOf(b)
    BY DEF FactsOf, FactsAt
  <2>2. FactAt(a, v)[1].id = FactAt(b, u)[1].id
    BY <1>1, FactFields
  <2> HIDE DEF FactAt
  <2> QED
    BY <2>1, <2>2 DEF OneMeaning
<1>2. \A v \in Versions(a.cg), u \in Versions(b.cg) : LvToRaw(a.cg, v) = LvToRaw(b.cg, u) =>
        EventAt(a.cg, v) = EventAt(b.cg, u)
  BY <1>1, FactFields
<1> QED
  BY <1>1, <1>2 DEF Agree

\* The facts of a log that goes on are those it had and those of its new versions.
LEMMA FactsGrow ==
  ASSUME NEW log, NEW new, GoesOn(log, new)
  PROVE  FactsOf(new) = FactsOf(log) \cup FactsAt(new, Versions(new.cg) \ Versions(log.cg))
<1>1. \A v \in Versions(log.cg) : v \in Versions(new.cg) /\ FactAt(new, v) = FactAt(log, v)
  BY DEF GoesOn
<1> QED
  BY <1>1 DEF FactsOf, FactsAt

\* Ranges that one log may take from another.
MayCopy(d, s, rs) ==
  /\ Agree(d.cg, s.cg)
  /\ rs \in Seq(Nat \X Nat)
  /\ Canonical(rs)
  /\ Sendable(d.cg, s.cg, RangesToSet(rs))

\* They are copied, graph and operations alike.
LEMMA RangesCopied ==
  ASSUME NEW O, NEW d, Whole(d, O), NEW s, Whole(s, O), NEW rs, MayCopy(d, s, rs)
  PROVE  LET n == CopyRanges(d, s, rs)
         IN  /\ Whole(n, O)
             /\ GoesOn(d, n)
             /\ FactsOf(n) = FactsOf(d) \cup FactsAt(s, RangesToSet(rs))
<1> DEFINE n   == CopyRanges(d, s, rs)
           lvs == RangesLVs(rs)
           R   == RangesToSet(rs)
           m   == Len(lvs)
           k   == NextLV(d.cg)
           cop == CopiedOps(s, rs)
           r   == MergePartialVersions(d.cg, SerializeDiff(s.cg, rs))
<1>1. /\ d.ops \in Seq(O) /\ d.cg \in CG /\ Sound(d.cg) /\ Len(d.ops) = k /\ k \in Nat
      /\ Versions(d.cg) = 0 .. (k - 1)
  BY WholeLog
<1>2. /\ Sound(s.cg) /\ \A v \in Versions(s.cg) : OpAt(s, v) \in O
  BY WholeLog
<1>3. Replays(d.cg, s.cg, lvs, r.cg) /\ Rising(lvs, R)
  BY <1>1, <1>2, RangesReplay DEF MayCopy
<1>4. n = [ops |-> d.ops \o cop, cg |-> r.cg]
  BY DEF CopyRanges
<1> HIDE DEF r, lvs, R
<1>5. /\ m \in Nat /\ Versions(d.cg) \subseteq Versions(r.cg) /\ Versions(r.cg) = 0 .. (k + m - 1)
      /\ \A i \in 1 .. m : lvs[i] \in Versions(s.cg) /\ k + (i - 1) \in Versions(r.cg)
      /\ \A v \in Versions(r.cg) : v \in Versions(d.cg) \/ \E i \in 1 .. m : v = k + (i - 1)
  <2> DEFINE G == d.cg
             S == s.cg
             H == r.cg
  <2>1. G \in CG /\ Replays(G, S, lvs, H) /\ k = NextLV(G)
    BY <1>1, <1>3
  <2> HIDE DEF G, S, H, k
  <2>2. /\ Len(lvs) \in Nat /\ Versions(G) \subseteq Versions(H) /\ Versions(H) = 0 .. (k + m - 1)
        /\ \A i \in 1 .. m : lvs[i] \in Versions(S) /\ k + (i - 1) \in Versions(H)
        /\ \A v \in Versions(H) : v \in Versions(G) \/ \E i \in 1 .. m : v = k + (i - 1)
    BY <2>1, ReplayedFrom
  <2> QED
    BY <2>2 DEF G, S, H
<1>6. /\ Sound(r.cg) /\ NextLV(r.cg) = k + m /\ DOMAIN lvs = 1 .. m
      /\ \A v \in Versions(d.cg) : EventAt(r.cg, v) = EventAt(d.cg, v)
      /\ \A i \in 1 .. m : EventAt(r.cg, k + (i - 1)) = EventAt(s.cg, lvs[i])
      /\ \A u : u \in R <=> \E i \in 1 .. m : u = lvs[i]
  BY <1>3 DEF Replays, Rising
<1>7. r.cg \in CG
  BY <1>6 DEF Sound, IdInv, GraphInv
<1>8. cop \in Seq(O) /\ Len(cop) = m /\ \A i \in 1 .. m : cop[i] = OpAt(s, lvs[i])
  <2>1. cop = [i \in 1 .. m |-> OpAt(s, lvs[i])]
    BY <1>6 DEF CopiedOps, lvs
  <2>2. \A i \in 1 .. m : OpAt(s, lvs[i]) \in O
    BY <1>2, <1>5
  <2> HIDE DEF m, cop
  <2>3. cop \in [1 .. m -> O]
    BY <2>1, <2>2
  <2>4. cop \in Seq(O) /\ DOMAIN cop = 1 .. m
    BY <1>5, <2>3
  <2>5. Len(cop) = m
    BY <1>5, <2>4
  <2> QED
    BY <2>1, <2>4, <2>5
<1> HIDE DEF m, k, cop, n
<1>9. /\ d.ops \o cop \in Seq(O) /\ Len(d.ops \o cop) = k + m
      /\ \A i \in 1 .. k : (d.ops \o cop)[i] = d.ops[i]
      /\ \A i \in 1 .. m : (d.ops \o cop)[k + i] = cop[i]
  <2>1. /\ d.ops \o cop \in Seq(O) /\ Len(d.ops \o cop) = k + m
        /\ \A i \in 1 .. (k + m) : (d.ops \o cop)[i] = IF i <= k THEN d.ops[i] ELSE cop[i - k]
    <3> DEFINE A == d.ops
    <3>1. A \in Seq(O) /\ Len(A) = k /\ cop \in Seq(O) /\ Len(cop) = m
      BY <1>1, <1>8
    <3> HIDE DEF A
    <3>2. /\ A \o cop \in Seq(O) /\ Len(A \o cop) = Len(A) + Len(cop)
          /\ \A i \in 1 .. (Len(A) + Len(cop)) : (A \o cop)[i] = IF i <= Len(A) THEN A[i] ELSE cop[i - Len(A)]
      BY <3>1, ConcatProperties
    <3> QED
      BY <3>1, <3>2 DEF A
  <2>2. \A i \in 1 .. k : i \in 1 .. (k + m) /\ i <= k
    BY <1>1, <1>5
  <2>3. \A i \in 1 .. m : k + i \in 1 .. (k + m) /\ ~ (k + i <= k) /\ (k + i) - k = i
    BY <1>1, <1>5
  <2>4. \A i \in 1 .. m : (d.ops \o cop)[k + i] = cop[i]
    BY <2>1, <2>3
  <2> QED
    BY <2>1, <2>2, <2>4
<1>10. n.ops = d.ops \o cop /\ n.cg = r.cg /\ n \in [ops : Seq(O), cg : CG]
  BY <1>4, <1>7, <1>9
<1>11. Whole(n, O)
  BY <1>6, <1>9, <1>10 DEF Whole
<1>12. ASSUME NEW v \in Versions(d.cg) PROVE FactAt(n, v) = FactAt(d, v)
  <2>1. v + 1 \in 1 .. k
    BY <1>1
  <2>2. OpAt(n, v) = OpAt(d, v)
    BY <1>9, <1>10, <2>1 DEF OpAt
  <2> QED
    BY <1>6, <1>10, <2>2 DEF FactAt
<1>13. GoesOn(d, n)
  BY <1>5, <1>10, <1>12 DEF GoesOn
<1>14. \A i \in 1 .. m : FactAt(n, k + (i - 1)) = FactAt(s, lvs[i])
  <2> SUFFICES ASSUME NEW i \in 1 .. m PROVE FactAt(n, k + (i - 1)) = FactAt(s, lvs[i])
    OBVIOUS
  <2>1. (k + (i - 1)) + 1 = k + i
    BY <1>1, <1>5
  <2>2. OpAt(n, k + (i - 1)) = OpAt(s, lvs[i])
    <3>1. OpAt(n, k + (i - 1)) = n.ops[k + i]
      BY <2>1 DEF OpAt
    <3>2. n.ops[k + i] = cop[i]
      BY <1>9, <1>10
    <3> QED
      BY <1>8, <3>1, <3>2
  <2> QED
    BY <1>6, <1>10, <2>2 DEF FactAt
<1>15. \A i \in 1 .. m : k + (i - 1) \in Versions(n.cg) \ Versions(d.cg)
  <2>1. \A i \in 1 .. m : ~ (k + (i - 1) \in 0 .. (k - 1))
    BY <1>1, <1>5
  <2> QED
    BY <1>1, <1>5, <1>10, <2>1
<1>16. FactsOf(n) = FactsOf(d) \cup FactsAt(n, Versions(n.cg) \ Versions(d.cg))
  BY <1>13, FactsGrow
<1>17. FactsAt(n, Versions(n.cg) \ Versions(d.cg)) = FactsAt(s, R)
  <2>1. ASSUME NEW v \in Versions(n.cg) \ Versions(d.cg) PROVE FactAt(n, v) \in {FactAt(s, u) : u \in R}
    <3>1. PICK i \in 1 .. m : v = k + (i - 1)
      BY <1>5, <1>10
    <3>2. FactAt(n, v) = FactAt(s, lvs[i]) /\ lvs[i] \in R
      BY <1>6, <1>14, <3>1
    <3> QED
      BY <3>2
  <2>2. ASSUME NEW u \in R PROVE FactAt(s, u) \in {FactAt(n, v) : v \in Versions(n.cg) \ Versions(d.cg)}
    <3>1. PICK i \in 1 .. m : u = lvs[i]
      BY <1>6
    <3>2. FactAt(n, k + (i - 1)) = FactAt(s, u) /\ k + (i - 1) \in Versions(n.cg) \ Versions(d.cg)
      BY <1>14, <1>15, <3>1
    <3> QED
      BY <3>2
  <2> QED
    BY <2>1, <2>2 DEF FactsAt
<1> QED
  BY <1>11, <1>13, <1>16, <1>17 DEF n, R

\* A log that takes in another knows what both know, each event with its operation.
LEMMA MergedLogs ==
  ASSUME NEW O, NEW d, Whole(d, O), NEW s, Whole(s, O), OneMeaning(FactsOf(d) \cup FactsOf(s))
  PROVE  LET n == MergeOplogInto(d, s)
         IN  /\ Whole(n, O)
             /\ GoesOn(d, n)
             /\ FactsOf(n) = FactsOf(d) \cup FactsOf(s)
<1> DEFINE rs == LackingOf(d.cg, s.cg)
           n  == MergeOplogInto(d, s)
           R  == Versions(s.cg) \ KnownTo(d.cg, s.cg)
<1>1. Agree(d.cg, s.cg) /\ IdInv(d.cg) /\ IdInv(s.cg)
  BY MeaningsAgree, WholeLog
<1>2. rs \in Seq(Nat \X Nat) /\ Canonical(rs) /\ RangesToSet(rs) = R /\ Sendable(d.cg, s.cg, RangesToSet(rs))
  BY <1>1, LackingIsUnknown
<1>3. n = CopyRanges(d, s, rs)
  BY DEF MergeOplogInto, MissingRanges, LackingOf
<1> HIDE DEF rs, n
<1>4. Whole(n, O) /\ GoesOn(d, n) /\ FactsOf(n) = FactsOf(d) \cup FactsAt(s, R)
  <2>1. MayCopy(d, s, rs)
    BY <1>1, <1>2 DEF MayCopy
  <2>2. RangesToSet(rs) = R
    BY <1>2
  <2> HIDE DEF R
  <2> QED
    BY <1>3, <2>1, <2>2, RangesCopied
<1>5. ASSUME NEW u \in Versions(s.cg), u \notin R PROVE FactAt(s, u) \in FactsOf(d)
  <2>1. PICK v \in Versions(d.cg) : LvToRaw(d.cg, v) = LvToRaw(s.cg, u)
    BY <1>5 DEF KnownTo
  <2>2. FactAt(d, v) = FactAt(s, u)
    BY <2>1, MeaningsAgree
  <2> QED
    BY <2>2 DEF FactsOf, FactsAt
<1>6. FactsOf(s) = {FactAt(s, u) : u \in Versions(s.cg)} /\ R \subseteq Versions(s.cg)
      /\ FactsAt(s, R) = {FactAt(s, u) : u \in R}
  BY DEF FactsOf, FactsAt
<1> HIDE DEF R
<1>7. FactsOf(n) = FactsOf(d) \cup FactsOf(s)
  BY <1>4, <1>5, <1>6
<1> QED
  BY <1>4, <1>7 DEF n

\* A graph with so many events more.
Longer(g, num, new) ==
  /\ Sound(new)
  /\ NextLV(new) = NextLV(g) + num
  /\ \A v \in Versions(g) : EventAt(new, v) = EventAt(g, v)

\* The versions from k on have the operations, and there are no others.
OpsFollow(log, ops, new) ==
  LET k == NextLV(log.cg)
  IN  /\ \A i \in 1 .. Len(ops) : k + (i - 1) \in Versions(new.cg) /\ OpAt(new, k + (i - 1)) = ops[i]
      /\ \A v \in Versions(new.cg) : v \in Versions(log.cg) \/ \E i \in 1 .. Len(ops) : v = k + (i - 1)

\* What is appended to a log: as many operations as its graph has new events.
LEMMA OpsAppended ==
  ASSUME NEW O, NEW log, Whole(log, O), NEW ops \in Seq(O), NEW g, Longer(log.cg, Len(ops), g)
  PROVE  LET n == [ops |-> log.ops \o ops, cg |-> g]
         IN  Whole(n, O) /\ GoesOn(log, n) /\ OpsFollow(log, ops, n)
<1> DEFINE A == log.ops
           k == NextLV(log.cg)
           m == Len(ops)
           n == [ops |-> A \o ops, cg |-> g]
<1>1. A \in Seq(O) /\ Len(A) = k /\ k \in Nat /\ Versions(log.cg) = 0 .. (k - 1) /\ m \in Nat
  BY WholeLog
<1>2. g \in CG
  BY DEF Longer, Sound, IdInv, GraphInv
<1>3. NextLV(g) = k + m /\ Sound(g) /\ \A v \in Versions(log.cg) : EventAt(g, v) = EventAt(log.cg, v)
  BY DEF Longer
<1>4. n.ops = A \o ops /\ n.cg = g
  OBVIOUS
<1> HIDE DEF A, k, m
<1>13. Versions(g) = 0 .. (k + m - 1)
  <2>1. NextLV(g) = k + m
    BY <1>3
  <2> QED
    BY <1>1, <2>1 DEF Versions
<1>5. /\ A \o ops \in Seq(O) /\ Len(A \o ops) = k + m
      /\ \A i \in 1 .. (k + m) : (A \o ops)[i] = IF i <= k THEN A[i] ELSE ops[i - k]
  BY <1>1, ConcatProperties DEF m
<1>6. n \in [ops : Seq(O), cg : CG]
  BY <1>2, <1>5
<1> HIDE DEF n
<1>7. Whole(n, O)
  BY <1>3, <1>4, <1>5, <1>6 DEF Whole
<1>8. ASSUME NEW v \in 0 .. (k - 1) PROVE v \in 0 .. (k + m - 1) /\ OpAt(n, v) = OpAt(log, v)
  <2>1. v + 1 \in 1 .. (k + m) /\ v + 1 <= k /\ v \in 0 .. (k + m - 1)
    BY <1>1
  <2>2. n.ops[v + 1] = A[v + 1]
    BY <1>4, <1>5, <2>1
  <2> QED
    BY <2>1, <2>2 DEF OpAt, A
<1>9. ASSUME NEW i \in 1 .. m PROVE k + (i - 1) \in 0 .. (k + m - 1) /\ OpAt(n, k + (i - 1)) = ops[i]
  <2>1. k + i \in 1 .. (k + m) /\ ~ (k + i <= k) /\ (k + i) - k = i /\ (k + (i - 1)) + 1 = k + i /\ k + (i - 1) \in 0 .. (k + m - 1)
    BY <1>1
  <2>2. n.ops[k + i] = ops[i]
    BY <1>4, <1>5, <2>1
  <2>3. OpAt(n, k + (i - 1)) = n.ops[k + i]
    BY <2>1 DEF OpAt
  <2> QED
    BY <2>1, <2>2, <2>3
<1>10. ASSUME NEW v \in 0 .. (k + m - 1) PROVE v \in 0 .. (k - 1) \/ \E i \in 1 .. m : v = k + (i - 1)
  <2>1. CASE v >= k
    <3>1. (v - k) + 1 \in 1 .. m /\ v = k + (((v - k) + 1) - 1)
      BY <1>1, <2>1
    <3> QED
      BY <3>1
  <2>2. CASE ~ (v >= k)
    BY <1>1, <2>2
  <2> QED
    BY <2>1, <2>2
<1>11. \A v \in Versions(log.cg) : FactAt(n, v) = FactAt(log, v)
  BY <1>1, <1>3, <1>4, <1>8 DEF FactAt
<1>12. GoesOn(log, n)
  BY <1>1, <1>13, <1>4, <1>8, <1>11 DEF GoesOn
<1> QED
  BY <1>1, <1>13, <1>4, <1>7, <1>9, <1>10, <1>12 DEF OpsFollow, n, k, m, A

\* The heads are a frontier.
LEMMA HeadsAreFrontiers ==
  ASSUME NEW g, GraphInv(g)
  PROVE  g.heads \in SUBSET Versions(g) /\ DominatorsOf(Histories(g), g.heads) = g.heads
<1> DEFINE h == Histories(g)
           V == Versions(g)
           H == g.heads
<1>1. H = DominatorsOf(h, V) /\ H \subseteq V
  BY HeadsCover
<1> HIDE DEF h, V, H
<1>2. DominatorsOf(h, H) = H
  BY <1>1 DEF DominatorsOf
<1> QED
  BY <1>1, <1>2 DEF h, V, H

\* The i-th event of a run of an agent from seq on, on top of some.
Written(agent, seq, tops, i) ==
  [id |-> <<agent, seq + i>>, parents |-> IF i = 0 THEN tops ELSE {<<agent, seq + i - 1>>}]

\* A run of unknown events is added on top of all that is known.
LEMMA RunWritten ==
  ASSUME NEW g, Sound(g), NEW agent \in Agents, NEW seq \in Nat, NEW len \in Nat \ {0},
         \A t \in seq .. (seq + len - 1) : ~ HasVersion(g, agent, t)
  PROVE  LET new == Add(g, agent, seq, seq + len, g.heads)
         IN  /\ Longer(g, len, new)
             /\ \A i \in 0 .. (len - 1) :
                  EventAt(new, NextLV(g) + i) = Written(agent, seq, LvToRawList(g, g.heads), i)
<1> DEFINE n    == NextLV(g)
           end  == seq + len
           tops == LvToRawList(g, g.heads)
           e    == NewEntry(g, agent, seq, end, g.heads)
           new  == InsertEntry(g, e)
<1>1. /\ IdInv(g) /\ GraphInv(g) /\ ParentFrontiers(g) /\ g \in CG /\ n \in Nat /\ Versions(g) = 0 .. (n - 1)
      /\ end \in Nat /\ seq < end
  BY NextLVType DEF Sound, IdInv, GraphInv, Versions
<1>2. UnknownSeqs(g, agent, seq, end) = seq .. (end - 1)
  BY <1>1 DEF UnknownSeqs
<1>3. UnknownSeqs(g, agent, seq, end) # {}
  <2>1. seq \in seq .. (end - 1)
    BY <1>1
  <2> QED
    BY <1>2, <2>1
<1>4. FirstUnknown(g, agent, seq, end) = seq
  <2> DEFINE first == FirstUnknown(g, agent, seq, end)
  <2>1. seq \in seq .. (end - 1)
    BY <1>1
  <2>2. first \in seq .. (end - 1) /\ \A t \in seq .. (end - 1) : first <= t
    BY <1>1, <1>2, <1>3, FirstUnknownIsLeast
  <2> HIDE DEF first
  <2>3. first = seq
    BY <1>1, <2>1, <2>2
  <2> QED
    BY <2>3 DEF first
<1>5. /\ e.version = n /\ e.vEnd = n + (end - seq) /\ e.agent = agent /\ e.seq = seq /\ e.parents = g.heads
  BY <1>4 DEF NewEntry
<1>6. g.heads \in SUBSET Versions(g) /\ DominatorsOf(Histories(g), g.heads) = g.heads
  BY <1>1, HeadsAreFrontiers
<1>7. KnownFirst(g, agent, seq, end)
  BY <1>1 DEF KnownFirst
<1>8. /\ Insertable(g, e) /\ Fresh(g, e) /\ Add(g, agent, seq, end, g.heads) = new
  <2> HIDE DEF end, n
  <2>1. Insertable(g, e)
    BY <1>1, <1>3, <1>6, NewEntryInsertable DEF GraphInv
  <2>2. Fresh(g, e)
    BY <1>1, <1>3, <1>7, NewEntryFresh
  <2>3. Add(g, agent, seq, end, g.heads) = new
    BY <1>3 DEF Add
  <2> QED
    BY <2>1, <2>2, <2>3
<1> HIDE DEF e
<1>9. /\ NextLV(new) = e.vEnd
      /\ \A v \in Versions(g) : EventAt(new, v) = EventAt(g, v) /\ LvToRaw(new, v) = LvToRaw(g, v)
      /\ \A v \in e.version .. (e.vEnd - 1) : /\ ParentsOf(new, v) = IF v = e.version THEN e.parents ELSE {v - 1}
                                              /\ LvToRaw(new, v) = <<e.agent, e.seq + (v - e.version)>>
  BY <1>1, <1>8, InsertExtends, EventsStay, OldEventsStay, ParentsOfNewEvents, RawOfNewEvents
<1>10. IdInv(new) /\ ParentFrontiers(new)
  BY <1>1, <1>5, <1>6, <1>8, InsertKeepsIds, InsertKeepsFrontiers
<1> HIDE DEF new, n
<1>11. NextLV(new) = n + len /\ e.vEnd = n + len
  BY <1>1, <1>5, <1>9
<1>12. Longer(g, len, new)
  BY <1>9, <1>10, <1>11 DEF Longer, Sound, n
<1>13. ASSUME NEW i \in 0 .. (len - 1) PROVE EventAt(new, n + i) = Written(agent, seq, tops, i)
  <2> DEFINE v == n + i
  <2>1. /\ i \in Nat /\ v \in n .. (n + len - 1) /\ seq + (v - n) = seq + i /\ (v = n <=> i = 0)
        /\ i # 0 => v - 1 \in n .. (n + len - 1) /\ seq + ((v - 1) - n) = seq + i - 1
    BY <1>1
  <2>2. \A u \in n .. (n + len - 1) : /\ ParentsOf(new, u) = IF u = n THEN g.heads ELSE {u - 1}
                                      /\ LvToRaw(new, u) = <<agent, seq + (u - n)>>
    <3> DEFINE H == g.heads
               from == e.version
               to   == e.vEnd
               tops2 == e.parents
               who  == e.agent
               at   == e.seq
    <3>1. from = n /\ to = n + len /\ tops2 = H /\ who = agent /\ at = seq
      BY <1>5, <1>11
    <3>2. \A u \in from .. (to - 1) : /\ ParentsOf(new, u) = IF u = from THEN tops2 ELSE {u - 1}
                                      /\ LvToRaw(new, u) = <<who, at + (u - from)>>
      BY <1>9
    <3> HIDE DEF H, from, to, tops2, who, at
    <3>3. \A u \in n .. (n + len - 1) : /\ ParentsOf(new, u) = IF u = n THEN H ELSE {u - 1}
                                        /\ LvToRaw(new, u) = <<agent, seq + (u - n)>>
      <4> SUFFICES ASSUME NEW u \in n .. (n + len - 1)
                   PROVE  /\ ParentsOf(new, u) = IF u = n THEN H ELSE {u - 1}
                          /\ LvToRaw(new, u) = <<agent, seq + (u - n)>>
        OBVIOUS
      <4>1. u \in from .. (to - 1)
        BY <1>1, <3>1
      <4>2. ParentsOf(new, u) = (IF u = from THEN tops2 ELSE {u - 1}) /\ LvToRaw(new, u) = <<who, at + (u - from)>>
        BY <3>2, <4>1
      <4>3. ParentsOf(new, u) = IF u = n THEN H ELSE {u - 1}
        BY <3>1, <4>2, Zenon
      <4>4. LvToRaw(new, u) = <<agent, seq + (u - n)>>
        BY <3>1, <4>2, Zenon
      <4> QED
        BY <4>3, <4>4
    <3> QED
      BY <3>3 DEF H
  <2> HIDE DEF v
  <2>3. LvToRaw(new, v) = <<agent, seq + i>>
    BY <2>1, <2>2
  <2>4. CASE i = 0
    <3>1. ParentsOf(new, v) = g.heads
      BY <2>1, <2>2, <2>4
    <3>2. LvToRawList(new, g.heads) = tops
      BY <1>6, <1>9 DEF LvToRawList
    <3> QED
      BY <2>3, <2>4, <3>1, <3>2 DEF EventAt, Written, v
  <2>5. CASE i # 0
    <3>1. ParentsOf(new, v) = {v - 1} /\ LvToRaw(new, v - 1) = <<agent, seq + i - 1>>
      BY <2>1, <2>2, <2>5
    <3>2. LvToRawList(new, {v - 1}) = {<<agent, seq + i - 1>>}
      BY <3>1 DEF LvToRawList
    <3> QED
      BY <2>3, <2>5, <3>1, <3>2 DEF EventAt, Written, v
  <2> QED
    BY <2>4, <2>5
<1> QED
  BY <1>8, <1>12, <1>13 DEF n

\* None of the run's sequence numbers is known.
Unwritten(g, agent, seq, len) == \A t \in seq .. (seq + len - 1) : ~ HasVersion(g, agent, t)

\* What "new" says beyond what "log" says is what the agent wrote.
WrittenTo(log, new, agent, seq, len) ==
  LET tops == LvToRawList(log.cg, log.cg.heads)
  IN  /\ \A x \in FactsOf(new) : x \in FactsOf(log) \/ \E i \in 0 .. (len - 1) : x[1] = Written(agent, seq, tops, i)
      /\ \A i \in 0 .. (len - 1) : \E x \in FactsOf(new) : x[1] = Written(agent, seq, tops, i)

\* Operations an agent writes on top of its log.
LEMMA OpsWritten ==
  ASSUME NEW O, NEW log, Whole(log, O), NEW agent \in Agents, NEW seq \in Nat,
         NEW len \in Nat \ {0}, NEW ops \in Seq(O), Len(ops) = len, Unwritten(log.cg, agent, seq, len)
  PROVE  LET n == [ops |-> log.ops \o ops, cg |-> Add(log.cg, agent, seq, seq + len, log.cg.heads)]
         IN  Whole(n, O) /\ GoesOn(log, n) /\ WrittenTo(log, n, agent, seq, len)
<1> DEFINE g    == Add(log.cg, agent, seq, seq + len, log.cg.heads)
           n    == [ops |-> log.ops \o ops, cg |-> g]
           tops == LvToRawList(log.cg, log.cg.heads)
           k    == NextLV(log.cg)
<1>1. Sound(log.cg) /\ k \in Nat
  BY WholeLog
<1>2. Longer(log.cg, len, g) /\ \A i \in 0 .. (len - 1) : EventAt(g, k + i) = Written(agent, seq, tops, i)
  BY <1>1, RunWritten DEF Unwritten
<1> HIDE DEF g
<1>3. Whole(n, O) /\ GoesOn(log, n) /\ OpsFollow(log, ops, n)
  BY <1>2, OpsAppended
<1>4. n.cg = g
  OBVIOUS
<1> HIDE DEF n, tops, k
<1>5. /\ \A i \in 1 .. len : k + (i - 1) \in Versions(n.cg)
      /\ \A v \in Versions(n.cg) : v \in Versions(log.cg) \/ \E i \in 1 .. len : v = k + (i - 1)
  BY <1>3 DEF OpsFollow, k
<1>6. \A v \in Versions(log.cg) : v \in Versions(n.cg) /\ FactAt(n, v) = FactAt(log, v)
  BY <1>3 DEF GoesOn
<1>7. ASSUME NEW v \in Versions(n.cg)
      PROVE  FactAt(n, v) \in FactsOf(log) \/ \E i \in 0 .. (len - 1) : FactAt(n, v)[1] = Written(agent, seq, tops, i)
  <2>1. CASE v \in Versions(log.cg)
    BY <1>6, <2>1 DEF FactsOf, FactsAt
  <2>2. CASE \E i \in 1 .. len : v = k + (i - 1)
    <3>1. PICK i \in 1 .. len : v = k + (i - 1)
      BY <2>2
    <3>2. i - 1 \in 0 .. (len - 1)
      OBVIOUS
    <3>3. EventAt(g, v) = Written(agent, seq, tops, i - 1)
      BY <1>2, <3>1, <3>2
    <3>4. FactAt(n, v)[1] = Written(agent, seq, tops, i - 1)
      BY <1>4, <3>3, FactFields
    <3> QED
      BY <3>2, <3>4
  <2> QED
    BY <1>5, <2>1, <2>2
<1>8. ASSUME NEW i \in 0 .. (len - 1) PROVE \E x \in FactsOf(n) : x[1] = Written(agent, seq, tops, i)
  <2>1. i + 1 \in 1 .. len /\ k + ((i + 1) - 1) = k + i
    BY <1>1
  <2>2. k + i \in Versions(n.cg)
    BY <1>5, <2>1
  <2>3. FactAt(n, k + i)[1] = Written(agent, seq, tops, i)
    BY <1>2, <1>4, FactFields
  <2> QED
    BY <2>2, <2>3 DEF FactsOf, FactsAt
<1>9. \A x \in FactsOf(n) : x \in FactsOf(log) \/ \E i \in 0 .. (len - 1) : x[1] = Written(agent, seq, tops, i)
  BY <1>7 DEF FactsOf, FactsAt
<1> QED
  BY <1>3, <1>8, <1>9 DEF n, g, tops, WrittenTo

\* What is written in the logs of lists of items with an identity.
Operations == [type : {"ins"}, pos : Nat, content : Agents \X Nat] \cup [type : {"del"}, pos : Nat]

\* What the logs of R say together.
Told(R, logs) == UNION {FactsOf(logs[r]) : r \in R}

\* They are whole, and say one thing of an event.
Consistent(R, logs) ==
  /\ logs = [r \in R |-> logs[r]]
  /\ \A r \in R : Whole(logs[r], Operations)
  /\ OneMeaning(Told(R, logs))

\* The log of a new document.
LEMMA EmptyLog == Whole(CreateOpLog, Operations) /\ FactsOf(CreateOpLog) = {}
<1>1. NextLV(EmptyCG) = 0 /\ Versions(EmptyCG) = {}
  BY DEF NextLV, Versions, EmptyCG
<1>2. IdInv(EmptyCG) /\ ParentFrontiers(EmptyCG)
  BY EmptyIds, EmptyFrontiers
<1>3. EmptyCG \in CG
  BY <1>2 DEF IdInv, GraphInv
<1>4. /\ CreateOpLog.ops = <<>> /\ CreateOpLog.cg = EmptyCG
      /\ CreateOpLog \in [ops : Seq(Operations), cg : CG]
  <2> HIDE DEF EmptyCG, CG
  <2> QED
    BY <1>3 DEF CreateOpLog
<1> QED
  BY <1>1, <1>2, <1>4 DEF Whole, Sound, FactsOf, FactsAt

\* Logs that are all empty agree.
LEMMA EmptyLogsAgree ==
  ASSUME NEW R, NEW logs, logs = [r \in R |-> logs[r]], \A r \in R : logs[r] = CreateOpLog
  PROVE  Consistent(R, logs) /\ Told(R, logs) = {}
<1>1. Told(R, logs) = {}
  BY EmptyLog DEF Told
<1> QED
  BY <1>1, EmptyLog DEF Consistent, OneMeaning

\* A log that goes on says what it said.
LEMMA FactsStay ==
  ASSUME NEW log, NEW n, GoesOn(log, n)
  PROVE  FactsOf(log) \subseteq FactsOf(n)
BY DEF GoesOn, FactsOf, FactsAt

\* The log of one of several.
LEMMA LogOf ==
  ASSUME NEW R, NEW logs, NEW r \in R, NEW n
  PROVE  /\ logs = [q \in R |-> logs[q]] =>
              [logs EXCEPT ![r] = n] = [q \in R |-> IF q = r THEN n ELSE logs[q]]
OBVIOUS

\* One of the logs has gone on, to n.
Grown(R, logs, r, n, new) ==
  /\ new = [q \in R |-> new[q]]
  /\ \A q \in R : Whole(new[q], Operations) /\ GoesOn(logs[q], new[q])
  /\ \A q \in R : FactsOf(logs[q]) \subseteq FactsOf(new[q])
  /\ new[r] = n
  /\ Told(R, new) = Told(R, logs) \cup FactsOf(n)

\* What the logs tell then.
LEMMA ToldAfter ==
  ASSUME NEW R, NEW logs, Consistent(R, logs), NEW r \in R, NEW n, Whole(n, Operations), GoesOn(logs[r], n)
  PROVE  Grown(R, logs, r, n, [logs EXCEPT ![r] = n])
<1> DEFINE new == [logs EXCEPT ![r] = n]
<1>1. new = [q \in R |-> IF q = r THEN n ELSE logs[q]]
  BY LogOf DEF Consistent
<1> HIDE DEF new
<1>2. new[r] = n /\ \A q \in R : q # r => new[q] = logs[q]
  BY <1>1
<1>3. new = [q \in R |-> new[q]]
  BY <1>1
<1>4. \A q \in R : Whole(new[q], Operations)
  BY <1>2 DEF Consistent
<1>5. \A q \in R : GoesOn(logs[q], new[q])
  <2> SUFFICES ASSUME NEW q \in R PROVE GoesOn(logs[q], new[q])
    OBVIOUS
  <2>1. CASE q = r
    BY <1>2, <2>1
  <2>2. CASE q # r
    BY <1>2, <2>2 DEF GoesOn
  <2> QED
    BY <2>1, <2>2
<1>6. \A q \in R : FactsOf(logs[q]) \subseteq FactsOf(new[q])
  BY <1>5, FactsStay
<1>7. Told(R, new) = Told(R, logs) \cup FactsOf(n)
  <2>1. ASSUME NEW x \in Told(R, new) PROVE x \in Told(R, logs) \cup FactsOf(n)
    <3>1. PICK q \in R : x \in FactsOf(new[q])
      BY DEF Told
    <3> QED
      BY <1>2, <3>1 DEF Told
  <2>2. ASSUME NEW x \in Told(R, logs) PROVE x \in Told(R, new)
    <3>1. PICK q \in R : x \in FactsOf(logs[q])
      BY DEF Told
    <3> QED
      BY <1>6, <3>1 DEF Told
  <2>3. FactsOf(n) \subseteq Told(R, new)
    BY <1>2 DEF Told
  <2> QED
    BY <2>1, <2>2, <2>3
<1> QED
  BY <1>2, <1>3, <1>4, <1>5, <1>6, <1>7 DEF new, Grown

\* A log takes what is told.
LEMMA MeaningsTaken ==
  ASSUME NEW R, NEW logs, Consistent(R, logs), NEW r \in R,
         NEW n, Whole(n, Operations), GoesOn(logs[r], n), FactsOf(n) \subseteq Told(R, logs)
  PROVE  Consistent(R, [logs EXCEPT ![r] = n]) /\ Told(R, [logs EXCEPT ![r] = n]) = Told(R, logs)
<1> DEFINE new == [logs EXCEPT ![r] = n]
<1>1. Grown(R, logs, r, n, new)
  BY ToldAfter
<1> HIDE DEF new
<1>2. Told(R, new) = Told(R, logs)
  BY <1>1 DEF Grown
<1>3. OneMeaning(Told(R, new))
  BY <1>2 DEF Consistent
<1> QED
  BY <1>1, <1>2, <1>3 DEF Grown, Consistent, new

\* A log says one thing of an event.
LEMMA LogMeansOne ==
  ASSUME NEW O, NEW log, Whole(log, O)
  PROVE  OneMeaning(FactsOf(log))
<1> SUFFICES ASSUME NEW x \in FactsOf(log), NEW y \in FactsOf(log), x[1].id = y[1].id PROVE x = y
  BY DEF OneMeaning
<1>1. PICK v \in Versions(log.cg) : x = FactAt(log, v)
  BY DEF FactsOf, FactsAt
<1>2. PICK u \in Versions(log.cg) : y = FactAt(log, u)
  BY DEF FactsOf, FactsAt
<1>3. LvToRaw(log.cg, v) = LvToRaw(log.cg, u)
  BY <1>1, <1>2, FactFields
<1>4. v = u
  BY <1>3, OneVersion, WholeLog
<1> QED
  BY <1>1, <1>2, <1>4

\* The facts of "new" are those of the log and facts of a run of events.
NewsOf(log, new, agent, seq, len) ==
  \A x \in FactsOf(new) : x \in FactsOf(log) \/ \E i \in 0 .. (len - 1) : x[1].id = <<agent, seq + i>>

\* Nothing is told of the events of a run.
Untold(S, agent, seq, len) == \A x \in S : \A i \in 0 .. (len - 1) : x[1].id # <<agent, seq + i>>

\* A log says something of events of which nothing was told.
LEMMA MeaningsWritten ==
  ASSUME NEW R, NEW logs, Consistent(R, logs), NEW r \in R,
         NEW n, Whole(n, Operations), GoesOn(logs[r], n),
         NEW agent, NEW seq, NEW len, NewsOf(logs[r], n, agent, seq, len), Untold(Told(R, logs), agent, seq, len)
  PROVE  Consistent(R, [logs EXCEPT ![r] = n])
<1> DEFINE new == [logs EXCEPT ![r] = n]
<1>1. Grown(R, logs, r, n, new)
  BY ToldAfter
<1> HIDE DEF new
<1>2. ASSUME NEW x \in FactsOf(n), NEW y \in Told(R, logs), x[1].id = y[1].id PROVE x = y
  <2>1. CASE x \in FactsOf(logs[r])
    <3>1. x \in Told(R, logs)
      BY <2>1 DEF Told
    <3> QED
      BY <1>2, <3>1 DEF Consistent, OneMeaning
  <2>2. CASE x \notin FactsOf(logs[r])
    <3>1. PICK i \in 0 .. (len - 1) : x[1].id = <<agent, seq + i>>
      BY <2>2 DEF NewsOf
    <3> QED
      BY <1>2, <3>1 DEF Untold
  <2> QED
    BY <2>1, <2>2
<1>3. OneMeaning(FactsOf(n)) /\ OneMeaning(Told(R, logs))
  BY LogMeansOne DEF Consistent
<1>4. OneMeaning(Told(R, new))
  BY <1>1, <1>2, <1>3 DEF OneMeaning, Grown
<1> QED
  BY <1>1, <1>4 DEF Grown, Consistent, new

\* What two logs say is part of what is told.
LEMMA ToldByTwo ==
  ASSUME NEW R, NEW logs, Consistent(R, logs), NEW a \in R, NEW b \in R
  PROVE  /\ FactsOf(logs[a]) \cup FactsOf(logs[b]) \subseteq Told(R, logs)
         /\ OneMeaning(FactsOf(logs[a]) \cup FactsOf(logs[b]))
         /\ Whole(logs[a], Operations) /\ Whole(logs[b], Operations)
<1>1. FactsOf(logs[a]) \cup FactsOf(logs[b]) \subseteq Told(R, logs)
  BY DEF Told
<1>2. OneMeaning(Told(R, logs))
  BY DEF Consistent
<1>3. OneMeaning(FactsOf(logs[a]) \cup FactsOf(logs[b]))
  BY <1>1, <1>2 DEF OneMeaning
<1> QED
  BY <1>1, <1>3 DEF Consistent

\* Deletions, as many as a call makes.
LEMMA DeletesAreOperations ==
  ASSUME NEW pos \in Nat, NEW len \in Nat \ {0}
  PROVE  LET ops == [i \in 1 .. len |-> Del(pos)] IN ops \in Seq(Operations) /\ Len(ops) = len
<1>1. Del(pos) \in Operations
  BY DEF Del, Operations
<1> QED
  BY <1>1
==============================================================================
