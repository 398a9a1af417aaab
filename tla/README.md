# Eg-walker: a verification development

This directory holds TLA+ models of the event graph walker, the collaborative
editing algorithm of this repository, in its two implementations; the TLC runs
that check them on small instances; and proofs, checked by TLAPS, of what the
causal graphs, the exchange of events, the logs and the storage keep true for
every instance.

The two implementations are

* the **reference**, `src/eg-walker-reference/` (TypeScript): short, one item at
  a time, the code every other implementation is compared with;
* **diamond-types**, `src/tools/diamond-types/` (Rust): run-length encoded, with
  indexes, plans and trees, and around it a storage engine, an older CRDT crate
  and JSON-like documents.

## The system

An *event* is one operation. It has a global id, agent and sequence number, and
a *local version*, its number in one log. Logs number the same events
differently. A set of events is named by a *frontier*, its events without
children. A log calls its causal graph to number events; a merge reads both,
moving from the version of one operation to that of the next by undoing
(retreat) and redoing (advance) what lies between, and so can apply every
operation at the version it was written at. All calls are synchronous: what
runs concurrently is the editing of different replicas, and what makes it hard
is that they learn of events in different orders, in parts, and more than once.

The reference (paths below `src/eg-walker-reference/`):

| component | where | state | operations |
|---|---|---|---|
| causal graph | `src/causal-graph.ts` | `entries` (runs of events with their parents), `agentToVersion` (runs of sequence numbers), `heads` | `add`, `addRaw`, `assignLocal`; the queries `diff`, `versionContainsLV`, `findDominators`, `findConflicting`; exchange: `summarizeVersion`, `intersectWithSummary`, `serializeDiff`, `mergePartialVersions` |
| operation log | `src/index.ts` | `ops`, one for every local version, and a causal graph | `localInsert`, `localDelete`, `pushOp`, `mergeOplogInto` |
| walker | `src/index.ts` | `items` in document order, `itemsByLV`, `delTargets`, `curVersion`, and the snapshot it writes | `advance1`, `retreat1`, `apply1`, `integrate`, `traverseAndApply`, `checkout`, `mergeChangesIntoBranch` |
| replicated documents | `test/fuzzer.ts` | a log, the content shown, a reference list; sequence numbers shared by all documents | `docInsert`, `docDelete`, `docMergeInto` |
| reference list CRDT | `test/list-fugue-simple.ts` | a linked list of elements that are never removed, the messages received | `insertOneWithReplica`, `delete`, `receivePrimitive`, `mergeFrom` |

diamond-types (paths below `src/tools/diamond-types/`):

| component | where | state | operations |
|---|---|---|---|
| graph | `src/causalgraph/graph/`, `src/frontier.rs` | entries with a shadow and child indexes; frontiers | `push`; containment, comparison, `diff`, `find_conflicting`, dominators; a frontier's advance and retreat |
| parts of a graph | `graph/subgraph.rs`, `conflict_subgraph.rs`, `scope.rs`, `simple.rs` | none: graphs computed from a graph | `subgraph`, `project_onto_subgraph`, `make_conflict_graph_between`, `version_in_scope` |
| agents | `src/causalgraph/agent_assignment/`, `causalgraph.rs` | for each agent runs by sequence number, and all runs by version | assignment of local and received spans, tie breaking |
| list documents | `src/list/` | a log: causal graph, runs of operations, content; a branch: version and text | local edits, `add_operations_remote`, `add_missing_operations_from`, `checkout`, `merge` |
| merge plans | `src/listmerge/plan.rs` | the entries of a conflict graph, costs | `make_m1_plan` |
| tracker | `src/listmerge/merge.rs`, `advance_retreat.rs` | a tree of runs of items, an index from versions to leaves | `apply`, `integrate`, `advance_by_range`, `retreat_by_range` |
| content tree | `crates/content-tree/` | leaves of entries, counts kept by differences | insertion, replacement, mutation, each telling its owner what moved |
| page storage | `src/storage/` | a header page; for each kind of data a list of pages and a blit page | open, append, sync, close; recovery |
| older crate | `crates/diamond-types-crdt`, `crates/run_on_old` | a list with the origins of its items, deletions, vector clocks | `apply_remote_txn`, replication; conversion of a log to its txns |
| JSON-like documents | `src/oplog.rs`, `textinfo.rs`, `branch.rs` | a log: registers, texts, what of both is current by version, what was deleted; a branch: maps with values and conflicts, texts | `local_map_set`, `local_text_op`, `ops_since`, `merge_ops`, `checkout`, `checkout_tip`, `merge_changes_to_tip` |
| not modelled | | | the causal graph's own file, encodings, `listmerge2`, `wal.rs`; and outside diamond-types the benchmarks (`tools/ot-bench`, `crdt-converter`, `bench-yjs`, `svg-plot`) |

### What is hard, and what makes each part correct

* **Causal graphs.** Runs are joined, trimmed and split; the mappings between
  ids and versions are kept twice; shadows and child indexes are computed once
  and trusted for good. Right means: the runs partition the versions, the
  mappings are inverse, an event never changes its id or parents, the heads are
  the events without children, and the queries, which stop early, say what the
  sets of ancestors say.
* **Exchange.** What the other side lacks is computed from a summary, or run by
  run from its log. Right means: nothing the receiver lacks is left out,
  nothing arrives before its parents, and an operation stays with its event.
* **Merging.** Items are moved through versions by counting; the events a branch
  has already seen are walked again without being shown; placeholders stand for
  the text that was there before; plans reorder the walk and forget. Right
  means: between steps every item is in the state its version gives it, a
  branch is the checkout of the version it names, replicas with the same events
  show the same text, and two items have one order wherever both are shown.
* **Trees and indexes.** An item moves between leaves when others are inserted;
  the index must be told, and counts be flushed before a cursor moves. Right
  means: no assertion of the tree, the index or the tracker fails in any merge.
* **JSON-like documents.** A key holds several values when it was set apart;
  setting it deletes what it held and all that is in it; a log keeps by version
  what is current, and sends and updates branches from that alone. Right means:
  the registers and the texts hold what nothing later dominates, only what is
  out of reach is deleted, documents with the same events read the same, and a
  branch brought up step by step shows what a checkout shows.
* **Storage.** A page is written over and over until it is full; a crash tears
  or loses what no sync has confirmed. Right means: what was synced survives,
  what was not survives as a prefix, the file opens, and no page has two owners.

The whole list, at the lines where it bites, is under `hazards` in
`PROJECT.json`.

## Modules

The reference:

| module | models | notes |
|---|---|---|
| `CausalGraph` | the data structure and `add` | a graph is a value (a record), each function an operator on it |
| `CausalGraphTools` | the queries and the exchange | the loops are recursive functions over the state of the loop |
| `CausalOrder`, `CausalHistory` | nothing: the reference definitions | histories as sets, dominators and frontiers, written without runs; `CausalOrder` serves diamond-types too |
| `CausalGraphMachine` | a graph that grows by `add` and `assignLocal` | `AddSpan`, `AssignLocal` are the actions; the invariants of the structure; implements `EventLog` |
| `EventLog` | what one causal graph promises | a set of events to which chains of events are added |
| `CausalGraphToolsSpec` | | the properties of the queries over every graph the machine reaches |
| `OpLog` | the operation log | |
| `EgWalker` | the walker | one operator per function; `Throw` marks an exception |
| `Walker` | every editing history, and one merge, a step at a time | actions `MakeOp`: a writer at any version writes an operation that is legal there; `Start`, `BeginPart`, `Retreat`, `Advance`, `Apply` |
| `Editors` | the library as its README uses it | actions `Write`, `MergeLogs`, `PushFrom`, `CatchUp` |
| `ListFugueSimple` | the reference list | |
| `Replicas` | the loop of the fuzzer | actions `DocInsert`, `DocDelete`, `DocMergeInto`; implements `EventGraph` |
| `EventGraph` | the abstract system | replicas write events and receive causally closed sets of them |
| `CausalFacts` | | lemmas about any graphs and logs: the two indexes of a graph, its queries, what one sends another, logs as sets of facts |
| `CausalGraphProofs`, `WalkerProofs`, `EditorsProofs`, `ReplicasProofs` | | the theorems about the machines, see Proofs |

diamond-types:

| module | models | notes |
|---|---|---|
| `DTGraph`, `DTGraphTools` | the graph; its queries and the frontiers | a heap is a set from which equal elements are taken together |
| `DTSubgraph`, `DTConflictGraph`, `DTMergePlan` | parts of a graph; the graph of a conflict; plans | |
| `DTGraphSpec`, `DTPartsSpec` | every graph `push` can build, a run at a time | the properties: what the functions return, against histories as sets |
| `CausalOrderProofs`, `DTGraphProofs` | | lemmas on partial orders, searches and recursive functions; theorems about the graph |
| `DTAgents` | agents, and the causal graph | |
| `DTListOps`, `DTListLog` | run-length operations; logs, what they take and are sent | |
| `ContentTree` | the tree the tracker's items are in | a sequence of leaves; inner nodes are left out |
| `DTSpans` | runs of items, markers, the index | |
| `DTTracker` | `apply`, `integrate`, retreat, advance | `ok` turns false where the code asserts or panics |
| `DTListMerge` | the iterators over transformed operations, and the merges built on them | |
| `DTWalkerOld` | the merger before plans | compared with the one that follows plans |
| `DTLists` | documents edited apart | actions `Insert`, `Delete`, `MergeTip`, `Rewind`, `Take`, `Send` |
| `DTHistories` | every log writers can produce | actions `Insert`, `Delete`, `Backspace`; all merges of all pairs of versions |
| `DTOldList`, `DTOldTxns` | the older crate; a log as its txns | instantiated by `DTHistories` at every version |
| `DTDocLog` | the log of a JSON-like document, and messages between logs | what is sent is named by agent and number, as in a message |
| `DTDocs` | documents edited apart, and branches that follow | actions `Set`, `TextOp`, `Send`, `Merges`; two fields are history: `late` of a log, `harmed` of a branch |
| `PageStorage` | the paged file | actions create, open, append, sync, close, and crash; the last kept pages of a crash are chosen between barriers |
| `PageStorageProofs` | | the theorems that no page has two owners, that a file opens again, and that what is synced survives |
| `DurableLog` | the abstract storage | what `PageStorage` implements |

`MCReplicas` adds the symmetry of its run; every other run checks the module
itself with a configuration `MC*.cfg`.

How the models read the code:

* Arrays indexed from 0 become sequences indexed from 1; a cursor is the number
  of items before it, or a leaf and a place in it. Versions count from 0.
* Frontiers are sets. Where the code depends on the order of an array (the
  result of `findDominators`, the queue of `findConflicting`, parents of a
  conflict graph's entries) the order is modelled.
* Binary searches return what they find in the set of matching entries; that
  there is at most one is part of what the invariants say.
* Agents are small integers, which stand for their names too. The code orders
  names as strings; any total order will do.
* An exception, assertion or panic inside a merge sets `ok` to `FALSE` and the
  model goes on: every property about a text includes `ok`.
* `delTargets` and `itemsByLV` are functions with the domain the code has
  written to. Placeholder ids start at small numbers that no version reaches
  (`Underwater`) instead of at `1e12` or `usize::MAX / 4`.
* Text is a sequence of items; the content of an item is its id, so that texts
  are equal only if they have the same items.
* The tracker's tree has leaves of `LE` entries; the code's release build has
  more, its tests small ones, so that leaves split in small documents too.
* Definitions whose name ends in a suffix, such as `Settle_First` next to
  `Settle`, are plausible mistakes in the definition that follows. They model
  no code and no specification uses them: they are there to be put in its
  place, to see that the property named for them in `PROJECT.json` fails.

## Runs

All runs check safety. Deadlock is not checked: every model stops when its
bound is reached, and the code has no component that waits.

| run | instance | what it shows |
|---|---|---|
| `causal_graph` | 2 agents, 4 versions, spans of up to 2, sequence numbers below 3 | every sequence of `add` and `assignLocal`, with spans that overlap what is known and gaps in an agent's numbers, keeps the structure, the heads and the known events intact |
| `graph_tools` | every graph of up to 5 events by 2 agents; of up to 4 for exchanges between parts of a graph (`MaxPaired`) | the reference's queries against the sets of ancestors, for all pairs of frontiers; one exchange delivers exactly what the receiver lacks |
| `walker` | every history of 4 operations by 2 agents; every merge between two versions of a history of 3, and the whole walk of one of 4, in single steps | the states of items between any two steps, that the next step finds what it needs and no exception is reachable, and that merging any version into a branch at any other gives what a checkout gives |
| `replicas` | 2 documents, 2 agents, 4 operations | the assertions of the fuzzer, exhaustively: convergence, agreement with the reference list, nothing deleted returns and nothing moves; and `Replicas` implements `EventGraph` |
| `editors` | 2 editors, 3 operations in runs of up to 2 | operations pushed one by one in any order, repeated or early, mixed with whole merges, stay with their events; a branch that lags its log is always the checkout of the version it names, and never moves back |
| `dt_graphs` | every graph of up to 5 versions | the Rust graph's own checks; its queries, subgraphs, scopes and conflict graphs against histories as sets; a merge plan, for every pair of frontiers, is a walk that applies each version exactly after what it follows |
| `dt_merge` | every log of 4 versions over one base item, by 2 writers, in runs of up to 2, with deletions that run backwards | each of the four ways of merging the newest version into every other one gives the text of a checkout; two items have one order; the older crate, fed with the same history, has the same text and replicates |
| `dt_lists` | 2 documents, 3 versions in runs of up to 2 over one base item, of which one logs what it deletes | logs that take and are sent operations keep them with their events; equal logs have equal text; a branch that got where it is by edits, merges and rewinds is a checkout |
| `dt_docs` | 2 documents over a map in the root and a text in it, one key, 3 edits of which a document makes at most 2 | after any exchange of messages a log passes its `dbg_check`, but for three assertions of which the property says what holds instead, and the only assertion an edit or a merge trips over is that nothing is deleted twice; documents with the same events read the same; a branch that merges now and then has, conflicts and all, what a checkout has, apart from what the code is known to harm |
| `storage` | 2 kinds of data, 2 items a page, 4 items, 2 crashes | `PageStorage` implements `DurableLog`; the file opens; no page has two owners |

Two runs end in a violation, each of a statement the repository makes
(`findings` in `PROJECT.json`):

* `docs_torn`: a run of text operations of which the receiver knows the
  beginning is given the versions that follow it there, whatever they are; two
  documents with the same events then read differently.
* `conformance`: diamond-types and the reference give different texts for a
  history of four insertions, by their different rules for right origins.

`dt_docs` leaves the first situation out, by the constant `SendsTorn`. Other
situations that runs leave out are listed under Observations, with the constant
that lets them in.

### Bounds, and why they are enough

Four events with two agents give every shape of graph the code distinguishes:
a fork, a merge of two heads, a run that is forked in its middle, an agent
concurrent with itself, two roots. Two concurrent insertions next to a
concurrent deletion need three operations and a merge; a branch that merges a
version concurrent with its own and older than its heads needs four. The
queries get a fifth event, for merges of three parents and for runs that end
inside one another: a plan needs it to go back to a branch it left. Questions
about two frontiers without the newest version are asked of the graph before it
was pushed (`LastPairs`); `push` adds runs of any length within the bound.

In `dt_merge` and `dt_lists` a base item gives concurrent operations something
to stand next to and to delete; runs of two items are what is split, joined and
cut. A leaf holds `LE = 4` entries, so that four operations fill and split one
next to the placeholder. Writers take turns in `DTHistories`: what one writer
does in a row is a longer operation or a backspace.

In `dt_docs` what all documents start with, a map and a text in it, is made by
an agent of its own, so that two edits can already be: a map overwritten, and a
concurrent edit of the text in it, or a concurrent overwriting of that text. One
key suffices, since keys of a map do not interact, and paths are as deep as the
edits make them. The third edit resolves a conflict, or makes one of three
values, or forks a text anew. A log has two messages for another: all it has,
and what it has since what they share.

In `replicas` the documents are symmetric and are checked up to permutation;
agents are not, since the order of insertions depends on them. The run
`graph_tools` has a constraint that gives the first event to agent 0
(`FirstByAgentZero`): the algorithms only compare agents for equality.

In `storage` four items of two a page let a kind fill its page and go on while
the other has one; a second crash comes after recovery from the first. Three
pages a kind would come with six items; the states that two items a page lead to
already contain every case of the code (`nextFree` from the header, from a
scan, from an assignment).

A span given to `add`, or sent to a log, is one the system can produce: its
events exist or are new, in one chain, and known events have the parents they
are known with.

Every property was seen to fail for a mistake in the code it is about: the list
is under `mutants` in `PROJECT.json`.

### Fairness

None is assumed, and no liveness is claimed. The libraries do nothing by
themselves: whether replicas ever exchange what they know, and whether a file
is ever synced, is up to the caller, and nothing in the code waits for anything.
What a liveness property would say of one exchange, that the receiver then has
everything, is the safety property `ExchangeDeliversAll`; that a plan comes to
an end is part of `PlansAreWalks`; and that a merge ends is part of TLC
evaluating it.

## Proofs

Theorems hold for any set of agents and any bounds; the assumptions are those
the modules name: agents are a finite set of naturals, bounds are naturals.
A run checks the same properties on its small instance, and each inductive
invariant was checked by TLC before it was proved.

**The causal graph of the reference.** What holds of any one graph is apart
from the machines that hold graphs, so that all four can use it: `CausalFacts`
has the invariants of the structure and what keeps them, what the queries answer,
and what one graph or log gets from another. `CausalGraphProofs` proves that
`GraphInv` is an invariant of `CausalGraphMachine` (`Invariance`), and from it
the properties `TypeOK`, `EntriesInOrder`, `HeadsAreChildless` and
`EventsAreStable` that the run `causal_graph` checks, and that every version is
in exactly one entry (`CoverOfVersions`). None of these is inductive by itself.
`GraphInv` puts together: the types; that entries follow one another without
gaps, and are not empty; that parents are lower than the first version of their
entry; and that the heads are the versions that are no one's parent. The
argument goes along the code. A span is trimmed to a new entry that satisfies
`NewEntry`'s conditions, or is known as a whole and nothing changes. The new
entry is either joined to the last one, which happens only if its one parent is
that entry's last version, or pushed. In both cases the version a lookup gives
for a known event is the same entry or the joined one, so `ParentsOf` and
`LvToRaw` do not change for known versions and are those of the span for new
ones; and the new heads, the old ones without the parents and with the last new
version, are the childless versions.

The second index leads from agents and sequence numbers to versions. `IdInv` says that the runs of each agent are ordered and disjoint
and that the two indexes name the same events, and is kept however a run is
spliced into the list or joined to its neighbours (`IdInvariance`). It gives
`MappingsAgree`. The proof needs that an event has one identity, which is what
trimming a span at what is known of it, and never anything else, provides.

With both indexes, what a call adds is stated as a set of events
(`AddsAreUnions`), and from that it follows, step by step, that the graph
implements `EventLog` (`ImplementsLog`): local versions, runs, heads and indexes are all
implementation.

The second part of `CausalFacts` is about what the graph is asked. It ties the entries
to the partial order of `CausalOrder`: the heads are its frontier
(`HeadsAreFrontier`), and `versionContainsLV`, a search by runs from the highest
down, is membership in a history, for any set of versions and any target
(`ExactContainment`). `ExactMoves` is what a branch moves by: `diff` returns the
difference of two histories each way, as ascending runs that do not touch, and
`findDominators` the frontier of any list of versions, repeated ones too. The
loops of both have an invariant with a level `l` (`DiffInv`, `DominatorInv`).
What is in the result is right for all versions from `l` up; below `l` the
queue, its part of either flag for `diff` and its odd numbers for
`findDominators`, has the same history as the versions the loop set out from or
has passed. To consume an entry takes `l` down to its first version
(`FollowsBelow`): what is queued inside it is below its highest one, and below
the entry its parents stand for all of them. For `diff` this also needs that a
version is queued once, under a flag, and that `numShared` counts the shared
ones, for the loop stops by comparing two numbers (`DiffStepKeeps`,
`DiffEnds`); for `findDominators` that a version queued both as an input and as
a parent is met as a parent first (`DominantInRun`).

The hardest of the queries is `findConflicting`, which splits the histories of any two
frontiers (`ExactConflicts`) into what a merge replays and what it may forget. Its
queue holds whole frontiers, with the side or sides they stand for, in an order
that compares them item by item; the proof begins with that order being total
and its top having the highest version of all (`TopOfQueue`). The invariant has
a level again (`ConflictInv`). From `l` up everything is visited under its flag;
below `l` each of the two frontiers has what the points on its side have; and
every visited event comes after the whole of some point. The last is why the
walk may not stop at any single common ancestor, and it is not kept point by
point: a merge that is taken apart leaves smaller points, which come before what
came after the whole. The inner loop, whose level is the number of points within
the entry, joins them with the point in hand (`AbsorbKeeps`); a range is visited
by bringing the point in hand down to where it ends (`Cut`). That a point is met
within an entry only once needs that it is a frontier, whose versions never lie
in one entry (`OthersBelow`): hence the second invariant of the graph, that the
parents of every event are a frontier (`FrontiersOfParents`). At the end all
points are the same, and what holds of some point holds of the version that is
returned (`OnePointLeft`).

**Exchange.** `DeliveryOfExchanges` says of any two graphs that know parts of one
history that a summary, the difference computed from it and a partial merge
deliver what the receiver lacks: nothing is refused, and the receiver then has
the events of both, with the heads of the union. The two number events
differently, cut their runs at different places and may each know an agent's
numbers with gaps. The argument names versions by what they stand for (`Agree`,
`KnownTo`). The summary of one graph, met with the runs of the other, gives
versions that the first knows and in whose history all that it knows lies: hence
the common version's history is what both know (`CommonIsKnown`), and the
difference, by `ExactMoves`, what is lacking (`LackingIsUnknown`). It is sent in
slices of entries, every event after its parents (`Slices`). Partial merge is a
loop whose invariant (`Merges`) says that the receiver is what it would be had
the events been added one by one in the order they were sent (`Replays`); each
slice is unknown to it as a whole, since slices do not overlap, and its parents
are known, since lower versions are sent first, so that `add` neither trims nor
refuses it.

**Logs, editors and documents.** A log is whole when it has one operation for
each event of a sound graph (`Whole`). It is then as good as a set of *facts*, an
event with its operation, and the calls are set operations: a local edit adds a
chain of new facts on top of the heads (`OpsWritten`), `pushOp` adds one that
another log has or leaves the log as it is (`OpPushed`), `mergeOplogInto` takes
the union (`MergedLogs`), for which the operations must be copied in the order
in which the graph numbers the events it takes. `Consistent` says that all logs
are whole and that no two facts of any two logs share an id. It is not inductive:
a writer's next number is new in its own log, and nothing in `Consistent` says
that it is new elsewhere.

`EditorsProofs` adds that an agent's own log has every fact of the agent
(`OwnKnown`), which holds since an agent writes to one log and logs lose nothing.
The result is `OperationsTravel`: whatever is pushed, merged, repeated or refused,
an event stands for one operation. `BranchesAdvance` is the action property that
a branch never loses events: its new version is `findDominators` of its old one
and of what it merges, and that covers both (`VersionMerged`), whatever the walk
did to the text.

In `ReplicasProofs` agents are shared by documents, so `OwnKnown` would be
false; what keeps ids apart is the counter of `consumeSeqs`. The invariant
`DocsInv` bounds every id in a log by it (`Handed`). Under that invariant every
step of `Replicas` is one of `EventGraph` with the sets of events read off the
logs (`Refinement`): an edit is `Write`, with the heads for the tips of the set
(`TipsOfGraph`), and `docMergeInto` is `Receive`. Of `EventGraph` it is proved
that replicas keep closed histories (`Closure`) and agree on what an id names
(`Identity`); `DocsAreCausal` transfers both to the documents.

**The walker.** `WalkerProofs` proves that in any merge, of any two versions of
any log that writers can produce, the state of every item between any two steps
counts what the version the walk is at knows of it, and that the next step finds
what it needs (`ItemsFollowVersion`). A state is a number that `retreat1` lowers
and `advance1` raises, whoever raised it before, so the property says nothing
that a step keeps by itself. `IInv` names the events the items stand at
(`StandsAt`): between two parts those of the walk's version; within a part those
of the version the walk came from, less the retreats made, with the advances and
the operations applied (`InForce`). This set stays closed under what comes
before an event because the steps that are left are ordered, retreats from the
newest down, advances and operations from the oldest up (`StepsFit`). So the
event of a retreat is one on which nothing in force depends, that of an advance
has all it depends on in force, and either is counted by exactly one item: an
insertion by its own, a deletion by its target, which was inserted in all that
the deletion has seen. That the retreats and advances are those that lead from
one part to the next is `DiffOfGraph`, that is `ExactMoves` for the graph of the
log. The parts that are left (`TodoFits`) come each after everything its parents
stand for, and hold every event the walk has not applied, once: that is
`ConflictOfGraph`, from `ExactConflicts`, cut at the entries by
`SlicesOfRange`, for a merge that starts at the common version of its two
frontiers. A merge starts with placeholders for the text it does not replay,
items that no event inserts, which are in force always (`FreshStands`). The log
itself grows by operations a writer makes at a frontier, so its graph keeps
`IdInv` and `ParentFrontiers` (`PushKeeps`). What an operation does to the list
of items is only assumed to go well (`w.ok`): that there is always an item at the
position it names is what convergence of the text amounts to, and is left to
`MergeIsCheckout`.

**The graph of diamond-types.** `DTGraphProofs` proves that what `dbg_check`
asserts is an invariant of `push` (`GraphInvariance`, `GraphsAreChecked`). The
inductive invariant is those assertions together with the types and the order
of versions. Child indexes are appended to entries that were made long before;
shadows are computed once, by following the shadows of parents, while the check
recomputes them from the sorted parents: both are the end of the one chain that
`ShadowFunction` describes. Nothing in the invariant mentions histories. That a
shadow reaches no further than the history of its entry (`ShadowInHistory`),
and that the frontier of the entries is that of the partial order
(`FrontierIsChildless`), follow from it in every state. On that rests
`ExactQueries`: a search that stops where a shadow settles the question answers
what one through all the versions would, and versions and frontiers compare as
their histories do.

**Storage.** `PageStorageProofs` proves that no page is given to two kinds, or to
a kind twice (`OwnershipOfPages`), for any number of kinds, pages and crashes,
and also in the situations that the run `storage` leaves out: what is lost there
is data, never the owner of a page. The property speaks of the chains a reader
would follow, and is not inductive: an assignment relies on the first free page,
which a scan of the file computes, after a crash from whatever pages survived.
The inductive invariant `StorageInv` says that there is an assignment of owners,
a kind and whether the page is its blit page, to exactly the pages below the
first free one. Each page the header names is owned by who the header says; so
is the last page in memory; and a page of the file that is owned by a kind and is
not its last links, if at all, to a higher page of the same kind. Appending gives an owner to
the page it assigns (`AppendFitsKeeps`, `AppendFullKeeps`), and every write is to
the last page of a kind or its blit page, so that it leaves other links alone
(`FurtherWrites`). Opening is a proof of its own: the scan gives owners to pages
as it passes them, and what they refer to is owned already or still queued
(`Scanned`), whatever is on disk; where it cannot go on it fails instead. That a
chain stays among its owner's pages and never repeats one then follows from the
links' order (`OwnedPages`).

That the file opens again (`StorageOpensAgain`, the property `OpensAgain`) is
proved for the surroundings that the run has, `Situations = {}`: each of the five
leads to a file that does not. The scan asks that pages come in the order of
their numbers without a gap, so what is to be shown is that the header and the
links lead to each page up to some number and to none after it (`Connected`,
from which `ConnectedOpens` leads the scan step by step: the lowest page in its
queue is always the first free one). Of the file as the program sees it, all
writes done, this is an addition to the owners: each page is named by the header
or by a page before it (`Reached`), and what is in memory as a kind's last page
is the last in the file (`CursEnd`). For a crash it has to hold of whatever is
left by the writes that were done, not done or torn, in each combination that
the barriers allow. `CrashSafe` says why it does: to a page that leads to one
assigned before the last sync nothing is to be written; the pages assigned since
were all assigned by one kind, each by a write to the page just before it; so
what a crash leaves of them ends where the first link is missing
(`CrashConnects`). None of this holds while the header on disk is not the one in
memory (`Creating`), when the run lets no crash come; every step that adds a kind
leads there (`PrepareKeepsSafe`), and only a sync back.

That what is synced survives (`StorageIsDurable`, the property `SyncedSurvives`)
is a refinement, proved with the same `Situations = {}`: mapping the log of
`DurableLog` to what the open file holds, and to what would be recovered from a
closed one, each step appends, syncs, crashes, or changes nothing there. What a
kind holds is read piece by piece (`PieceAt`), from its current page in memory
or from a page and its blit page on disk; where on each page one reading stops at
a prefix of what the other goes on with (`Between`), what is read of the whole
chain is a prefix too (`ReadsLess`). So a crash is dealt with page by page: what
it leaves of a page lies between what is on disk of it and what is in memory
(`KindSurvives`, which `Durable` demands of every crash the barriers allow). To
show that for every write a step adds, the invariant `SurvivesInv` has to know
that the last page of a kind either was just assigned and is not on disk at all,
or is there with what it was last written with, and then nothing is pending for
any page of the kind (`Kept`); that a blit page only ever names pages of its kind (`BlitsIn`); and that
what is on disk can be opened by itself (`Settled`), as a crash may leave just
that. At a sync what is in memory becomes what is on disk; opening shows it again
because the scan puts in memory what it reads (`ScanReads`).

**How recursion is dealt with.** `CausalOrderProofs` has what both graphs need:
histories satisfy their equation and are ordered like versions; the dominators
of everything are the childless versions; a run leads where its first version
leads. A recursive function of the model is a `CHOOSE` of a function that
satisfies its equation, so a proof exhibits one (`StepsExist` for a pass over
numbers, `DescentExists` for a chain downwards, or the intended answer itself
for a search) and shows that there is no other (a least argument at which two
differ; `SearchIsUnique`). A loop is recursive over the number of its
iterations, one for each version of the graph at most and idle when it is done;
`IterationEnds` takes it to its end from a level that every iteration lowers.

**Only model-checked:** the moves and the conflicts of the Rust graph's
frontiers, subgraphs, scopes and plans; that the walker puts items in the right
place and finds positions, so that no assertion of a merge fails, texts converge
and a branch shows the text of its version (`MergeIsCheckout`,
`BranchIsItsVersion`, `AssertionsHold`, `SameEventsSameContent`,
`ContentIsFugue`, `NothingReturnsOrMoves`); the trackers, lists and documents of
diamond-types. What a merge of texts does is induction over graphs and sequences
at once, which no backend does here; several of those modules also use operators
declared `RECURSIVE`, which the provers cannot open. Liveness is not claimed at all.

## Not modelled

* JSON-like documents: `checkout_at_version`, registers and collections of
  their own, which the code leaves as `todo!()`; the readers of a single path.
* `causalgraph/storage.rs`: called by its own tests only.
* Encodings: byte-level formats; a round trip their fuzzers test. What a message
  about a causal graph says is in `DTDocLog`.
* `causalgraph/summary.rs`, `remote_ids.rs`: translations of versions to names.
* `listmerge2` and `wal.rs`: unfinished, and not called.
* The inner nodes of the trees; the safe wrappers and the deletions of the
  content tree, which the tracker never calls.
* Local edits of the older crate: the conformance program only feeds it txns.
* Liveness: see Fairness.

## Observations

Met while modelling, outside what a run or a finding says:

* `PageStorage` names five situations in which data is lost or a file does not
  open; the run excludes them. A page that was synced an even number of times,
  the last time to its blit page, and then fills finds itself as its successor
  (`mod.rs:583`). A kind whose first page was assigned but never written before
  a crash cannot be appended to after it (461-463). A crash while the header is
  written, of a new file (386) or in any sync of a session that added a kind
  (508-517, where `header_dirty` is never reset), may tear it, and the file does
  not open; the copy it is written to first is not looked for (the TODO at 405).
  A page that is assigned again may still hold data from before a crash. And
  pages assigned by two kinds within one sync may leave a hole that the scan
  takes for the end.
* `subgraph_raw` (218-223) reverses child indexes and leaves a child that was
  removed; the check for it is commented out at its call (`merge.rs:1141`).
* The comment on a shadow (`graph/check.rs:18-19`) promises the smallest one from
  which everything is in the history. Both computations stop earlier: with
  two roots 0 and 1, 2 after 0, and 3 after 1 and 2, the history of 3 is
  everything, and its shadow is 1.
* `compareVersions` has the opposite sign of its comment
  (`causal-graph.ts:890-901`); nothing calls it.
* `localInsert` without content adds an entry of no events and moves the heads;
  `pushOp` of an insertion without content throws after the graph was extended.
* The older list keeps the root in its frontier after the txns of
  `run_on_old`, whose root operations have an empty list of parents; and its
  vector clocks only describe lists without gaps, the precondition of
  replication in `OlderAgrees`.
* `DTLists` leaves out two situations that its constants let in, and `LogsKeepOps`
  fails with either. `TakesSplitAgents`: `add_missing_operations_from` takes a
  gap's offset from the wrong log where an agent wrote on two branches
  (`list/oplog_merge.rs:59`), and an operation is stored under the id of
  another. `SendsPartDeletes`: a deletion received again, of which the first
  items are known, is cut at its position instead of its start
  (`list/oplog.rs:236`), and the wrong items are deleted.
* `merge_changes_to_tip` merges a text once for every version of its frontier in
  the difference, so that one that forked shows its characters twice
  (`branch.rs:217-224`); and it deletes what a register held before, even when it
  still holds it, as winner or in conflict (206-214). `DTDocs` lets every such
  merge happen and records in `harmed` what it harms; `BranchesFollow` says that
  all else is as in a checkout.
* A branch that is brought up to its log has no entry for a map or a text in
  which nothing was ever done. Its own `dbg_check` (`branch.rs:311-312`) and
  `simple_val` (`simple_checkout.rs:17`, 39) expect one, and the comparison with
  `checkout_tip` that the tests make (335) would fail: they never make it with an
  empty text. `BranchesFollow` says which entries there are. A branch may also
  have entries for what is set in a map that was deleted already (`late`).
* The one assertion that edits and merges of documents trip over is that nothing
  is deleted twice (`oplog.rs:216`, 244, 302): a map is deleted in one document
  while a CRDT in it is overwritten in the other. `DocLogChecks` says that it is
  the only one, by name (`failed`).
* `OpLog::dbg_check` itself fails in three ways that no test of the repository
  meets, and `DocLogChecks` says what is so instead. `remote_map_set` puts the new
  index before the smaller ones it keeps, where ascending order is asserted (55,
  and against the dominators at 86): the held values are the dominators with the
  newest first. The frontier of a text is compared with the dominators of the
  last versions of its runs (111-113), but concurrent deletions at one place are
  packed in a run: the frontier is that of all versions. And a CRDT that is set
  in a map that is deleted already is never marked as deleted (154): every other
  one that is gone is marked, and nothing else is.
* `ops_since` lists the missing ranges from the highest down; of more than one,
  the first may name parents that come in the next, and the message is refused
  (`DataMissing`) with a part of it read. `DTDocs` sends one range at a time
  (`TakenWhole`).

## Plan

1. `DTSummary`: what a version summary says of a graph, and the intersection of
   two; against `CausalHistory`.
2. Proofs: the moves and conflicts of the Rust graph's frontiers, along the
   lines of the reference's.
