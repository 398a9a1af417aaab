---------------------------- MODULE PageStorage ----------------------------
(***************************************************************************)
(* diamond-types: the page storage (storage/mod.rs, page.rs, file.rs).     *)
(*                                                                         *)
(* A file is pages.  Page 0 is the header, which names for each kind of    *)
(* data its first page and its blit page; the data pages of a kind are a   *)
(* list.  The last page of the list is written again and again, in turn to *)
(* its own place and to the blit page, so that a copy survives a torn      *)
(* write.  What is written is on disk after a sync; before, a crash leaves *)
(* any part of it that the barriers allow.                                 *)
(*                                                                         *)
(* The content of a page is the sequence of its items; those of a page fit *)
(* up to Capacity.                                                         *)
(***************************************************************************)
EXTENDS Integers, Sequences

CONSTANTS KindCount,    \* kinds of data: 0 .. KindCount - 1
          Capacity,     \* items a page holds
          MaxItems,     \* bound: items appended
          MaxCrashes,   \* bound: crashes
          MaxPages,     \* bound: pages of the file
          Situations    \* what the surroundings may do, see below

ASSUME StorageAssumption ==
  /\ KindCount \in Nat \ {0} /\ Capacity \in Nat \ {0}
  /\ MaxItems \in Nat /\ MaxCrashes \in Nat /\ MaxPages \in Nat

(***************************************************************************)
(* The code loses data, or cannot open the file, in five situations.  Each *)
(* is allowed only when Situations has its name:                           *)
(*   "fill after blit"   a page fills that was last written to the blit    *)
(*                       page;                                             *)
(*   "append to orphan"  a kind is appended to when its last page was      *)
(*                       assigned before a crash, but never written;       *)
(*   "crash in creation" a crash while a header is written in place, or    *)
(*                       is still to be, which it may leave torn;          *)
(*   "stale page"        a page is assigned that still holds data written  *)
(*                       before a crash, when it was another page's next;  *)
(*   "assign in turn"    a kind assigns a page while another kind has      *)
(*                       assigned one since the last sync.                 *)
(***************************************************************************)

Kinds == 0 .. KindCount - 1
PageNums == 0 .. MaxPages

VARIABLES disk,      \* pages on disk
          pending,   \* writes and barriers that are not
          engine,    \* the StorageEngine, when the file is open
          phase,     \* "closed", "open", "syncing", "closing", "failed"
          items,     \* ghost: items appended so far
          synced,    \* ghost: what each kind held at the last sync, or after a crash
          crashes    \* ghost: crashes so far

vars == <<disk, pending, engine, phase, items, synced, crashes>>

-----------------------------------------------------------------------------
(* Pages.                                                                  *)

Blank == [type |-> "blank"]
Torn == [type |-> "torn"]
Header(info) == [type |-> "header", info |-> info]

\* next is the page that follows, or 0; in a blit page, the page it is for.
Data(next, status, content) == [type |-> "data", next |-> next, status |-> status, content |-> content]

NoInfo == [first |-> 0, blit |-> 0]
NoHeader == [k \in Kinds |-> NoInfo]

\* try_read_raw(): a page that is damaged, of another type or beyond the end is
\* no page.
IsData(page) == page.type = "data"

NewPage == Data(0, 0, <<>>)

\* roll_blit_status() and the order of BlitStatus.
Rolled(status) == (status + 1) % 3
Further(status, other) == status = Rolled(other)

-----------------------------------------------------------------------------
(* The file.                                                               *)

Barrier == [page |-> -1, to |-> Blank]
Write(n, page) == [page |-> n, to |-> page]

IsBarrier(w) == w.page = -1

LastOf(is) == CHOOSE i \in is : \A j \in is : j <= i

\* What those of the writes that are done make of the pages on disk: of one that
\* is torn, a page that cannot be read.
WrittenBy(done, torn, on, writes) ==
  [n \in PageNums |->
     LET to == {i \in done : writes[i].page = n}
     IN  CASE to = {} -> on[n]
           [] to # {} /\ LastOf(to) \in torn -> Torn
           [] OTHER -> writes[LastOf(to)].to]

\* What the program reads: its own writes, synced or not.
File == WrittenBy(DOMAIN pending, {}, disk, pending)

\* A crash keeps the writes before some barrier, or all, and of those between
\* it and the next any, some of them torn.
Blocks(writes) == {0} \cup {i \in DOMAIN writes : IsBarrier(writes[i])}

CrashBlock(writes, from) ==
  {i \in from + 1 .. Len(writes) : \A b \in Blocks(writes) : b > from => i < b}

CrashOutcomes(on, writes) ==
  UNION {UNION {{WrittenBy(1 .. from \cup some, torn, on, writes) : torn \in SUBSET some}
                  : some \in SUBSET CrashBlock(writes, from)}
           : from \in Blocks(writes)}

-----------------------------------------------------------------------------
(* Reading a kind of data.                                                 *)

Chunk(cur, toBlit, blit, page) == [cur |-> cur, toBlit |-> toBlit, blit |-> blit, page |-> page, dirty |-> FALSE]
NoChunk == Chunk(0, FALSE, 0, NewPage)

IsChunk(c) == c.cur # 0

BlitFor(file, info, n) == IsData(file[info.blit]) /\ file[info.blit].next = n

\* DataChunkIterator: what it gives of a page, and the page after it or 0.  The
\* current page is read from memory.
Piece(content, next) == [content |-> content, next |-> next]

PieceAt(file, info, chunk, n) ==
  LET page == file[n]
      blit == IF BlitFor(file, info, n) THEN file[info.blit].content ELSE <<>>
  IN  IF IsChunk(chunk) /\ n = chunk.cur THEN Piece(chunk.page.content, 0)
      ELSE IF ~ IsData(page) THEN Piece(blit, 0)
      ELSE IF page.next # 0 THEN Piece(page.content, page.next)
      ELSE IF BlitFor(file, info, n) /\ Further(file[info.blit].status, page.status) THEN Piece(blit, 0)
      ELSE Piece(page.content, 0)

\* The content of the pages of a kind: of i pages at most, as they can be a cycle.
Contents(file, info, chunk) ==
  LET upto[i \in 0 .. MaxPages + 1] ==
        IF i = 0 THEN [n \in PageNums |-> <<>>]
        ELSE [n \in PageNums |->
                LET piece == PieceAt(file, info, chunk, n)
                IN  IF n = 0 THEN <<>> ELSE piece.content \o upto[i - 1][piece.next]]
  IN  upto[MaxPages + 1][info.first]

-----------------------------------------------------------------------------
(* open()                                                                  *)

LastPage(file, info, n) ==
  LET page == file[n]
      blit == file[info.blit]
  IN  CASE IsData(page) /\ BlitFor(file, info, n) ->
             IF Further(blit.status, page.status) THEN Chunk(n, FALSE, info.blit, blit) ELSE Chunk(n, TRUE, info.blit, page)
        [] ~ IsData(page) /\ BlitFor(file, info, n) -> Chunk(n, FALSE, info.blit, blit)
        [] IsData(page) /\ ~ BlitFor(file, info, n) -> Chunk(n, TRUE, info.blit, page)
        [] OTHER -> NoChunk

\* One page of scan_blocks(): it has to be the one after the last.  A kind ends
\* with a page that has no next one.
ScanStep(file, info, st, x) ==
  LET rest == st.queue \ {x}
      page == file[x.n]
      next == [st EXCEPT !.queue = rest, !.nextFree = x.n + 1]
  IN  CASE x.n # st.nextFree -> [st EXCEPT !.queue = {}, !.ok = FALSE]
        [] x.n = st.nextFree /\ x.blit -> next
        [] x.n = st.nextFree /\ ~ x.blit /\ IsData(page) /\ page.next # 0 ->
             [next EXCEPT !.queue = rest \cup {[x EXCEPT !.n = page.next]}]
        [] OTHER -> [next EXCEPT !.chunks[x.kind] = LastPage(file, info[x.kind], x.n)]

\* The queue of scan_blocks() gives the lowest page.
ScanNext(file, info, st) ==
  IF st.queue = {} THEN st
  ELSE ScanStep(file, info, st, CHOOSE x \in st.queue : \A y \in st.queue : x.n <= y.n)

Known(info) == {k \in Kinds : info[k] # NoInfo}

ScanStart(info) ==
  [queue |-> {[n |-> info[k].first, kind |-> k, blit |-> FALSE] : k \in Known(info)}
             \cup {[n |-> info[k].blit, kind |-> k, blit |-> TRUE] : k \in Known(info)},
   nextFree |-> 1, chunks |-> [k \in Kinds |-> NoChunk], ok |-> TRUE]

\* scan_blocks(): the pages are passed in the order of their numbers, so that the
\* queue is empty after at most one step for each.
ScanBlocks(file, info) ==
  LET scan[i \in 0 .. MaxPages + 1] == IF i = 0 THEN ScanStart(info) ELSE ScanNext(file, info, scan[i - 1])
  IN  scan[MaxPages + 1]

Opened(info, scan) ==
  [headerDirty |-> FALSE, info |-> info, nextFree |-> scan.nextFree, chunks |-> scan.chunks]

Closed == Opened(NoHeader, [nextFree |-> 0, chunks |-> [k \in Kinds |-> NoChunk]])

IsEmptyFile == \A n \in PageNums : disk[n] = Blank

\* A new file gets a header, which is not synced.
OpenNew ==
  /\ phase = "closed" /\ IsEmptyFile
  /\ engine' = Opened(NoHeader, [nextFree |-> 1, chunks |-> [k \in Kinds |-> NoChunk]])
  /\ pending' = <<Write(0, Header(NoHeader))>>
  /\ phase' = "open"
  /\ UNCHANGED <<disk, items, synced, crashes>>

\* The copy of the header is not searched for when the header is damaged.
OpenFile ==
  /\ phase = "closed" /\ ~ IsEmptyFile
  /\ LET info == IF disk[0].type = "header" THEN disk[0].info ELSE NoHeader
         scan == ScanBlocks(disk, info)
         readable == disk[0].type = "header" /\ scan.ok
     IN  /\ engine' = IF readable THEN Opened(info, scan) ELSE engine
         /\ phase' = IF readable THEN "open" ELSE "failed"
  /\ UNCHANGED <<disk, pending, items, synced, crashes>>

-----------------------------------------------------------------------------
(* append_chunk()                                                          *)

Prepare_OneMore(e, k) ==
  IF IsChunk(e.chunks[k]) THEN e
  ELSE [e EXCEPT !.info[k] = [first |-> e.nextFree + 1, blit |-> e.nextFree],
                 !.chunks[k] = Chunk(e.nextFree + 1, FALSE, e.nextFree, NewPage),
                 !.nextFree = @ + 3,
                 !.headerDirty = TRUE]

\* prepare_data_page_type(): a kind without a page gets a blit page and a first
\* page, and the header has to be written.
Prepare(e, k) ==
  IF IsChunk(e.chunks[k]) THEN e
  ELSE [e EXCEPT !.info[k] = [first |-> e.nextFree + 1, blit |-> e.nextFree],
                 !.chunks[k] = Chunk(e.nextFree + 1, FALSE, e.nextFree, NewPage),
                 !.nextFree = @ + 2,
                 !.headerDirty = TRUE]

\* write_page(): to the blit page and to the page in turn.
WritePage(c, next) ==
  LET to == IF c.toBlit THEN c.cur ELSE next
      page == Data(to, Rolled(c.page.status), c.page.content)
  IN  [chunk |-> [c EXCEPT !.dirty = FALSE, !.page = page, !.toBlit = ~ @],
       write |-> Write(IF c.toBlit THEN c.blit ELSE c.cur, page)]

FinalWrites_NoBarrier(c, next) ==
  LET one == WritePage(c, next)
      two == WritePage(one.chunk, next)
  IN  IF c.toBlit THEN <<one.write, two.write>> ELSE <<one.write>>

\* The page that is full is written with its next one: to the blit page first,
\* when that is its turn.
FinalWrites(c, next) ==
  LET one == WritePage(c, next)
      two == WritePage(one.chunk, next)
  IN  IF c.toBlit THEN <<one.write, Barrier, two.write>> ELSE <<one.write>>

NextOf_KeepFree(e, c) == e.nextFree - 1

\* finalize_and_assign_next_page(): the next page is the one that the page in
\* memory names already, or else a new one.
NextOf(e, c) == IF c.page.next = 0 THEN e.nextFree ELSE c.page.next

Finalized(e, k, c) ==
  [e EXCEPT !.nextFree = IF c.page.next = 0 THEN @ + 1 ELSE @,
            !.chunks[k] = Chunk(NextOf(e, c), FALSE, c.blit, NewPage)]

WithItem(e, k, x) ==
  [e EXCEPT !.chunks[k].page.content = Append(@, x), !.chunks[k].dirty = TRUE]

Fits(c) == Len(c.page.content) < Capacity

\* Items differ in size: a page can be full with one.
MayBeFull(c) == c.page.content # <<>>

Assignable(pages) == \A n \in pages : n < MaxPages /\ (IsData(File[n]) => "stale page" \in Situations)

\* An orphan: the header has the kind, the engine has no page of it.
CanAppend(k) ==
  /\ phase = "open" /\ items < MaxItems
  /\ engine.info[k] # NoInfo /\ ~ IsChunk(engine.chunks[k]) => "append to orphan" \in Situations

\* The data pages of a kind in order, 0 after the last.
PageAfter(k, n) ==
  IF n \notin {0, engine.chunks[k].cur} /\ IsData(File[n]) THEN File[n].next ELSE 0

DataPages(k) ==
  LET pages[i \in PageNums] == IF i = 0 THEN engine.info[k].first ELSE PageAfter(k, pages[i - 1])
  IN  pages

UsedPages(k) == {engine.info[k].blit} \cup ({DataPages(k)[i] : i \in PageNums} \ {0})

AssignedByOthers(k) == \E i \in DOMAIN pending : pending[i].page \notin {-1, 0} \cup UsedPages(k)

AppendFits(k) ==
  /\ CanAppend(k)
  /\ LET e == Prepare(engine, k)
     IN  /\ Fits(e.chunks[k]) /\ Assignable(engine.nextFree .. e.nextFree - 1)
         /\ engine' = WithItem(e, k, items + 1)
  /\ items' = items + 1
  /\ UNCHANGED <<disk, pending, phase, synced, crashes>>

AppendFull(k) ==
  /\ CanAppend(k) /\ IsChunk(engine.chunks[k])
  /\ LET c == engine.chunks[k]
     IN  /\ MayBeFull(c) /\ Assignable({NextOf(engine, c)} \ {c.cur})
         /\ c.page.next # 0 => "fill after blit" \in Situations
         /\ AssignedByOthers(k) => "assign in turn" \in Situations
         /\ pending' = pending \o (IF c.dirty \/ c.page.next = 0 THEN FinalWrites(c, NextOf(engine, c)) ELSE <<>>)
         /\ engine' = WithItem(Finalized(engine, k, c), k, items + 1)
  /\ items' = items + 1
  /\ UNCHANGED <<disk, phase, synced, crashes>>

-----------------------------------------------------------------------------
(* fsync(), in two steps: a crash can come between.                        *)

\* The header is written behind the last page first.
HeaderWrites(e) ==
  IF e.headerDirty THEN <<Write(e.nextFree, Header(e.info)), Barrier, Write(0, Header(e.info))>> ELSE <<>>

PageWrites(e) ==
  LET upto[n \in 0 .. KindCount] ==
        IF n = 0 THEN <<>>
        ELSE IF e.chunks[n - 1].dirty THEN Append(upto[n - 1], WritePage(e.chunks[n - 1], 0).write)
        ELSE upto[n - 1]
  IN  upto[KindCount]

SyncWrites(e) == HeaderWrites(e) \o PageWrites(e)

\* headerDirty is never reset.
StartSync(then) ==
  /\ phase = "open" /\ SyncWrites(engine) # <<>>
  /\ pending' = pending \o SyncWrites(engine)
  /\ engine' = [engine EXCEPT !.chunks = [k \in Kinds |-> IF @[k].dirty THEN WritePage(@[k], 0).chunk ELSE @[k]]]
  /\ phase' = then
  /\ UNCHANGED <<disk, items, synced, crashes>>

\* sync_data()
SyncData ==
  /\ phase \in {"syncing", "closing"}
  /\ disk' = File /\ pending' = <<>>
  /\ phase' = IF phase = "syncing" THEN "open" ELSE "closed"
  /\ engine' = IF phase = "syncing" THEN engine ELSE Closed
  /\ synced' = [k \in Kinds |-> Contents(File, engine.info[k], engine.chunks[k])]
  /\ UNCHANGED <<items, crashes>>

\* drop() with nothing to sync.
CloseClean ==
  /\ phase = "open" /\ SyncWrites(engine) = <<>>
  /\ disk' = File /\ pending' = <<>> /\ engine' = Closed
  /\ phase' = "closed"
  /\ UNCHANGED <<items, synced, crashes>>

Recovered(d) ==
  [k \in Kinds |-> IF d[0].type = "header" THEN Contents(d, d[0].info[k], NoChunk) ELSE <<>>]

\* The header in memory is not on disk, or is being written over it: in a new
\* file, and in every sync of a session that added a kind, as headerDirty is
\* never reset.
Creating == disk[0] # Header(engine.info) \/ \E i \in DOMAIN pending : pending[i].page = 0

\* The program stops, or the power fails.
Crash ==
  /\ phase \in {"open", "syncing", "closing"} /\ crashes < MaxCrashes
  /\ "crash in creation" \in Situations \/ ~ Creating
  /\ disk' \in CrashOutcomes(disk, pending)
  /\ pending' = <<>> /\ engine' = Closed
  /\ phase' = "closed"
  /\ crashes' = crashes + 1
  /\ synced' = Recovered(disk')
  /\ UNCHANGED items

Init ==
  /\ disk = [n \in PageNums |-> Blank] /\ pending = <<>>
  /\ engine = Closed /\ phase = "closed"
  /\ items = 0 /\ synced = [k \in Kinds |-> <<>>] /\ crashes = 0

Next ==
  \/ OpenNew \/ OpenFile
  \/ \E k \in Kinds : AppendFits(k) \/ AppendFull(k)
  \/ \E then \in {"syncing", "closing"} : StartSync(then)
  \/ SyncData \/ CloseClean \/ Crash

Spec == Init /\ [][Next]_vars
-----------------------------------------------------------------------------

\* What iter_data_pages() gives, or would give once the file is opened.
Log ==
  IF phase \in {"closed", "failed"} THEN Recovered(disk)
  ELSE [k \in Kinds |-> Contents(File, engine.info[k], engine.chunks[k])]

Promise == INSTANCE DurableLog WITH Kinds <- Kinds, Items <- 1 .. MaxItems, log <- Log, durable <- synced

\* Storage is a durable log: an append adds its item at the end, opening a file
\* shows what the scan of its pages was shown, what a sync wrote is still there
\* after a crash, and of the rest a prefix; whatever writes the crash tore.
SyncedSurvives == Promise!Spec

\* open() finds a file it can read and a page it can go on with, whatever was
\* torn: it does not panic at a page that is out of order.
OpensAgain == phase # "failed"

\* No two kinds, and no two places of one kind, share a page.
PagesAreOwned ==
  phase = "open" =>
    /\ \A k \in Known(engine.info) :
         /\ \A i, j \in PageNums : i # j /\ DataPages(k)[i] = DataPages(k)[j] => DataPages(k)[i] = 0
         /\ \A i \in PageNums : DataPages(k)[i] # engine.info[k].blit
         /\ UsedPages(k) \subseteq 1 .. engine.nextFree - 1
    /\ \A j, k \in Known(engine.info) : j # k => UsedPages(j) \cap UsedPages(k) = {}
=============================================================================
