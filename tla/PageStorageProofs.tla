------------------------- MODULE PageStorageProofs -------------------------
(***************************************************************************)
(* No page of the page storage is used twice, whatever its surroundings do *)
(* (Situations), whatever a crash tears, and after every reopening: also   *)
(* in the situations in which the code loses data.                         *)
(*                                                                         *)
(* The inductive invariant gives every page below the first free one an    *)
(* owner: a kind, and whether the page is its blit page.  What the header, *)
(* the pages in memory and the pages of the file refer to is owned by the  *)
(* kind that refers to it, and a page that is not its kind's last refers   *)
(* to a higher one.  Writes only change a kind's last and its blit page.   *)
(* A scan gives owners to the pages it passes, and what these refer to is  *)
(* owned or still in its queue; nothing needs to be known of the disk.     *)
(*                                                                         *)
(* Outside those situations the file can be opened again.  It can when the *)
(* header and the links lead to exactly the pages below some number: every *)
(* page is then the lowest of the queue when the scan is there.  That the  *)
(* file as the program sees it is so is part of the second invariant; that *)
(* a crash leaves it so, of what is on disk and what is not, needs to know *)
(* which pages were assigned since the last sync, and by one kind only.    *)
(*                                                                         *)
(* And what was synced survives, by refinement of DurableLog.  What a kind *)
(* holds is read page by page.  The third invariant relates three readings *)
(* of it, by what is on disk, what a crash may leave, and what is in       *)
(* memory: of each page the first is a prefix of the second, and this of   *)
(* the third, as every write that is pending extends the page it is to.    *)
(***************************************************************************)
EXTENDS PageStorage, CausalOrderProofs, SequenceTheorems
-----------------------------------------------------------------------------
(* Types.                                                                  *)

Infos == [Kinds -> [first : PageNums, blit : PageNums]]
DataPageSet == [type : {"data"}, next : PageNums, status : 0 .. 2, content : Seq(Nat)]
Pages == {Blank, Torn} \cup [type : {"header"}, info : Infos] \cup DataPageSet
Chunks == [cur : PageNums, toBlit : BOOLEAN, blit : PageNums, page : DataPageSet, dirty : BOOLEAN]
Engines == [headerDirty : BOOLEAN, info : Infos, nextFree : Nat, chunks : [Kinds -> Chunks]]
Writes == [page : Int, to : Pages]
Files == [PageNums -> Pages]

StorageTypeOK ==
  /\ disk \in Files /\ pending \in Seq(Writes) /\ engine \in Engines
  /\ phase \in {"closed", "open", "syncing", "closing", "failed"}
  /\ items \in Nat

\* The three types of pages are told apart.
LEMMA PageTypes ==
  ASSUME NEW page \in Pages
  PROVE  /\ IsData(page) => page \in DataPageSet
         /\ page.type = "header" => page.info \in Infos /\ page = Header(page.info)
<1>1. CASE page = Blank
  BY <1>1 DEF Blank, IsData
<1>2. CASE page = Torn
  BY <1>2 DEF Torn, IsData
<1>3. CASE page \in [type : {"header"}, info : Infos]
  BY <1>3 DEF IsData, Header
<1>4. CASE page \in DataPageSet
  BY <1>4 DEF DataPageSet
<1> QED
  BY <1>1, <1>2, <1>3, <1>4 DEF Pages

\* The pages that the model makes are pages.
LEMMA MadePages ==
  /\ Blank \in Pages /\ Torn \in Pages
  /\ \A info \in Infos : Header(info) \in Pages
  /\ \A next \in PageNums, status \in 0 .. 2, content \in Seq(Nat) :
       Data(next, status, content) \in DataPageSet /\ Data(next, status, content) \in Pages
  /\ 0 \in PageNums /\ NewPage \in DataPageSet /\ NoHeader \in Infos /\ NoChunk \in Chunks
  /\ Closed \in Engines
<1>1. 0 \in PageNums
  BY StorageAssumption DEF PageNums
<1>2. NewPage \in DataPageSet /\ NoHeader \in Infos
  BY <1>1 DEF NewPage, Data, DataPageSet, NoHeader, NoInfo, Infos
<1>3. NoChunk \in Chunks
  BY <1>1, <1>2 DEF NoChunk, Chunk, Chunks
<1>4. Closed \in Engines
  BY <1>2, <1>3 DEF Closed, Opened, Engines
<1> QED
  BY <1>1, <1>2, <1>3, <1>4 DEF Pages, Header, Data, DataPageSet
-----------------------------------------------------------------------------
(* Writes.                                                                 *)

\* The last of some positions in a sequence.
LEMMA LastOfPositions ==
  /\ \A is \in SUBSET Int, i \in Int : i \in is /\ (\A j \in is : j <= i) => LastOf(is) = i
  /\ \A n \in Nat : \A is \in SUBSET (1 .. n) : is # {} => LastOf(is) \in is
<1>1. ASSUME NEW is \in SUBSET Int, NEW i \in Int, i \in is, \A j \in is : j <= i
      PROVE  LastOf(is) = i
  <2>1. LastOf(is) \in is /\ \A j \in is : j <= LastOf(is)
    BY <1>1 DEF LastOf
  <2>2. LastOf(is) \in Int /\ LastOf(is) <= i /\ i <= LastOf(is)
    BY <1>1, <2>1
  <2> QED
    BY <2>2
<1>2. ASSUME NEW n \in Nat, NEW is \in SUBSET (1 .. n), is # {}
      PROVE  LastOf(is) \in is
  <2>1. PICK i \in is : \A j \in is : j <= i
    <3>1. is \subseteq Nat /\ \A j \in is : j <= n
      OBVIOUS
    <3> QED
      BY <1>2, <3>1, GreatestElement
  <2> QED
    BY <2>1 DEF LastOf
<1> QED
  BY <1>1, <1>2

\* Whatever is written or torn, a file stays a file.
LEMMA WrittenFile ==
  ASSUME NEW on \in Files, NEW writes \in Seq(Writes),
         NEW done \in SUBSET DOMAIN writes, NEW torn
  PROVE  WrittenBy(done, torn, on, writes) \in Files
<1> SUFFICES ASSUME NEW n \in PageNums
             PROVE  WrittenBy(done, torn, on, writes)[n] \in Pages
  BY DEF WrittenBy, Files
<1> DEFINE to == {i \in done : writes[i].page = n}
<1>1. on[n] \in Pages /\ Torn \in Pages
  BY MadePages DEF Files
<1>2. ASSUME to # {} PROVE writes[LastOf(to)].to \in Pages
  <2>1. Len(writes) \in Nat /\ to \in SUBSET (1 .. Len(writes))
    OBVIOUS
  <2>2. LastOf(to) \in to
    BY <1>2, <2>1, LastOfPositions
  <2>3. writes[LastOf(to)] \in Writes
    BY <2>2
  <2> QED
    BY <2>3 DEF Writes
<1> QED
  BY <1>1, <1>2 DEF WrittenBy

\* What further writes change: a page that none is to is as before, another is
\* as the last of them to it makes it.
FileOf(on, writes) == WrittenBy(DOMAIN writes, {}, on, writes)

\* A page is what it is last written to be, and else what it was.
LEMMA FurtherWrites ==
  ASSUME NEW on \in Files, NEW p \in Seq(Writes), NEW m \in Seq(Writes), NEW n \in PageNums
  PROVE  /\ (\A i \in DOMAIN m : m[i].page # n) => FileOf(on, p \o m)[n] = FileOf(on, p)[n]
         /\ \A i \in DOMAIN m :
              m[i].page = n /\ (\A j \in DOMAIN m : m[j].page = n => j <= i) => FileOf(on, p \o m)[n] = m[i].to
<1> DEFINE q     == p \o m
           to(s) == {i \in DOMAIN s : s[i].page = n}
<1>1. Len(p) \in Nat /\ Len(m) \in Nat /\ q \in Seq(Writes) /\ Len(q) = Len(p) + Len(m)
      /\ \A i \in 1 .. Len(q) : q[i] = IF i <= Len(p) THEN p[i] ELSE m[i - Len(p)]
  OBVIOUS
<1>2. \A s : FileOf(on, s)[n] = IF to(s) = {} THEN on[n] ELSE s[LastOf(to(s))].to
  BY DEF FileOf, WrittenBy
<1>3. ASSUME \A i \in DOMAIN m : m[i].page # n
      PROVE  FileOf(on, q)[n] = FileOf(on, p)[n]
  <2>1. \A i \in 1 .. Len(q) : q[i].page = n => i \in 1 .. Len(p)
    BY <1>1, <1>3
  <2>2. \A i \in 1 .. Len(p) : i \in 1 .. Len(q) /\ q[i] = p[i]
    BY <1>1
  <2>3. to(q) = to(p)
    BY <1>1, <2>1, <2>2
  <2>4. to(p) # {} => LastOf(to(p)) \in 1 .. Len(p)
    <3>1. to(p) \in SUBSET (1 .. Len(p))
      BY <1>1
    <3> HIDE DEF to
    <3> QED
      BY <1>1, <3>1, LastOfPositions
  <2> QED
    BY <1>2, <2>2, <2>3, <2>4, ZenonT(60)
<1>4. ASSUME NEW i \in DOMAIN m, m[i].page = n, \A j \in DOMAIN m : m[j].page = n => j <= i
      PROVE  FileOf(on, q)[n] = m[i].to
  <2> DEFINE l == Len(p) + i
  <2>1. l \in 1 .. Len(q) /\ q[l] = m[i] /\ l \in Int
    BY <1>1
  <2>2. ASSUME NEW j \in to(q) PROVE j <= l
    <3>1. CASE j > Len(p)
      <4>1. j - Len(p) \in DOMAIN m /\ q[j] = m[j - Len(p)]
        BY <1>1, <3>1
      <4> QED
        BY <1>1, <1>4, <4>1
    <3> QED
      BY <1>1, <3>1
  <2>3. l \in to(q) /\ to(q) \in SUBSET Int
    BY <1>4, <2>1
  <2> HIDE DEF l, to
  <2>4. LastOf(to(q)) = l
    BY <2>1, <2>2, <2>3, LastOfPositions
  <2>5. to(q) # {}
    BY <2>3
  <2> HIDE DEF q
  <2> QED
    BY <1>2, <2>1, <2>4, <2>5
<1> QED
  BY <1>3, <1>4 DEF q

\* A page is as before or as one of the writes makes it.
LEMMA PageWritten ==
  ASSUME NEW on \in Files, NEW p \in Seq(Writes), NEW m \in Seq(Writes), NEW n \in PageNums
  PROVE  \/ FileOf(on, p \o m)[n] = FileOf(on, p)[n]
         \/ \E i \in DOMAIN m : m[i].page = n /\ FileOf(on, p \o m)[n] = m[i].to
<1> DEFINE to == {i \in DOMAIN m : m[i].page = n}
<1>1. CASE to = {}
  BY <1>1, FurtherWrites
<1>2. CASE to # {}
  <2>1. Len(m) \in Nat /\ to \subseteq Nat /\ \A i \in to : i <= Len(m)
    OBVIOUS
  <2>2. PICK i \in to : \A j \in to : j <= i
    <3> HIDE DEF to
    <3> QED
      BY <1>2, <2>1, GreatestElement
  <2>3. i \in DOMAIN m /\ m[i].page = n /\ \A j \in DOMAIN m : m[j].page = n => j <= i
    BY <2>2
  <2>4. FileOf(on, p \o m)[n] = m[i].to
    BY <2>3, FurtherWrites
  <2> QED
    BY <2>3, <2>4
<1> QED
  BY <1>1, <1>2
-----------------------------------------------------------------------------
(* The pages in memory.                                                    *)

\* A page is written to its place or to the blit page; written to the blit page
\* it names itself as the next one.
LEMMA WriteOfPage ==
  ASSUME NEW c \in Chunks, NEW next \in PageNums
  PROVE  LET w == WritePage(c, next) IN
         /\ w.chunk \in Chunks /\ w.write \in Writes
         /\ w.chunk.cur = c.cur /\ w.chunk.blit = c.blit /\ ~ w.chunk.dirty /\ w.chunk.toBlit = ~ c.toBlit
         /\ w.chunk.page.next = IF c.toBlit THEN c.cur ELSE next
         /\ w.write.page = IF c.toBlit THEN c.blit ELSE c.cur
         /\ IsData(w.write.to) /\ w.write.to.next = IF c.toBlit THEN c.cur ELSE next
<1> DEFINE to   == IF c.toBlit THEN c.cur ELSE next
           page == Data(to, Rolled(c.page.status), c.page.content)
           at   == IF c.toBlit THEN c.blit ELSE c.cur
<1>1. to \in PageNums /\ at \in PageNums /\ at \in Int
  BY StorageAssumption DEF Chunks, PageNums
<1>2. Rolled(c.page.status) \in 0 .. 2 /\ c.page.content \in Seq(Nat)
  <2>1. c.page.status \in 0 .. 2 /\ c.page.content \in Seq(Nat)
    BY DEF Chunks, DataPageSet
  <2> QED
    BY <2>1 DEF Rolled
<1>3. page \in DataPageSet /\ page \in Pages
  BY <1>1, <1>2, MadePages
<1>4. page.next = to /\ page.type = "data"
  BY DEF Data
<1>5. WritePage(c, next).write = [page |-> at, to |-> page]
  BY DEF WritePage, Write
<1>6. WritePage(c, next).chunk = [c EXCEPT !.dirty = FALSE, !.page = page, !.toBlit = ~ @]
  BY DEF WritePage
<1> HIDE DEF to, page, at
<1>7. WritePage(c, next).write \in Writes
  BY <1>1, <1>3, <1>5 DEF Writes
<1>8. WritePage(c, next).chunk = [cur |-> c.cur, toBlit |-> ~ c.toBlit, blit |-> c.blit, page |-> page, dirty |-> FALSE]
  BY <1>6 DEF Chunks
<1>9. WritePage(c, next).chunk \in Chunks
  BY <1>3, <1>8 DEF Chunks
<1> QED
  BY <1>4, <1>5, <1>7, <1>8, <1>9 DEF to, at, IsData

\* A page that fills is written in its place, with its next page.
LEMMA WritesOfFullPage ==
  ASSUME NEW c \in Chunks, NEW next \in PageNums
  PROVE  LET ws == FinalWrites(c, next) IN
         /\ ws \in Seq(Writes) /\ ws # <<>>
         /\ \A i \in DOMAIN ws : ws[i].page \in {-1, c.blit} \/ (ws[i].page = c.cur /\ ws[i].to.next = next)
         /\ ws[Len(ws)].page = c.cur /\ IsData(ws[Len(ws)].to) /\ ws[Len(ws)].to.next = next
<1> DEFINE one == WritePage(c, next)
           two == WritePage(one.chunk, next)
<1>1. /\ one.write \in Writes /\ one.chunk \in Chunks /\ one.chunk.cur = c.cur /\ one.chunk.toBlit = ~ c.toBlit
      /\ one.write.page = IF c.toBlit THEN c.blit ELSE c.cur
      /\ IsData(one.write.to) /\ one.write.to.next = IF c.toBlit THEN c.cur ELSE next
  BY WriteOfPage
<1>2. /\ two.write \in Writes
      /\ two.write.page = IF one.chunk.toBlit THEN one.chunk.blit ELSE one.chunk.cur
      /\ IsData(two.write.to) /\ two.write.to.next = IF one.chunk.toBlit THEN one.chunk.cur ELSE next
  BY <1>1, WriteOfPage
<1>3. Barrier \in Writes /\ Barrier.page = -1
  BY MadePages DEF Barrier, Writes
<1>4. FinalWrites(c, next) = IF c.toBlit THEN <<one.write, Barrier, two.write>> ELSE <<one.write>>
  BY DEF FinalWrites
<1>5. c.toBlit \in BOOLEAN
  BY DEF Chunks
<1> HIDE DEF one, two
<1>6. CASE c.toBlit
  <2> DEFINE ws == <<one.write, Barrier, two.write>>
  <2>1. ws \in Seq(Writes) /\ Len(ws) = 3 /\ ws[1] = one.write /\ ws[2] = Barrier /\ ws[3] = two.write
    BY <1>1, <1>2, <1>3
  <2>2. \A i \in DOMAIN ws : i \in {1, 2, 3}
    BY <2>1
  <2>3. ws # <<>>
    BY <2>1
  <2>4. FinalWrites(c, next) = ws
    BY <1>4, <1>6
  <2> HIDE DEF ws
  <2> QED
    BY <1>1, <1>2, <1>3, <1>6, <2>1, <2>2, <2>3, <2>4, ZenonT(60)
<1>7. CASE ~ c.toBlit
  BY <1>1, <1>4, <1>7
<1> QED
  BY <1>5, <1>6, <1>7

\* A page in memory that is dirty is written to the blit page or, without a next
\* one, to its place.
WriteOfKind(e, w) ==
  \E k \in Kinds : /\ e.chunks[k].dirty
                   /\ w.page = e.chunks[k].blit \/ (w.page = e.chunks[k].cur /\ w.to.next = 0)

WriteOf(e, k) == WritePage(e.chunks[k], 0).write

\* The pages in memory that are dirty are written one after the other.
LEMMA PagesRun ==
  ASSUME NEW e \in Engines
  PROVE  \E upto : /\ \A n \in 0 .. KindCount : upto[n] \in Seq(Writes)
                   /\ upto[0] = <<>>
                   /\ \A n \in 1 .. KindCount : upto[n] = IF e.chunks[n - 1].dirty THEN Append(upto[n - 1], WriteOf(e, n - 1)) ELSE upto[n - 1]
                   /\ PageWrites(e) = upto[KindCount]
<1> DEFINE T         == Seq(Writes)
           one(n)    == WritePage(e.chunks[n - 1], 0).write
           step      == [n \in 1 .. KindCount |-> [x \in T |-> IF e.chunks[n - 1].dirty THEN Append(x, one(n)) ELSE x]]
           Loop(f)   == f = [n \in 0 .. KindCount |-> IF n = 0 THEN <<>>
                                                      ELSE IF e.chunks[n - 1].dirty THEN Append(f[n - 1], one(n))
                                                      ELSE f[n - 1]]
<1>1. KindCount \in Nat /\ KindCount \in 0 .. KindCount /\ <<>> \in T
  BY StorageAssumption
<1>2. ASSUME NEW n \in 1 .. KindCount
      PROVE  one(n) \in Writes
  <2>1. n - 1 \in Kinds
    BY <1>1 DEF Kinds
  <2>2. e.chunks[n - 1] \in Chunks
    BY <2>1 DEF Engines
  <2> QED
    BY <2>2, MadePages, WriteOfPage
<1> HIDE DEF one
<1>3. \A n \in 1 .. KindCount, x \in T : step[n][x] = IF e.chunks[n - 1].dirty THEN Append(x, one(n)) ELSE x
  OBVIOUS
<1> HIDE DEF step
<1>4. StepsWithin(step, KindCount, T)
  <2> SUFFICES ASSUME NEW n \in 1 .. KindCount, NEW x \in T PROVE step[n][x] \in T
    BY DEF StepsWithin
  <2>1. e.chunks[n - 1].dirty => Append(x, one(n)) \in T
    BY <1>2
  <2> QED
    BY <1>3, <2>1
<1> HIDE DEF T
<1>5. \E f : Loop(f)
  <2>1. PICK f : Passed(f, <<>>, step, KindCount, T)
    BY <1>1, <1>4, StepsExist
  <2>2. ASSUME NEW n \in 0 .. KindCount, n # 0
        PROVE  f[n] = IF e.chunks[n - 1].dirty THEN Append(f[n - 1], one(n)) ELSE f[n - 1]
    <3>1. n \in 1 .. KindCount /\ n - 1 \in 0 .. KindCount
      BY <1>1, <2>2
    <3>2. f[n] = step[n][f[n - 1]] /\ f[n - 1] \in T
      BY <2>1, <3>1 DEF Passed
    <3> QED
      BY <1>3, <3>1, <3>2
  <2>3. Loop(f)
    BY <2>1, <2>2 DEF Passed
  <2> HIDE DEF Loop
  <2> QED
    BY <2>3
<1> DEFINE upto == CHOOSE f : Loop(f)
<1>6. PageWrites(e) = upto[KindCount]
  BY DEF PageWrites, one
<1>7. Loop(upto)
  <2> HIDE DEF Loop
  <2> QED
    BY <1>5
<1> HIDE DEF upto
<1>8. \A n \in 0 .. KindCount : upto[n] \in T
  <2> DEFINE Bad == {n \in 0 .. KindCount : upto[n] \notin T}
  <2>1. Bad = {}
    <3> SUFFICES ASSUME Bad # {} PROVE FALSE
      OBVIOUS
    <3>1. Bad \subseteq Nat
      OBVIOUS
    <3> HIDE DEF Bad
    <3>2. PICK n \in Bad : \A j \in Bad : n <= j
      BY <3>1, LeastElement
    <3>3. n \in 0 .. KindCount /\ upto[n] \notin T
      BY <3>2 DEF Bad
    <3>4. n # 0
      BY <1>1, <1>7, <3>3
    <3>5. n \in 1 .. KindCount /\ n - 1 \in 0 .. KindCount /\ ~ (n <= n - 1)
      BY <1>1, <3>3, <3>4
    <3>6. upto[n - 1] \in T
      BY <3>2, <3>5 DEF Bad
    <3>7. upto[n] = step[n][upto[n - 1]]
      BY <1>3, <1>7, <3>3, <3>4, <3>5, <3>6
    <3> QED
      BY <1>4, <3>3, <3>5, <3>6, <3>7 DEF StepsWithin
  <2> QED
    BY <2>1
<1>9. upto[0] = <<>>
  BY <1>1, <1>7
<1>10. \A n \in 1 .. KindCount : upto[n] = IF e.chunks[n - 1].dirty THEN Append(upto[n - 1], WriteOf(e, n - 1)) ELSE upto[n - 1]
  <2> SUFFICES ASSUME NEW n \in 1 .. KindCount
               PROVE  upto[n] = IF e.chunks[n - 1].dirty THEN Append(upto[n - 1], WriteOf(e, n - 1)) ELSE upto[n - 1]
    OBVIOUS
  <2>1. n \in 0 .. KindCount /\ n # 0
    BY <1>1
  <2>2. one(n) = WriteOf(e, n - 1)
    BY DEF one, WriteOf
  <2> QED
    BY <1>7, <2>1, <2>2
<1> QED
  BY <1>6, <1>8, <1>9, <1>10 DEF T

\* All of them are written, and nothing else.
LEMMA PagesWritten ==
  ASSUME NEW e \in Engines
  PROVE  LET ws == PageWrites(e) IN
         /\ ws \in Seq(Writes)
         /\ \A i \in DOMAIN ws : \E k \in Kinds : e.chunks[k].dirty /\ ws[i] = WriteOf(e, k)
         /\ \A k \in Kinds : e.chunks[k].dirty => \E i \in DOMAIN ws : ws[i] = WriteOf(e, k)
<1> DEFINE Those(ws, n) == /\ \A i \in DOMAIN ws : \E k \in Kinds : e.chunks[k].dirty /\ ws[i] = WriteOf(e, k)
                           /\ \A k \in 0 .. n - 1 : e.chunks[k].dirty => \E i \in DOMAIN ws : ws[i] = WriteOf(e, k)
<1>1. KindCount \in Nat /\ Kinds = 0 .. KindCount - 1
  BY StorageAssumption DEF Kinds
<1>2. PICK upto : /\ \A n \in 0 .. KindCount : upto[n] \in Seq(Writes)
                  /\ upto[0] = <<>>
                  /\ \A n \in 1 .. KindCount : upto[n] = IF e.chunks[n - 1].dirty THEN Append(upto[n - 1], WriteOf(e, n - 1)) ELSE upto[n - 1]
                  /\ PageWrites(e) = upto[KindCount]
  BY PagesRun
<1>3. Those(<<>>, 0)
  OBVIOUS
<1>4. ASSUME NEW n \in 1 .. KindCount, NEW s \in Seq(Writes), Those(s, n - 1)
      PROVE  Those(IF e.chunks[n - 1].dirty THEN Append(s, WriteOf(e, n - 1)) ELSE s, n)
  <2>1. n - 1 \in Kinds /\ \A k \in 0 .. n - 1 : k = n - 1 \/ k \in 0 .. (n - 1) - 1
    BY <1>1
  <2>2. CASE ~ e.chunks[n - 1].dirty
    BY <1>4, <2>1, <2>2
  <2>3. CASE e.chunks[n - 1].dirty
    <3> DEFINE w == WriteOf(e, n - 1)
               t == Append(s, w)
    <3>1. \A i \in DOMAIN t : t[i] = w \/ (i \in DOMAIN s /\ t[i] = s[i])
      <4> HIDE DEF w
      <4> QED
        OBVIOUS
    <3>2. (\A i \in DOMAIN s : i \in DOMAIN t /\ t[i] = s[i]) /\ \E i \in DOMAIN t : t[i] = w
      <4> HIDE DEF w
      <4>1. Len(s) + 1 \in DOMAIN t /\ t[Len(s) + 1] = w
        OBVIOUS
      <4> QED
        BY <4>1
    <3> HIDE DEF t
    <3>3. Those(t, n)
      BY <1>4, <2>1, <2>3, <3>1, <3>2
    <3> QED
      BY <2>3, <3>3 DEF t
  <2> QED
    BY <2>2, <2>3
<1> HIDE DEF Those
<1>5. \A n \in 0 .. KindCount : Those(upto[n], n)
  <2> DEFINE Bad == {n \in 0 .. KindCount : ~ Those(upto[n], n)}
  <2>1. Bad = {}
    <3> SUFFICES ASSUME Bad # {} PROVE FALSE
      OBVIOUS
    <3>1. Bad \subseteq Nat
      OBVIOUS
    <3> HIDE DEF Bad
    <3>2. PICK n \in Bad : \A j \in Bad : n <= j
      BY <3>1, LeastElement
    <3>3. n \in 0 .. KindCount /\ ~ Those(upto[n], n)
      BY <3>2 DEF Bad
    <3>4. n # 0
      BY <1>2, <1>3, <3>3
    <3>5. n \in 1 .. KindCount /\ n - 1 \in 0 .. KindCount /\ ~ (n <= n - 1)
      BY <1>1, <3>3, <3>4
    <3>6. Those(upto[n - 1], n - 1)
      BY <3>2, <3>5 DEF Bad
    <3>7. upto[n - 1] \in Seq(Writes)
      BY <1>2, <3>5
    <3>8. Those(IF e.chunks[n - 1].dirty THEN Append(upto[n - 1], WriteOf(e, n - 1)) ELSE upto[n - 1], n)
      BY <1>4, <3>5, <3>6, <3>7
    <3> QED
      BY <1>2, <3>3, <3>5, <3>8
  <2> QED
    BY <2>1
<1>6. Those(PageWrites(e), KindCount) /\ PageWrites(e) \in Seq(Writes)
  <2>1. KindCount \in 0 .. KindCount
    BY <1>1
  <2> QED
    BY <1>2, <1>5, <2>1
<1> QED
  BY <1>1, <1>6 DEF Those

\* fsync() writes pages in memory that are dirty.
LEMMA WritesOfPages ==
  ASSUME NEW e \in Engines
  PROVE  PageWrites(e) \in Seq(Writes) /\ \A i \in DOMAIN PageWrites(e) : WriteOfKind(e, PageWrites(e)[i])
<1>1. ASSUME NEW i \in DOMAIN PageWrites(e) PROVE WriteOfKind(e, PageWrites(e)[i])
  <2>1. PICK k \in Kinds : e.chunks[k].dirty /\ PageWrites(e)[i] = WriteOf(e, k)
    BY PagesWritten
  <2> DEFINE w == WriteOf(e, k)
  <2>2. w.page = e.chunks[k].blit \/ (w.page = e.chunks[k].cur /\ w.to.next = 0)
    <3>1. e.chunks[k] \in Chunks
      BY DEF Engines
    <3> QED
      BY <3>1, MadePages, WriteOfPage DEF WriteOf
  <2> HIDE DEF w
  <2> QED
    BY <2>1, <2>2 DEF WriteOfKind, w
<1> QED
  BY <1>1, PagesWritten

\* The header is written twice, at last to its page.
LEMMA WritesOfHeader ==
  ASSUME NEW e \in Engines
  PROVE  /\ HeaderWrites(e) \in Seq(Writes)
         /\ \A i \in DOMAIN HeaderWrites(e) : HeaderWrites(e)[i].page \in {-1, 0, e.nextFree}
         /\ ~ e.headerDirty => HeaderWrites(e) = <<>>
         /\ e.headerDirty => /\ DOMAIN HeaderWrites(e) = 1 .. 3
                             /\ HeaderWrites(e)[3] = Write(0, Header(e.info))
<1> DEFINE hs == <<Write(e.nextFree, Header(e.info)), Barrier, Write(0, Header(e.info))>>
<1>1. e.info \in Infos /\ e.nextFree \in Nat /\ e.headerDirty \in BOOLEAN
  BY DEF Engines
<1>2. /\ Write(e.nextFree, Header(e.info)) \in Writes /\ Write(e.nextFree, Header(e.info)).page = e.nextFree
      /\ Write(0, Header(e.info)) \in Writes /\ Write(0, Header(e.info)).page = 0
      /\ Barrier \in Writes /\ Barrier.page = -1
  BY <1>1, MadePages DEF Write, Writes, Barrier
<1>3. /\ hs \in Seq(Writes) /\ DOMAIN hs = 1 .. 3 /\ hs[3] = Write(0, Header(e.info))
      /\ \A i \in DOMAIN hs : hs[i].page \in {-1, 0, e.nextFree}
  BY <1>2
<1>4. HeaderWrites(e) = IF e.headerDirty THEN hs ELSE <<>>
  BY DEF HeaderWrites
<1> HIDE DEF hs
<1>5. CASE e.headerDirty
  BY <1>3, <1>4, <1>5
<1>6. CASE ~ e.headerDirty
  BY <1>4, <1>6
<1> QED
  BY <1>1, <1>5, <1>6

\* fsync() writes the header and the pages.
LEMMA WritesOfSync ==
  ASSUME NEW e \in Engines
  PROVE  /\ SyncWrites(e) \in Seq(Writes)
         /\ \A i \in DOMAIN SyncWrites(e) :
              \/ SyncWrites(e)[i].page \in {-1, 0, e.nextFree}
              \/ WriteOfKind(e, SyncWrites(e)[i])
         /\ ~ e.headerDirty => \A i \in DOMAIN SyncWrites(e) : WriteOfKind(e, SyncWrites(e)[i])
<1>1. PageWrites(e) \in Seq(Writes) /\ \A i \in DOMAIN PageWrites(e) : WriteOfKind(e, PageWrites(e)[i])
  BY WritesOfPages
<1>2. /\ HeaderWrites(e) \in Seq(Writes)
      /\ \A i \in DOMAIN HeaderWrites(e) : HeaderWrites(e)[i].page \in {-1, 0, e.nextFree}
      /\ ~ e.headerDirty => HeaderWrites(e) = <<>>
  BY WritesOfHeader
<1>3. SyncWrites(e) = HeaderWrites(e) \o PageWrites(e)
  BY DEF SyncWrites
<1>4. SyncWrites(e) \in Seq(Writes)
  BY <1>1, <1>2, <1>3
<1>5. ASSUME NEW i \in DOMAIN SyncWrites(e)
      PROVE  \/ \E j \in DOMAIN HeaderWrites(e) : SyncWrites(e)[i] = HeaderWrites(e)[j]
             \/ \E j \in DOMAIN PageWrites(e) : SyncWrites(e)[i] = PageWrites(e)[j]
  BY <1>1, <1>2, <1>3, <1>4
<1>6. ASSUME ~ e.headerDirty PROVE DOMAIN HeaderWrites(e) = {}
  BY <1>2, <1>6
<1> QED
  BY <1>1, <1>2, <1>4, <1>5, <1>6, ZenonT(60)

\* What the steps of append_chunk() do to the engine.
LEMMA ItemAdded ==
  ASSUME NEW e \in Engines, NEW k \in Kinds, NEW x \in Nat
  PROVE  LET f == WithItem(e, k, x) IN
         /\ f \in Engines /\ f.info = e.info /\ f.nextFree = e.nextFree /\ f.headerDirty = e.headerDirty
         /\ \A j \in Kinds \ {k} : f.chunks[j] = e.chunks[j]
         /\ f.chunks[k].cur = e.chunks[k].cur /\ f.chunks[k].blit = e.chunks[k].blit
         /\ f.chunks[k].toBlit = e.chunks[k].toBlit /\ f.chunks[k].page.next = e.chunks[k].page.next
<1> DEFINE c == e.chunks[k]
           p == [c.page EXCEPT !.content = Append(@, x)]
           d == [c EXCEPT !.page = p, !.dirty = TRUE]
<1>1. c \in Chunks /\ c.page \in DataPageSet
  BY DEF Engines, Chunks
<1>2. \A q \in DataPageSet :
        LET r == [q EXCEPT !.content = Append(@, x)] IN r \in DataPageSet /\ r.next = q.next
  <2> SUFFICES ASSUME NEW q \in DataPageSet
               PROVE  LET r == [q EXCEPT !.content = Append(@, x)] IN r \in DataPageSet /\ r.next = q.next
    OBVIOUS
  <2> DEFINE y == Append(q.content, x)
  <2>1. y \in Seq(Nat) /\ q = [type |-> q.type, next |-> q.next, status |-> q.status, content |-> q.content]
    BY DEF DataPageSet
  <2> HIDE DEF y
  <2>2. [q EXCEPT !.content = y] = [type |-> q.type, next |-> q.next, status |-> q.status, content |-> y]
    BY <2>1
  <2>3. [q EXCEPT !.content = y] \in DataPageSet /\ [q EXCEPT !.content = y].next = q.next
    BY <2>1, <2>2 DEF DataPageSet
  <2> QED
    BY <2>3 DEF y
<1>3. p \in DataPageSet /\ p.next = c.page.next
  BY <1>1, <1>2
<1> HIDE DEF p
<1>4. \A b \in Chunks : [b EXCEPT !.page = p, !.dirty = TRUE] =
                          [cur |-> b.cur, toBlit |-> b.toBlit, blit |-> b.blit, page |-> p, dirty |-> TRUE]
  <2> SUFFICES ASSUME NEW b \in Chunks
               PROVE  [b EXCEPT !.page = p, !.dirty = TRUE] =
                      [cur |-> b.cur, toBlit |-> b.toBlit, blit |-> b.blit, page |-> p, dirty |-> TRUE]
    OBVIOUS
  <2> DEFINE r == [b EXCEPT !.page = p, !.dirty = TRUE]
  <2>1. r = [b EXCEPT !.page = p, !.dirty = TRUE]
    OBVIOUS
  <2> HIDE DEF r
  <2>2. r = [cur |-> b.cur, toBlit |-> b.toBlit, blit |-> b.blit, page |-> p, dirty |-> TRUE]
    BY <2>1 DEF Chunks
  <2> QED
    BY <2>1, <2>2
<1>11. d = [cur |-> c.cur, toBlit |-> c.toBlit, blit |-> c.blit, page |-> p, dirty |-> TRUE]
  BY <1>1, <1>4
<1>5. d \in Chunks
  BY <1>1, <1>3, <1>11 DEF Chunks
<1>6. WithItem(e, k, x) = [e EXCEPT !.chunks = [e.chunks EXCEPT ![k] = d]]
  BY DEF WithItem, p, Engines, Chunks
<1> HIDE DEF d
<1>7. [e.chunks EXCEPT ![k] = d] \in [Kinds -> Chunks]
  BY <1>5 DEF Engines
<1>8. WithItem(e, k, x) = [headerDirty |-> e.headerDirty, info |-> e.info, nextFree |-> e.nextFree, chunks |-> [e.chunks EXCEPT ![k] = d]]
  BY <1>6 DEF Engines
<1>9. WithItem(e, k, x) \in Engines
  BY <1>7, <1>8 DEF Engines
<1>10. e.chunks \in [Kinds -> Chunks]
  BY DEF Engines
<1> QED
  BY <1>3, <1>11, <1>8, <1>9, <1>10

\* What prepare_data_page_type() changes for a kind without a page.
LEMMA KindPrepared ==
  ASSUME NEW e \in Engines, NEW k \in Kinds, ~ IsChunk(e.chunks[k]), e.nextFree + 1 \in PageNums
  PROVE  LET f == Prepare(e, k) IN
         /\ f \in Engines /\ f.nextFree = e.nextFree + 2 /\ f.headerDirty
         /\ f.info[k] = [first |-> e.nextFree + 1, blit |-> e.nextFree]
         /\ f.chunks[k] = Chunk(e.nextFree + 1, FALSE, e.nextFree, NewPage)
         /\ \A j \in Kinds \ {k} : f.info[j] = e.info[j] /\ f.chunks[j] = e.chunks[j]
<1> DEFINE i == [first |-> e.nextFree + 1, blit |-> e.nextFree]
           c == Chunk(e.nextFree + 1, FALSE, e.nextFree, NewPage)
<1>1. e.nextFree \in Nat /\ e.info \in Infos /\ e.chunks \in [Kinds -> Chunks]
  BY DEF Engines
<1>2. e.nextFree \in PageNums
  BY <1>1, StorageAssumption DEF PageNums
<1>3. i \in [first : PageNums, blit : PageNums]
  BY <1>2
<1>4. c \in Chunks
  BY <1>2, MadePages DEF Chunk, Chunks
<1>5. Prepare(e, k) = [headerDirty |-> TRUE, info |-> [e.info EXCEPT ![k] = i], nextFree |-> e.nextFree + 2,
                       chunks |-> [e.chunks EXCEPT ![k] = c]]
  BY DEF Prepare, Engines
<1> HIDE DEF i, c
<1>6. [e.info EXCEPT ![k] = i] \in Infos /\ [e.chunks EXCEPT ![k] = c] \in [Kinds -> Chunks]
  BY <1>1, <1>3, <1>4 DEF Infos
<1>7. Prepare(e, k) \in Engines
  BY <1>1, <1>5, <1>6 DEF Engines
<1>8. \A j \in Kinds \ {k} : [e.info EXCEPT ![k] = i][j] = e.info[j] /\ [e.chunks EXCEPT ![k] = c][j] = e.chunks[j]
  BY <1>1 DEF Infos
<1>9. [e.info EXCEPT ![k] = i][k] = i /\ [e.chunks EXCEPT ![k] = c][k] = c
  BY <1>1 DEF Infos
<1> DEFINE f == Prepare(e, k)
<1>10. /\ f.headerDirty /\ f.nextFree = e.nextFree + 2 /\ f.info = [e.info EXCEPT ![k] = i] /\ f.chunks = [e.chunks EXCEPT ![k] = c]
       /\ f \in Engines
  BY <1>5, <1>7
<1> HIDE DEF f
<1>11. /\ f.headerDirty /\ f.nextFree = e.nextFree + 2 /\ f \in Engines /\ f.info[k] = i /\ f.chunks[k] = c
       /\ \A j \in Kinds \ {k} : f.info[j] = e.info[j] /\ f.chunks[j] = e.chunks[j]
  BY <1>8, <1>9, <1>10
<1> QED
  BY <1>11, Zenon DEF f, i, c

\* What finalize_and_assign_next_page() changes in memory.
LEMMA NextAssigned ==
  ASSUME NEW e \in Engines, NEW k \in Kinds, NEW c \in Chunks, NextOf(e, c) \in PageNums
  PROVE  LET f == Finalized(e, k, c) IN
         /\ f \in Engines /\ f.info = e.info /\ f.headerDirty = e.headerDirty
         /\ f.nextFree = IF c.page.next = 0 THEN e.nextFree + 1 ELSE e.nextFree
         /\ f.chunks[k] = Chunk(NextOf(e, c), FALSE, c.blit, NewPage)
         /\ \A j \in Kinds \ {k} : f.chunks[j] = e.chunks[j]
<1> DEFINE d == Chunk(NextOf(e, c), FALSE, c.blit, NewPage)
           n == IF c.page.next = 0 THEN e.nextFree + 1 ELSE e.nextFree
<1>1. e.nextFree \in Nat /\ e.chunks \in [Kinds -> Chunks] /\ n \in Nat
  BY DEF Engines
<1>2. d \in Chunks
  BY MadePages DEF Chunk, Chunks
<1> HIDE DEF d, n
<1>7. Finalized(e, k, c) = [e EXCEPT !.nextFree = n, !.chunks = [e.chunks EXCEPT ![k] = d]]
  BY DEF Finalized, d, n, Engines
<1>3. Finalized(e, k, c) = [headerDirty |-> e.headerDirty, info |-> e.info, nextFree |-> n, chunks |-> [e.chunks EXCEPT ![k] = d]]
  BY <1>7 DEF Engines
<1>4. [e.chunks EXCEPT ![k] = d] \in [Kinds -> Chunks]
  BY <1>1, <1>2
<1>5. Finalized(e, k, c) \in Engines
  BY <1>1, <1>3, <1>4 DEF Engines
<1>6. [e.chunks EXCEPT ![k] = d][k] = d /\ \A j \in Kinds \ {k} : [e.chunks EXCEPT ![k] = d][j] = e.chunks[j]
  BY <1>1
<1> DEFINE f == Finalized(e, k, c)
<1>8. f.headerDirty = e.headerDirty /\ f.info = e.info /\ f.nextFree = n /\ f.chunks = [e.chunks EXCEPT ![k] = d] /\ f \in Engines
  BY <1>3, <1>5
<1> HIDE DEF f
<1>9. f.chunks[k] = d /\ \A j \in Kinds \ {k} : f.chunks[j] = e.chunks[j]
  BY <1>6, <1>8
<1> QED
  BY <1>8, <1>9, Zenon DEF f, d, n
-----------------------------------------------------------------------------
(* Owners of pages.                                                        *)

Place(k, blit) == [kind |-> k, blit |-> blit]
Places == [kind : Kinds, blit : BOOLEAN]
Item(n, k, blit) == [n |-> n, kind |-> k, blit |-> blit]

Owns(owner, n, k, blit) == n \in DOMAIN owner /\ owner[n] = Place(k, blit)

\* A page that a scan has passed, or will.
Found(owner, queue, n, k, blit) == Item(n, k, blit) \in queue \/ Owns(owner, n, k, blit)

Continues(file, n) == IsData(file[n]) /\ file[n].next # 0

HeaderOwned(owner, queue, e) ==
  \A k \in Known(e.info) : Found(owner, queue, e.info[k].blit, k, TRUE) /\ Found(owner, queue, e.info[k].first, k, FALSE)

ChunkOwned(owner, e, k) ==
  LET c == e.chunks[k] IN
  /\ c.dirty => IsChunk(c)
  /\ IsChunk(c) => /\ k \in Known(e.info) /\ Owns(owner, c.cur, k, FALSE) /\ c.blit = e.info[k].blit
                   /\ c.page.next \in {0, c.cur}
                   /\ c.toBlit => c.page.next = 0

LinkOwned(owner, queue, file, n, k) ==
  LET next == file[n].next
  IN  Item(next, k, FALSE) \in queue \/ (n < next /\ Owns(owner, next, k, FALSE))

LinksOwned(owner, queue, e, file) ==
  \A n \in DOMAIN owner, k \in Kinds :
    owner[n] = Place(k, FALSE) /\ n # e.chunks[k].cur /\ Continues(file, n) => LinkOwned(owner, queue, file, n, k)

Owned(owner, queue, e, file) ==
  /\ e.nextFree \in 1 .. MaxPages + 1 /\ owner \in [1 .. e.nextFree - 1 -> Places]
  /\ HeaderOwned(owner, queue, e)
  /\ \A k \in Kinds : ChunkOwned(owner, e, k)
  /\ LinksOwned(owner, queue, e, file)

\* A page names another as its next.
Links(owner, file, m, n) == m \in DOMAIN owner /\ ~ owner[m].blit /\ Continues(file, m) /\ file[m].next = n

\* A page that the header names.
Starts(info, n) == \E k \in Known(info) : n \in {info[k].first, info[k].blit}

\* Every page is named by the header or by a page before it.
Reached(owner, queue, info, file) ==
  /\ \A n \in DOMAIN owner : Starts(info, n) \/ \E m : m < n /\ Links(owner, file, m, n)
  /\ \A x \in queue : Starts(info, x.n) \/ \E m : Links(owner, file, m, x.n)

\* One more page gets an owner.
Grows(own, owner, n, place) ==
  /\ own \in [1 .. n -> Places] /\ n \in DOMAIN own /\ own[n] = place
  /\ \A m, j, b : Owns(owner, m, j, b) => Owns(own, m, j, b)
  /\ \A m \in 1 .. n : m # n => m \in 1 .. n - 1 /\ own[m] = owner[m]

Grown(owner, n, place) == [m \in 1 .. n |-> IF m = n THEN place ELSE owner[m]]

\* One more page has an owner.
LEMMA OwnerGrows ==
  ASSUME NEW n \in Nat \ {0}, NEW owner \in [1 .. n - 1 -> Places], NEW place \in Places
  PROVE  Grows(Grown(owner, n, place), owner, n, place)
<1> DEFINE own == Grown(owner, n, place)
<1>1. \A m \in 1 .. n : m # n => m \in 1 .. n - 1
  OBVIOUS
<1>2. n \in 1 .. n /\ \A m \in 1 .. n - 1 : m \in 1 .. n /\ m # n
  OBVIOUS
<1>3. own \in [1 .. n -> Places]
  BY <1>1 DEF Grown
<1>4. \A m \in 1 .. n : own[m] = IF m = n THEN place ELSE owner[m]
  BY DEF Grown
<1>5. DOMAIN own = 1 .. n /\ DOMAIN owner = 1 .. n - 1
  BY <1>3
<1> HIDE DEF own
<1> QED
  BY <1>1, <1>2, <1>3, <1>4, <1>5 DEF own, Owns, Grows

\* The places of different kinds, and the two of one kind, are different.
LEMMA PlacesOfKind ==
  ASSUME NEW k \in Kinds
  PROVE  /\ Place(k, TRUE) \in Places /\ Place(k, FALSE) \in Places /\ Place(k, TRUE) # Place(k, FALSE)
         /\ \A j : Place(j, FALSE) = Place(k, FALSE) => j = k
BY DEF Place, Places
-----------------------------------------------------------------------------
(* The scan of the pages when a file is opened.                            *)

ScanItems == [n : PageNums, kind : Kinds, blit : BOOLEAN]
Scans == [queue : SUBSET ScanItems, nextFree : Nat, chunks : [Kinds -> Chunks], ok : BOOLEAN]

\* What holds between two steps of the scan.
Scanned(file, info, st) ==
  /\ st.queue # {} => st.ok
  /\ st.ok => \E owner : Owned(owner, st.queue, Opened(info, st), file) /\ Reached(owner, st.queue, info, file)
  /\ \A x \in st.queue : x.kind \in Known(info)
  /\ \A k \in Kinds : IsChunk(st.chunks[k]) => ~ Continues(file, st.chunks[k].cur)

\* The page in memory of a kind whose last page is n.
LEMMA LastPageRead ==
  ASSUME NEW file \in Files, NEW i, i.blit \in PageNums, NEW n \in PageNums, ~ Continues(file, n)
  PROVE  LET c == LastPage(file, i, n) IN
         /\ c \in Chunks /\ ~ c.dirty
         /\ IsChunk(c) => /\ c.cur = n /\ c.blit = i.blit /\ c.page.next \in {0, n}
                          /\ c.toBlit => c.page.next = 0
         /\ ~ IsChunk(c) => n = 0 \/ ~ IsData(file[n])
<1> DEFINE page == file[n]
           blit == file[i.blit]
           c    == LastPage(file, i, n)
<1>1. i.blit \in PageNums /\ page \in Pages /\ blit \in Pages
  BY DEF Files
<1>2. IsData(page) => page \in DataPageSet /\ page.next = 0
  BY <1>1, PageTypes DEF Continues
<1>3. BlitFor(file, i, n) => blit \in DataPageSet /\ blit.next = n
  BY <1>1, PageTypes DEF BlitFor
<1>4. \/ c = Chunk(n, FALSE, i.blit, blit) /\ BlitFor(file, i, n)
      \/ c = Chunk(n, TRUE, i.blit, page) /\ IsData(page)
      \/ c = NoChunk /\ ~ IsData(page)
  BY DEF LastPage
<1> HIDE DEF c, page, blit
<1>5. CASE c = Chunk(n, FALSE, i.blit, blit) /\ BlitFor(file, i, n)
  <2>1. c = [cur |-> n, toBlit |-> FALSE, blit |-> i.blit, page |-> blit, dirty |-> FALSE]
    BY <1>5 DEF Chunk
  <2>2. blit \in DataPageSet /\ blit.next = n
    BY <1>3, <1>5
  <2>3. c \in Chunks
    BY <1>1, <2>1, <2>2 DEF Chunks
  <2>4. ~ c.dirty /\ c.cur = n /\ c.blit = i.blit /\ c.page.next = n /\ ~ c.toBlit
    BY <2>1, <2>2
  <2> QED
    BY <2>3, <2>4 DEF IsChunk, c
<1>6. CASE c = Chunk(n, TRUE, i.blit, page) /\ IsData(page)
  <2>1. c = [cur |-> n, toBlit |-> TRUE, blit |-> i.blit, page |-> page, dirty |-> FALSE]
    BY <1>6 DEF Chunk
  <2>2. page \in DataPageSet /\ page.next = 0
    BY <1>2, <1>6
  <2>3. c \in Chunks
    BY <1>1, <2>1, <2>2 DEF Chunks
  <2>4. ~ c.dirty /\ c.cur = n /\ c.blit = i.blit /\ c.page.next = 0
    BY <2>1, <2>2
  <2> QED
    BY <2>3, <2>4 DEF IsChunk, c
<1>7. CASE c = NoChunk /\ ~ IsData(page)
  <2>1. c \in Chunks /\ ~ c.dirty /\ c.cur = 0
    BY <1>7, MadePages DEF NoChunk, Chunk
  <2> QED
    BY <1>7, <2>1 DEF IsChunk, c, page
<1> QED
  BY <1>4, <1>5, <1>6, <1>7

\* The cases of a step of the scan.
PassesBlit(file, info, st, x, f) ==
  x.blit /\ f.queue = st.queue \ {x} /\ f.chunks = st.chunks

PassesPage(file, info, st, x, f) ==
  /\ ~ x.blit /\ Continues(file, x.n) /\ f.chunks = st.chunks
  /\ f.queue = (st.queue \ {x}) \cup {Item(file[x.n].next, x.kind, FALSE)}

PassesLast(file, info, st, x, f) ==
  /\ ~ x.blit /\ ~ Continues(file, x.n) /\ f.queue = st.queue \ {x}
  /\ f.chunks = [st.chunks EXCEPT ![x.kind] = LastPage(file, info[x.kind], x.n)]

\* A step of the scan fails, or passes a blit page, a page, or a kind's last one.
LEMMA ScanStepCases ==
  ASSUME NEW file \in Files, NEW info \in Infos, NEW st \in Scans, NEW x \in st.queue
  PROVE  LET f == ScanStep(file, info, st, x) IN
         /\ f \in Scans
         /\ \/ x.n # st.nextFree /\ f.queue = {} /\ ~ f.ok /\ f.chunks = st.chunks
            \/ /\ x.n = st.nextFree /\ f.ok = st.ok /\ f.nextFree = st.nextFree + 1
               /\ \/ PassesBlit(file, info, st, x, f)
                  \/ PassesPage(file, info, st, x, f)
                  \/ PassesLast(file, info, st, x, f)
<1> DEFINE f    == ScanStep(file, info, st, x)
           page == file[x.n]
           rest == st.queue \ {x}
           item == [x EXCEPT !.n = page.next]
           last == LastPage(file, info[x.kind], x.n)
<1>1. x \in ScanItems /\ x.n \in PageNums /\ x.kind \in Kinds /\ x.blit \in BOOLEAN
  BY DEF Scans, ScanItems
<1>2. /\ st.queue \in SUBSET ScanItems /\ st.nextFree \in Nat /\ st.chunks \in [Kinds -> Chunks] /\ st.ok \in BOOLEAN
      /\ page \in Pages /\ x.n + 1 \in Nat
  BY <1>1 DEF Scans, Files, PageNums
<1>3. IsData(page) => page \in DataPageSet /\ page.next \in PageNums
  BY <1>2, PageTypes DEF DataPageSet
<1>4. ~ x.blit => item = Item(page.next, x.kind, FALSE)
  <2>1. item = [x EXCEPT !.n = page.next]
    OBVIOUS
  <2> HIDE DEF item, page
  <2>2. item = [n |-> page.next, kind |-> x.kind, blit |-> x.blit]
    BY <1>1, <2>1 DEF ScanItems
  <2> QED
    BY <1>1, <2>2 DEF Item
<1>5. ~ x.blit /\ IsData(page) => item \in ScanItems
  BY <1>1, <1>3, <1>4 DEF ScanItems, Item
<1>6. ~ Continues(file, x.n) => last \in Chunks
  BY <1>1, LastPageRead DEF Infos
<1>7. \/ x.n # st.nextFree /\ f = [st EXCEPT !.queue = {}, !.ok = FALSE]
      \/ x.n = st.nextFree /\ x.blit /\ f = [st EXCEPT !.queue = rest, !.nextFree = x.n + 1]
      \/ /\ x.n = st.nextFree /\ ~ x.blit /\ Continues(file, x.n)
         /\ f = [[st EXCEPT !.queue = rest, !.nextFree = x.n + 1] EXCEPT !.queue = rest \cup {item}]
      \/ /\ x.n = st.nextFree /\ ~ x.blit /\ ~ Continues(file, x.n)
         /\ f = [[st EXCEPT !.queue = rest, !.nextFree = x.n + 1] EXCEPT !.chunks[x.kind] = last]
  BY <1>1, Zenon DEF ScanStep, Continues
<1> HIDE DEF f, page, item, last
<1>8. CASE x.n # st.nextFree /\ f = [st EXCEPT !.queue = {}, !.ok = FALSE]
  <2>1. f = [queue |-> {}, nextFree |-> st.nextFree, chunks |-> st.chunks, ok |-> FALSE]
    BY <1>8 DEF Scans
  <2>2. f \in Scans
    BY <1>2, <2>1 DEF Scans
  <2> QED
    BY <1>8, <2>1, <2>2 DEF f
<1>9. CASE x.n = st.nextFree /\ x.blit /\ f = [st EXCEPT !.queue = rest, !.nextFree = x.n + 1]
  <2>1. f = [queue |-> rest, nextFree |-> x.n + 1, chunks |-> st.chunks, ok |-> st.ok]
    BY <1>9 DEF Scans
  <2>2. f \in Scans
    BY <1>2, <2>1 DEF Scans
  <2>3. PassesBlit(file, info, st, x, f) /\ f.ok = st.ok /\ f.nextFree = x.n + 1
    BY <1>9, <2>1 DEF PassesBlit
  <2> QED
    BY <1>9, <2>2, <2>3 DEF f
<1>10. CASE /\ x.n = st.nextFree /\ ~ x.blit /\ Continues(file, x.n)
            /\ f = [[st EXCEPT !.queue = rest, !.nextFree = x.n + 1] EXCEPT !.queue = rest \cup {item}]
  <2>1. f = [queue |-> rest \cup {item}, nextFree |-> x.n + 1, chunks |-> st.chunks, ok |-> st.ok]
    BY <1>10 DEF Scans
  <2>2. IsData(page)
    BY <1>10 DEF Continues, page
  <2>3. f \in Scans
    BY <1>2, <1>5, <1>10, <2>1, <2>2 DEF Scans
  <2>4. PassesPage(file, info, st, x, f) /\ f.ok = st.ok /\ f.nextFree = x.n + 1
    BY <1>4, <1>10, <2>1 DEF PassesPage, page
  <2> QED
    BY <1>10, <2>3, <2>4 DEF f
<1>11. CASE /\ x.n = st.nextFree /\ ~ x.blit /\ ~ Continues(file, x.n)
            /\ f = [[st EXCEPT !.queue = rest, !.nextFree = x.n + 1] EXCEPT !.chunks[x.kind] = last]
  <2>1. f = [queue |-> rest, nextFree |-> x.n + 1, chunks |-> [st.chunks EXCEPT ![x.kind] = last], ok |-> st.ok]
    BY <1>11 DEF Scans
  <2>2. [st.chunks EXCEPT ![x.kind] = last] \in [Kinds -> Chunks]
    BY <1>1, <1>2, <1>6, <1>11
  <2>3. f \in Scans
    BY <1>2, <2>1, <2>2 DEF Scans
  <2>4. PassesLast(file, info, st, x, f) /\ f.ok = st.ok /\ f.nextFree = x.n + 1
    BY <1>11, <2>1 DEF PassesLast, last
  <2> QED
    BY <1>11, <2>3, <2>4 DEF f
<1> QED
  BY <1>7, <1>8, <1>9, <1>10, <1>11

\* Every step of the scan keeps what holds between two steps.
LEMMA ScanStepKeeps ==
  ASSUME NEW file \in Files, NEW info \in Infos, NEW st \in Scans, NEW x \in st.queue,
         Scanned(file, info, st)
  PROVE  Scanned(file, info, ScanStep(file, info, st, x))
<1> DEFINE f == ScanStep(file, info, st, x)
<1>1. f \in Scans /\ x \in ScanItems /\ x.n \in PageNums /\ x.kind \in Kinds /\ x.blit \in BOOLEAN
  BY ScanStepCases DEF Scans, ScanItems
<1>2. x = Item(x.n, x.kind, x.blit)
  BY <1>1 DEF ScanItems, Item
<1>3. \/ f.queue = {} /\ ~ f.ok /\ f.chunks = st.chunks
      \/ /\ x.n = st.nextFree /\ f.ok = st.ok /\ f.nextFree = st.nextFree + 1
         /\ \/ PassesBlit(file, info, st, x, f)
            \/ PassesPage(file, info, st, x, f)
            \/ PassesLast(file, info, st, x, f)
  BY ScanStepCases
<1> HIDE DEF f
<1>4. CASE f.queue = {} /\ ~ f.ok /\ f.chunks = st.chunks
  BY <1>4 DEF Scanned, f
<1>5. CASE /\ x.n = st.nextFree /\ f.ok = st.ok /\ f.nextFree = st.nextFree + 1
           /\ \/ PassesBlit(file, info, st, x, f)
              \/ PassesPage(file, info, st, x, f)
              \/ PassesLast(file, info, st, x, f)
  <2> DEFINE e == Opened(info, st)
             g == Opened(info, f)
  <2>1. st.ok /\ x.kind \in Known(info)
    BY DEF Scanned
  <2>2. PICK owner : Owned(owner, st.queue, e, file) /\ Reached(owner, st.queue, info, file)
    BY <2>1 DEF Scanned
  <2>3. /\ e.info = info /\ e.nextFree = st.nextFree /\ e.chunks = st.chunks
        /\ g.info = info /\ g.nextFree = f.nextFree /\ g.chunks = f.chunks
    BY DEF Opened
  <2> HIDE DEF e, g
  <2>4. /\ st.nextFree \in 1 .. MaxPages + 1 /\ owner \in [1 .. st.nextFree - 1 -> Places]
        /\ HeaderOwned(owner, st.queue, e) /\ (\A k \in Kinds : ChunkOwned(owner, e, k)) /\ LinksOwned(owner, st.queue, e, file)
    BY <2>2, <2>3 DEF Owned
  <2> DEFINE n   == st.nextFree
             own == Grown(owner, n, Place(x.kind, x.blit))
  <2>5. n \in Nat \ {0} /\ n = x.n /\ n + 1 \in 1 .. MaxPages + 1 /\ (n + 1) - 1 = n
    BY <1>1, <1>5, <2>4, StorageAssumption DEF PageNums
  <2>6. /\ own \in [1 .. n -> Places] /\ Owns(own, n, x.kind, x.blit)
        /\ \A m, j, b : Owns(owner, m, j, b) => Owns(own, m, j, b)
        /\ \A m \in 1 .. n : m # n => m \in 1 .. n - 1 /\ own[m] = owner[m]
        /\ own[n] = Place(x.kind, x.blit)
    <3>1. Place(x.kind, x.blit) \in Places
      BY <1>1 DEF Place, Places
    <3>2. Grows(own, owner, n, Place(x.kind, x.blit))
      BY <2>4, <2>5, <3>1, OwnerGrows
    <3> HIDE DEF own
    <3> QED
      BY <3>2 DEF Owns, Grows
  <2> HIDE DEF own
  <2>7. \A i \in st.queue : i \in f.queue \/ i = x
    BY <1>5 DEF PassesBlit, PassesPage, PassesLast
  <2>8. \A m, j, b : Item(m, j, b) = x => m = n /\ j = x.kind /\ b = x.blit
    BY <2>5 DEF Item
  <2>9. \A m, j, b : Found(owner, st.queue, m, j, b) => Found(own, f.queue, m, j, b)
    <3> SUFFICES ASSUME NEW m, NEW j, NEW b, Found(owner, st.queue, m, j, b)
                 PROVE  Item(m, j, b) \in f.queue \/ Owns(own, m, j, b)
      BY DEF Found
    <3>1. CASE Item(m, j, b) = x
      BY <2>6, <2>8, <3>1
    <3>2. CASE Item(m, j, b) # x
      BY <2>6, <2>7, <3>2 DEF Found
    <3> QED
      BY <3>1, <3>2
  <2>10. HeaderOwned(own, f.queue, g)
    BY <2>3, <2>4, <2>9 DEF HeaderOwned
  <2>11. ASSUME NEW k \in Kinds
         PROVE  ChunkOwned(own, g, k) /\ (IsChunk(f.chunks[k]) => ~ Continues(file, f.chunks[k].cur))
    <3>1. CASE f.chunks[k] = st.chunks[k]
      <4>1. ChunkOwned(owner, e, k)
        BY <2>4
      <4> QED
        BY <2>3, <2>6, <3>1, <4>1 DEF ChunkOwned, Scanned
    <3>2. CASE PassesLast(file, info, st, x, f) /\ k = x.kind
      <4> DEFINE c == LastPage(file, info[k], n)
      <4>1. info[k].blit \in PageNums /\ n \in PageNums /\ ~ Continues(file, n)
        BY <1>1, <2>5, <3>2 DEF Infos, PassesLast
      <4>2. /\ ~ c.dirty
            /\ IsChunk(c) => /\ c.cur = n /\ c.blit = info[k].blit /\ c.page.next \in {0, n}
                             /\ c.toBlit => c.page.next = 0
        BY <4>1, LastPageRead
      <4> HIDE DEF c
      <4>3. f.chunks[k] = c /\ ~ x.blit
        BY <2>5, <3>2 DEF PassesLast, Scans, c
      <4>4. Owns(own, n, k, FALSE) /\ k \in Known(info)
        BY <1>1, <2>1, <2>6, <3>2, <4>3
      <4> QED
        BY <2>3, <4>1, <4>2, <4>3, <4>4 DEF ChunkOwned
    <3> QED
      BY <1>5, <3>1, <3>2 DEF PassesBlit, PassesPage, PassesLast, Scans
  <2>12. LinksOwned(own, f.queue, g, file)
    <3> SUFFICES ASSUME NEW m \in 1 .. n, NEW k \in Kinds, own[m] = Place(k, FALSE), Continues(file, m)
                 PROVE  LinkOwned(own, f.queue, file, m, k)
      BY <2>6 DEF LinksOwned
    <3>1. CASE m = n
      <4>1. x.kind = k /\ ~ x.blit
        BY <2>6, <3>1 DEF Place
      <4>2. PassesPage(file, info, st, x, f)
        BY <1>5, <2>5, <3>1, <4>1 DEF PassesBlit, PassesLast
      <4> QED
        BY <2>5, <3>1, <4>1, <4>2 DEF PassesPage, LinkOwned
    <3>2. CASE m # n
      <4>1. m \in DOMAIN owner /\ owner[m] = Place(k, FALSE) /\ m < n /\ m # 0
        <5>1. m \in 1 .. n - 1 /\ own[m] = owner[m]
          BY <2>6, <3>2
        <5>2. DOMAIN owner = 1 .. n - 1
          BY <2>4
        <5>3. m < n /\ m # 0
          BY <2>5, <5>1
        <5> QED
          BY <5>1, <5>2, <5>3
      <4>2. m # st.chunks[k].cur
        BY <4>1 DEF Scanned, IsChunk
      <4>3. LinkOwned(owner, st.queue, file, m, k)
        BY <2>3, <2>4, <4>1, <4>2 DEF LinksOwned
      <4> DEFINE next == file[m].next
      <4> HIDE DEF next
      <4>4. Item(next, k, FALSE) \in st.queue \/ (m < next /\ Owns(owner, next, k, FALSE))
        BY <4>3 DEF LinkOwned, next
      <4>5. CASE Item(next, k, FALSE) = x
        <5>1. next = n /\ Owns(own, next, k, FALSE)
          BY <2>6, <2>8, <4>5
        <5> QED
          BY <4>1, <5>1 DEF LinkOwned, next
      <4>6. CASE Item(next, k, FALSE) # x
        BY <2>6, <2>7, <4>4, <4>6 DEF LinkOwned, next
      <4> QED
        BY <4>5, <4>6
    <3> QED
      BY <3>1, <3>2
  <2>13. Owned(own, f.queue, g, file)
    BY <1>5, <2>3, <2>5, <2>6, <2>10, <2>11, <2>12 DEF Owned
  <2>14. \A i \in f.queue : i.kind \in Known(info)
    <3>1. \A i \in st.queue : i.kind \in Known(info)
      BY DEF Scanned
    <3>2. \A i \in f.queue : i \in st.queue \/ \E m : i = Item(m, x.kind, FALSE)
      BY <1>5 DEF PassesBlit, PassesPage, PassesLast
    <3>3. \A m : Item(m, x.kind, FALSE).kind = x.kind
      BY DEF Item
    <3> QED
      BY <2>1, <3>1, <3>2, <3>3
  <2>15. \A m, l : Links(owner, file, m, l) => Links(own, file, m, l) /\ m < n
    <3> SUFFICES ASSUME NEW m, NEW l, Links(owner, file, m, l) PROVE Links(own, file, m, l) /\ m < n
      OBVIOUS
    <3>1. m \in 1 .. n - 1
      BY <2>4 DEF Links
    <3>2. m \in DOMAIN own /\ m # n /\ m < n
      BY <2>5, <2>6, <3>1
    <3>3. own[m] = owner[m]
      BY <2>5, <2>6, <3>2
    <3> QED
      BY <3>2, <3>3 DEF Links
  <2>16. Reached(own, f.queue, info, file)
    <3>1. ASSUME NEW m \in DOMAIN own
          PROVE  Starts(info, m) \/ \E l : l < m /\ Links(own, file, l, m)
      <4>1. CASE m = n
        BY <2>2, <2>5, <2>15, <4>1 DEF Reached
      <4>2. CASE m # n
        <5>1. m \in DOMAIN owner
          BY <2>4, <2>6, <4>2
        <5> QED
          BY <2>2, <2>15, <5>1 DEF Reached
      <4> QED
        BY <4>1, <4>2
    <3>2. ASSUME NEW i \in f.queue
          PROVE  Starts(info, i.n) \/ \E l : Links(own, file, l, i.n)
      <4>1. CASE i \in st.queue
        BY <2>2, <2>15, <4>1 DEF Reached
      <4>2. CASE PassesPage(file, info, st, x, f) /\ i = Item(file[x.n].next, x.kind, FALSE)
        <5>1. ~ x.blit /\ Continues(file, n) /\ i.n = file[n].next
          BY <2>5, <4>2 DEF PassesPage, Item
        <5>2. n \in DOMAIN own /\ ~ own[n].blit
          BY <2>5, <2>6, <5>1 DEF Place
        <5> QED
          BY <5>1, <5>2 DEF Links
      <4> QED
        BY <1>5, <4>1, <4>2 DEF PassesBlit, PassesPage, PassesLast
    <3> QED
      BY <3>1, <3>2 DEF Reached
  <2> QED
    BY <1>5, <2>1, <2>11, <2>13, <2>14, <2>16 DEF Scanned, f, g
<1> QED
  BY <1>3, <1>4, <1>5

\* It holds when the scan starts.
LEMMA ScanStarts ==
  ASSUME NEW file \in Files, NEW info \in Infos
  PROVE  ScanStart(info) \in Scans /\ Scanned(file, info, ScanStart(info))
<1> DEFINE st    == ScanStart(info)
           owner == [m \in 1 .. 0 |-> Place(m, FALSE)]
           e     == Opened(info, st)
<1>1. \A k \in Kinds : info[k].first \in PageNums /\ info[k].blit \in PageNums
  BY DEF Infos
<1>2. Known(info) \subseteq Kinds
  BY DEF Known
<1>3. /\ st.queue = {Item(info[k].first, k, FALSE) : k \in Known(info)} \cup {Item(info[k].blit, k, TRUE) : k \in Known(info)}
      /\ st.nextFree = 1 /\ st.chunks = [k \in Kinds |-> NoChunk] /\ st.ok
  BY DEF ScanStart, Item
<1>4. st.queue \subseteq ScanItems
  <2>1. \A k \in Known(info) : Item(info[k].first, k, FALSE) \in ScanItems /\ Item(info[k].blit, k, TRUE) \in ScanItems
    BY <1>1, <1>2 DEF Item, ScanItems
  <2> HIDE DEF st
  <2> QED
    BY <1>3, <2>1
<1>5. [k \in Kinds |-> NoChunk] \in [Kinds -> Chunks]
  BY MadePages
<1>6. st \in Scans
  <2> DEFINE q  == st.queue
             cs == [k \in Kinds |-> NoChunk]
  <2>1. st = [queue |-> q, nextFree |-> 1, chunks |-> cs, ok |-> TRUE] /\ q \subseteq ScanItems
    BY <1>4 DEF ScanStart
  <2> HIDE DEF st, q, cs
  <2>2. cs \in [Kinds -> Chunks]
    BY <1>5 DEF cs
  <2> QED
    BY <2>1, <2>2 DEF Scans
<1>7. e.info = info /\ e.nextFree = 1 /\ e.chunks = [k \in Kinds |-> NoChunk]
  BY <1>3 DEF Opened
<1> HIDE DEF st, e
<1>8. \A k \in Kinds : ~ IsChunk(st.chunks[k]) /\ ~ st.chunks[k].dirty
  BY <1>3 DEF NoChunk, Chunk, IsChunk
<1>9. \A k \in Kinds : ChunkOwned(owner, e, k)
  BY <1>3, <1>7, <1>8 DEF ChunkOwned
<1>10. HeaderOwned(owner, st.queue, e)
  BY <1>3, <1>7 DEF HeaderOwned, Found
<1>11. owner \in [1 .. 1 - 1 -> Places] /\ DOMAIN owner = {}
  OBVIOUS
<1> HIDE DEF owner
<1>12. 1 \in 1 .. MaxPages + 1
  BY StorageAssumption
<1>13. Owned(owner, st.queue, e, file)
  BY <1>7, <1>9, <1>10, <1>11, <1>12 DEF Owned, LinksOwned
<1>14. ASSUME NEW i \in st.queue
       PROVE  i.kind \in Known(info)
  <2>1. PICK k \in Known(info) : i = Item(info[k].first, k, FALSE) \/ i = Item(info[k].blit, k, TRUE)
    BY <1>3
  <2>2. i.kind = k
    BY <2>1 DEF Item
  <2> QED
    BY <2>2
<1>15. Reached(owner, st.queue, info, file)
  <2>1. ASSUME NEW i \in st.queue
        PROVE  Starts(info, i.n)
    <3>1. PICK k \in Known(info) : i = Item(info[k].first, k, FALSE) \/ i = Item(info[k].blit, k, TRUE)
      BY <1>3
    <3>2. i.n \in {info[k].first, info[k].blit}
      BY <3>1 DEF Item
    <3> QED
      BY <3>2 DEF Starts
  <2> QED
    BY <1>11, <2>1 DEF Reached
<1> QED
  BY <1>3, <1>6, <1>8, <1>13, <1>14, <1>15 DEF Scanned, st, e

\* A step passes the lowest page of the queue.
LowestOf(queue, x) == x \in queue /\ \A y \in queue : x.n <= y.n

StepsTo(file, info, st, next) ==
  \/ st.queue = {} /\ next = st
  \/ \E x : LowestOf(st.queue, x) /\ next = ScanStep(file, info, st, x)

\* The states of a scan.
ScanRun(file, info, scan) ==
  /\ scan[0] = ScanStart(info)
  /\ \A i \in 0 .. MaxPages + 1 : scan[i] \in Scans
  /\ \A i \in 1 .. MaxPages + 1 : StepsTo(file, info, scan[i - 1], scan[i])
  /\ ScanBlocks(file, info) = scan[MaxPages + 1]

\* A scan is some steps from where it starts.
LEMMA ScanRuns ==
  ASSUME NEW file \in Files, NEW info \in Infos
  PROVE  \E scan : ScanRun(file, info, scan)
<1> DEFINE N       == MaxPages + 1
           step    == [i \in 1 .. N |-> [st \in Scans |-> ScanNext(file, info, st)]]
           Loop(f) == f = [i \in 0 .. N |-> IF i = 0 THEN ScanStart(info) ELSE ScanNext(file, info, f[i - 1])]
           scan    == CHOOSE f : Loop(f)
<1>1. N \in Nat /\ N \in 0 .. N /\ 0 \in 0 .. N
  BY StorageAssumption
<1>2. ASSUME NEW st \in Scans
      PROVE  StepsTo(file, info, st, ScanNext(file, info, st))
  <2>1. CASE st.queue = {}
    BY <2>1 DEF ScanNext, StepsTo
  <2>2. CASE st.queue # {}
    <3> DEFINE ns == {x.n : x \in st.queue}
               Lowest(x) == \A y \in st.queue : x.n <= y.n
    <3>1. \A x \in st.queue : x.n \in Nat
      BY DEF Scans, ScanItems, PageNums
    <3>2. ns \subseteq Nat /\ ns # {}
      BY <2>2, <3>1
    <3>3. PICK n \in ns : \A m \in ns : n <= m
      <4> HIDE DEF ns
      <4> QED
        BY <3>2, LeastElement
    <3>4. \E x \in st.queue : Lowest(x)
      BY <3>3
    <3> DEFINE x == CHOOSE y \in st.queue : Lowest(y)
    <3>5. x \in st.queue /\ Lowest(x)
      <4> HIDE DEF Lowest
      <4> QED
        BY <3>4
    <3>6. ScanNext(file, info, st) = ScanStep(file, info, st, x)
      BY <2>2 DEF ScanNext
    <3> HIDE DEF x
    <3> QED
      BY <3>5, <3>6 DEF StepsTo, LowestOf
  <2> QED
    BY <2>1, <2>2
<1>3. \A st \in Scans : ScanNext(file, info, st) \in Scans
  BY <1>2, ScanStepCases DEF StepsTo, LowestOf
<1>4. StepsWithin(step, N, Scans)
  BY <1>3 DEF StepsWithin
<1>5. \A i \in 1 .. N, st \in Scans : step[i][st] = ScanNext(file, info, st)
  OBVIOUS
<1>6. ScanStart(info) \in Scans
  BY ScanStarts
<1> HIDE DEF N, step
<1>7. Loop(scan)
  <2>1. PICK f : Passed(f, ScanStart(info), step, N, Scans)
    BY <1>1, <1>4, <1>6, StepsExist
  <2>2. ASSUME NEW i \in 0 .. N, i # 0
        PROVE  f[i] = ScanNext(file, info, f[i - 1])
    <3>1. i \in 1 .. N /\ i - 1 \in 0 .. N
      BY <1>1, <2>2
    <3> QED
      BY <1>5, <2>1, <3>1 DEF Passed
  <2>3. Loop(f)
    BY <2>1, <2>2 DEF Passed
  <2> HIDE DEF Loop
  <2> QED
    BY <2>3
<1>8. ScanBlocks(file, info) = scan[N]
  BY DEF ScanBlocks, N
<1> HIDE DEF scan
<1> DEFINE Bad == {i \in 0 .. N : scan[i] \notin Scans}
<1>9. Bad = {}
  <2> SUFFICES ASSUME Bad # {} PROVE FALSE
    OBVIOUS
  <2>1. Bad \subseteq Nat
    OBVIOUS
  <2> HIDE DEF Bad
  <2>2. PICK i \in Bad : \A j \in Bad : i <= j
    BY <2>1, LeastElement
  <2>3. i \in 0 .. N /\ scan[i] \notin Scans
    BY <2>2 DEF Bad
  <2>4. i # 0
    BY <1>1, <1>6, <1>7, <2>3
  <2>5. i - 1 \in 0 .. N /\ ~ (i <= i - 1)
    BY <1>1, <2>3, <2>4
  <2>6. scan[i - 1] \in Scans
    BY <2>2, <2>5 DEF Bad
  <2> QED
    BY <1>3, <1>7, <2>3, <2>4, <2>6
<1>10. ASSUME NEW i \in 1 .. N
       PROVE  StepsTo(file, info, scan[i - 1], scan[i])
  <2>1. i \in 0 .. N /\ i # 0 /\ i - 1 \in 0 .. N
    BY <1>1
  <2>2. scan[i] = ScanNext(file, info, scan[i - 1])
    BY <1>7, <2>1
  <2>3. scan[i - 1] \in Scans
    BY <1>9, <2>1
  <2> QED
    BY <1>2, <2>2, <2>3
<1>11. scan[0] = ScanStart(info)
  BY <1>1, <1>7
<1>12. \A i \in 0 .. N : scan[i] \in Scans
  BY <1>9
<1>13. ScanRun(file, info, scan)
  BY <1>8, <1>10, <1>11, <1>12 DEF ScanRun, N
<1> QED
  BY <1>13

\* A scan that succeeds gives every page below the first free one an owner, and
\* has been led to each.
LEMMA ScanOwns ==
  ASSUME NEW file \in Files, NEW info \in Infos
  PROVE  LET st == ScanBlocks(file, info) IN
         /\ st \in Scans
         /\ st.ok => \E owner : /\ Owned(owner, {}, Opened(info, st), file)
                               /\ Reached(owner, {}, info, file)
         /\ \A k \in Kinds : IsChunk(st.chunks[k]) => ~ Continues(file, st.chunks[k].cur)
<1> DEFINE N == MaxPages + 1
<1>1. N \in Nat /\ N \in 0 .. N /\ 0 \in 0 .. N
  BY StorageAssumption
<1> HIDE DEF N
<1>2. PICK scan : ScanRun(file, info, scan)
  BY ScanRuns
<1>3. /\ scan[0] = ScanStart(info) /\ (\A i \in 0 .. N : scan[i] \in Scans)
      /\ \A i \in 1 .. N : StepsTo(file, info, scan[i - 1], scan[i])
      /\ ScanBlocks(file, info) = scan[N]
  BY <1>2 DEF ScanRun, N
<1>6. Scanned(file, info, ScanStart(info))
  BY ScanStarts
<1> DEFINE Good(i) == /\ Scanned(file, info, scan[i])
                      /\ scan[i].queue # {} => scan[i].nextFree = i + 1
           Bad     == {i \in 0 .. N : ~ Good(i)}
<1>9. Bad = {}
  <2> SUFFICES ASSUME Bad # {} PROVE FALSE
    OBVIOUS
  <2>1. Bad \subseteq Nat
    OBVIOUS
  <2> HIDE DEF Bad
  <2>2. PICK i \in Bad : \A j \in Bad : i <= j
    BY <2>1, LeastElement
  <2>3. i \in 0 .. N /\ ~ Good(i)
    BY <2>2 DEF Bad
  <2>4. CASE i = 0
    <3>1. scan[i] = ScanStart(info) /\ ScanStart(info).nextFree = 1
      BY <1>3, <2>4 DEF ScanStart
    <3> QED
      BY <1>6, <2>3, <2>4, <3>1
  <2>5. CASE i # 0
    <3>1. i - 1 \in 0 .. N /\ i \in 1 .. N /\ ~ (i <= i - 1) /\ (i - 1) + 1 = i
      BY <1>1, <2>3, <2>5
    <3>2. Good(i - 1)
      BY <2>2, <3>1 DEF Bad
    <3> DEFINE st == scan[i - 1]
    <3>3. StepsTo(file, info, st, scan[i])
      BY <1>3, <3>1
    <3>4. st \in Scans /\ Scanned(file, info, st) /\ (st.queue # {} => st.nextFree = i)
      BY <1>3, <3>1, <3>2
    <3> HIDE DEF st
    <3>5. CASE st.queue = {} /\ scan[i] = st
      BY <2>3, <3>4, <3>5
    <3>6. ASSUME NEW x \in st.queue, scan[i] = ScanStep(file, info, st, x)
          PROVE  FALSE
      <4>1. (scan[i].queue # {} => scan[i].nextFree = st.nextFree + 1)
        BY <3>4, <3>6, ScanStepCases
      <4>2. Scanned(file, info, scan[i])
        BY <3>4, <3>6, ScanStepKeeps
      <4>3. st.nextFree = i
        BY <3>4, <3>6
      <4> QED
        BY <2>3, <4>1, <4>2, <4>3
    <3> QED
      BY <3>3, <3>5, <3>6 DEF StepsTo, LowestOf
  <2> QED
    BY <2>4, <2>5
<1>10. Good(N)
  BY <1>1, <1>9
<1> DEFINE st == scan[N]
<1>11. st \in Scans /\ Scanned(file, info, st) /\ (st.queue # {} => st.nextFree = N + 1)
  BY <1>1, <1>3, <1>10
<1> HIDE DEF st
<1>12. st.queue = {}
  <2> SUFFICES ASSUME st.queue # {} PROVE FALSE
    OBVIOUS
  <2>1. PICK owner : Owned(owner, st.queue, Opened(info, st), file)
    BY <1>11 DEF Scanned
  <2>2. st.nextFree \in 1 .. MaxPages + 1
    BY <2>1 DEF Owned, Opened
  <2> QED
    BY <1>11, <2>2, StorageAssumption DEF N
<1>13. st.ok => \E owner : Owned(owner, {}, Opened(info, st), file) /\ Reached(owner, {}, info, file)
  BY <1>11, <1>12 DEF Scanned
<1>14. \A k \in Kinds : IsChunk(st.chunks[k]) => ~ Continues(file, st.chunks[k].cur)
  BY <1>11 DEF Scanned
<1> QED
  BY <1>3, <1>11, <1>13, <1>14 DEF st
-----------------------------------------------------------------------------
(* The operations of an open file.                                         *)

\* An item that is added to a page leaves the owners as they are.
LEMMA ItemKeepsOwners ==
  ASSUME NEW e \in Engines, NEW k \in Kinds, NEW x \in Nat, NEW file, NEW owner,
         Owned(owner, {}, e, file), IsChunk(e.chunks[k])
  PROVE  Owned(owner, {}, WithItem(e, k, x), file)
<1> DEFINE f == WithItem(e, k, x)
<1>1. /\ f.info = e.info /\ f.nextFree = e.nextFree
      /\ \A j \in Kinds \ {k} : f.chunks[j] = e.chunks[j]
      /\ f.chunks[k].cur = e.chunks[k].cur /\ f.chunks[k].blit = e.chunks[k].blit
      /\ f.chunks[k].toBlit = e.chunks[k].toBlit /\ f.chunks[k].page.next = e.chunks[k].page.next
  BY ItemAdded
<1> HIDE DEF f
<1>2. ASSUME NEW j \in Kinds
      PROVE  ChunkOwned(owner, f, j) /\ f.chunks[j].cur = e.chunks[j].cur
  <2>1. ChunkOwned(owner, e, j)
    BY DEF Owned
  <2>2. CASE j = k
    BY <1>1, <2>1, <2>2 DEF ChunkOwned, IsChunk
  <2>3. CASE j # k
    BY <1>1, <2>1, <2>3 DEF ChunkOwned
  <2> QED
    BY <2>2, <2>3
<1>3. HeaderOwned(owner, {}, f)
  BY <1>1 DEF Owned, HeaderOwned
<1>4. LinksOwned(owner, {}, f, file)
  BY <1>2 DEF Owned, LinksOwned
<1> QED
  BY <1>1, <1>2, <1>3, <1>4 DEF Owned, f

\* A kind that gets its first two pages owns them.
LEMMA PrepareOwns ==
  ASSUME NEW e \in Engines, NEW k \in Kinds, NEW file, NEW owner, Owned(owner, {}, e, file),
         ~ IsChunk(e.chunks[k]), e.nextFree + 1 \in PageNums
  PROVE  LET first == e.nextFree + 1
             own   == Grown(Grown(owner, e.nextFree, Place(k, TRUE)), first, Place(k, FALSE))
         IN  Owned(own, {}, Prepare(e, k), file)
<1> DEFINE f    == Prepare(e, k)
           n    == e.nextFree
           own1 == Grown(owner, n, Place(k, TRUE))
           own2 == Grown(own1, n + 1, Place(k, FALSE))
<1>1. /\ f.nextFree = n + 2
      /\ f.info[k] = [first |-> n + 1, blit |-> n]
      /\ f.chunks[k] = Chunk(n + 1, FALSE, n, NewPage)
      /\ \A j \in Kinds \ {k} : f.info[j] = e.info[j] /\ f.chunks[j] = e.chunks[j]
  BY KindPrepared
<1>2. n \in Nat \ {0} /\ n + 1 \in Nat \ {0} /\ (n + 2) - 1 = n + 1 /\ n + 2 \in 1 .. MaxPages + 1
  BY StorageAssumption DEF Owned, PageNums
<1>3. owner \in [1 .. n - 1 -> Places]
  BY DEF Owned
<1> HIDE DEF f, n
<1>4. /\ own1 \in [1 .. n -> Places] /\ Owns(own1, n, k, TRUE)
      /\ \A m, j, b : Owns(owner, m, j, b) => Owns(own1, m, j, b)
      /\ \A m \in 1 .. n : m # n => m \in 1 .. n - 1 /\ own1[m] = owner[m]
      /\ own1[n] = Place(k, TRUE)
  <2>1. Place(k, TRUE) \in Places
    BY PlacesOfKind
  <2>2. Grows(own1, owner, n, Place(k, TRUE))
    BY <1>2, <1>3, <2>1, OwnerGrows
  <2> HIDE DEF own1
  <2> QED
    BY <2>2 DEF Owns, Grows
<1> HIDE DEF own1
<1>5. /\ own2 \in [1 .. n + 1 -> Places] /\ Owns(own2, n + 1, k, FALSE)
      /\ \A m, j, b : Owns(own1, m, j, b) => Owns(own2, m, j, b)
      /\ \A m \in 1 .. n + 1 : m # n + 1 => m \in 1 .. n /\ own2[m] = own1[m]
      /\ own2[n + 1] = Place(k, FALSE)
  <2>1. own1 \in [1 .. (n + 1) - 1 -> Places]
    <3>1. (n + 1) - 1 = n
      BY <1>2
    <3> QED
      BY <1>4, <3>1
  <2>2. Place(k, FALSE) \in Places
    BY PlacesOfKind
  <2>3. Grows(own2, own1, n + 1, Place(k, FALSE))
    <3> DEFINE l     == n + 1
               place == Place(k, FALSE)
    <3>1. l \in Nat \ {0} /\ own1 \in [1 .. l - 1 -> Places] /\ place \in Places
      BY <1>2, <2>1, <2>2
    <3> HIDE DEF l, place
    <3>2. Grows(Grown(own1, l, place), own1, l, place)
      BY <3>1, OwnerGrows
    <3> QED
      BY <3>2 DEF l, place
  <2> HIDE DEF own2
  <2> QED
    BY <1>2, <2>3 DEF Owns, Grows
<1> HIDE DEF own2
<1>6. \A m, j, b : Owns(owner, m, j, b) => Owns(own2, m, j, b)
  BY <1>4, <1>5
<1>7. f.chunks[k].cur = n + 1 /\ f.chunks[k].blit = n /\ ~ f.chunks[k].toBlit /\ f.chunks[k].page.next = 0 /\ k \in Known(f.info)
  BY <1>1, <1>2 DEF Chunk, NewPage, Data, Known, NoInfo
<1>8. HeaderOwned(own2, {}, f)
  <2> SUFFICES ASSUME NEW j \in Known(f.info)
               PROVE  Owns(own2, f.info[j].blit, j, TRUE) /\ Owns(own2, f.info[j].first, j, FALSE)
    BY DEF HeaderOwned, Found
  <2>1. CASE j = k
    <3>1. f.info[k].blit = n /\ f.info[k].first = n + 1
      BY <1>1
    <3> QED
      BY <1>4, <1>5, <2>1, <3>1
  <2>2. CASE j # k
    <3>1. f.info[j] = e.info[j] /\ j \in Known(e.info)
      BY <1>1, <2>2 DEF Known
    <3>2. Owns(owner, e.info[j].blit, j, TRUE) /\ Owns(owner, e.info[j].first, j, FALSE)
      BY <3>1 DEF Owned, HeaderOwned, Found
    <3> QED
      BY <1>6, <3>1, <3>2
  <2> QED
    BY <2>1, <2>2
<1>9. ASSUME NEW j \in Kinds PROVE ChunkOwned(own2, f, j)
  <2>1. CASE j = k
    <3>1. f.info[k].blit = n
      BY <1>1
    <3> QED
      BY <1>2, <1>5, <1>7, <2>1, <3>1 DEF ChunkOwned, IsChunk
  <2>2. CASE j # k
    <3>1. f.chunks[j] = e.chunks[j] /\ f.info[j] = e.info[j] /\ (j \in Known(e.info) => j \in Known(f.info))
      BY <1>1, <2>2 DEF Known
    <3>2. ChunkOwned(owner, e, j)
      BY DEF Owned
    <3> QED
      BY <1>6, <3>1, <3>2 DEF ChunkOwned
  <2> QED
    BY <2>1, <2>2
<1>10. LinksOwned(own2, {}, f, file)
  <2> SUFFICES ASSUME NEW m \in 1 .. n + 1, NEW j \in Kinds, own2[m] = Place(j, FALSE), m # f.chunks[j].cur, Continues(file, m)
               PROVE  LinkOwned(own2, {}, file, m, j)
    BY <1>5 DEF LinksOwned
  <2>1. m # n + 1
    <3> SUFFICES ASSUME m = n + 1 PROVE FALSE
      OBVIOUS
    <3>1. j = k
      BY <1>5 DEF Place
    <3> QED
      BY <1>7, <3>1
  <2>2. m # n
    <3> SUFFICES ASSUME m = n PROVE FALSE
      OBVIOUS
    <3>1. own2[n] = Place(k, TRUE)
      BY <1>4, <1>5, <2>1
    <3> QED
      BY <3>1 DEF Place
  <2>3. m \in 1 .. n - 1 /\ owner[m] = Place(j, FALSE)
    BY <1>4, <1>5, <2>1, <2>2
  <2>4. m # e.chunks[j].cur
    <3>1. CASE j = k
      BY <1>2, <2>3, <3>1 DEF IsChunk
    <3>2. CASE j # k
      BY <1>1, <3>2
    <3> QED
      BY <3>1, <3>2
  <2>5. LinkOwned(owner, {}, file, m, j)
    BY <1>3, <2>3, <2>4 DEF Owned, LinksOwned
  <2> QED
    BY <1>6, <2>5 DEF LinkOwned
<1>11. Owned(own2, {}, f, file)
  BY <1>1, <1>2, <1>5, <1>8, <1>9, <1>10 DEF Owned
<1> QED
  BY <1>11 DEF f, n, own1, own2

\* A page that is full gets a next one; of the file only that page and the blit
\* page change.
LEMMA NextOwns ==
  ASSUME NEW e \in Engines, NEW k \in Kinds, NEW file, NEW after, NEW owner, Owned(owner, {}, e, file),
         IsChunk(e.chunks[k]), e.chunks[k].page.next = 0 => e.nextFree \in PageNums,
         \A n \in PageNums \ {e.chunks[k].cur, e.chunks[k].blit} : after[n] = file[n],
         e.chunks[k].page.next = 0 => after[e.chunks[k].cur].next = e.nextFree
  PROVE  LET own == IF e.chunks[k].page.next = 0 THEN Grown(owner, e.nextFree, Place(k, FALSE)) ELSE owner
         IN  Owned(own, {}, Finalized(e, k, e.chunks[k]), after)
<1> DEFINE c == e.chunks[k]
           f == Finalized(e, k, c)
           n == e.nextFree
<1>1. c \in Chunks /\ e.nextFree \in Nat /\ e.nextFree \in 1 .. MaxPages + 1
  BY DEF Engines, Owned
<1>2. k \in Known(e.info) /\ Owns(owner, c.cur, k, FALSE) /\ c.blit = e.info[k].blit /\ c.page.next \in {0, c.cur}
  BY DEF Owned, ChunkOwned
<1>3. Owns(owner, c.blit, k, TRUE)
  BY <1>2 DEF Owned, HeaderOwned, Found
<1>4. owner \in [1 .. n - 1 -> Places] /\ c.cur \in 1 .. n - 1 /\ c.cur # 0
  BY <1>1, <1>2 DEF Owned, Owns
<1>5. NextOf(e, c) = IF c.page.next = 0 THEN n ELSE c.cur
  BY <1>2 DEF NextOf
<1>6. NextOf(e, c) \in PageNums
  BY <1>1, <1>5 DEF Chunks
<1>7. /\ f.info = e.info /\ f.nextFree = IF c.page.next = 0 THEN n + 1 ELSE n
      /\ f.chunks[k] = Chunk(NextOf(e, c), FALSE, c.blit, NewPage)
      /\ \A j \in Kinds \ {k} : f.chunks[j] = e.chunks[j]
  BY <1>1, <1>6, NextAssigned
<1>8. /\ f.chunks[k].cur = NextOf(e, c) /\ f.chunks[k].blit = c.blit /\ ~ f.chunks[k].toBlit /\ ~ f.chunks[k].dirty
      /\ f.chunks[k].page.next = 0
  BY <1>7 DEF Chunk, NewPage, Data
<1>9. ASSUME NEW m \in 1 .. n - 1, NEW j \in Kinds, owner[m] = Place(j, FALSE), m # c.cur
      PROVE  after[m] = file[m] /\ (Continues(after, m) => Continues(file, m))
  <2>1. m \in PageNums
    BY <1>1, StorageAssumption DEF PageNums
  <2>2. m # c.blit
    BY <1>3, <1>9 DEF Owns, Place
  <2>3. after[m] = file[m]
    BY <1>9, <2>1, <2>2
  <2> QED
    BY <2>3 DEF Continues
<1> HIDE DEF f, n, c
<1>10. CASE c.page.next = 0
  <2> DEFINE own == Grown(owner, n, Place(k, FALSE))
  <2>1. n \in Nat \ {0} /\ n + 1 \in 1 .. MaxPages + 1 /\ (n + 1) - 1 = n /\ c.cur < n
    BY <1>1, <1>4, <1>10, StorageAssumption DEF PageNums, n, c
  <2>2. /\ own \in [1 .. n -> Places] /\ Owns(own, n, k, FALSE)
        /\ \A m, j, b : Owns(owner, m, j, b) => Owns(own, m, j, b)
        /\ \A m \in 1 .. n : m # n => m \in 1 .. n - 1 /\ own[m] = owner[m]
        /\ own[n] = Place(k, FALSE)
    <3>1. Place(k, FALSE) \in Places
      BY PlacesOfKind
    <3>2. Grows(own, owner, n, Place(k, FALSE))
      BY <1>4, <2>1, <3>1, OwnerGrows
    <3> HIDE DEF own
    <3> QED
      BY <3>2 DEF Owns, Grows
  <2> HIDE DEF own
  <2>3. HeaderOwned(own, {}, f)
    BY <1>7, <2>2 DEF Owned, HeaderOwned, Found
  <2>4. ASSUME NEW j \in Kinds PROVE ChunkOwned(own, f, j)
    <3>1. CASE j = k
      BY <1>2, <1>5, <1>7, <1>8, <1>10, <2>2, <3>1 DEF ChunkOwned
    <3>2. CASE j # k
      <4>1. ChunkOwned(owner, e, j)
        BY DEF Owned
      <4> QED
        BY <1>7, <2>2, <3>2, <4>1 DEF ChunkOwned
    <3> QED
      BY <3>1, <3>2
  <2>5. LinksOwned(own, {}, f, after)
    <3> SUFFICES ASSUME NEW m \in 1 .. n, NEW j \in Kinds, own[m] = Place(j, FALSE), m # f.chunks[j].cur, Continues(after, m)
                 PROVE  LinkOwned(own, {}, after, m, j)
      BY <2>2 DEF LinksOwned
    <3>1. m # n
      <4> SUFFICES ASSUME m = n PROVE FALSE
        OBVIOUS
      <4>1. j = k
        BY <2>2 DEF Place
      <4> QED
        BY <1>5, <1>8, <1>10, <4>1
    <3>2. m \in 1 .. n - 1 /\ owner[m] = Place(j, FALSE)
      BY <2>2, <3>1
    <3>3. CASE m = c.cur
      <4>1. j = k
        BY <1>2, <3>2, <3>3 DEF Owns, Place
      <4>2. after[m].next = n
        BY <1>10, <3>3 DEF c, n
      <4> QED
        BY <2>1, <2>2, <3>3, <4>1, <4>2 DEF LinkOwned
    <3>4. CASE m # c.cur
      <4>1. after[m] = file[m] /\ Continues(file, m)
        BY <1>9, <3>2, <3>4
      <4>2. m # e.chunks[j].cur
        BY <1>7, <3>4 DEF c
      <4>3. LinkOwned(owner, {}, file, m, j)
        BY <1>4, <3>2, <4>1, <4>2 DEF Owned, LinksOwned
      <4> QED
        BY <2>2, <4>1, <4>3 DEF LinkOwned
    <3> QED
      BY <3>3, <3>4
  <2>6. Owned(own, {}, f, after)
    BY <1>7, <1>10, <2>1, <2>2, <2>3, <2>4, <2>5 DEF Owned
  <2> QED
    BY <1>10, <2>6 DEF f, c, n, own
<1>11. CASE c.page.next # 0
  <2>1. NextOf(e, c) = c.cur /\ f.nextFree = n
    BY <1>5, <1>7, <1>11
  <2>2. HeaderOwned(owner, {}, f)
    BY <1>7 DEF Owned, HeaderOwned
  <2>3. ASSUME NEW j \in Kinds PROVE ChunkOwned(owner, f, j) /\ f.chunks[j].cur = e.chunks[j].cur
    <3>1. CASE j = k
      BY <1>2, <1>7, <1>8, <2>1, <3>1 DEF ChunkOwned, c
    <3>2. CASE j # k
      <4>1. ChunkOwned(owner, e, j)
        BY DEF Owned
      <4> QED
        BY <1>7, <3>2, <4>1 DEF ChunkOwned
    <3> QED
      BY <3>1, <3>2
  <2>4. LinksOwned(owner, {}, f, after)
    <3> SUFFICES ASSUME NEW m \in 1 .. n - 1, NEW j \in Kinds, owner[m] = Place(j, FALSE), m # f.chunks[j].cur, Continues(after, m)
                 PROVE  LinkOwned(owner, {}, after, m, j)
      BY <1>4 DEF LinksOwned
    <3>1. m # c.cur
      <4> SUFFICES ASSUME m = c.cur PROVE FALSE
        OBVIOUS
      <4>1. j = k
        BY <1>2 DEF Owns, Place
      <4> QED
        BY <2>3, <4>1 DEF c
    <3>2. after[m] = file[m] /\ Continues(file, m) /\ m # e.chunks[j].cur
      BY <1>9, <2>3, <3>1
    <3>3. LinkOwned(owner, {}, file, m, j)
      BY <1>4, <3>2 DEF Owned, LinksOwned
    <3> QED
      BY <3>2, <3>3 DEF LinkOwned
  <2>5. Owned(owner, {}, f, after)
    BY <1>1, <1>4, <2>1, <2>2, <2>3, <2>4 DEF Owned, n
  <2> QED
    BY <1>11, <2>5 DEF f, c
<1> QED
  BY <1>10, <1>11

\* The writes of a sync are to the last and the blit page of kinds, to the header
\* and to the first free page.
LEMMA SyncOwns ==
  ASSUME NEW e \in Engines, NEW on \in Files, NEW p \in Seq(Writes), NEW owner, Owned(owner, {}, e, FileOf(on, p)),
         NEW f, f = [e EXCEPT !.chunks = [k \in Kinds |-> IF @[k].dirty THEN WritePage(@[k], 0).chunk ELSE @[k]]]
  PROVE  f \in Engines /\ Owned(owner, {}, f, FileOf(on, p \o SyncWrites(e)))
<1> DEFINE cs    == [k \in Kinds |-> IF e.chunks[k].dirty THEN WritePage(e.chunks[k], 0).chunk ELSE e.chunks[k]]
           file  == FileOf(on, p)
           after == FileOf(on, p \o SyncWrites(e))
<1>1. ASSUME NEW k \in Kinds
      PROVE  /\ cs[k] \in Chunks /\ cs[k].cur = e.chunks[k].cur /\ cs[k].blit = e.chunks[k].blit
             /\ cs[k] = e.chunks[k] \/ /\ ~ cs[k].dirty
                                       /\ cs[k].page.next = IF e.chunks[k].toBlit THEN e.chunks[k].cur ELSE 0
                                       /\ cs[k].toBlit = ~ e.chunks[k].toBlit
  <2>1. e.chunks[k] \in Chunks /\ 0 \in PageNums
    BY MadePages DEF Engines
  <2>2. CASE e.chunks[k].dirty
    BY <2>1, <2>2, WriteOfPage
  <2>3. CASE ~ e.chunks[k].dirty
    BY <2>1, <2>3
  <2> QED
    BY <2>2, <2>3
<1>2. cs \in [Kinds -> Chunks]
  BY <1>1
<1>3. f = [e EXCEPT !.chunks = cs]
  OBVIOUS
<1> HIDE DEF cs
<1>4. f = [headerDirty |-> e.headerDirty, info |-> e.info, nextFree |-> e.nextFree, chunks |-> cs]
  BY <1>3 DEF Engines
<1>5. f \in Engines
  BY <1>2, <1>4 DEF Engines
<1>6. f.info = e.info /\ f.nextFree = e.nextFree /\ f.chunks = cs
  BY <1>4
<1>7. ASSUME NEW k \in Kinds
      PROVE  ChunkOwned(owner, f, k)
  <2>1. ChunkOwned(owner, e, k)
    BY DEF Owned
  <2>2. CASE cs[k] = e.chunks[k]
    BY <1>6, <2>1, <2>2 DEF ChunkOwned
  <2>3. CASE cs[k] # e.chunks[k]
    <3>1. ~ cs[k].dirty /\ cs[k].page.next \in {0, cs[k].cur} /\ (cs[k].toBlit => cs[k].page.next = 0)
      BY <1>1, <2>3
    <3>2. cs[k].cur = e.chunks[k].cur /\ cs[k].blit = e.chunks[k].blit
      BY <1>1
    <3> QED
      BY <1>6, <2>1, <3>1, <3>2 DEF ChunkOwned, IsChunk
  <2> QED
    BY <2>2, <2>3
<1>8. HeaderOwned(owner, {}, f)
  BY <1>6 DEF Owned, HeaderOwned
<1>9. owner \in [1 .. e.nextFree - 1 -> Places] /\ e.nextFree \in 1 .. MaxPages + 1 /\ LinksOwned(owner, {}, e, file)
  BY DEF Owned
<1>10. ASSUME NEW m \in DOMAIN owner, NEW j \in Kinds, owner[m] = Place(j, FALSE), m # e.chunks[j].cur
       PROVE  after[m] = file[m]
  <2>1. m \in PageNums /\ m \notin {-1, 0, e.nextFree}
    BY <1>9, StorageAssumption DEF PageNums
  <2>2. ASSUME NEW k \in Kinds, e.chunks[k].dirty
        PROVE  m \notin {e.chunks[k].blit, e.chunks[k].cur}
    <3>1. k \in Known(e.info) /\ Owns(owner, e.chunks[k].cur, k, FALSE) /\ e.chunks[k].blit = e.info[k].blit
      BY <2>2 DEF Owned, ChunkOwned
    <3>2. Owns(owner, e.chunks[k].blit, k, TRUE)
      BY <3>1 DEF Owned, HeaderOwned, Found
    <3>3. m # e.chunks[k].blit
      BY <1>10, <3>2 DEF Owns, Place
    <3>4. m = e.chunks[k].cur => k = j
      BY <1>10, <3>1, PlacesOfKind DEF Owns
    <3> QED
      BY <1>10, <3>3, <3>4
  <2>3. SyncWrites(e) \in Seq(Writes) /\ \A i \in DOMAIN SyncWrites(e) : SyncWrites(e)[i].page # m
    BY <2>1, <2>2, WritesOfSync DEF WriteOfKind
  <2> QED
    BY <2>1, <2>3, FurtherWrites
<1>11. LinksOwned(owner, {}, f, after)
  <2> SUFFICES ASSUME NEW m \in DOMAIN owner, NEW j \in Kinds, owner[m] = Place(j, FALSE), m # f.chunks[j].cur, Continues(after, m)
               PROVE  LinkOwned(owner, {}, after, m, j)
    BY DEF LinksOwned
  <2>1. m # e.chunks[j].cur
    BY <1>1, <1>6
  <2>2. after[m] = file[m]
    BY <1>10, <2>1
  <2> HIDE DEF after, file
  <2>3. Continues(file, m)
    BY <2>2 DEF Continues
  <2>4. LinkOwned(owner, {}, file, m, j)
    BY <1>9, <2>1, <2>3 DEF LinksOwned
  <2> QED
    BY <2>2, <2>4 DEF LinkOwned
<1> QED
  BY <1>5, <1>6, <1>7, <1>8, <1>9, <1>11 DEF Owned
-----------------------------------------------------------------------------
(* The invariant.                                                          *)

IsOpen == phase \in {"open", "syncing", "closing"}

StorageInv ==
  /\ StorageTypeOK
  /\ ~ IsOpen => pending = <<>>
  /\ IsOpen => \E owner : Owned(owner, {}, engine, File)

\* The file that all pending writes lead to is a file.
LEMMA FileTypes ==
  ASSUME NEW on \in Files, NEW p \in Seq(Writes)
  PROVE  /\ FileOf(on, p) \in Files
         /\ p = <<>> => FileOf(on, p) = on
<1>1. FileOf(on, p) \in Files
  BY WrittenFile DEF FileOf
<1>2. ASSUME p = <<>> PROVE FileOf(on, p) = on
  <2>1. \A n \in PageNums : FileOf(on, p)[n] = on[n]
    BY <1>2 DEF FileOf, WrittenBy
  <2> QED
    BY <1>1, <2>1 DEF Files
<1> QED
  BY <1>1, <1>2

\* The engine that from_file() returns is an engine.
LEMMA OpenedEngine ==
  ASSUME NEW info \in Infos, NEW st \in Scans
  PROVE  Opened(info, st) \in Engines
BY DEF Opened, Scans, Engines

\* StorageInv holds at first.
LEMMA InitStorage == Init => StorageInv
<1> SUFFICES ASSUME Init PROVE StorageInv
  OBVIOUS
<1>1. disk \in Files /\ engine \in Engines
  BY MadePages DEF Init, Files
<1> QED
  BY <1>1 DEF Init, StorageInv, StorageTypeOK, IsOpen

\* StorageInv is kept when a new file is opened;
LEMMA OpenNewKeeps == StorageInv /\ OpenNew => StorageInv'
<1> SUFFICES ASSUME StorageInv, OpenNew PROVE StorageInv'
  OBVIOUS
<1> DEFINE st == ScanStart(NoHeader)
<1>1. NoHeader \in Infos /\ Known(NoHeader) = {}
  BY MadePages DEF NoHeader, Known
<1>2. pending' \in Seq(Writes)
  <2>1. Write(0, Header(NoHeader)) \in Writes
    BY <1>1, MadePages DEF Write, Writes
  <2> QED
    BY <2>1 DEF OpenNew
<1>3. disk' \in Files /\ File' = FileOf(disk', pending') /\ File' \in Files
  BY <1>2, FileTypes DEF StorageInv, StorageTypeOK, OpenNew, File, FileOf
<1>4. st \in Scans /\ Scanned(File', NoHeader, st)
  BY <1>1, <1>3, ScanStarts
<1>5. st.queue = {} /\ st.ok
  BY <1>1 DEF ScanStart
<1>6. engine' = Opened(NoHeader, st)
  BY DEF OpenNew, Opened, ScanStart
<1> HIDE DEF st
<1>7. engine' \in Engines
  BY <1>1, <1>4, <1>6, OpenedEngine
<1>8. StorageTypeOK' /\ IsOpen'
  BY <1>2, <1>3, <1>7 DEF StorageInv, StorageTypeOK, IsOpen, OpenNew
<1>9. \E owner : Owned(owner, {}, engine', File')
  BY <1>4, <1>5, <1>6 DEF Scanned
<1> QED
  BY <1>8, <1>9 DEF StorageInv

\* when a file is opened and scanned, whatever is in it;
LEMMA OpenFileKeeps == StorageInv /\ OpenFile => StorageInv'
<1> SUFFICES ASSUME StorageInv, OpenFile PROVE StorageInv'
  OBVIOUS
<1> DEFINE info == IF disk[0].type = "header" THEN disk[0].info ELSE NoHeader
           scan == ScanBlocks(disk, info)
<1>1. pending' = <<>> /\ pending' \in Seq(Writes) /\ disk' \in Files /\ disk' = disk
  BY DEF StorageInv, StorageTypeOK, OpenFile, IsOpen
<1>2. info \in Infos
  <2>1. disk[0] \in Pages
    BY <1>1, MadePages DEF Files
  <2> QED
    BY <2>1, PageTypes, MadePages
<1>3. scan \in Scans /\ (scan.ok => \E owner : Owned(owner, {}, Opened(info, scan), disk))
  BY <1>1, <1>2, ScanOwns
<1>4. File' = disk
  BY <1>1, FileTypes DEF File, FileOf
<1>5. \/ engine' = Opened(info, scan) /\ phase' = "open" /\ scan.ok
      \/ engine' = engine /\ phase' = "failed"
  BY DEF OpenFile
<1> HIDE DEF scan, info
<1>6. Opened(info, scan) \in Engines
  BY <1>2, <1>3, OpenedEngine
<1>7. StorageTypeOK'
  BY <1>1, <1>5, <1>6 DEF StorageInv, StorageTypeOK, OpenFile
<1> QED
  BY <1>1, <1>3, <1>4, <1>5, <1>7 DEF StorageInv, IsOpen

\* when an item is put in a kind's last page;
LEMMA AppendFitsKeeps ==
  ASSUME NEW k \in Kinds, StorageInv, AppendFits(k)
  PROVE  StorageInv'
<1> DEFINE e == Prepare(engine, k)
           x == items + 1
<1>1. engine \in Engines /\ disk' = disk /\ pending' = pending /\ phase' = phase /\ x \in Nat /\ items' = x
      /\ IsOpen /\ File' = File
  <2>1. disk' = disk /\ pending' = pending /\ phase' = phase /\ items' = x /\ phase = "open"
    BY DEF AppendFits, CanAppend
  <2>2. engine \in Engines /\ items \in Nat
    BY DEF StorageInv, StorageTypeOK
  <2> QED
    BY <2>1, <2>2 DEF IsOpen, File
<1>2. PICK owner : Owned(owner, {}, engine, File)
  BY <1>1 DEF StorageInv
<1>3. engine' = WithItem(e, k, x)
  BY DEF AppendFits
<1>4. e \in Engines /\ IsChunk(e.chunks[k]) /\ \E own : Owned(own, {}, e, File)
  <2>1. CASE IsChunk(engine.chunks[k])
    BY <1>1, <1>2, <2>1 DEF Prepare
  <2>2. CASE ~ IsChunk(engine.chunks[k])
    <3>1. e.nextFree = engine.nextFree + 2 /\ engine.nextFree \in Nat
      BY <1>1, <2>2 DEF Prepare, Engines
    <3>2. Assignable(engine.nextFree .. e.nextFree - 1)
      BY DEF AppendFits
    <3> HIDE DEF e
    <3>3. engine.nextFree + 1 < MaxPages
      <4>1. engine.nextFree + 1 \in engine.nextFree .. e.nextFree - 1
        BY <3>1
      <4> QED
        BY <3>2, <4>1 DEF Assignable
    <3>4. engine.nextFree + 1 \in PageNums
      BY <3>1, <3>3, StorageAssumption DEF PageNums
    <3>5. \E own : Owned(own, {}, e, File)
      BY <1>1, <1>2, <2>2, <3>4, PrepareOwns DEF e
    <3>6. e \in Engines /\ e.chunks[k] = Chunk(engine.nextFree + 1, FALSE, engine.nextFree, NewPage)
      BY <1>1, <2>2, <3>4, KindPrepared DEF e
    <3>7. e.chunks[k].cur = engine.nextFree + 1
      BY <3>6 DEF Chunk
    <3>8. IsChunk(e.chunks[k])
      BY <3>1, <3>7 DEF IsChunk
    <3> QED
      BY <3>5, <3>6, <3>8
  <2> QED
    BY <2>1, <2>2
<1> HIDE DEF e, x
<1>5. PICK own : Owned(own, {}, e, File)
  BY <1>4
<1>6. engine' \in Engines /\ Owned(own, {}, engine', File')
  BY <1>1, <1>3, <1>4, <1>5, ItemAdded, ItemKeepsOwners
<1>7. StorageTypeOK'
  BY <1>1, <1>6 DEF StorageInv, StorageTypeOK
<1> QED
  BY <1>1, <1>6, <1>7 DEF StorageInv, IsOpen

\* when the last page is full and another is assigned;
LEMMA AppendFullKeeps ==
  ASSUME NEW k \in Kinds, StorageInv, AppendFull(k)
  PROVE  StorageInv'
<1> DEFINE c  == engine.chunks[k]
           nx == NextOf(engine, c)
           e  == Finalized(engine, k, c)
           x  == items + 1
           ws == IF c.dirty \/ c.page.next = 0 THEN FinalWrites(c, nx) ELSE <<>>
<1>1. /\ engine \in Engines /\ disk \in Files /\ pending \in Seq(Writes) /\ items \in Nat
      /\ phase = "open" /\ IsChunk(c) /\ IsOpen
  BY DEF StorageInv, StorageTypeOK, AppendFull, CanAppend, IsOpen
<1>2. PICK owner : Owned(owner, {}, engine, File)
  BY <1>1 DEF StorageInv
<1>3. c \in Chunks /\ c.page.next \in PageNums /\ c.cur \in PageNums /\ engine.nextFree \in Nat /\ c.page.next \in {0, c.cur}
  BY <1>1, <1>2 DEF Engines, Chunks, DataPageSet, Owned, ChunkOwned
<1>4. nx = IF c.page.next = 0 THEN engine.nextFree ELSE c.page.next
  BY DEF NextOf
<1>5. /\ Assignable({nx} \ {c.cur})
      /\ disk' = disk /\ phase' = phase /\ items' = x
      /\ pending' = pending \o ws /\ engine' = WithItem(e, k, x)
  BY DEF AppendFull
<1> HIDE DEF c, e, ws, nx, x
<1>6. nx \in PageNums
  <2>1. CASE nx = c.cur
    BY <1>3, <2>1
  <2>2. CASE nx # c.cur
    <3>1. nx < MaxPages
      BY <1>5, <2>2 DEF Assignable
    <3>2. nx \in Nat
      BY <1>3, <1>4 DEF PageNums
    <3> QED
      BY <3>1, <3>2, StorageAssumption DEF PageNums
  <2> QED
    BY <2>1, <2>2
<1>7. /\ ws \in Seq(Writes)
      /\ \A i \in DOMAIN ws : ws[i].page \in {-1, c.blit, c.cur}
      /\ c.page.next = 0 => /\ Len(ws) \in DOMAIN ws /\ ws[Len(ws)].page = c.cur /\ ws[Len(ws)].to.next = nx
                            /\ \A j \in DOMAIN ws : j <= Len(ws)
  <2>1. CASE c.dirty \/ c.page.next = 0
    <3> DEFINE w == FinalWrites(c, nx)
    <3>1. /\ w \in Seq(Writes) /\ w # <<>>
          /\ \A i \in DOMAIN w : w[i].page \in {-1, c.blit} \/ w[i].page = c.cur
          /\ w[Len(w)].page = c.cur /\ w[Len(w)].to.next = nx
      BY <1>3, <1>6, WritesOfFullPage
    <3>2. ws = w
      BY <2>1 DEF ws
    <3> HIDE DEF w
    <3>3. Len(w) \in DOMAIN w /\ \A j \in DOMAIN w : j <= Len(w)
      BY <3>1
    <3> QED
      BY <3>1, <3>2, <3>3
  <2>2. CASE ~ (c.dirty \/ c.page.next = 0)
    BY <2>2 DEF ws
  <2> QED
    BY <2>1, <2>2
<1>8. /\ pending' \in Seq(Writes) /\ File = FileOf(disk, pending) /\ File' = FileOf(disk, pending \o ws)
  BY <1>1, <1>5, <1>7 DEF File, FileOf
<1>9. \A n \in PageNums \ {c.cur, c.blit} : File'[n] = File[n]
  <2> SUFFICES ASSUME NEW n \in PageNums, n \notin {c.cur, c.blit}
               PROVE  FileOf(disk, pending \o ws)[n] = FileOf(disk, pending)[n]
    BY <1>8
  <2>1. n # -1
    BY StorageAssumption DEF PageNums
  <2>2. \A i \in DOMAIN ws : ws[i].page # n
    BY <1>7, <2>1
  <2> QED
    BY <1>1, <1>7, <2>2, FurtherWrites
<1>10. ASSUME c.page.next = 0 PROVE File'[c.cur].next = engine.nextFree
  <2>1. FileOf(disk, pending \o ws)[c.cur] = ws[Len(ws)].to
    BY <1>1, <1>3, <1>7, <1>10, FurtherWrites
  <2> QED
    BY <1>4, <1>7, <1>8, <1>10, <2>1
<1>11. c.page.next = 0 => engine.nextFree \in PageNums
  BY <1>4, <1>6
<1>12. PICK own : Owned(own, {}, e, File')
  BY <1>1, <1>2, <1>9, <1>10, <1>11, NextOwns DEF c, e
<1>13. e \in Engines /\ IsChunk(e.chunks[k])
  <2>1. e \in Engines /\ e.chunks[k] = Chunk(nx, FALSE, c.blit, NewPage)
    BY <1>1, <1>3, <1>6, NextAssigned DEF e, nx
  <2>2. nx # 0
    BY <1>1, <1>2, <1>3, <1>4 DEF Owned
  <2>3. e.chunks[k].cur = nx
    BY <2>1 DEF Chunk
  <2> QED
    BY <2>1, <2>2, <2>3 DEF IsChunk
<1>14. x \in Nat
  BY <1>1 DEF x
<1>15. engine' \in Engines /\ Owned(own, {}, engine', File')
  BY <1>5, <1>12, <1>13, <1>14, ItemAdded, ItemKeepsOwners
<1>16. StorageTypeOK'
  BY <1>1, <1>5, <1>8, <1>14, <1>15 DEF StorageTypeOK
<1> QED
  BY <1>1, <1>5, <1>15, <1>16 DEF StorageInv, IsOpen

\* when fsync() writes the header and the pages;
LEMMA StartSyncKeeps ==
  ASSUME NEW then \in {"syncing", "closing"}, StorageInv, StartSync(then)
  PROVE  StorageInv'
<1>1. /\ engine \in Engines /\ disk \in Files /\ pending \in Seq(Writes) /\ IsOpen
      /\ disk' = disk /\ pending' = pending \o SyncWrites(engine) /\ items' = items /\ phase' = then
  BY DEF StorageInv, StorageTypeOK, StartSync, IsOpen
<1>2. PICK owner : Owned(owner, {}, engine, File)
  BY <1>1 DEF StorageInv
<1>3. SyncWrites(engine) \in Seq(Writes)
  BY <1>1, WritesOfSync
<1>4. pending' \in Seq(Writes) /\ File = FileOf(disk, pending) /\ File' = FileOf(disk, pending \o SyncWrites(engine))
  BY <1>1, <1>3 DEF File, FileOf
<1>5. engine' = [engine EXCEPT !.chunks = [k \in Kinds |-> IF @[k].dirty THEN WritePage(@[k], 0).chunk ELSE @[k]]]
  BY DEF StartSync
<1>6. engine' \in Engines /\ Owned(owner, {}, engine', File')
  BY <1>1, <1>2, <1>4, <1>5, SyncOwns
<1>7. StorageTypeOK'
  BY <1>1, <1>4, <1>6 DEF StorageInv, StorageTypeOK
<1> QED
  BY <1>1, <1>6, <1>7 DEF StorageInv, IsOpen

\* when what was written is synced;
LEMMA SyncDataKeeps == StorageInv /\ SyncData => StorageInv'
<1> SUFFICES ASSUME StorageInv, SyncData PROVE StorageInv'
  OBVIOUS
<1>1. /\ engine \in Engines /\ disk \in Files /\ pending \in Seq(Writes) /\ IsOpen
      /\ disk' = File /\ pending' = <<>> /\ items' = items
      /\ phase' \in {"open", "closed"} /\ engine' = IF phase' = "open" THEN engine ELSE Closed
  BY DEF StorageInv, StorageTypeOK, SyncData, IsOpen
<1>2. File = FileOf(disk, pending) /\ File \in Files /\ pending' \in Seq(Writes)
  BY <1>1, FileTypes DEF File, FileOf
<1>3. File' = File
  BY <1>1, <1>2, FileTypes DEF File, FileOf
<1>4. StorageTypeOK'
  BY <1>1, <1>2, MadePages DEF StorageInv, StorageTypeOK
<1> QED
  BY <1>1, <1>3, <1>4 DEF StorageInv, IsOpen

\* A crash leaves each page as it was, as a write makes it, or torn.
MayHold(on, writes, n, page) == page = on[n] \/ \E i \in DOMAIN writes : writes[i].page = n /\ page = writes[i].to

\* What a crash leaves of a page was there, is one of the writes to it, or is torn.
LEMMA CrashedFile ==
  ASSUME NEW on \in Files, NEW writes \in Seq(Writes), NEW d \in CrashOutcomes(on, writes)
  PROVE  /\ d \in Files
         /\ \A n \in PageNums : /\ d[n] = Torn \/ MayHold(on, writes, n, d[n])
                                /\ (\A i \in DOMAIN writes : writes[i].page # n) => d[n] = on[n]
<1> DEFINE OfSome(from, some) == {WrittenBy(1 .. from \cup some, torn, on, writes) : torn \in SUBSET some}
           OfFrom(from)       == UNION {OfSome(from, some) : some \in SUBSET CrashBlock(writes, from)}
<1>1. d \in UNION {OfFrom(from) : from \in Blocks(writes)}
  BY Zenon DEF CrashOutcomes
<1> HIDE DEF OfFrom
<1>2. PICK from \in Blocks(writes) : d \in OfFrom(from)
  BY <1>1
<1> HIDE DEF OfSome
<1>3. PICK some \in SUBSET CrashBlock(writes, from) : d \in OfSome(from, some)
  BY <1>2 DEF OfFrom
<1>4. PICK torn : d = WrittenBy(1 .. from \cup some, torn, on, writes)
  BY <1>3 DEF OfSome
<1> DEFINE done == 1 .. from \cup some
           to(n) == {i \in done : writes[i].page = n}
<1>5. Len(writes) \in Nat /\ DOMAIN writes = 1 .. Len(writes)
  OBVIOUS
<1>6. from \in 0 .. Len(writes)
  BY <1>5 DEF Blocks
<1>7. done \in SUBSET (1 .. Len(writes))
  BY <1>5, <1>6 DEF CrashBlock
<1> HIDE DEF done
<1>8. d \in Files
  BY <1>4, <1>5, <1>7, WrittenFile DEF done
<1>9. ASSUME NEW n \in PageNums
      PROVE  /\ d[n] = Torn \/ MayHold(on, writes, n, d[n])
             /\ (\A i \in DOMAIN writes : writes[i].page # n) => d[n] = on[n]
  <2>1. /\ to(n) = {} => d[n] = on[n]
        /\ to(n) # {} => d[n] = Torn \/ d[n] = writes[LastOf(to(n))].to
    BY <1>4, <1>9 DEF WrittenBy, done
  <2>2. to(n) \in SUBSET (1 .. Len(writes))
    BY <1>7
  <2>3. CASE to(n) = {}
    BY <2>1, <2>3 DEF MayHold
  <2>4. CASE to(n) # {}
    <3>1. LastOf(to(n)) \in to(n)
      <4> HIDE DEF to
      <4> QED
        BY <1>5, <2>2, <2>4, LastOfPositions
    <3>2. LastOf(to(n)) \in DOMAIN writes /\ writes[LastOf(to(n))].page = n
      BY <1>5, <2>2, <3>1
    <3> HIDE DEF to
    <3> QED
      BY <2>1, <2>4, <3>2 DEF MayHold
  <2> QED
    BY <2>3, <2>4
<1> QED
  BY <1>8, <1>9

\* and when the file is closed, or the program stops.
LEMMA ClosesKeep == StorageInv /\ (CloseClean \/ Crash) => StorageInv'
<1> SUFFICES ASSUME StorageInv, CloseClean \/ Crash PROVE StorageInv'
  OBVIOUS
<1>1. /\ disk \in Files /\ pending \in Seq(Writes) /\ items \in Nat
      /\ pending' = <<>> /\ items' = items /\ phase' = "closed" /\ engine' = Closed
      /\ disk' = File \/ disk' \in CrashOutcomes(disk, pending)
  BY DEF StorageInv, StorageTypeOK, CloseClean, Crash
<1>2. ASSUME NEW d \in CrashOutcomes(disk, pending) PROVE d \in Files
  BY <1>1, <1>2, CrashedFile
<1>3. File \in Files
  BY <1>1, FileTypes DEF File, FileOf
<1>4. StorageTypeOK'
  BY <1>1, <1>2, <1>3, MadePages DEF StorageTypeOK
<1> QED
  BY <1>1, <1>4 DEF StorageInv, IsOpen

\* StorageInv is kept by every step.
LEMMA StepStorage == StorageInv /\ [Next]_vars => StorageInv'
<1> SUFFICES ASSUME StorageInv, [Next]_vars PROVE StorageInv'
  OBVIOUS
<1>1. CASE UNCHANGED vars
  BY <1>1 DEF vars, StorageInv, StorageTypeOK, IsOpen, File
<1>2. CASE Next
  BY <1>2, OpenNewKeeps, OpenFileKeeps, AppendFitsKeeps, AppendFullKeeps, StartSyncKeeps, SyncDataKeeps, ClosesKeep DEF Next
<1> QED
  BY <1>1, <1>2

\* The engine, the file and what is not yet on disk have their types, and every
\* page below the first free one has an owner.
THEOREM StorageInvariance == Spec => []StorageInv
BY InitStorage, StepStorage, PTL DEF Spec
-----------------------------------------------------------------------------
(* The pages of a kind.                                                    *)

\* The data pages of a kind ascend, and are all owned by it.
LEMMA PagesOfKind ==
  ASSUME StorageTypeOK, NEW owner, Owned(owner, {}, engine, File), NEW k \in Known(engine.info)
  PROVE  LET pages == DataPages(k) IN
         \A j \in PageNums : pages[j] # 0 => /\ Owns(owner, pages[j], k, FALSE)
                                             /\ \A i \in PageNums : i < j => pages[i] < pages[j]
<1> DEFINE first   == engine.info[k].first
           step    == [i \in 1 .. MaxPages |-> [n \in PageNums |-> PageAfter(k, n)]]
           Loop(f) == f = [i \in PageNums |-> IF i = 0 THEN first ELSE PageAfter(k, f[i - 1])]
           pages   == CHOOSE f : Loop(f)
<1>1. MaxPages \in Nat /\ PageNums = 0 .. MaxPages /\ k \in Kinds
  BY StorageAssumption DEF PageNums, Known
<1>2. first \in PageNums /\ Owns(owner, first, k, FALSE)
  BY <1>1 DEF StorageTypeOK, Engines, Infos, Owned, HeaderOwned, Found
<1>3. File \in Files
  BY FileTypes DEF StorageTypeOK, File, FileOf
<1>4. \A n \in PageNums : PageAfter(k, n) \in PageNums
  <2> SUFFICES ASSUME NEW n \in PageNums PROVE PageAfter(k, n) \in PageNums
    OBVIOUS
  <2>1. File[n] \in Pages
    BY <1>3 DEF Files
  <2>2. IsData(File[n]) => File[n].next \in PageNums
    BY <2>1, PageTypes DEF DataPageSet
  <2> QED
    BY <1>1, <2>2 DEF PageAfter
<1>5. \A n \in PageNums : PageAfter(k, n) # 0 /\ Owns(owner, n, k, FALSE)
                          => n < PageAfter(k, n) /\ Owns(owner, PageAfter(k, n), k, FALSE)
  <2> SUFFICES ASSUME NEW n \in PageNums, PageAfter(k, n) # 0, Owns(owner, n, k, FALSE)
               PROVE  n < PageAfter(k, n) /\ Owns(owner, PageAfter(k, n), k, FALSE)
    OBVIOUS
  <2>1. n # engine.chunks[k].cur /\ Continues(File, n) /\ PageAfter(k, n) = File[n].next
    BY DEF PageAfter, Continues
  <2>2. LinkOwned(owner, {}, File, n, k)
    BY <1>1, <2>1 DEF Owned, LinksOwned, Owns
  <2> QED
    BY <2>1, <2>2 DEF LinkOwned
<1>6. StepsWithin(step, MaxPages, PageNums) /\ \A i \in 1 .. MaxPages, n \in PageNums : step[i][n] = PageAfter(k, n)
  BY <1>4 DEF StepsWithin
<1> HIDE DEF step, first
<1>7. Loop(pages)
  <2>1. PICK f : Passed(f, first, step, MaxPages, PageNums)
    BY <1>1, <1>2, <1>6, StepsExist
  <2>2. ASSUME NEW i \in 0 .. MaxPages, i # 0
        PROVE  f[i] = PageAfter(k, f[i - 1])
    <3>1. i \in 1 .. MaxPages /\ i - 1 \in 0 .. MaxPages
      BY <1>1, <2>2
    <3> QED
      BY <1>6, <2>1, <3>1 DEF Passed
  <2>3. Loop(f)
    BY <1>1, <2>1, <2>2 DEF Passed
  <2> HIDE DEF Loop
  <2> QED
    BY <2>3
<1>8. DataPages(k) = pages
  BY DEF DataPages, first
<1> HIDE DEF pages
<1> DEFINE Good(j) == /\ pages[j] \in PageNums
                      /\ pages[j] # 0 => /\ Owns(owner, pages[j], k, FALSE)
                                         /\ \A i \in PageNums : i < j => pages[i] < pages[j]
           Bad     == {j \in 0 .. MaxPages : ~ Good(j)}
<1>9. Bad = {}
  <2> SUFFICES ASSUME Bad # {} PROVE FALSE
    OBVIOUS
  <2>1. Bad \subseteq Nat
    <3> HIDE DEF Good
    <3> QED
      BY <1>1
  <2> HIDE DEF Bad
  <2>2. PICK j \in Bad : \A i \in Bad : j <= i
    BY <2>1, LeastElement
  <2>3. j \in 0 .. MaxPages /\ ~ Good(j)
    BY <2>2 DEF Bad
  <2>4. CASE j = 0
    <3>1. pages[j] = first
      BY <1>1, <1>7, <2>3, <2>4
    <3>2. \A i \in PageNums : ~ (i < j)
      BY <1>1, <2>4
    <3> QED
      BY <1>2, <2>3, <3>1, <3>2
  <2>5. CASE j # 0
    <3>1. j - 1 \in 0 .. MaxPages /\ ~ (j <= j - 1)
      BY <1>1, <2>3, <2>5
    <3>2. Good(j - 1)
      BY <2>2, <3>1 DEF Bad
    <3> DEFINE p == pages[j - 1]
               q == pages[j]
    <3>3. q = PageAfter(k, p) /\ p \in PageNums /\ q \in PageNums
      BY <1>1, <1>4, <1>7, <2>3, <2>5, <3>2
    <3>4. q # 0 => p # 0
      BY <3>3 DEF PageAfter
    <3>5. q # 0 => p < q /\ Owns(owner, q, k, FALSE)
      BY <1>5, <3>2, <3>3, <3>4
    <3>6. ASSUME q # 0, NEW i \in PageNums, i < j PROVE pages[i] < q
      <4>1. CASE i = j - 1
        BY <3>5, <3>6, <4>1
      <4>2. CASE i # j - 1
        <5>1. i < j - 1 /\ i \in 0 .. MaxPages /\ ~ (j <= i)
          BY <1>1, <2>3, <3>6, <4>2
        <5>2. pages[i] \in PageNums
          BY <2>2, <5>1 DEF Bad
        <5>3. pages[i] < p
          BY <3>2, <3>4, <3>6, <5>1
        <5> QED
          BY <1>1, <3>3, <3>5, <3>6, <5>2, <5>3
      <4> QED
        BY <4>1, <4>2
    <3> QED
      BY <2>3, <3>3, <3>5, <3>6
  <2> QED
    BY <2>4, <2>5
<1> QED
  BY <1>1, <1>8, <1>9

\* No two kinds, and no two places of one kind, share a page, in all situations.
LEMMA OwnedPages == StorageInv => PagesAreOwned
<1> SUFFICES ASSUME StorageInv, phase = "open" PROVE PagesAreOwned
  BY DEF PagesAreOwned
<1>1. PICK owner : Owned(owner, {}, engine, File)
  BY DEF StorageInv, IsOpen
<1>2. owner \in [1 .. engine.nextFree - 1 -> Places] /\ engine.nextFree \in 1 .. MaxPages + 1 /\ 0 \notin DOMAIN owner
  BY <1>1 DEF Owned
<1>3. ASSUME NEW k \in Known(engine.info)
      PROVE  /\ \A j \in PageNums : DataPages(k)[j] # 0 =>
                  /\ Owns(owner, DataPages(k)[j], k, FALSE)
                  /\ \A i \in PageNums : i < j => DataPages(k)[i] < DataPages(k)[j]
             /\ Owns(owner, engine.info[k].blit, k, TRUE)
  <2>1. Owns(owner, engine.info[k].blit, k, TRUE)
    BY <1>1 DEF Owned, HeaderOwned, Found
  <2> QED
    BY <1>1, <2>1, PagesOfKind DEF StorageInv
<1>4. ASSUME NEW k \in Known(engine.info), NEW n \in UsedPages(k)
      PROVE  Owns(owner, n, k, TRUE) \/ Owns(owner, n, k, FALSE)
  BY <1>3 DEF UsedPages
<1>5. ASSUME NEW k \in Known(engine.info)
      PROVE  /\ \A i, j \in PageNums : i # j /\ DataPages(k)[i] = DataPages(k)[j] => DataPages(k)[i] = 0
             /\ \A i \in PageNums : DataPages(k)[i] # engine.info[k].blit
             /\ UsedPages(k) \subseteq 1 .. engine.nextFree - 1
  <2>1. ASSUME NEW i \in PageNums, NEW j \in PageNums, i # j, DataPages(k)[i] = DataPages(k)[j]
        PROVE  DataPages(k)[i] = 0
    <3> SUFFICES ASSUME DataPages(k)[i] # 0 PROVE FALSE
      OBVIOUS
    <3>1. DataPages(k)[i] \in 1 .. engine.nextFree - 1
      BY <1>2, <1>3 DEF Owns
    <3>2. i < j \/ j < i
      BY <2>1 DEF PageNums
    <3>3. DataPages(k)[i] < DataPages(k)[i]
      BY <1>3, <2>1, <3>2
    <3> QED
      BY <1>2, <3>1, <3>3
  <2>2. ASSUME NEW i \in PageNums PROVE DataPages(k)[i] # engine.info[k].blit
    <3> DEFINE p == DataPages(k)[i]
               b == engine.info[k].blit
    <3>1. b \in DOMAIN owner /\ owner[b] = Place(k, TRUE) /\ (p # 0 => owner[p] = Place(k, FALSE))
      BY <1>3 DEF Owns
    <3>2. Place(k, TRUE) # Place(k, FALSE)
      BY PlacesOfKind DEF Known
    <3> HIDE DEF p, b
    <3>3. p # b
      BY <1>2, <3>1, <3>2
    <3> QED
      BY <3>3 DEF p, b
  <2>3. UsedPages(k) \subseteq 1 .. engine.nextFree - 1
    BY <1>2, <1>4 DEF Owns
  <2> QED
    BY <2>1, <2>2, <2>3
<1>6. ASSUME NEW j \in Known(engine.info), NEW k \in Known(engine.info), j # k
      PROVE  UsedPages(j) \cap UsedPages(k) = {}
  <2> SUFFICES ASSUME NEW n \in UsedPages(j), n \in UsedPages(k) PROVE FALSE
    OBVIOUS
  <2>1. \A l \in Known(engine.info) : n \in UsedPages(l) => owner[n] = Place(l, TRUE) \/ owner[n] = Place(l, FALSE)
    BY <1>4 DEF Owns
  <2>2. \A l : Place(l, TRUE).kind = l /\ Place(l, FALSE).kind = l
    BY DEF Place
  <2>3. owner[n].kind = j
    BY <2>1, <2>2
  <2>4. owner[n].kind = k
    BY <2>1, <2>2
  <2> QED
    BY <1>6, <2>3, <2>4
<1> QED
  BY <1>5, <1>6 DEF PagesAreOwned

\* The storage never gives a page to two kinds, or to a kind twice.
THEOREM OwnershipOfPages == Spec => []PagesAreOwned
BY StorageInvariance, OwnedPages, PTL
-----------------------------------------------------------------------------
(* A file that can be opened.                                              *)

\* The first n pages of a file are those that the header and the links lead to.
Connected(owner, info, n, file) ==
  /\ n \in 0 .. MaxPages /\ owner \in [1 .. n -> Places]
  /\ \A k \in Known(info) : Owns(owner, info[k].blit, k, TRUE) /\ Owns(owner, info[k].first, k, FALSE)
  /\ \A m \in 1 .. n, k \in Kinds :
       owner[m] = Place(k, FALSE) /\ Continues(file, m) => m < file[m].next /\ Owns(owner, file[m].next, k, FALSE)
  /\ \A m \in 1 .. n : Starts(info, m) \/ \E l : l < m /\ Links(owner, file, l, m)

\* What a scan of such a file has before it.
Ahead(owner, n, file, st) ==
  /\ st.ok /\ st.nextFree \in 1 .. n + 1
  /\ \A x \in st.queue : x.n \in st.nextFree .. n /\ owner[x.n] = Place(x.kind, x.blit)
  /\ \A m \in st.nextFree .. n : \/ \E x \in st.queue : x.n = m
                                 \/ \E l \in st.nextFree .. n : l < m /\ Links(owner, file, l, m)

\* The lowest page of its queue is the first free one.
LEMMA AheadSteps ==
  ASSUME NEW file \in Files, NEW info \in Infos, NEW n, NEW owner, Connected(owner, info, n, file),
         NEW st \in Scans, Ahead(owner, n, file, st), NEW x, LowestOf(st.queue, x)
  PROVE  Ahead(owner, n, file, ScanStep(file, info, st, x))
<1> DEFINE f == ScanStep(file, info, st, x)
           l == st.nextFree
<1>1. /\ n \in Nat /\ owner \in [1 .. n -> Places] /\ l \in 1 .. n + 1
      /\ x \in st.queue /\ \A y \in st.queue : x.n <= y.n
  BY DEF Connected, Ahead, LowestOf
<1>2. \A y \in st.queue : /\ y \in ScanItems /\ y.kind \in Kinds /\ y.blit \in BOOLEAN /\ y = Item(y.n, y.kind, y.blit)
                          /\ y.n \in l .. n /\ owner[y.n] = Place(y.kind, y.blit)
  BY DEF Scans, ScanItems, Item, Ahead
<1>3. x.n = l
  <2>1. l \in l .. n
    BY <1>1, <1>2
  <2>2. ~ \E m \in l .. n : m < l
    BY <1>1
  <2>3. \E y \in st.queue : y.n = l
    BY <2>1, <2>2 DEF Ahead
  <2> QED
    BY <1>1, <1>2, <2>3
<1>4. /\ f.ok /\ f.nextFree = l + 1
      /\ \/ PassesBlit(file, info, st, x, f)
         \/ PassesPage(file, info, st, x, f)
         \/ PassesLast(file, info, st, x, f)
  BY <1>1, <1>3, ScanStepCases DEF Ahead
<1> HIDE DEF f
<1>5. \A y \in f.queue : \/ y \in st.queue /\ y # x
                         \/ PassesPage(file, info, st, x, f) /\ y = Item(file[l].next, x.kind, FALSE)
  BY <1>3, <1>4 DEF PassesBlit, PassesPage, PassesLast
<1>6. \A y \in st.queue : y # x => y \in f.queue
  BY <1>4 DEF PassesBlit, PassesPage, PassesLast
<1>7. l \in 1 .. n /\ owner[l] = Place(x.kind, x.blit)
  BY <1>1, <1>2, <1>3
<1> HIDE DEF l
<1>8. ASSUME NEW y \in st.queue, y # x
      PROVE  y.n \in l + 1 .. n
  <2>1. y.n # l
    <3> SUFFICES ASSUME y.n = l PROVE FALSE
      OBVIOUS
    <3>1. Place(y.kind, y.blit) = Place(x.kind, x.blit)
      BY <1>2, <1>7
    <3>2. y.kind = x.kind /\ y.blit = x.blit
      BY <3>1 DEF Place
    <3>3. y = x
      BY <1>1, <1>2, <1>3, <3>2
    <3> QED
      BY <1>8, <3>3
  <2> QED
    BY <1>1, <1>2, <2>1
<1>9. ASSUME PassesPage(file, info, st, x, f)
      PROVE  /\ file[l].next \in l + 1 .. n /\ owner[file[l].next] = Place(x.kind, FALSE)
             /\ Item(file[l].next, x.kind, FALSE) \in f.queue
  <2>1. ~ x.blit /\ Continues(file, l) /\ Item(file[l].next, x.kind, FALSE) \in f.queue
    BY <1>3, <1>9 DEF PassesPage
  <2>2. owner[l] = Place(x.kind, FALSE) /\ x.kind \in Kinds
    BY <1>1, <1>2, <1>7, <2>1
  <2>3. l < file[l].next /\ Owns(owner, file[l].next, x.kind, FALSE)
    BY <1>7, <2>1, <2>2 DEF Connected
  <2>4. file[l].next \in 1 .. n /\ owner[file[l].next] = Place(x.kind, FALSE)
    BY <1>1, <2>3 DEF Owns
  <2>5. file[l].next \in l + 1 .. n
    <3> DEFINE next == file[l].next
    <3>1. l < next /\ next \in 1 .. n
      BY <2>3, <2>4
    <3> HIDE DEF next
    <3>2. next \in l + 1 .. n
      BY <1>1, <3>1
    <3> QED
      BY <3>2 DEF next
  <2> QED
    BY <2>1, <2>4, <2>5
<1>10. ASSUME NEW y \in f.queue
       PROVE  y.n \in l + 1 .. n /\ owner[y.n] = Place(y.kind, y.blit)
  <2>1. CASE y \in st.queue /\ y # x
    BY <1>2, <1>8, <2>1
  <2>2. CASE PassesPage(file, info, st, x, f) /\ y = Item(file[l].next, x.kind, FALSE)
    BY <1>9, <2>2 DEF Item
  <2> QED
    BY <1>5, <2>1, <2>2
<1>11. ASSUME NEW m \in l + 1 .. n
       PROVE  \/ \E y \in f.queue : y.n = m
              \/ \E j \in l + 1 .. n : j < m /\ Links(owner, file, j, m)
  <2>1. m \in l .. n /\ m # l
    BY <1>1
  <2>2. CASE \E y \in st.queue : y.n = m
    BY <1>3, <1>6, <2>1, <2>2
  <2>3. ASSUME NEW j \in l .. n, j < m, Links(owner, file, j, m)
        PROVE  \/ \E y \in f.queue : y.n = m
               \/ \E i \in l + 1 .. n : i < m /\ Links(owner, file, i, m)
    <3>1. CASE j = l
      <4>1. ~ owner[l].blit /\ Continues(file, l) /\ file[l].next = m
        BY <2>3, <3>1 DEF Links
      <4>2. ~ x.blit
        BY <1>7, <4>1 DEF Place
      <4>3. PassesPage(file, info, st, x, f)
        BY <1>3, <1>4, <4>1, <4>2 DEF PassesBlit, PassesLast
      <4>4. Item(m, x.kind, FALSE) \in f.queue /\ Item(m, x.kind, FALSE).n = m
        BY <1>9, <4>1, <4>3 DEF Item
      <4> QED
        BY <4>4
    <3>2. CASE j # l
      <4>1. j \in l + 1 .. n
        BY <1>1, <3>2
      <4> QED
        BY <2>3, <4>1
    <3> QED
      BY <3>1, <3>2
  <2> QED
    BY <2>1, <2>2, <2>3 DEF Ahead, l
<1>12. l + 1 \in 1 .. n + 1
  BY <1>1, <1>7
<1> QED
  BY <1>4, <1>10, <1>11, <1>12 DEF Ahead, f

\* It is opened.
LEMMA ConnectedOpens ==
  ASSUME NEW file \in Files, NEW info \in Infos, NEW n, NEW owner, Connected(owner, info, n, file)
  PROVE  ScanBlocks(file, info).ok
<1> DEFINE N == MaxPages + 1
           G(st) == Ahead(owner, n, file, st)
<1>1. N \in Nat /\ N \in 0 .. N /\ 0 \in 0 .. N /\ n \in Nat /\ owner \in [1 .. n -> Places]
  BY StorageAssumption DEF Connected
<1> HIDE DEF N
<1>2. PICK scan : ScanRun(file, info, scan)
  BY ScanRuns
<1>3. /\ scan[0] = ScanStart(info) /\ (\A i \in 0 .. N : scan[i] \in Scans)
      /\ \A i \in 1 .. N : StepsTo(file, info, scan[i - 1], scan[i])
      /\ ScanBlocks(file, info) = scan[N]
  BY <1>2 DEF ScanRun, N
<1>4. G(scan[0])
  <2> DEFINE st == ScanStart(info)
  <2>1. /\ st.queue = {Item(info[k].first, k, FALSE) : k \in Known(info)} \cup {Item(info[k].blit, k, TRUE) : k \in Known(info)}
        /\ st.nextFree = 1 /\ st.ok
    BY DEF ScanStart, Item
  <2> HIDE DEF st
  <2>2. ASSUME NEW y \in st.queue
        PROVE  y.n \in 1 .. n /\ owner[y.n] = Place(y.kind, y.blit)
    <3>1. PICK k \in Known(info) : y = Item(info[k].first, k, FALSE) \/ y = Item(info[k].blit, k, TRUE)
      BY <2>1
    <3>2. Owns(owner, info[k].blit, k, TRUE) /\ Owns(owner, info[k].first, k, FALSE)
      BY DEF Connected
    <3>3. PICK b \in BOOLEAN : y.kind = k /\ y.blit = b /\ Owns(owner, y.n, k, b)
      <4>1. CASE y = Item(info[k].first, k, FALSE)
        BY <3>2, <4>1 DEF Item
      <4>2. CASE y = Item(info[k].blit, k, TRUE)
        BY <3>2, <4>2 DEF Item
      <4> QED
        BY <3>1, <4>1, <4>2
    <3> QED
      BY <1>1, <3>3 DEF Owns
  <2>3. ASSUME NEW m \in 1 .. n
        PROVE  \/ \E y \in st.queue : y.n = m
               \/ \E l \in 1 .. n : l < m /\ Links(owner, file, l, m)
    <3>1. CASE Starts(info, m)
      <4>1. PICK k \in Known(info) : m \in {info[k].first, info[k].blit}
        BY <3>1 DEF Starts
      <4>2. /\ Item(info[k].first, k, FALSE) \in st.queue /\ Item(info[k].first, k, FALSE).n = info[k].first
            /\ Item(info[k].blit, k, TRUE) \in st.queue /\ Item(info[k].blit, k, TRUE).n = info[k].blit
        BY <2>1 DEF Item
      <4> QED
        BY <4>1, <4>2
    <3>2. ASSUME NEW l, l < m, Links(owner, file, l, m)
          PROVE  l \in 1 .. n
      BY <1>1, <3>2 DEF Links
    <3> QED
      BY <3>1, <3>2 DEF Connected
  <2>4. 1 \in 1 .. n + 1
    BY <1>1
  <2>5. Ahead(owner, n, file, st)
    BY <2>1, <2>2, <2>3, <2>4 DEF Ahead
  <2> QED
    BY <1>3, <2>5 DEF st
<1>5. ASSUME NEW i \in 1 .. N, G(scan[i - 1])
      PROVE  G(scan[i])
  <2>1. i - 1 \in 0 .. N
    BY <1>1
  <2>2. scan[i - 1] \in Scans /\ StepsTo(file, info, scan[i - 1], scan[i])
    BY <1>3, <2>1
  <2> QED
    BY <1>5, <2>2, AheadSteps DEF StepsTo
<1> DEFINE S == {i \in 0 .. N : G(scan[i])}
<1>6. 0 \in S /\ \A i \in 1 .. N : i - 1 \in S => i \in S
  <2> HIDE DEF G
  <2>1. \A i \in 1 .. N : i \in 0 .. N
    BY <1>1
  <2> QED
    BY <1>1, <1>4, <1>5, <2>1
<1> HIDE DEF S
<1>7. N \in S
  BY <1>1, <1>6, InductionTo
<1>8. Ahead(owner, n, file, scan[N])
  BY <1>7 DEF S
<1> QED
  BY <1>3, <1>8 DEF Ahead

\* What a crash may leave can be opened as well.  Of the pages of a file, those
\* up to old were assigned before the last sync: nothing is to be written to a
\* page that leads to one of them.  Those after it were assigned to one kind,
\* each by a write to the page before it.
OldStays(owner, info, on, writes, old) ==
  \A n \in 1 .. old : \/ Starts(info, n)
                      \/ \E m : /\ m < n /\ Links(owner, on, m, n)
                               /\ \A i \in DOMAIN writes : writes[i].page # m

NextKnown(owner, on, writes, old) ==
  \A n \in DOMAIN owner : \A page :
    MayHold(on, writes, n, page) /\ ~ owner[n].blit /\ IsData(page) /\ page.next # 0 =>
      /\ n < page.next /\ page.next \in DOMAIN owner /\ owner[page.next] = owner[n]
      /\ old + 1 < page.next => page.next = n + 1

NewOfOne(owner, e, writes, old) ==
  old < e.nextFree - 1 =>
    \E k \in Kinds : /\ \A n \in old + 1 .. e.nextFree - 1 : owner[n] = Place(k, FALSE)
                     /\ e.chunks[k].cur = e.nextFree - 1
                     /\ \E i \in DOMAIN writes : Owns(owner, writes[i].page, k, FALSE)

CrashSafe(owner, e, on, writes, old) ==
  /\ old \in 0 .. e.nextFree - 1
  /\ on[0] = Header(e.info) /\ \A n : Starts(e.info, n) => n <= old
  /\ \A i \in DOMAIN writes : writes[i].page = -1 \/ writes[i].page \in DOMAIN owner
  /\ OldStays(owner, e.info, on, writes, old)
  /\ NextKnown(owner, on, writes, old)
  /\ NewOfOne(owner, e, writes, old)

\* After a crash, the new pages end where the first link is missing.
LEMMA CrashConnects ==
  ASSUME NEW e \in Engines, NEW on \in Files, NEW writes \in Seq(Writes), NEW owner, NEW file, Owned(owner, {}, e, file),
         NEW old, CrashSafe(owner, e, on, writes, old), NEW d \in CrashOutcomes(on, writes)
  PROVE  \E n, own : Connected(own, e.info, n, d)
<1> DEFINE top == e.nextFree - 1
           Led(n) == \E m : m < n /\ Links(owner, d, m, n)
           T   == {n \in old .. top : \A j \in old + 1 .. n : Led(j)}
<1>1. /\ top \in 0 .. MaxPages /\ owner \in [1 .. top -> Places] /\ old \in 0 .. top
      /\ \A n \in 1 .. top : n \in PageNums
  BY StorageAssumption DEF Owned, CrashSafe, PageNums
<1>2. \A n \in PageNums : /\ d[n] = Torn \/ MayHold(on, writes, n, d[n])
                          /\ (\A i \in DOMAIN writes : writes[i].page # n) => d[n] = on[n]
  BY CrashedFile
<1> HIDE DEF top, Led
<1>3. \A n \in 1 .. top : /\ d[n] = Torn \/ MayHold(on, writes, n, d[n])
                          /\ (\A i \in DOMAIN writes : writes[i].page # n) => d[n] = on[n]
  BY <1>1, <1>2
<1>4. PICK n \in T : \A j \in T : j <= n
  <2>1. old \in old .. top /\ old + 1 .. old = {}
    BY <1>1
  <2>2. old \in T
    BY <2>1
  <2>3. T \subseteq Nat /\ (\A j \in T : j <= top) /\ top \in Nat
    BY <1>1
  <2> HIDE DEF T
  <2> QED
    BY <2>2, <2>3, GreatestElement
<1>5. n \in old .. top /\ n \in Nat /\ \A j \in old + 1 .. n : Led(j)
  BY <1>1
<1>6. n < top => ~ Led(n + 1)
  <2> SUFFICES ASSUME n < top, Led(n + 1) PROVE FALSE
    OBVIOUS
  <2>1. n + 1 \in old .. top /\ \A j \in old + 1 .. n + 1 : j = n + 1 \/ j \in old + 1 .. n
    BY <1>1, <1>5
  <2>2. n + 1 \in T
    BY <1>5, <2>1
  <2> HIDE DEF T
  <2> QED
    BY <1>4, <1>5, <2>2
<1> HIDE DEF T
<1> DEFINE own == [m \in 1 .. n |-> owner[m]]
<1>7. \A m \in 1 .. n : m \in 1 .. top /\ own[m] = owner[m]
  BY <1>1, <1>5
<1>8. own \in [1 .. n -> Places] /\ DOMAIN own = 1 .. n /\ DOMAIN owner = 1 .. top
  BY <1>1, <1>7
<1> HIDE DEF own
<1>9. ASSUME NEW k \in Known(e.info)
      PROVE  Owns(own, e.info[k].blit, k, TRUE) /\ Owns(own, e.info[k].first, k, FALSE)
  <2>1. Owns(owner, e.info[k].blit, k, TRUE) /\ Owns(owner, e.info[k].first, k, FALSE)
    BY DEF Owned, HeaderOwned, Found
  <2>2. Starts(e.info, e.info[k].blit) /\ Starts(e.info, e.info[k].first)
    BY DEF Starts
  <2>3. e.info[k].blit \in 1 .. top /\ e.info[k].first \in 1 .. top /\ e.info[k].blit <= old /\ e.info[k].first <= old
    BY <1>8, <2>1, <2>2 DEF CrashSafe, Owns
  <2>4. e.info[k].blit \in 1 .. n /\ e.info[k].first \in 1 .. n
    BY <1>1, <1>5, <2>3
  <2> QED
    BY <1>7, <1>8, <2>1, <2>4 DEF Owns
<1>10. ASSUME NEW m \in 1 .. n, NEW l, Links(owner, d, m, l), m < l
       PROVE  Links(own, d, m, l)
  BY <1>7, <1>8, <1>10 DEF Links
<1>11. ASSUME NEW m \in 1 .. n, NEW k \in Kinds, own[m] = Place(k, FALSE), Continues(d, m)
       PROVE  m < d[m].next /\ Owns(own, d[m].next, k, FALSE)
  <2> DEFINE l == d[m].next
  <2>1. m \in 1 .. top /\ owner[m] = Place(k, FALSE) /\ ~ owner[m].blit
    BY <1>7, <1>11 DEF Place
  <2>2. d[m] # Torn /\ IsData(d[m]) /\ l # 0
    BY <1>11 DEF Continues, IsData, Torn
  <2>3. MayHold(on, writes, m, d[m])
    BY <1>3, <2>1, <2>2
  <2>4. m < l /\ l \in 1 .. top /\ owner[l] = owner[m] /\ (old + 1 < l => l = m + 1)
    BY <1>8, <2>1, <2>2, <2>3 DEF CrashSafe, NextKnown
  <2>5. Led(l)
    BY <1>8, <1>11, <2>1, <2>4 DEF Led, Links
  <2> HIDE DEF l
  <2>6. l <= n
    <3> SUFFICES ASSUME ~ (l <= n) PROVE FALSE
      OBVIOUS
    <3>1. l = n + 1 /\ n < top
      BY <1>1, <1>5, <2>4
    <3> QED
      BY <1>6, <2>5, <3>1
  <2>7. l \in 1 .. n
    BY <1>5, <2>4, <2>6
  <2>8. own[l] = Place(k, FALSE)
    BY <1>7, <2>1, <2>4, <2>7
  <2> QED
    BY <1>8, <2>4, <2>7, <2>8 DEF Owns, l
<1>12. ASSUME NEW m \in 1 .. n
       PROVE  Starts(e.info, m) \/ \E l : l < m /\ Links(own, d, l, m)
  <2>1. \A l : l \in 1 .. top /\ l < m => l \in 1 .. n
    BY <1>5
  <2>2. CASE m \in 1 .. old /\ ~ Starts(e.info, m)
    <3>1. PICK l : l < m /\ Links(owner, on, l, m) /\ \A i \in DOMAIN writes : writes[i].page # l
      BY <2>2 DEF CrashSafe, OldStays
    <3>2. l \in 1 .. top
      BY <1>8, <3>1 DEF Links
    <3>3. d[l] = on[l]
      BY <1>3, <3>1, <3>2
    <3>4. Links(owner, d, l, m)
      BY <3>1, <3>3 DEF Links, Continues
    <3> QED
      BY <1>10, <2>1, <3>1, <3>2, <3>4
  <2>3. CASE m \notin 1 .. old
    <3>1. m \in old + 1 .. n
      BY <1>1, <1>5, <2>3
    <3>2. PICK l : l < m /\ Links(owner, d, l, m)
      BY <1>5, <3>1 DEF Led
    <3>3. l \in 1 .. top
      BY <1>8, <3>2 DEF Links
    <3> QED
      BY <1>10, <2>1, <3>2, <3>3
  <2> QED
    BY <2>2, <2>3
<1>13. n \in 0 .. MaxPages
  <2>1. MaxPages \in Nat /\ top \in Int /\ old \in Nat /\ top <= MaxPages
    BY <1>1, StorageAssumption
  <2>2. n \in Nat /\ n <= top
    BY <1>1, <1>5
  <2> QED
    BY <2>1, <2>2
<1>14. Connected(own, e.info, n, d)
  BY <1>8, <1>9, <1>11, <1>12, <1>13 DEF Connected
<1> QED
  BY <1>14

\* The page in memory of a kind is its last in the file.
CursEnd(e, file) == \A k \in Kinds : IsChunk(e.chunks[k]) => ~ Continues(file, e.chunks[k].cur)

\* A file can be opened when its pages are owned and reached.
LEMMA OwnedConnects ==
  ASSUME NEW e \in Engines, NEW file, NEW owner, Owned(owner, {}, e, file), Reached(owner, {}, e.info, file), CursEnd(e, file)
  PROVE  Connected(owner, e.info, e.nextFree - 1, file)
<1> DEFINE n == e.nextFree - 1
<1>1. n \in 0 .. MaxPages /\ owner \in [1 .. n -> Places] /\ DOMAIN owner = 1 .. n
  BY StorageAssumption DEF Owned
<1>2. \A k \in Known(e.info) : Owns(owner, e.info[k].blit, k, TRUE) /\ Owns(owner, e.info[k].first, k, FALSE)
  BY DEF Owned, HeaderOwned, Found
<1> HIDE DEF n
<1>3. ASSUME NEW m \in 1 .. n, NEW k \in Kinds, owner[m] = Place(k, FALSE), Continues(file, m)
      PROVE  m < file[m].next /\ Owns(owner, file[m].next, k, FALSE)
  <2>1. m # e.chunks[k].cur
    BY <1>3 DEF CursEnd, IsChunk
  <2> QED
    BY <1>1, <1>3, <2>1 DEF Owned, LinksOwned, LinkOwned
<1>4. \A m \in 1 .. n : Starts(e.info, m) \/ \E l : l < m /\ Links(owner, file, l, m)
  BY <1>1 DEF Reached
<1> QED
  BY <1>1, <1>2, <1>3, <1>4 DEF Connected, n

\* Once all is on disk, so is what a crash leaves.
LEMMA Settles ==
  ASSUME NEW e \in Engines, NEW on \in Files, NEW owner, Owned(owner, {}, e, on), Reached(owner, {}, e.info, on), CursEnd(e, on),
         on[0] = Header(e.info)
  PROVE  CrashSafe(owner, e, on, <<>>, e.nextFree - 1)
<1> DEFINE n == e.nextFree - 1
<1>1. Connected(owner, e.info, n, on) /\ e.nextFree \in Nat
  BY OwnedConnects DEF Engines
<1>2. n \in Nat /\ n \in 0 .. n /\ owner \in [1 .. n -> Places] /\ DOMAIN owner = 1 .. n
  BY <1>1 DEF Connected
<1> HIDE DEF n
<1>3. ASSUME NEW m, Starts(e.info, m) PROVE m <= n
  <2>1. PICK k \in Known(e.info) : m \in {e.info[k].first, e.info[k].blit}
    BY <1>3 DEF Starts
  <2>2. m \in DOMAIN owner
    BY <1>1, <2>1 DEF Connected, Owns
  <2> QED
    BY <1>2, <2>2
<1>4. OldStays(owner, e.info, on, <<>>, n)
  BY <1>1 DEF Connected, OldStays
<1>5. NextKnown(owner, on, <<>>, n)
  <2> SUFFICES ASSUME NEW m \in 1 .. n, NEW page, MayHold(on, <<>>, m, page), ~ owner[m].blit, IsData(page), page.next # 0
               PROVE  /\ m < page.next /\ page.next \in DOMAIN owner /\ owner[page.next] = owner[m]
                      /\ n + 1 < page.next => page.next = m + 1
    BY <1>2 DEF NextKnown
  <2>1. page = on[m] /\ Continues(on, m)
    BY DEF MayHold, Continues
  <2> DEFINE k == owner[m].kind
  <2>2. k \in Kinds /\ owner[m] = Place(k, FALSE)
    BY <1>2 DEF Places, Place
  <2>3. m < page.next /\ Owns(owner, page.next, k, FALSE)
    BY <1>1, <2>1, <2>2 DEF Connected
  <2>4. page.next \in 1 .. n /\ owner[page.next] = owner[m]
    BY <1>2, <2>2, <2>3 DEF Owns
  <2>5. ~ (n + 1 < page.next)
    BY <1>2, <2>4
  <2> QED
    BY <1>2, <2>3, <2>4, <2>5
<1>6. NewOfOne(owner, e, <<>>, n)
  BY <1>2 DEF NewOfOne, n
<1> QED
  BY <1>2, <1>3, <1>4, <1>5, <1>6 DEF CrashSafe, n

\* Writes to the last and the blit page of kinds, to the header and to the first
\* free page.
WritesEnds(e, ws) ==
  \A i \in DOMAIN ws : \/ ws[i].page \in {-1, 0, e.nextFree}
                       \/ \E k \in Kinds : IsChunk(e.chunks[k]) /\ ws[i].page \in {e.chunks[k].cur, e.chunks[k].blit}

\* They break no link.
LEMMA LinksStay ==
  ASSUME NEW e \in Engines, NEW on \in Files, NEW p \in Seq(Writes), NEW ws \in Seq(Writes),
         NEW owner, Owned(owner, {}, e, FileOf(on, p)), CursEnd(e, FileOf(on, p)), WritesEnds(e, ws)
  PROVE  /\ \A m, n : Links(owner, FileOf(on, p), m, n) => /\ \A i \in DOMAIN ws : ws[i].page # m
                                                           /\ Links(owner, FileOf(on, p \o ws), m, n)
         /\ \A old : OldStays(owner, e.info, on, p, old) => OldStays(owner, e.info, on, p \o ws, old)
<1> DEFINE file == FileOf(on, p)
<1>1. /\ owner \in [1 .. e.nextFree - 1 -> Places] /\ e.nextFree \in 1 .. MaxPages + 1
      /\ \A m \in DOMAIN owner : m \in PageNums /\ m \notin {-1, 0, e.nextFree}
  BY StorageAssumption DEF Owned, PageNums
<1>2. ASSUME NEW m, NEW n, Links(owner, file, m, n), NEW i \in DOMAIN ws, ws[i].page = m
      PROVE  FALSE
  <2>1. m \in DOMAIN owner /\ ~ owner[m].blit /\ Continues(file, m)
    BY <1>2 DEF Links
  <2>2. PICK k \in Kinds : IsChunk(e.chunks[k]) /\ m \in {e.chunks[k].cur, e.chunks[k].blit}
    BY <1>1, <1>2, <2>1 DEF WritesEnds
  <2>3. m = e.chunks[k].blit
    BY <2>1, <2>2 DEF CursEnd
  <2>4. k \in Known(e.info) /\ e.chunks[k].blit = e.info[k].blit
    BY <2>2 DEF Owned, ChunkOwned
  <2>5. owner[m] = Place(k, TRUE)
    BY <2>3, <2>4 DEF Owned, HeaderOwned, Found, Owns
  <2> QED
    BY <2>1, <2>5 DEF Place
<1>3. ASSUME NEW m, NEW n, Links(owner, file, m, n)
      PROVE  Links(owner, FileOf(on, p \o ws), m, n)
  <2>1. m \in PageNums
    BY <1>1, <1>3 DEF Links
  <2>2. FileOf(on, p \o ws)[m] = file[m]
    BY <1>2, <1>3, <2>1, FurtherWrites
  <2> QED
    BY <1>3, <2>2 DEF Links, Continues
<1>4. ASSUME NEW old, OldStays(owner, e.info, on, p, old)
      PROVE  OldStays(owner, e.info, on, p \o ws, old)
  <2> SUFFICES ASSUME NEW n \in 1 .. old, ~ Starts(e.info, n)
               PROVE  \E m : m < n /\ Links(owner, on, m, n) /\ \A i \in DOMAIN (p \o ws) : (p \o ws)[i].page # m
    BY DEF OldStays
  <2>1. PICK m : m < n /\ Links(owner, on, m, n) /\ \A i \in DOMAIN p : p[i].page # m
    BY <1>4 DEF OldStays
  <2>2. m \in PageNums
    BY <1>1, <2>1 DEF Links
  <2>3. file[m] = on[m]
    <3>1. \A i \in DOMAIN p : p[i].page # m
      BY <2>1
    <3> QED
      BY <2>2, <3>1 DEF FileOf, WrittenBy
  <2>4. Links(owner, file, m, n)
    BY <2>1, <2>3 DEF Links, Continues
  <2>5. ASSUME NEW i \in DOMAIN (p \o ws) PROVE (p \o ws)[i].page # m
    <3>1. \/ \E j \in DOMAIN p : (p \o ws)[i] = p[j]
          \/ \E j \in DOMAIN ws : (p \o ws)[i] = ws[j]
      OBVIOUS
    <3> QED
      BY <1>2, <2>1, <2>4, <3>1
  <2> QED
    BY <2>1, <2>5
<1> QED
  BY <1>2, <1>3, <1>4

\* What a crash may leave of an open file can be opened, unless the file is
\* being created.
Creates(e, on, p) == on[0] # Header(e.info) \/ \E i \in DOMAIN p : p[i].page = 0

Reaches(owner, e, file) == Owned(owner, {}, e, file) /\ Reached(owner, {}, e.info, file) /\ CursEnd(e, file)

SafeFor(owner, e, on, p) ==
  Reaches(owner, e, FileOf(on, p)) /\ (Creates(e, on, p) \/ \E old : CrashSafe(owner, e, on, p, old))

Safe(e, on, p) == \E owner : SafeFor(owner, e, on, p)

\* An item that is added to a page in memory changes nothing of this.
LEMMA ItemKeepsSafe ==
  ASSUME NEW e \in Engines, NEW k \in Kinds, NEW x \in Nat, NEW on, NEW p,
         NEW owner, SafeFor(owner, e, on, p), IsChunk(e.chunks[k])
  PROVE  SafeFor(owner, WithItem(e, k, x), on, p)
<1> DEFINE f == WithItem(e, k, x)
<1>1. Reaches(owner, e, FileOf(on, p)) /\ (Creates(e, on, p) \/ \E old : CrashSafe(owner, e, on, p, old))
  BY DEF SafeFor
<1>2. /\ f.info = e.info /\ f.nextFree = e.nextFree
      /\ \A j \in Kinds : f.chunks[j].cur = e.chunks[j].cur
  <2>1. /\ f.info = e.info /\ f.nextFree = e.nextFree
        /\ \A j \in Kinds \ {k} : f.chunks[j] = e.chunks[j]
        /\ f.chunks[k].cur = e.chunks[k].cur
    BY ItemAdded
  <2> HIDE DEF f
  <2> QED
    BY <2>1
<1>3. Owned(owner, {}, f, FileOf(on, p))
  BY <1>1, ItemKeepsOwners DEF Reaches
<1> HIDE DEF f
<1>4. Reaches(owner, f, FileOf(on, p))
  BY <1>1, <1>2, <1>3 DEF Reaches, CursEnd, IsChunk
<1>5. ASSUME NEW old, CrashSafe(owner, e, on, p, old) PROVE CrashSafe(owner, f, on, p, old)
  BY <1>2, <1>5 DEF CrashSafe, NewOfOne
<1>6. Creates(e, on, p) => Creates(f, on, p)
  BY <1>2 DEF Creates
<1> QED
  BY <1>1, <1>4, <1>5, <1>6 DEF SafeFor, f

\* A kind that the header did not have makes it one that is not on disk.
LEMMA PrepareKeepsSafe ==
  ASSUME NEW e \in Engines, NEW k \in Kinds, NEW on, NEW p, NEW owner, SafeFor(owner, e, on, p),
         ~ IsChunk(e.chunks[k]), e.info[k] = NoInfo, e.nextFree + 1 \in PageNums,
         ~ IsData(FileOf(on, p)[e.nextFree + 1]),
         on[0].type = "header" => Known(on[0].info) \subseteq Known(e.info)
  PROVE  SafeFor(Grown(Grown(owner, e.nextFree, Place(k, TRUE)), e.nextFree + 1, Place(k, FALSE)), Prepare(e, k), on, p)
<1> DEFINE f    == Prepare(e, k)
           n    == e.nextFree
           file == FileOf(on, p)
<1>1. Reaches(owner, e, file)
  BY DEF SafeFor
<1> DEFINE own == Grown(Grown(owner, n, Place(k, TRUE)), n + 1, Place(k, FALSE))
<1>2. Owned(own, {}, f, file)
  BY <1>1, PrepareOwns DEF Reaches
<1>3. /\ f.nextFree = n + 2
      /\ f.info[k] = [first |-> n + 1, blit |-> n]
      /\ f.chunks[k] = Chunk(n + 1, FALSE, n, NewPage)
      /\ \A j \in Kinds \ {k} : f.info[j] = e.info[j] /\ f.chunks[j] = e.chunks[j]
  BY KindPrepared
<1>4. n \in Nat \ {0} /\ owner \in [1 .. n - 1 -> Places]
  BY <1>1, StorageAssumption DEF Reaches, Owned
<1> HIDE DEF f, n
<1>5. \A m \in 1 .. n - 1 : m \in DOMAIN own /\ own[m] = owner[m]
  <2>1. \A m \in 1 .. n - 1 : m \in 1 .. n /\ m \in 1 .. n + 1 /\ m # n /\ m # n + 1
    BY <1>4
  <2> QED
    BY <2>1 DEF Grown
<1>6. DOMAIN own = 1 .. n + 1
  BY DEF Grown
<1> HIDE DEF own, file
<1>7. k \notin Known(e.info) /\ k \in Known(f.info) /\ \A j \in Known(e.info) : j \in Known(f.info) /\ f.info[j] = e.info[j]
  BY <1>3, <1>4 DEF Known, NoInfo
<1>8. Reached(own, {}, f.info, file)
  <2> SUFFICES ASSUME NEW m \in 1 .. n + 1
               PROVE  Starts(f.info, m) \/ \E l : l < m /\ Links(own, file, l, m)
    BY <1>6 DEF Reached
  <2>1. CASE m \in {n, n + 1}
    <3>1. m \in {f.info[k].first, f.info[k].blit}
      BY <1>3, <2>1
    <3> QED
      BY <1>7, <3>1 DEF Starts
  <2>2. CASE m \notin {n, n + 1}
    <3>1. m \in DOMAIN owner
      BY <1>4, <2>2
    <3>2. Starts(e.info, m) => Starts(f.info, m)
      BY <1>7 DEF Starts
    <3>3. \A l : Links(owner, file, l, m) => Links(own, file, l, m)
      BY <1>4, <1>5 DEF Links
    <3> QED
      BY <1>1, <3>1, <3>2, <3>3 DEF Reaches, Reached
  <2> QED
    BY <2>1, <2>2
<1>9. CursEnd(f, file)
  <2> SUFFICES ASSUME NEW j \in Kinds, IsChunk(f.chunks[j]) PROVE ~ Continues(file, f.chunks[j].cur)
    BY DEF CursEnd
  <2>1. CASE j = k
    <3>1. f.chunks[j].cur = n + 1
      BY <1>3, <2>1 DEF Chunk
    <3> QED
      BY <3>1 DEF Continues, file, n
  <2>2. CASE j # k
    BY <1>1, <1>3, <2>2 DEF Reaches, CursEnd
  <2> QED
    BY <2>1, <2>2
<1>10. Creates(f, on, p)
  <2> SUFFICES ASSUME on[0] = Header(f.info) PROVE FALSE
    BY DEF Creates
  <2>1. on[0].type = "header" /\ on[0].info = f.info
    BY DEF Header
  <2> QED
    BY <1>7, <2>1
<1>11. SafeFor(own, f, on, p)
  BY <1>2, <1>8, <1>9, <1>10 DEF SafeFor, Reaches, file
<1> QED
  BY <1>11 DEF f, own, n

\* What more writes may leave on a page.
LEMMA MoreMayHold ==
  ASSUME NEW on, NEW p \in Seq(Writes), NEW ws \in Seq(Writes), NEW n, NEW page, MayHold(on, p \o ws, n, page)
  PROVE  MayHold(on, p, n, page) \/ \E i \in DOMAIN ws : ws[i].page = n /\ page = ws[i].to
<1>1. \A i \in DOMAIN (p \o ws) : \/ \E j \in DOMAIN p : (p \o ws)[i] = p[j]
                                  \/ \E j \in DOMAIN ws : (p \o ws)[i] = ws[j]
  OBVIOUS
<1> QED
  BY <1>1 DEF MayHold

\* The writes to pages that have owners are to pages of the kind.
WritesOnlyOf(e, on, p, k) ==
  \A owner, i : Owned(owner, {}, e, FileOf(on, p)) /\ i \in DOMAIN p /\ p[i].page \in DOMAIN owner => owner[p[i].page].kind = k

\* When a page fills, the one it names is the first free one; a crash leaves both
\* or neither of the two, or a page that names one that is blank.
LEMMA NextKeepsSafe ==
  ASSUME NEW e \in Engines, NEW k \in Kinds, NEW on \in Files, NEW p \in Seq(Writes),
         NEW owner, SafeFor(owner, e, on, p), WritesOnlyOf(e, on, p, k),
         IsChunk(e.chunks[k]), e.chunks[k].page.next = 0, e.nextFree \in PageNums, ~ IsData(FileOf(on, p)[e.nextFree]),
         NEW ws, ws = FinalWrites(e.chunks[k], e.nextFree)
  PROVE  SafeFor(Grown(owner, e.nextFree, Place(k, FALSE)), Finalized(e, k, e.chunks[k]), on, p \o ws)
<1> DEFINE c     == e.chunks[k]
           f     == Finalized(e, k, c)
           n     == e.nextFree
           file  == FileOf(on, p)
           after == FileOf(on, p \o ws)
<1>1. Reaches(owner, e, file) /\ (Creates(e, on, p) \/ \E old : CrashSafe(owner, e, on, p, old))
  BY DEF SafeFor
<1>2. /\ Owned(owner, {}, e, file) /\ Reached(owner, {}, e.info, file) /\ CursEnd(e, file)
      /\ owner \in [1 .. n - 1 -> Places] /\ n \in Nat \ {0} /\ n \in 1 .. MaxPages + 1
  BY <1>1, StorageAssumption DEF Reaches, Owned
<1>3. c \in Chunks /\ c.page.next = 0 /\ IsChunk(c) /\ c.cur # 0
  BY DEF Engines, IsChunk
<1>4. /\ k \in Known(e.info) /\ Owns(owner, c.cur, k, FALSE) /\ Owns(owner, c.blit, k, TRUE)
      /\ c.cur \in 1 .. n - 1 /\ c.blit \in 1 .. n - 1
      /\ owner[c.cur] = Place(k, FALSE) /\ owner[c.blit] = Place(k, TRUE)
      /\ ~ owner[c.cur].blit /\ owner[c.blit].blit
  <2>1. k \in Known(e.info) /\ Owns(owner, c.cur, k, FALSE) /\ c.blit = e.info[k].blit
    BY <1>2, <1>3 DEF Owned, ChunkOwned
  <2>2. Owns(owner, c.blit, k, TRUE)
    BY <1>2, <2>1 DEF Owned, HeaderOwned, Found
  <2> HIDE DEF c, n
  <2> QED
    BY <1>2, <2>1, <2>2 DEF Owns, Place
<1>5. /\ ws \in Seq(Writes) /\ ws # <<>> /\ Len(ws) \in DOMAIN ws /\ \A i \in DOMAIN ws : i <= Len(ws)
      /\ \A i \in DOMAIN ws : ws[i].page \in {-1, c.blit} \/ (ws[i].page = c.cur /\ ws[i].to.next = n)
      /\ ws[Len(ws)].page = c.cur /\ IsData(ws[Len(ws)].to) /\ ws[Len(ws)].to.next = n
  <2>1. /\ ws \in Seq(Writes) /\ ws # <<>>
        /\ \A i \in DOMAIN ws : ws[i].page \in {-1, c.blit} \/ (ws[i].page = c.cur /\ ws[i].to.next = n)
        /\ ws[Len(ws)].page = c.cur /\ IsData(ws[Len(ws)].to) /\ ws[Len(ws)].to.next = n
    BY <1>3, WritesOfFullPage
  <2> HIDE DEF c, n
  <2> QED
    BY <2>1
<1>6. WritesEnds(e, ws)
  <2> HIDE DEF n
  <2> QED
    BY <1>3, <1>5 DEF WritesEnds
<1>7. /\ \A m, l : Links(owner, file, m, l) => (\A i \in DOMAIN ws : ws[i].page # m) /\ Links(owner, after, m, l)
      /\ \A old : OldStays(owner, e.info, on, p, old) => OldStays(owner, e.info, on, p \o ws, old)
  BY <1>2, <1>5, <1>6, LinksStay
<1>8. \A m \in PageNums \ {c.cur, c.blit} : after[m] = file[m]
  <2> SUFFICES ASSUME NEW m \in PageNums, m \notin {c.cur, c.blit} PROVE after[m] = file[m]
    OBVIOUS
  <2>1. m # -1
    BY StorageAssumption DEF PageNums
  <2>2. \A i \in DOMAIN ws : ws[i].page # m
    BY <1>5, <2>1
  <2> QED
    BY <1>5, <2>2, FurtherWrites
<1>9. after[c.cur] = ws[Len(ws)].to
  <2>1. c.cur \in PageNums
    BY <1>3 DEF Chunks
  <2> QED
    BY <1>5, <2>1, FurtherWrites
<1>10. NextOf(e, c) = n /\ n \in PageNums
  BY <1>3 DEF NextOf
<1>11. /\ f.info = e.info /\ f.nextFree = n + 1 /\ f.chunks[k] = Chunk(n, FALSE, c.blit, NewPage)
       /\ \A j \in Kinds \ {k} : f.chunks[j] = e.chunks[j]
  <2>1. /\ f.info = e.info /\ f.nextFree = IF c.page.next = 0 THEN n + 1 ELSE n
        /\ f.chunks[k] = Chunk(NextOf(e, c), FALSE, c.blit, NewPage)
        /\ \A j \in Kinds \ {k} : f.chunks[j] = e.chunks[j]
    BY <1>3, <1>10, NextAssigned
  <2> HIDE DEF f, c, n
  <2> QED
    BY <1>3, <1>10, <2>1
<1>12. f.chunks[k].cur = n
  BY <1>11 DEF Chunk
<1> DEFINE own == Grown(owner, n, Place(k, FALSE))
<1>13. Owned(own, {}, f, after)
  BY <1>2, <1>3, <1>5, <1>8, <1>9, <1>10, NextOwns
<1>14. ~ IsData(file[n]) /\ (f.nextFree) - 1 = n
  BY <1>2, <1>11
<1>15. /\ DOMAIN own = 1 .. n /\ own[n] = Place(k, FALSE) /\ ~ own[n].blit
       /\ \A m \in 1 .. n : m # n => m \in 1 .. n - 1
       /\ \A m \in 1 .. n - 1 : m \in 1 .. n /\ m < n /\ own[m] = owner[m]
  <2>1. \A m \in 1 .. n - 1 : m \in 1 .. n /\ m < n /\ m # n
    BY <1>2
  <2>2. n \in 1 .. n /\ \A m \in 1 .. n : m # n => m \in 1 .. n - 1
    BY <1>2
  <2> HIDE DEF n
  <2> QED
    BY <2>1, <2>2 DEF Grown, Place
<1>16. DOMAIN owner = 1 .. n - 1
  BY <1>2
<1> HIDE DEF own, f, n, after, file, c
<1>17. \A m, l : Links(owner, after, m, l) => Links(own, after, m, l)
  BY <1>15, <1>16 DEF Links
<1>18. Reached(own, {}, f.info, after)
  <2> SUFFICES ASSUME NEW m \in 1 .. n
               PROVE  Starts(e.info, m) \/ \E l : l < m /\ Links(own, after, l, m)
    BY <1>11, <1>15 DEF Reached
  <2>1. CASE m = n
    <3>1. Continues(after, c.cur) /\ after[c.cur].next = n
      BY <1>2, <1>5, <1>9 DEF Continues
    <3>2. Links(own, after, c.cur, n) /\ c.cur < n
      BY <1>4, <1>15, <3>1 DEF Links
    <3> QED
      BY <2>1, <3>2
  <2>2. CASE m # n
    <3>1. m \in DOMAIN owner
      BY <1>15, <1>16, <2>2
    <3> QED
      BY <1>2, <1>7, <1>17, <3>1 DEF Reached
  <2> QED
    BY <2>1, <2>2
<1>19. after[n] = file[n]
  <2>1. n \notin {c.cur, c.blit}
    BY <1>2, <1>4
  <2> QED
    BY <1>8, <1>10, <2>1
<1>20. CursEnd(f, after)
  <2> SUFFICES ASSUME NEW j \in Kinds, IsChunk(f.chunks[j]) PROVE ~ Continues(after, f.chunks[j].cur)
    BY DEF CursEnd
  <2>1. CASE j = k
    BY <1>12, <1>14, <1>19, <2>1 DEF Continues
  <2>2. CASE j # k
    <3> DEFINE m == e.chunks[j].cur
    <3>1. f.chunks[j] = e.chunks[j] /\ IsChunk(e.chunks[j])
      BY <1>11, <2>2
    <3>2. Owns(owner, m, j, FALSE) /\ ~ Continues(file, m)
      BY <1>2, <3>1 DEF Owned, ChunkOwned, CursEnd
    <3> HIDE DEF m
    <3>3. m \notin {c.cur, c.blit}
      BY <1>4, <2>2, <3>2 DEF Owns, Place
    <3>4. m \in PageNums
      <4>1. m \in 1 .. n - 1
        BY <1>16, <3>2 DEF Owns
      <4> QED
        BY <1>2, <4>1, StorageAssumption DEF PageNums
    <3>5. after[m] = file[m]
      BY <1>8, <3>3, <3>4
    <3> QED
      BY <3>1, <3>2, <3>5 DEF Continues, m
  <2> QED
    BY <2>1, <2>2
<1>21. Reaches(own, f, after)
  BY <1>13, <1>18, <1>20 DEF Reaches
<1>22. CASE Creates(e, on, p)
  <2>1. ASSUME NEW i \in DOMAIN p PROVE i \in DOMAIN (p \o ws) /\ (p \o ws)[i] = p[i]
    BY <1>5
  <2>2. Creates(f, on, p \o ws)
    BY <1>11, <1>22, <2>1 DEF Creates
  <2> QED
    BY <1>21, <2>2 DEF SafeFor, f, c, n, own, after
<1>23. ASSUME NEW old, CrashSafe(owner, e, on, p, old)
       PROVE  CrashSafe(own, f, on, p \o ws, old)
  <2>1. /\ old \in 0 .. n - 1 /\ on[0] = Header(e.info) /\ (\A m : Starts(e.info, m) => m <= old)
        /\ \A i \in DOMAIN p : p[i].page = -1 \/ p[i].page \in DOMAIN owner
        /\ OldStays(owner, e.info, on, p, old) /\ NextKnown(owner, on, p, old) /\ NewOfOne(owner, e, p, old)
    BY <1>23 DEF CrashSafe, n
  <2>2. old \in 0 .. n /\ old \in Nat /\ old < n
    BY <1>2, <2>1
  <2>3. old < n - 1 => c.cur = n - 1 /\ \A m \in old + 1 .. n - 1 : owner[m] = Place(k, FALSE)
    <3> SUFFICES ASSUME old < n - 1
                 PROVE  c.cur = n - 1 /\ \A m \in old + 1 .. n - 1 : owner[m] = Place(k, FALSE)
      OBVIOUS
    <3>1. PICK j \in Kinds : /\ \A m \in old + 1 .. n - 1 : owner[m] = Place(j, FALSE)
                             /\ e.chunks[j].cur = n - 1
                             /\ \E i \in DOMAIN p : Owns(owner, p[i].page, j, FALSE)
      BY <2>1 DEF NewOfOne, n
    <3>2. PICK i \in DOMAIN p : Owns(owner, p[i].page, j, FALSE)
      BY <3>1
    <3>3. owner[p[i].page].kind = k
      BY <1>2, <3>2 DEF WritesOnlyOf, Owns, file
    <3>4. j = k
      BY <3>2, <3>3 DEF Owns, Place
    <3> QED
      BY <3>1, <3>4 DEF c
  <2>4. ASSUME NEW i \in DOMAIN (p \o ws)
        PROVE  (p \o ws)[i].page = -1 \/ (p \o ws)[i].page \in DOMAIN own
    <3>1. \/ \E j \in DOMAIN p : (p \o ws)[i] = p[j]
          \/ \E j \in DOMAIN ws : (p \o ws)[i] = ws[j]
      BY <1>5
    <3>2. \A j \in DOMAIN ws : ws[j].page = -1 \/ ws[j].page \in 1 .. n - 1
      BY <1>4, <1>5
    <3> QED
      BY <1>15, <1>16, <2>1, <3>1, <3>2
  <2>5. OldStays(own, f.info, on, p \o ws, old)
    <3>1. OldStays(owner, e.info, on, p \o ws, old)
      BY <1>7, <2>1
    <3>2. \A m, l : Links(owner, on, m, l) => Links(own, on, m, l)
      BY <1>15, <1>16 DEF Links
    <3> QED
      BY <1>11, <3>1, <3>2 DEF OldStays
  <2>6. NextKnown(own, on, p \o ws, old)
    <3> SUFFICES ASSUME NEW m \in 1 .. n, NEW page, MayHold(on, p \o ws, m, page), ~ own[m].blit, IsData(page), page.next # 0
                 PROVE  /\ m < page.next /\ page.next \in 1 .. n /\ own[page.next] = own[m]
                        /\ old + 1 < page.next => page.next = m + 1
      BY <1>15 DEF NextKnown
    <3>1. MayHold(on, p, m, page) \/ \E i \in DOMAIN ws : ws[i].page = m /\ page = ws[i].to
      BY <1>5, MoreMayHold
    <3>2. CASE MayHold(on, p, m, page) /\ m # n
      <4>1. m \in 1 .. n - 1 /\ own[m] = owner[m]
        BY <1>15, <3>2
      <4>2. /\ m < page.next /\ page.next \in 1 .. n - 1 /\ owner[page.next] = owner[m]
            /\ old + 1 < page.next => page.next = m + 1
        BY <1>16, <2>1, <3>2, <4>1 DEF NextKnown
      <4> QED
        BY <1>15, <4>1, <4>2
    <3>3. CASE MayHold(on, p, m, page) /\ m = n
      <4>1. \A i \in DOMAIN p : p[i].page # n
        BY <1>2, <1>16, <2>1
      <4>2. page = on[n]
        BY <3>3, <4>1 DEF MayHold
      <4>3. file[n] = on[n]
        BY <1>10, <4>1 DEF FileOf, WrittenBy, file
      <4> QED
        BY <1>14, <4>2, <4>3
    <3>4. ASSUME NEW i \in DOMAIN ws, ws[i].page = m, page = ws[i].to
          PROVE  /\ m < page.next /\ page.next \in 1 .. n /\ own[page.next] = own[m]
                 /\ old + 1 < page.next => page.next = m + 1
      <4>1. m # -1 /\ m # c.blit
        <5>1. m # -1
          BY <1>2
        <5>2. ~ own[m].blit /\ own[c.blit] = owner[c.blit]
          BY <1>4, <1>15
        <5> QED
          BY <1>4, <5>1, <5>2
      <4>2. m = c.cur /\ page.next = n
        BY <1>5, <3>4, <4>1
      <4>3. n \in 1 .. n /\ own[m] = Place(k, FALSE) /\ m < n
        <5>1. n \in 1 .. n
          BY <1>2
        <5>2. m \in 1 .. n - 1
          BY <1>4, <4>2
        <5>3. own[m] = owner[m] /\ m < n
          BY <1>15, <5>2
        <5> QED
          BY <1>4, <4>2, <5>1, <5>3
      <4>4. old + 1 < n => old < n - 1
        BY <1>2, <2>2
      <4>5. old + 1 < n => n = m + 1
        BY <1>2, <2>3, <4>2, <4>4
      <4> QED
        BY <1>15, <4>2, <4>3, <4>5
    <3> QED
      BY <3>1, <3>2, <3>3, <3>4
  <2>7. NewOfOne(own, f, p \o ws, old)
    <3>1. \A m \in old + 1 .. n : own[m] = Place(k, FALSE)
      <4> SUFFICES ASSUME NEW m \in old + 1 .. n, m # n PROVE own[m] = Place(k, FALSE)
        BY <1>15
      <4>1. m \in old + 1 .. n - 1 /\ old < n - 1 /\ m \in 1 .. n - 1
        BY <1>2, <2>2
      <4> QED
        BY <1>15, <2>3, <4>1
    <3> DEFINE l == Len(p) + Len(ws)
    <3>2. l \in DOMAIN (p \o ws) /\ (p \o ws)[l] = ws[Len(ws)]
      BY <1>5
    <3>3. Owns(own, (p \o ws)[l].page, k, FALSE)
      <4>1. (p \o ws)[l].page = c.cur
        BY <1>5, <3>2
      <4> HIDE DEF l
      <4> QED
        BY <1>4, <1>15, <4>1 DEF Owns
    <3> HIDE DEF l
    <3> QED
      BY <1>12, <1>14, <3>1, <3>2, <3>3 DEF NewOfOne
  <2> QED
    BY <1>11, <1>14, <2>1, <2>2, <2>4, <2>5, <2>6, <2>7 DEF CrashSafe
<1> QED
  BY <1>1, <1>21, <1>22, <1>23 DEF SafeFor, f, c, n, own, after

\* The page that is written in memory keeps its place.
LEMMA SyncedEngine ==
  ASSUME NEW e \in Engines,
         NEW f, f = [e EXCEPT !.chunks = [k \in Kinds |-> IF @[k].dirty THEN WritePage(@[k], 0).chunk ELSE @[k]]]
  PROVE  /\ f.info = e.info /\ f.nextFree = e.nextFree /\ f.headerDirty = e.headerDirty
         /\ \A k \in Kinds : f.chunks[k].cur = e.chunks[k].cur
<1> DEFINE cs == [k \in Kinds |-> IF e.chunks[k].dirty THEN WritePage(e.chunks[k], 0).chunk ELSE e.chunks[k]]
<1>1. ASSUME NEW k \in Kinds PROVE cs[k].cur = e.chunks[k].cur
  <2>1. e.chunks[k] \in Chunks /\ 0 \in PageNums
    BY MadePages DEF Engines
  <2> QED
    BY <2>1, WriteOfPage
<1>2. f = [e EXCEPT !.chunks = cs]
  OBVIOUS
<1> HIDE DEF cs
<1>3. f = [headerDirty |-> e.headerDirty, info |-> e.info, nextFree |-> e.nextFree, chunks |-> cs]
  BY <1>2 DEF Engines
<1> QED
  BY <1>1, <1>3

\* The writes before others keep their place.
LEMMA WritesBefore ==
  ASSUME NEW p \in Seq(Writes), NEW ws \in Seq(Writes)
  PROVE  \A i \in DOMAIN p : i \in DOMAIN (p \o ws) /\ (p \o ws)[i] = p[i]
OBVIOUS

\* A sync writes the header when it is not on disk, and else only pages that end
\* the list of a kind.
LEMMA SyncKeepsSafe ==
  ASSUME NEW e \in Engines, NEW on \in Files, NEW p \in Seq(Writes), NEW owner, SafeFor(owner, e, on, p),
         ~ e.headerDirty => FileOf(on, p)[0] = Header(e.info),
         NEW f, f = [e EXCEPT !.chunks = [k \in Kinds |-> IF @[k].dirty THEN WritePage(@[k], 0).chunk ELSE @[k]]]
  PROVE  SafeFor(owner, f, on, p \o SyncWrites(e)) /\ FileOf(on, p \o SyncWrites(e))[0] = Header(e.info)
<1> DEFINE ws    == SyncWrites(e)
           file  == FileOf(on, p)
           after == FileOf(on, p \o ws)
<1>1. Reaches(owner, e, file) /\ (Creates(e, on, p) \/ \E old : CrashSafe(owner, e, on, p, old))
  BY DEF SafeFor
<1>2. Owned(owner, {}, e, file) /\ Reached(owner, {}, e.info, file) /\ CursEnd(e, file)
  BY <1>1 DEF Reaches
<1>3. /\ f.info = e.info /\ f.nextFree = e.nextFree /\ f.headerDirty = e.headerDirty
      /\ \A k \in Kinds : f.chunks[k].cur = e.chunks[k].cur
  BY SyncedEngine
<1>4. Owned(owner, {}, f, after)
  BY <1>2, SyncOwns
<1>5. ASSUME NEW k \in Kinds, IsChunk(e.chunks[k])
      PROVE  /\ Owns(owner, e.chunks[k].cur, k, FALSE) /\ Owns(owner, e.chunks[k].blit, k, TRUE)
             /\ ~ owner[e.chunks[k].cur].blit /\ owner[e.chunks[k].blit].blit
  <2>1. k \in Known(e.info) /\ Owns(owner, e.chunks[k].cur, k, FALSE) /\ e.chunks[k].blit = e.info[k].blit
    BY <1>2, <1>5 DEF Owned, ChunkOwned
  <2>2. Owns(owner, e.info[k].blit, k, TRUE)
    BY <1>2, <2>1 DEF Owned, HeaderOwned, Found
  <2> QED
    BY <2>1, <2>2 DEF Owns, Place
<1>6. /\ owner \in [1 .. e.nextFree - 1 -> Places] /\ DOMAIN owner = 1 .. e.nextFree - 1 /\ e.nextFree \in 1 .. MaxPages + 1
      /\ \A n \in DOMAIN owner : n \in PageNums /\ n \notin {-1, 0, e.nextFree}
  BY <1>2, StorageAssumption DEF Owned, PageNums
<1>7. /\ ws \in Seq(Writes)
      /\ \A i \in DOMAIN ws : ws[i].page \in {-1, 0, e.nextFree} \/ WriteOfKind(e, ws[i])
      /\ ~ e.headerDirty => \A i \in DOMAIN ws : WriteOfKind(e, ws[i])
  BY WritesOfSync
<1>8. ASSUME NEW w, WriteOfKind(e, w)
      PROVE  \E k \in Kinds : /\ IsChunk(e.chunks[k]) /\ w.page \in {e.chunks[k].cur, e.chunks[k].blit}
                              /\ w.page \in DOMAIN owner
                              /\ ~ owner[w.page].blit => w.to.next = 0
  <2>1. PICK k \in Kinds : /\ e.chunks[k].dirty
                           /\ w.page = e.chunks[k].blit \/ (w.page = e.chunks[k].cur /\ w.to.next = 0)
    BY <1>8 DEF WriteOfKind
  <2>2. IsChunk(e.chunks[k])
    BY <1>2, <2>1 DEF Owned, ChunkOwned
  <2> QED
    BY <1>5, <2>1, <2>2 DEF Owns
<1> HIDE DEF ws
<1>9. WritesEnds(e, ws)
  BY <1>7, <1>8 DEF WritesEnds
<1>10. /\ \A m, n : Links(owner, file, m, n) => (\A i \in DOMAIN ws : ws[i].page # m) /\ Links(owner, after, m, n)
       /\ \A old : OldStays(owner, e.info, on, p, old) => OldStays(owner, e.info, on, p \o ws, old)
  BY <1>2, <1>7, <1>9, LinksStay
<1>11. after[0] = Header(e.info)
  <2>1. 0 \in PageNums
    BY MadePages
  <2>2. \A w : WriteOfKind(e, w) => w.page # 0
    BY <1>6, <1>8
  <2>3. CASE ~ e.headerDirty
    <3>1. \A i \in DOMAIN ws : ws[i].page # 0
      BY <1>7, <2>2, <2>3
    <3> QED
      BY <1>7, <2>1, <2>3, <3>1, FurtherWrites
  <2>4. CASE e.headerDirty
    <3> DEFINE hs == HeaderWrites(e)
               ps == PageWrites(e)
    <3>1. hs \in Seq(Writes) /\ DOMAIN hs = 1 .. 3 /\ hs[3] = Write(0, Header(e.info))
      BY <2>4, WritesOfHeader
    <3>2. ps \in Seq(Writes) /\ \A i \in DOMAIN ps : ps[i].page # 0
      BY <2>2, WritesOfPages
    <3>3. ws = hs \o ps
      BY DEF ws, SyncWrites
    <3> HIDE DEF hs, ps
    <3>4. p \o ws = (p \o hs) \o ps /\ p \o hs \in Seq(Writes)
      BY <3>1, <3>2, <3>3
    <3>5. FileOf(on, (p \o hs) \o ps)[0] = FileOf(on, p \o hs)[0]
      BY <2>1, <3>2, <3>4, FurtherWrites
    <3>6. hs[3].page = 0 /\ hs[3].to = Header(e.info) /\ 3 \in DOMAIN hs /\ \A j \in DOMAIN hs : j <= 3
      BY <3>1 DEF Write
    <3>7. FileOf(on, p \o hs)[0] = Header(e.info)
      BY <2>1, <3>1, <3>6, FurtherWrites
    <3> QED
      BY <3>4, <3>5, <3>7
  <2>5. e.headerDirty \in BOOLEAN
    BY DEF Engines
  <2> QED
    BY <2>3, <2>4, <2>5
<1>12. Reached(owner, {}, f.info, after)
  BY <1>2, <1>3, <1>10 DEF Reached
<1>13. CursEnd(f, after)
  <2> SUFFICES ASSUME NEW k \in Kinds, IsChunk(e.chunks[k]) PROVE ~ Continues(after, e.chunks[k].cur)
    BY <1>3 DEF CursEnd, IsChunk
  <2> DEFINE m == e.chunks[k].cur
  <2>1. m \in DOMAIN owner /\ ~ owner[m].blit /\ m \in PageNums /\ m \notin {-1, 0, e.nextFree}
    BY <1>5, <1>6 DEF Owns
  <2> HIDE DEF m
  <2>2. CASE after[m] = file[m]
    BY <1>2, <2>2 DEF CursEnd, Continues, m
  <2>3. ASSUME NEW i \in DOMAIN ws, ws[i].page = m, after[m] = ws[i].to
        PROVE  ~ Continues(after, m)
    <3>1. WriteOfKind(e, ws[i])
      BY <1>7, <2>1, <2>3
    <3>2. ws[i].to.next = 0
      BY <1>8, <2>1, <2>3, <3>1
    <3> QED
      BY <2>3, <3>2 DEF Continues
  <2>4. after[m] = file[m] \/ \E i \in DOMAIN ws : ws[i].page = m /\ after[m] = ws[i].to
    BY <1>7, <2>1, PageWritten
  <2> QED
    BY <2>2, <2>3, <2>4 DEF m
<1>14. Reaches(owner, f, after)
  BY <1>4, <1>12, <1>13 DEF Reaches, ws
<1>15. \A i \in DOMAIN p : i \in DOMAIN (p \o ws) /\ (p \o ws)[i] = p[i]
  BY <1>7
<1>16. ASSUME e.headerDirty PROVE Creates(f, on, p \o ws)
  <2> DEFINE hs == HeaderWrites(e)
             ps == PageWrites(e)
  <2>1. hs \in Seq(Writes) /\ DOMAIN hs = 1 .. 3 /\ hs[3].page = 0
    <3>1. hs \in Seq(Writes) /\ DOMAIN hs = 1 .. 3 /\ hs[3] = Write(0, Header(e.info))
      BY <1>16, WritesOfHeader
    <3> HIDE DEF hs
    <3> QED
      BY <3>1 DEF Write
  <2>2. ps \in Seq(Writes)
    BY WritesOfPages
  <2>3. ws = hs \o ps
    BY DEF ws, SyncWrites
  <2> HIDE DEF hs, ps
  <2>4. 3 \in DOMAIN ws /\ ws[3].page = 0
    <3>1. \A i \in DOMAIN hs : i \in DOMAIN (hs \o ps) /\ (hs \o ps)[i] = hs[i]
      BY <2>1, <2>2, WritesBefore
    <3> QED
      BY <2>1, <2>3, <3>1
  <2> DEFINE l == Len(p) + 3
  <2>5. l \in DOMAIN (p \o ws) /\ (p \o ws)[l] = ws[3]
    BY <1>7, <2>4
  <2> HIDE DEF l
  <2> QED
    BY <2>4, <2>5 DEF Creates
<1>17. ASSUME Creates(e, on, p) PROVE Creates(f, on, p \o ws)
  BY <1>3, <1>15, <1>17 DEF Creates
<1>18. ASSUME NEW old, CrashSafe(owner, e, on, p, old), ~ e.headerDirty
       PROVE  CrashSafe(owner, f, on, p \o ws, old)
  <2>1. /\ old \in 0 .. f.nextFree - 1 /\ on[0] = Header(f.info) /\ (\A n : Starts(f.info, n) => n <= old)
        /\ \A i \in DOMAIN p : p[i].page = -1 \/ p[i].page \in DOMAIN owner
        /\ OldStays(owner, e.info, on, p, old) /\ NextKnown(owner, on, p, old) /\ NewOfOne(owner, e, p, old)
    BY <1>3, <1>18 DEF CrashSafe
  <2>2. OldStays(owner, f.info, on, p \o ws, old)
    BY <1>3, <1>10, <2>1
  <2>3. ASSUME NEW i \in DOMAIN (p \o ws)
        PROVE  (p \o ws)[i].page = -1 \/ (p \o ws)[i].page \in DOMAIN owner
    <3>1. \/ \E j \in DOMAIN p : (p \o ws)[i] = p[j]
          \/ \E j \in DOMAIN ws : (p \o ws)[i] = ws[j]
      BY <1>7
    <3> QED
      BY <1>7, <1>8, <1>18, <2>1, <3>1
  <2>4. NextKnown(owner, on, p \o ws, old)
    <3> SUFFICES ASSUME NEW n \in DOMAIN owner, NEW page, MayHold(on, p \o ws, n, page), ~ owner[n].blit, IsData(page), page.next # 0
                 PROVE  MayHold(on, p, n, page)
      BY <2>1 DEF NextKnown
    <3>1. MayHold(on, p, n, page) \/ \E i \in DOMAIN ws : ws[i].page = n /\ page = ws[i].to
      BY <1>7, MoreMayHold
    <3>2. ASSUME NEW i \in DOMAIN ws, ws[i].page = n, page = ws[i].to PROVE FALSE
      BY <1>7, <1>8, <1>18, <3>2
    <3> QED
      BY <3>1, <3>2
  <2>5. NewOfOne(owner, f, p \o ws, old)
    BY <1>3, <1>15, <2>1 DEF NewOfOne
  <2> QED
    BY <2>1, <2>2, <2>3, <2>4, <2>5 DEF CrashSafe
<1>19. e.headerDirty \in BOOLEAN
  BY DEF Engines
<1>20. SafeFor(owner, f, on, p \o ws)
  BY <1>1, <1>14, <1>16, <1>17, <1>18, <1>19 DEF SafeFor
<1> QED
  BY <1>11, <1>20 DEF ws
-----------------------------------------------------------------------------
(* A file is opened again.                                                 *)

\* The invariant: what is on disk can be opened, when the file is closed and, by
\* a crash, when it is open; and the header is on disk but for kinds that are new.
Opens(d) == d[0].type = "header" /\ ScanBlocks(d, d[0].info).ok

OpensInv ==
  /\ phase # "failed"
  /\ phase = "closed" => IsEmptyFile \/ Opens(disk)
  /\ IsOpen => /\ Safe(engine, disk, pending)
               /\ disk[0].type = "header" => Known(disk[0].info) \subseteq Known(engine.info)
               /\ ~ engine.headerDirty \/ phase # "open" => File[0] = Header(engine.info)

\* A file that has been written can be opened.
LEMMA ReachesOpens ==
  ASSUME NEW e \in Engines, NEW file \in Files, NEW owner, Reaches(owner, e, file), file[0] = Header(e.info)
  PROVE  Opens(file)
<1>1. Connected(owner, e.info, e.nextFree - 1, file)
  BY OwnedConnects DEF Reaches
<1>2. e.info \in Infos
  BY DEF Engines
<1>3. ScanBlocks(file, e.info).ok
  <2> DEFINE n == e.nextFree - 1
  <2>1. Connected(owner, e.info, n, file)
    BY <1>1
  <2> HIDE DEF n
  <2> QED
    BY <1>2, <2>1, ConnectedOpens
<1> QED
  BY <1>3 DEF Opens, Header

\* On disk, it is safe.
LEMMA ReachesSafe ==
  ASSUME NEW e \in Engines, NEW file \in Files, NEW owner, Reaches(owner, e, file), file[0] = Header(e.info)
  PROVE  SafeFor(owner, e, file, <<>>)
<1>1. <<>> \in Seq(Writes)
  OBVIOUS
<1>2. FileOf(file, <<>>) = file
  BY <1>1, FileTypes
<1>3. CrashSafe(owner, e, file, <<>>, e.nextFree - 1)
  BY Settles DEF Reaches
<1> QED
  BY <1>2, <1>3 DEF SafeFor

\* Every step keeps it.
LEMMA InitOpens == Init => OpensInv
BY DEF Init, OpensInv, IsOpen, IsEmptyFile

\* OpensInv is kept when a new file is opened;
LEMMA OpenNewOpens ==
  ASSUME StorageInv, StorageInv', OpenNew
  PROVE  OpensInv'
<1> DEFINE w  == Write(0, Header(NoHeader))
           st == ScanStart(NoHeader)
<1>1. /\ disk' = disk /\ disk \in Files /\ pending' = <<w>> /\ phase' = "open" /\ disk[0] = Blank
      /\ engine' = Opened(NoHeader, st)
  BY MadePages DEF OpenNew, IsEmptyFile, StorageInv, StorageTypeOK, Opened, ScanStart
<1>2. NoHeader \in Infos /\ Known(NoHeader) = {} /\ st.queue = {} /\ st.ok
  BY MadePages DEF NoHeader, Known, ScanStart
<1>3. w \in Writes /\ w.page = 0 /\ w.to = Header(NoHeader)
  BY <1>2, MadePages DEF Write, Writes
<1> HIDE DEF w
<1>4. pending' \in Seq(Writes) /\ File' = FileOf(disk', pending') /\ File' \in Files
  <2>1. pending' \in Seq(Writes) /\ disk' \in Files
    BY <1>1, <1>3
  <2>2. File' = FileOf(disk', pending')
    BY DEF File, FileOf
  <2> QED
    BY <2>1, <2>2, FileTypes
<1>5. Scanned(File', NoHeader, st)
  BY <1>2, <1>4, ScanStarts
<1> HIDE DEF st
<1>6. engine'.info = NoHeader /\ engine'.chunks = st.chunks
  BY <1>1 DEF Opened
<1>7. PICK owner : Owned(owner, {}, engine', File') /\ Reached(owner, {}, NoHeader, File')
  BY <1>1, <1>2, <1>5 DEF Scanned
<1>8. CursEnd(engine', File')
  BY <1>5, <1>6 DEF Scanned, CursEnd
<1>9. Creates(engine', disk', pending')
  <2>1. 1 \in DOMAIN pending' /\ pending'[1].page = 0
    BY <1>1, <1>3
  <2> QED
    BY <2>1 DEF Creates
<1>10. Safe(engine', disk', pending')
  BY <1>4, <1>6, <1>7, <1>8, <1>9 DEF Safe, SafeFor, Reaches
<1>11. File'[0] = Header(engine'.info)
  <2>1. <<>> \in Seq(Writes) /\ <<w>> \in Seq(Writes) /\ <<>> \o <<w>> = <<w>> /\ 0 \in PageNums
    BY <1>3, MadePages
  <2>2. 1 \in DOMAIN <<w>> /\ <<w>>[1] = w /\ \A j \in DOMAIN <<w>> : j <= 1
    OBVIOUS
  <2>3. FileOf(disk, <<>> \o <<w>>)[0] = w.to
    BY <1>1, <1>3, <2>1, <2>2, FurtherWrites
  <2> QED
    BY <1>1, <1>3, <1>4, <1>6, <2>1, <2>3
<1>12. disk'[0].type # "header"
  BY <1>1 DEF Blank
<1> QED
  BY <1>1, <1>10, <1>11, <1>12 DEF OpensInv

\* when a file is opened and scanned;
LEMMA OpenFileOpens ==
  ASSUME StorageInv, OpensInv, OpenFile, StorageInv'
  PROVE  OpensInv'
<1> DEFINE info == disk[0].info
           scan == ScanBlocks(disk, info)
<1>1. disk \in Files /\ pending' = <<>> /\ disk' = disk /\ phase = "closed" /\ ~ IsEmptyFile /\ engine' \in Engines
  BY DEF StorageInv, StorageTypeOK, OpenFile, IsOpen
<1>2. disk[0].type = "header" /\ scan.ok
  BY <1>1 DEF OpensInv, Opens
<1>3. engine' = Opened(info, scan) /\ phase' = "open"
  BY <1>2 DEF OpenFile
<1>4. disk[0] \in Pages
  BY <1>1, MadePages DEF Files
<1>5. info \in Infos /\ disk[0] = Header(info)
  BY <1>2, <1>4, PageTypes
<1> HIDE DEF scan, info
<1>6. /\ \E owner : Owned(owner, {}, Opened(info, scan), disk) /\ Reached(owner, {}, info, disk)
      /\ \A k \in Kinds : IsChunk(scan.chunks[k]) => ~ Continues(disk, scan.chunks[k].cur)
  BY <1>1, <1>2, <1>5, ScanOwns DEF scan
<1>7. engine'.info = info /\ engine'.chunks = scan.chunks
  BY <1>3 DEF Opened
<1>8. PICK owner : Reaches(owner, engine', disk)
  BY <1>3, <1>6, <1>7 DEF Reaches, CursEnd
<1>9. Safe(engine', disk', pending')
  BY <1>1, <1>5, <1>7, <1>8, ReachesSafe DEF Safe
<1>10. File' = disk
  <2>1. <<>> \in Seq(Writes)
    OBVIOUS
  <2> QED
    BY <1>1, <2>1, FileTypes DEF File, FileOf
<1>11. disk'[0].info = engine'.info
  BY <1>1, <1>7 DEF info
<1> QED
  BY <1>1, <1>3, <1>5, <1>7, <1>9, <1>10, <1>11 DEF OpensInv

\* when an item is put in a kind's last page;
LEMMA AppendFitsOpens ==
  ASSUME Situations = {}, StorageInv, OpensInv, NEW k \in Kinds, AppendFits(k)
  PROVE  OpensInv'
<1> DEFINE e == Prepare(engine, k)
           x == items + 1
<1>1. /\ engine \in Engines /\ x \in Nat /\ disk' = disk /\ pending' = pending /\ phase' = "open" /\ phase = "open"
      /\ engine' = WithItem(e, k, x) /\ File' = File /\ IsOpen
  <2>1. disk' = disk /\ pending' = pending /\ phase' = phase /\ phase = "open" /\ engine' = WithItem(e, k, x)
    BY DEF AppendFits, CanAppend
  <2>2. engine \in Engines /\ items \in Nat
    BY DEF StorageInv, StorageTypeOK
  <2> HIDE DEF e
  <2> QED
    BY <2>1, <2>2 DEF IsOpen, File
<1>2. /\ Safe(engine, disk, pending)
      /\ disk[0].type = "header" => Known(disk[0].info) \subseteq Known(engine.info)
      /\ ~ engine.headerDirty => File[0] = Header(engine.info)
  BY <1>1 DEF OpensInv
<1>3. /\ e \in Engines /\ IsChunk(e.chunks[k]) /\ Safe(e, disk, pending)
      /\ disk[0].type = "header" => Known(disk[0].info) \subseteq Known(e.info)
      /\ ~ e.headerDirty => File[0] = Header(e.info)
  <2>1. CASE IsChunk(engine.chunks[k])
    BY <1>1, <1>2, <2>1 DEF Prepare
  <2>2. CASE ~ IsChunk(engine.chunks[k])
    <3> DEFINE n == engine.nextFree
    <3>1. e.nextFree = n + 2 /\ n \in Nat
      BY <1>1, <2>2 DEF Prepare, Engines
    <3>2. Assignable(n .. e.nextFree - 1)
      BY DEF AppendFits
    <3> HIDE DEF e, n
    <3>3. n + 1 < MaxPages /\ ~ IsData(File[n + 1])
      <4>1. n + 1 \in n .. e.nextFree - 1
        BY <3>1
      <4> QED
        BY <3>2, <4>1 DEF Assignable
    <3>4. n + 1 \in PageNums
      BY <3>1, <3>3, StorageAssumption DEF PageNums
    <3>5. engine.info[k] = NoInfo
      BY <2>2 DEF AppendFits, CanAppend
    <3>6. Safe(e, disk, pending)
      BY <1>1, <1>2, <2>2, <3>3, <3>4, <3>5, PrepareKeepsSafe DEF Safe, e, n, File, FileOf
    <3>7. /\ e \in Engines /\ e.headerDirty /\ e.chunks[k] = Chunk(n + 1, FALSE, n, NewPage)
          /\ \A j \in Kinds \ {k} : e.info[j] = engine.info[j]
      BY <1>1, <2>2, <3>4, KindPrepared DEF e, n
    <3>8. e.chunks[k].cur = n + 1
      BY <3>7 DEF Chunk
    <3>9. IsChunk(e.chunks[k])
      BY <3>1, <3>8 DEF IsChunk
    <3>10. Known(engine.info) \subseteq Known(e.info)
      BY <3>5, <3>7 DEF Known
    <3> QED
      BY <1>2, <3>6, <3>7, <3>9, <3>10
  <2> QED
    BY <2>1, <2>2
<1> HIDE DEF e, x
<1>4. Safe(engine', disk', pending')
  BY <1>1, <1>3, ItemKeepsSafe DEF Safe
<1>5. engine'.info = e.info /\ engine'.headerDirty = e.headerDirty
  BY <1>1, <1>3, ItemAdded
<1> QED
  BY <1>1, <1>3, <1>4, <1>5 DEF OpensInv

\* Without the situation in which another kind has assigned a page, the writes
\* to pages of data are to those of the kind that assigns one.
LEMMA OwnWrites ==
  ASSUME StorageInv, NEW k \in Known(engine.info), ~ AssignedByOthers(k)
  PROVE  WritesOnlyOf(engine, disk, pending, k)
<1> SUFFICES ASSUME NEW owner, NEW i, Owned(owner, {}, engine, FileOf(disk, pending)),
                    i \in DOMAIN pending, pending[i].page \in DOMAIN owner
             PROVE  owner[pending[i].page].kind = k
  BY DEF WritesOnlyOf
<1> DEFINE n == pending[i].page
<1>1. Owned(owner, {}, engine, File)
  BY DEF File, FileOf
<1>2. owner \in [1 .. engine.nextFree - 1 -> Places] /\ n \notin {-1, 0}
  BY <1>1 DEF Owned
<1>3. n \in UsedPages(k)
  BY <1>2 DEF AssignedByOthers
<1> HIDE DEF n
<1>4. n # 0
  BY <1>2
<1>5. Owns(owner, n, k, TRUE) \/ Owns(owner, n, k, FALSE)
  <2>1. CASE n = engine.info[k].blit
    BY <1>1, <2>1 DEF Owned, HeaderOwned, Found
  <2>2. CASE n # engine.info[k].blit
    <3>1. PICK j \in PageNums : n = DataPages(k)[j]
      BY <1>3, <2>2 DEF UsedPages
    <3> QED
      BY <1>1, <1>4, <3>1, PagesOfKind DEF StorageInv
  <2> QED
    BY <2>1, <2>2
<1> QED
  BY <1>5 DEF Owns, Place, n

\* when the last page is full and another is assigned;
LEMMA AppendFullOpens ==
  ASSUME Situations = {}, StorageInv, OpensInv, NEW k \in Kinds, AppendFull(k)
  PROVE  OpensInv'
<1> DEFINE c  == engine.chunks[k]
           n  == engine.nextFree
           e  == Finalized(engine, k, c)
           x  == items + 1
           ws == FinalWrites(c, n)
<1>1. /\ engine \in Engines /\ disk \in Files /\ pending \in Seq(Writes) /\ items \in Nat
      /\ phase = "open" /\ IsChunk(c) /\ IsOpen
  BY DEF StorageInv, StorageTypeOK, AppendFull, CanAppend, IsOpen
<1>2. c.page.next = 0 /\ ~ AssignedByOthers(k)
  BY DEF AppendFull
<1>3. NextOf(engine, c) = n
  BY <1>2 DEF NextOf
<1>4. /\ disk' = disk /\ phase' = phase /\ Assignable({n} \ {c.cur})
      /\ pending' = pending \o ws /\ engine' = WithItem(e, k, x)
  <2>1. (IF c.dirty \/ c.page.next = 0 THEN FinalWrites(c, NextOf(engine, c)) ELSE <<>>) = ws
    BY <1>2, <1>3
  <2> QED
    BY <1>3, <2>1 DEF AppendFull
<1>5. PICK owner : Owned(owner, {}, engine, File)
  BY <1>1 DEF StorageInv
<1>6. /\ n \in Nat /\ n # 0 /\ c \in Chunks /\ c.cur \in 1 .. n - 1 /\ c.blit \in 1 .. n - 1 /\ k \in Known(engine.info)
  <2>1. ChunkOwned(owner, engine, k) /\ owner \in [1 .. n - 1 -> Places] /\ n \in Nat /\ n # 0
    BY <1>5, StorageAssumption DEF Owned
  <2>2. k \in Known(engine.info) /\ Owns(owner, c.cur, k, FALSE) /\ c.blit = engine.info[k].blit
    BY <1>1, <2>1 DEF ChunkOwned
  <2>3. Owns(owner, c.blit, k, TRUE)
    BY <1>5, <2>2 DEF Owned, HeaderOwned, Found
  <2>4. c \in Chunks
    BY <1>1 DEF Engines
  <2> HIDE DEF n, c
  <2> QED
    BY <2>1, <2>2, <2>3, <2>4 DEF Owns
<1> HIDE DEF c, n, x
<1>7. n < MaxPages /\ ~ IsData(File[n]) /\ n \in PageNums
  <2>1. n # c.cur
    BY <1>6
  <2>2. n < MaxPages /\ ~ IsData(File[n])
    BY <1>4, <2>1 DEF Assignable
  <2> QED
    BY <1>6, <2>2, StorageAssumption DEF PageNums
<1>8. /\ Safe(engine, disk, pending)
      /\ disk[0].type = "header" => Known(disk[0].info) \subseteq Known(engine.info)
      /\ ~ engine.headerDirty => File[0] = Header(engine.info)
  BY <1>1 DEF OpensInv
<1>9. WritesOnlyOf(engine, disk, pending, k)
  BY <1>2, <1>6, OwnWrites
<1>10. Safe(e, disk, pending \o ws)
  BY <1>1, <1>2, <1>7, <1>8, <1>9, NextKeepsSafe DEF Safe, File, FileOf, c, n
<1>11. /\ e \in Engines /\ e.info = engine.info /\ e.headerDirty = engine.headerDirty
       /\ e.chunks[k] = Chunk(n, FALSE, c.blit, NewPage)
  BY <1>1, <1>3, <1>6, <1>7, NextAssigned
<1>12. IsChunk(e.chunks[k]) /\ x \in Nat
  BY <1>1, <1>6, <1>11 DEF IsChunk, Chunk, x
<1>13. ws \in Seq(Writes) /\ \A i \in DOMAIN ws : ws[i].page \in {-1, c.blit, c.cur}
  BY <1>6, <1>7, WritesOfFullPage
<1> HIDE DEF e, ws
<1>14. Safe(engine', disk', pending') /\ engine'.info = e.info /\ engine'.headerDirty = e.headerDirty
  BY <1>4, <1>10, <1>11, <1>12, ItemAdded, ItemKeepsSafe DEF Safe
<1>15. File'[0] = File[0]
  <2>1. \A i \in DOMAIN ws : ws[i].page # 0
    BY <1>6, <1>13
  <2>2. FileOf(disk, pending \o ws)[0] = FileOf(disk, pending)[0]
    BY <1>1, <1>13, <2>1, FurtherWrites, MadePages
  <2>3. File' = FileOf(disk', pending') /\ File = FileOf(disk, pending)
    BY DEF File, FileOf
  <2> QED
    BY <1>4, <2>2, <2>3
<1> QED
  BY <1>1, <1>4, <1>8, <1>11, <1>14, <1>15 DEF OpensInv

\* when fsync() writes the header and the pages;
LEMMA StartSyncOpens ==
  ASSUME StorageInv, OpensInv, NEW then \in {"syncing", "closing"}, StartSync(then)
  PROVE  OpensInv'
<1>1. /\ engine \in Engines /\ disk \in Files /\ pending \in Seq(Writes) /\ IsOpen /\ phase = "open"
      /\ disk' = disk /\ pending' = pending \o SyncWrites(engine) /\ phase' = then
  BY DEF StorageInv, StorageTypeOK, StartSync, IsOpen
<1>2. engine' = [engine EXCEPT !.chunks = [k \in Kinds |-> IF @[k].dirty THEN WritePage(@[k], 0).chunk ELSE @[k]]]
  BY DEF StartSync
<1>3. /\ Safe(engine, disk, pending)
      /\ disk[0].type = "header" => Known(disk[0].info) \subseteq Known(engine.info)
      /\ ~ engine.headerDirty => FileOf(disk, pending)[0] = Header(engine.info)
  BY <1>1 DEF OpensInv, File, FileOf
<1>4. engine'.info = engine.info
  BY <1>1, <1>2, SyncedEngine
<1>5. Safe(engine', disk, pending \o SyncWrites(engine)) /\ FileOf(disk, pending \o SyncWrites(engine))[0] = Header(engine.info)
  BY <1>1, <1>2, <1>3, SyncKeepsSafe DEF Safe
<1>6. File' = FileOf(disk, pending \o SyncWrites(engine))
  <2>1. File' = FileOf(disk', pending')
    BY DEF File, FileOf
  <2> QED
    BY <1>1, <2>1
<1> QED
  BY <1>1, <1>3, <1>4, <1>5, <1>6 DEF OpensInv

\* Without anything to write, the header is on disk.
LEMMA CleanHeader ==
  ASSUME NEW e \in Engines, SyncWrites(e) = <<>>
  PROVE  ~ e.headerDirty
<1> SUFFICES ASSUME e.headerDirty PROVE FALSE
  BY DEF Engines
<1> DEFINE hs == HeaderWrites(e)
           ps == PageWrites(e)
<1>1. hs \in Seq(Writes) /\ 3 \in DOMAIN hs /\ ps \in Seq(Writes) /\ hs \o ps = <<>>
  BY WritesOfHeader, WritesOfPages DEF SyncWrites
<1> HIDE DEF hs, ps
<1>2. 3 \in DOMAIN (hs \o ps)
  BY <1>1, WritesBefore
<1> QED
  BY <1>1, <1>2

\* All that was written is on disk.
LEMMA SyncedOpens ==
  ASSUME StorageInv, StorageInv', OpensInv, SyncData \/ CloseClean
  PROVE  OpensInv'
<1>1. /\ engine \in Engines /\ disk \in Files /\ pending \in Seq(Writes) /\ IsOpen
      /\ disk' = File /\ pending' = <<>>
      /\ \/ phase' = "open" /\ engine' = engine
         \/ phase' = "closed"
  BY DEF StorageInv, StorageTypeOK, SyncData, CloseClean, IsOpen
<1>2. File[0] = Header(engine.info)
  <2>1. CASE SyncData
    BY <2>1 DEF OpensInv, SyncData, IsOpen
  <2>2. CASE CloseClean
    <3>1. ~ engine.headerDirty
      BY <1>1, <2>2, CleanHeader DEF CloseClean
    <3> QED
      BY <1>1, <3>1 DEF OpensInv
  <2> QED
    BY <2>1, <2>2
<1>3. File = FileOf(disk, pending) /\ File \in Files
  BY <1>1, FileTypes DEF File, FileOf
<1>4. PICK owner : Reaches(owner, engine, File)
  BY <1>1, <1>3 DEF OpensInv, Safe, SafeFor
<1>5. Opens(File) /\ Safe(engine, File, <<>>)
  BY <1>1, <1>2, <1>3, <1>4, ReachesOpens, ReachesSafe DEF Safe
<1>6. Opens(disk')
  BY <1>1, <1>5
<1>7. CASE phase' = "open" /\ engine' = engine
  <2>1. Safe(engine', disk', pending')
    BY <1>1, <1>5, <1>7
  <2>2. File' = File
    <3>1. File' = FileOf(disk', pending')
      BY DEF File, FileOf
    <3>2. <<>> \in Seq(Writes)
      OBVIOUS
    <3> QED
      BY <1>1, <1>3, <3>1, <3>2, FileTypes
  <2>3. disk'[0].info = engine'.info
    BY <1>1, <1>2, <1>7 DEF Header
  <2> QED
    BY <1>2, <1>7, <2>1, <2>2, <2>3 DEF OpensInv
<1>8. CASE phase' = "closed"
  BY <1>6, <1>8 DEF OpensInv, IsOpen
<1> QED
  BY <1>1, <1>7, <1>8

\* and when the program stops between any two writes.
LEMMA CrashOpens ==
  ASSUME Situations = {}, StorageInv, OpensInv, Crash
  PROVE  OpensInv'
<1>1. /\ engine \in Engines /\ disk \in Files /\ pending \in Seq(Writes) /\ IsOpen
      /\ disk' \in CrashOutcomes(disk, pending) /\ phase' = "closed"
      /\ disk[0] = Header(engine.info) /\ \A i \in DOMAIN pending : pending[i].page # 0
  BY DEF StorageInv, StorageTypeOK, Crash, Creating, IsOpen
<1>2. ~ Creates(engine, disk, pending)
  BY <1>1 DEF Creates
<1>3. PICK owner, old : /\ Owned(owner, {}, engine, FileOf(disk, pending))
                        /\ CrashSafe(owner, engine, disk, pending, old)
  BY <1>1, <1>2 DEF OpensInv, Safe, SafeFor, Reaches
<1>4. \E n, own : Connected(own, engine.info, n, disk')
  BY <1>1, <1>3, CrashConnects
<1>5. disk' \in Files /\ disk'[0] = disk[0]
  <2>1. /\ disk' \in Files
        /\ \A n \in PageNums : (\A i \in DOMAIN pending : pending[i].page # n) => disk'[n] = disk[n]
    BY <1>1, CrashedFile
  <2> QED
    BY <1>1, <2>1, MadePages
<1>6. engine.info \in Infos
  BY <1>1 DEF Engines
<1>7. ScanBlocks(disk', engine.info).ok
  BY <1>4, <1>5, <1>6, ConnectedOpens
<1>8. Opens(disk')
  BY <1>1, <1>5, <1>7 DEF Opens, Header
<1> QED
  BY <1>1, <1>8 DEF OpensInv, IsOpen

\* OpensInv is kept by every step.
LEMMA StepOpens ==
  ASSUME Situations = {}, StorageInv, StorageInv', OpensInv, [Next]_vars
  PROVE  OpensInv'
<1>1. CASE UNCHANGED vars
  BY <1>1 DEF vars, OpensInv, IsOpen, IsEmptyFile, File
<1>2. CASE Next
  BY <1>2, OpenNewOpens, OpenFileOpens, AppendFitsOpens, AppendFullOpens, StartSyncOpens, SyncedOpens, CrashOpens DEF Next
<1> QED
  BY <1>1, <1>2

\* Outside the situations that are named in the model, the storage opens what it
\* wrote, after every sequence of appends, syncs and crashes, whatever these tore.
THEOREM StorageOpensAgain ==
  ASSUME Situations = {}
  PROVE  Spec => []OpensAgain
<1>1. OpensInv => OpensAgain
  BY DEF OpensInv, OpensAgain
<1>2. StorageInv /\ StorageInv' /\ OpensInv /\ [Next]_vars => OpensInv'
  BY StepOpens
<1> QED
  BY <1>1, <1>2, InitOpens, StorageInvariance, PTL DEF Spec
-----------------------------------------------------------------------------
(* What is read of a kind of data.                                         *)

PieceSet == [content : Seq(Nat), next : PageNums]
KindInfos == [first : PageNums, blit : PageNums]

\* What is read at a page: of the current page, what is in memory; of another what
\* is there or, when it is damaged or older, in the blit page.
LEMMA PieceCases ==
  ASSUME NEW file, NEW info, NEW chunk, NEW n
  PROVE  LET page  == file[n]
             blit  == file[info.blit]
             piece == PieceAt(file, info, chunk, n)
             inMem == IsChunk(chunk) /\ n = chunk.cur
             forIt == IsData(blit) /\ blit.next = n
         IN  /\ inMem => piece.content = chunk.page.content /\ piece.next = 0
             /\ ~ inMem /\ Continues(file, n) => piece.content = page.content /\ piece.next = page.next
             /\ ~ inMem /\ ~ Continues(file, n) => piece.next = 0
             /\ ~ inMem /\ ~ IsData(page) /\ ~ forIt => piece.content = <<>>
             /\ ~ inMem /\ ~ IsData(page) /\ forIt => piece.content = blit.content
             /\ ~ inMem /\ IsData(page) /\ page.next = 0 /\ forIt /\ Further(blit.status, page.status)
                  => piece.content = blit.content
             /\ ~ inMem /\ IsData(page) /\ page.next = 0 /\ ~ (forIt /\ Further(blit.status, page.status))
                  => piece.content = page.content
             /\ piece = Piece(piece.content, piece.next)
<1> USE DEF PieceAt, BlitFor, Continues, Piece
<1>1. CASE IsChunk(chunk) /\ n = chunk.cur
  BY <1>1
<1>2. CASE ~ (IsChunk(chunk) /\ n = chunk.cur) /\ ~ IsData(file[n])
  BY <1>2
<1>3. CASE ~ (IsChunk(chunk) /\ n = chunk.cur) /\ IsData(file[n]) /\ file[n].next # 0
  BY <1>3
<1>4. CASE ~ (IsChunk(chunk) /\ n = chunk.cur) /\ IsData(file[n]) /\ file[n].next = 0
  BY <1>4
<1> QED
  BY <1>1, <1>2, <1>3, <1>4

\* What is read of a page is a piece.
LEMMA PieceTypes ==
  ASSUME NEW file \in Files, NEW info \in KindInfos, NEW chunk \in Chunks, NEW n \in PageNums
  PROVE  PieceAt(file, info, chunk, n) \in PieceSet
<1> DEFINE piece == PieceAt(file, info, chunk, n)
           page  == file[n]
           blit  == file[info.blit]
<1>1. page \in Pages /\ blit \in Pages /\ <<>> \in Seq(Nat) /\ 0 \in PageNums
  BY MadePages DEF Files, KindInfos
<1>2. /\ IsData(page) => page.content \in Seq(Nat) /\ page.next \in PageNums
      /\ IsData(blit) => blit.content \in Seq(Nat)
      /\ chunk.page.content \in Seq(Nat)
  BY <1>1, PageTypes DEF DataPageSet, Chunks
<1>3. piece.content \in Seq(Nat) /\ piece.next \in PageNums
  <2> HIDE DEF page, blit
  <2>1. piece.content \in {chunk.page.content, <<>>} \/ (IsData(blit) /\ piece.content = blit.content)
        \/ (IsData(page) /\ piece.content = page.content)
    BY PieceCases DEF page, blit, Continues
  <2>2. piece.next = 0 \/ (IsData(page) /\ piece.next = page.next)
    BY PieceCases DEF page, blit, Continues
  <2> QED
    BY <1>1, <1>2, <2>1, <2>2
<1>4. piece = Piece(piece.content, piece.next)
  BY PieceCases
<1> QED
  BY <1>3, <1>4 DEF Piece, PieceSet

\* The content from each page on, of i pages at most.
Reads(piece, upto) ==
  /\ \A i \in 0 .. MaxPages + 1, n \in PageNums : upto[i][n] \in Seq(Nat)
  /\ \A n \in PageNums : upto[0][n] = <<>>
  /\ \A i \in 1 .. MaxPages + 1, n \in PageNums :
       upto[i][n] = IF n = 0 THEN <<>> ELSE piece[n].content \o upto[i - 1][piece[n].next]

Pieces(file, info, chunk) == [n \in PageNums |-> PieceAt(file, info, chunk, n)]

\* Contents reads the pieces from the first page on.
LEMMA ContentsRead ==
  ASSUME NEW file \in Files, NEW info \in KindInfos, NEW chunk \in Chunks
  PROVE  /\ Pieces(file, info, chunk) \in [PageNums -> PieceSet]
         /\ \E upto : Reads(Pieces(file, info, chunk), upto) /\ Contents(file, info, chunk) = upto[MaxPages + 1][info.first]
<1> DEFINE N        == MaxPages + 1
           pieces   == Pieces(file, info, chunk)
           T        == [PageNums -> Seq(Nat)]
           On(f)    == [n \in PageNums |-> LET piece == PieceAt(file, info, chunk, n)
                                           IN  IF n = 0 THEN <<>> ELSE piece.content \o f[piece.next]]
           step     == [i \in 1 .. N |-> [f \in T |-> On(f)]]
           none     == [n \in PageNums |-> <<>>]
           Loop(f)  == f = [i \in 0 .. N |-> IF i = 0 THEN none ELSE On(f[i - 1])]
           upto     == CHOOSE f : Loop(f)
<1>1. N \in Nat /\ N \in 0 .. N /\ 0 \in 0 .. N /\ 0 \in PageNums /\ none \in T
  BY StorageAssumption, MadePages
<1>2. \A n \in PageNums : PieceAt(file, info, chunk, n) \in PieceSet
  BY PieceTypes
<1>3. \A f \in T : On(f) \in T
  <2> SUFFICES ASSUME NEW f \in T, NEW n \in PageNums, n # 0
               PROVE  PieceAt(file, info, chunk, n).content \o f[PieceAt(file, info, chunk, n).next] \in Seq(Nat)
    BY <1>1
  <2> DEFINE piece == PieceAt(file, info, chunk, n)
  <2>1. piece.content \in Seq(Nat) /\ piece.next \in PageNums
    BY <1>2 DEF PieceSet
  <2> HIDE DEF piece
  <2>2. piece.content \o f[piece.next] \in Seq(Nat)
    BY <2>1
  <2> QED
    BY <2>2 DEF piece
<1> HIDE DEF On
<1>4. StepsWithin(step, N, T)
  BY <1>3 DEF StepsWithin
<1>5. \A i \in 1 .. N, f \in T : step[i][f] = On(f)
  OBVIOUS
<1> HIDE DEF N, T, step, none
<1>6. \E f : Loop(f)
  <2>1. PICK f : Passed(f, none, step, N, T)
    BY <1>1, <1>4, StepsExist
  <2>2. ASSUME NEW i \in 0 .. N, i # 0 PROVE f[i] = On(f[i - 1])
    <3>1. i \in 1 .. N /\ i - 1 \in 0 .. N
      BY <1>1, <2>2
    <3>2. f[i] = step[i][f[i - 1]] /\ f[i - 1] \in T
      BY <2>1, <3>1 DEF Passed
    <3> QED
      BY <1>5, <3>1, <3>2
  <2>3. Loop(f)
    BY <2>1, <2>2 DEF Passed
  <2> HIDE DEF Loop
  <2> QED
    BY <2>3
<1>7. Loop(upto)
  <2> HIDE DEF Loop
  <2> QED
    BY <1>6
<1>8. Contents(file, info, chunk) = upto[N][info.first]
  BY DEF Contents, On, N, none
<1> HIDE DEF upto
<1>9. upto[0] = none /\ \A i \in 1 .. N : i - 1 \in 0 .. N /\ upto[i] = On(upto[i - 1])
  <2>1. \A i \in 1 .. N : i \in 0 .. N /\ i # 0 /\ i - 1 \in 0 .. N
    BY <1>1
  <2> QED
    BY <1>1, <1>7, <2>1
<1> DEFINE S == {i \in 0 .. N : upto[i] \in T}
<1>10. 0 \in S /\ \A i \in 1 .. N : i - 1 \in S => i \in S
  <2>1. \A i \in 1 .. N : i \in 0 .. N
    BY <1>1
  <2> QED
    BY <1>1, <1>3, <1>9, <2>1
<1>11. \A i \in 0 .. N : upto[i] \in T
  <2>1. \A i \in 0 .. N : i \in S
    <3> HIDE DEF S
    <3> QED
      BY <1>1, <1>10, InductionTo
  <2> QED
    BY <2>1
<1>12. pieces \in [PageNums -> PieceSet] /\ \A n \in PageNums : pieces[n] = PieceAt(file, info, chunk, n)
  BY <1>2 DEF Pieces
<1> HIDE DEF pieces
<1>13. Reads(pieces, upto)
  <2>1. \A n \in PageNums : upto[0][n] = <<>>
    BY <1>9 DEF none
  <2>2. ASSUME NEW i \in 1 .. N, NEW n \in PageNums
        PROVE  upto[i][n] = IF n = 0 THEN <<>> ELSE pieces[n].content \o upto[i - 1][pieces[n].next]
    <3> DEFINE f == upto[i - 1]
    <3>1. upto[i] = On(f)
      BY <1>9
    <3> HIDE DEF f
    <3>2. On(f)[n] = IF n = 0 THEN <<>> ELSE PieceAt(file, info, chunk, n).content \o f[PieceAt(file, info, chunk, n).next]
      BY DEF On
    <3>3. pieces[n] = PieceAt(file, info, chunk, n)
      BY <1>12
    <3>4. On(f)[n] = IF n = 0 THEN <<>> ELSE pieces[n].content \o f[pieces[n].next]
      BY <3>2, <3>3
    <3> QED
      BY <3>1, <3>4 DEF f
  <2>3. \A i \in 0 .. N, n \in PageNums : upto[i][n] \in Seq(Nat)
    BY <1>11 DEF T
  <2> QED
    BY <2>1, <2>2, <2>3 DEF Reads, N
<1> QED
  BY <1>8, <1>12, <1>13 DEF N, pieces

\* What a sequence begins with.
Begins(s, t) == \E u \in Seq(Nat) : t = s \o u

\* Beginnings of sequences: an order, which concatenation keeps.
LEMMA BeginsWith ==
  /\ \A s \in Seq(Nat) : Begins(s, s) /\ Begins(<<>>, s)
  /\ \A s, t \in Seq(Nat) : Begins(s, s \o t)
  /\ \A r, s, t \in Seq(Nat) : Begins(r, s) /\ Begins(s, t) => Begins(r, t)
  /\ \A r, s, t \in Seq(Nat) : Begins(s, t) => Begins(r \o s, r \o t)
  /\ \A r, s, t \in Seq(Nat) : Begins(r, s) => Begins(r, s \o t)
<1>1. \A r, s, t \in Seq(Nat) : (r \o s) \o t = r \o (s \o t) /\ r \o s \in Seq(Nat)
  OBVIOUS
<1>2. \A s \in Seq(Nat) : s \o <<>> = s /\ <<>> \o s = s /\ <<>> \in Seq(Nat)
  OBVIOUS
<1>3. \A s \in Seq(Nat) : Begins(s, s) /\ Begins(<<>>, s)
  <2> SUFFICES ASSUME NEW s \in Seq(Nat) PROVE Begins(s, s) /\ Begins(<<>>, s)
    OBVIOUS
  <2> QED
    BY <1>2, Zenon DEF Begins
<1>4. ASSUME NEW r \in Seq(Nat), NEW s \in Seq(Nat), NEW t \in Seq(Nat), Begins(r, s), Begins(s, t)
      PROVE  Begins(r, t)
  <2>1. PICK u \in Seq(Nat) : s = r \o u
    BY <1>4 DEF Begins
  <2>2. PICK v \in Seq(Nat) : t = s \o v
    BY <1>4 DEF Begins
  <2>3. (r \o u) \o v = r \o (u \o v) /\ u \o v \in Seq(Nat)
    OBVIOUS
  <2>4. t = r \o (u \o v)
    BY <2>1, <2>2, <2>3, Zenon
  <2> QED
    BY <2>3, <2>4, Zenon DEF Begins
<1>5. ASSUME NEW r \in Seq(Nat), NEW s \in Seq(Nat), NEW t \in Seq(Nat), Begins(s, t)
      PROVE  Begins(r \o s, r \o t)
  <2>1. PICK u \in Seq(Nat) : t = s \o u
    BY <1>5 DEF Begins
  <2>2. r \o (s \o u) = (r \o s) \o u
    OBVIOUS
  <2>3. r \o t = (r \o s) \o u
    BY <2>1, <2>2, Zenon
  <2> QED
    BY <2>3, Zenon DEF Begins
<1>6. \A s, t \in Seq(Nat) : Begins(s, s \o t)
  <2> SUFFICES ASSUME NEW s \in Seq(Nat), NEW t \in Seq(Nat) PROVE Begins(s, s \o t)
    OBVIOUS
  <2> QED
    BY Zenon DEF Begins
<1>7. \A r, s, t \in Seq(Nat) : Begins(r, s) => Begins(r, s \o t)
  BY <1>1, <1>4, <1>6
<1> QED
  BY <1>3, <1>4, <1>5, <1>6, <1>7

\* One way of reading stops at a page where the other may go on.
Between(a, b) == a = b \/ (a.next = 0 /\ Begins(a.content, b.content))

\* What is read of some pages, when one way of reading them stops earlier.
LEMMA ReadsLess ==
  ASSUME NEW a \in [PageNums -> PieceSet], NEW b \in [PageNums -> PieceSet],
         NEW f, Reads(a, f), NEW g, Reads(b, g),
         NEW S, 0 \notin S,
         \A n \in S : n \in PageNums /\ Between(a[n], b[n]) /\ (a[n] = b[n] => b[n].next \in S \cup {0}),
         NEW first \in S \cup {0}
  PROVE  Begins(f[MaxPages + 1][first], g[MaxPages + 1][first])
<1> DEFINE N    == MaxPages + 1
           I    == {i \in 0 .. N : \A n \in S \cup {0} : Begins(f[i][n], g[i][n])}
<1>1. N \in Nat /\ N \in 0 .. N /\ 0 \in PageNums /\ <<>> \in Seq(Nat)
  BY StorageAssumption, MadePages
<1>2. /\ \A i \in 0 .. N, n \in PageNums : f[i][n] \in Seq(Nat) /\ g[i][n] \in Seq(Nat)
      /\ \A n \in PageNums : f[0][n] = <<>> /\ g[0][n] = <<>>
      /\ \A i \in 1 .. N, n \in PageNums :
           /\ f[i][n] = IF n = 0 THEN <<>> ELSE a[n].content \o f[i - 1][a[n].next]
           /\ g[i][n] = IF n = 0 THEN <<>> ELSE b[n].content \o g[i - 1][b[n].next]
  BY DEF Reads
<1> HIDE DEF N
<1>3. \A i \in 0 .. N : f[i][0] = <<>> /\ g[i][0] = <<>>
  <2>1. \A i \in 0 .. N : i = 0 \/ i \in 1 .. N
    BY <1>1
  <2> QED
    BY <1>1, <1>2, <2>1
<1>4. 0 \in I
  <2>1. 0 \in 0 .. N /\ \A n \in S \cup {0} : n \in PageNums
    BY <1>1
  <2>2. \A n \in S \cup {0} : Begins(f[0][n], g[0][n])
    BY <1>1, <1>2, <2>1, BeginsWith
  <2> QED
    BY <2>1, <2>2
<1>5. ASSUME NEW i \in 1 .. N, i - 1 \in I PROVE i \in I
  <2>0. i \in 0 .. N /\ i - 1 \in 0 .. N
    BY <1>1
  <2>1. \A n \in S \cup {0} : Begins(f[i - 1][n], g[i - 1][n])
    BY <1>5
  <2>2. ASSUME NEW n \in S PROVE Begins(f[i][n], g[i][n])
    <3>1. n \in PageNums /\ n # 0 /\ a[n] \in PieceSet /\ b[n] \in PieceSet
      BY <2>2
    <3>2. /\ a[n].content \in Seq(Nat) /\ a[n].next \in PageNums
          /\ b[n].content \in Seq(Nat) /\ b[n].next \in PageNums
      BY <3>1 DEF PieceSet
    <3> DEFINE r == f[i - 1][a[n].next]
               t == g[i - 1][b[n].next]
    <3>3. r \in Seq(Nat) /\ t \in Seq(Nat) /\ f[i][n] = a[n].content \o r /\ g[i][n] = b[n].content \o t
      BY <1>2, <2>0, <3>1, <3>2
    <3>4. CASE a[n] = b[n]
      <4>1. Begins(r, t)
        BY <2>1, <2>2, <3>4
      <4> HIDE DEF r, t
      <4> QED
        BY <3>2, <3>3, <3>4, <4>1, BeginsWith
    <3>5. CASE a[n].next = 0 /\ Begins(a[n].content, b[n].content)
      <4>1. r = <<>>
        BY <1>3, <2>0, <3>5
      <4> HIDE DEF r, t
      <4>2. f[i][n] = a[n].content
        BY <3>2, <3>3, <4>1
      <4> QED
        BY <3>2, <3>3, <3>5, <4>2, BeginsWith
    <3> QED
      BY <2>2, <3>4, <3>5 DEF Between
  <2>3. Begins(f[i][0], g[i][0])
    BY <1>1, <1>3, <2>0, BeginsWith
  <2> QED
    BY <2>0, <2>2, <2>3
<1> HIDE DEF I
<1>6. N \in I
  BY <1>1, <1>4, <1>5, InductionTo
<1> QED
  BY <1>6 DEF I, N

\* The contents are the same where the pages are read alike.
LEMMA ReadsAlike ==
  ASSUME NEW a \in [PageNums -> PieceSet], NEW b \in [PageNums -> PieceSet],
         NEW f, Reads(a, f), NEW g, Reads(b, g),
         NEW S, 0 \notin S, \A n \in S : n \in PageNums /\ a[n] = b[n] /\ b[n].next \in S \cup {0},
         NEW first \in S \cup {0}
  PROVE  f[MaxPages + 1][first] = g[MaxPages + 1][first]
<1> DEFINE N    == MaxPages + 1
           I    == {i \in 0 .. N : \A n \in S \cup {0} : f[i][n] = g[i][n]}
<1>1. N \in Nat /\ N \in 0 .. N /\ 0 \in PageNums /\ 0 \in 0 .. N
  BY StorageAssumption, MadePages
<1>2. /\ \A n \in PageNums : f[0][n] = <<>> /\ g[0][n] = <<>>
      /\ \A i \in 1 .. N, n \in PageNums :
           /\ f[i][n] = IF n = 0 THEN <<>> ELSE a[n].content \o f[i - 1][a[n].next]
           /\ g[i][n] = IF n = 0 THEN <<>> ELSE b[n].content \o g[i - 1][b[n].next]
  BY DEF Reads
<1> HIDE DEF N
<1>3. 0 \in I
  <2>1. \A n \in S \cup {0} : n \in PageNums
    BY <1>1
  <2> QED
    BY <1>1, <1>2, <2>1
<1>4. ASSUME NEW i \in 1 .. N, i - 1 \in I PROVE i \in I
  <2>1. i \in 0 .. N
    BY <1>1
  <2>2. \A n \in S \cup {0} : f[i - 1][n] = g[i - 1][n]
    BY <1>4
  <2>3. ASSUME NEW n \in S \cup {0} PROVE f[i][n] = g[i][n]
    <3>1. CASE n = 0
      BY <1>1, <1>2, <3>1
    <3>2. CASE n \in S
      <4>1. n \in PageNums /\ a[n] = b[n] /\ b[n].next \in S \cup {0}
        BY <3>2
      <4>2. f[i - 1][b[n].next] = g[i - 1][b[n].next]
        BY <2>2, <4>1
      <4>3. /\ f[i][n] = IF n = 0 THEN <<>> ELSE a[n].content \o f[i - 1][a[n].next]
            /\ g[i][n] = IF n = 0 THEN <<>> ELSE b[n].content \o g[i - 1][b[n].next]
        BY <1>2, <4>1
      <4> QED
        BY <4>1, <4>2, <4>3
    <3> QED
      BY <3>1, <3>2
  <2> QED
    BY <2>1, <2>3
<1> HIDE DEF I
<1>5. N \in I
  BY <1>1, <1>3, <1>4, InductionTo
<1> QED
  BY <1>5 DEF I, N

\* What is added at the last page is added to the content.
AddedAt(a, b, cur, t) ==
  /\ a[cur].next = 0
  /\ \/ b[cur].next = 0 /\ b[cur].content = a[cur].content \o t
     \/ /\ b[cur].content = a[cur].content /\ cur < b[cur].next
        /\ b[b[cur].next] = Piece(t, 0)

\* What is read of a chain of pages to whose last one something was added.
LEMMA ReadsMore ==
  ASSUME NEW a \in [PageNums -> PieceSet], NEW b \in [PageNums -> PieceSet],
         NEW f, Reads(a, f), NEW g, Reads(b, g),
         NEW S, 0 \notin S, NEW cur \in S, NEW t \in Seq(Nat), AddedAt(a, b, cur, t),
         \A n \in S : n \in PageNums /\ (n # cur => a[n] = b[n] /\ b[n].next \in S /\ n < b[n].next),
         NEW first \in S
  PROVE  g[MaxPages + 1][first] = f[MaxPages + 1][first] \o t
<1> DEFINE N    == MaxPages + 1
           I    == {i \in 0 .. N : \A n \in S : n + i > MaxPages => g[i][n] = f[i][n] \o t}
<1>1. N \in Nat /\ N \in 0 .. N /\ 0 \in PageNums /\ 0 \in 0 .. N /\ MaxPages \in Nat /\ N = MaxPages + 1
  BY StorageAssumption, MadePages
<1>2. /\ \A i \in 0 .. N, n \in PageNums : f[i][n] \in Seq(Nat) /\ g[i][n] \in Seq(Nat)
      /\ \A i \in 1 .. N, n \in PageNums :
           /\ f[i][n] = IF n = 0 THEN <<>> ELSE a[n].content \o f[i - 1][a[n].next]
           /\ g[i][n] = IF n = 0 THEN <<>> ELSE b[n].content \o g[i - 1][b[n].next]
      /\ f[0][0] = <<>> /\ g[0][0] = <<>>
  BY MadePages DEF Reads
<1> HIDE DEF N
<1>3. \A n \in S : n \in PageNums /\ n \in 1 .. MaxPages
  BY <1>1 DEF PageNums
<1>4. \A i \in 0 .. N : f[i][0] = <<>> /\ g[i][0] = <<>>
  <2>1. \A i \in 0 .. N : i = 0 \/ i \in 1 .. N
    BY <1>1
  <2> QED
    BY <1>1, <1>2, <2>1
<1>5. /\ \A s \in Seq(Nat) : s \o <<>> = s
      /\ \A r, s, u \in Seq(Nat) : (r \o s) \o u = r \o (s \o u) /\ r \o s \in Seq(Nat)
  OBVIOUS
<1>6. 0 \in I
  <2>1. \A n \in S : ~ (n + 0 > MaxPages)
    BY <1>1, <1>3
  <2> QED
    BY <1>1, <2>1
<1>7. ASSUME NEW i \in 1 .. N, i - 1 \in I PROVE i \in I
  <2>1. i \in 0 .. N /\ i - 1 \in 0 .. N
    BY <1>1
  <2>2. \A n \in S : n + (i - 1) > MaxPages => g[i - 1][n] = f[i - 1][n] \o t
    BY <1>7
  <2>3. ASSUME NEW n \in S, n + i > MaxPages PROVE g[i][n] = f[i][n] \o t
    <3>1. n \in PageNums /\ n \in 1 .. MaxPages /\ n # 0 /\ a[n] \in PieceSet /\ b[n] \in PieceSet
      BY <1>3, <2>3
    <3>2. /\ a[n].content \in Seq(Nat) /\ a[n].next \in PageNums
          /\ b[n].content \in Seq(Nat) /\ b[n].next \in PageNums
      BY <3>1 DEF PieceSet
    <3> DEFINE r == f[i - 1][a[n].next]
               u == g[i - 1][b[n].next]
    <3>3. r \in Seq(Nat) /\ u \in Seq(Nat) /\ f[i][n] = a[n].content \o r /\ g[i][n] = b[n].content \o u
      BY <1>2, <2>1, <3>1, <3>2
    <3>4. CASE n # cur
      <4>1. a[n] = b[n] /\ b[n].next \in S /\ n < b[n].next
        BY <2>3, <3>4
      <4>2. b[n].next + (i - 1) > MaxPages
        <5> DEFINE m == b[n].next
        <5>1. m \in 1 .. MaxPages /\ n < m
          BY <1>3, <4>1
        <5> HIDE DEF m
        <5> QED
          BY <1>1, <2>3, <3>1, <5>1 DEF m
      <4>3. u = r \o t
        BY <2>2, <4>1, <4>2
      <4> HIDE DEF r, u
      <4>4. a[n].content \o (r \o t) = (a[n].content \o r) \o t
        <5> DEFINE x == a[n].content
        <5>1. x \in Seq(Nat)
          BY <3>2
        <5> HIDE DEF x
        <5>2. r \in Seq(Nat)
          BY <3>3
        <5> HIDE DEF r
        <5>3. ASSUME NEW y \in Seq(Nat), NEW z \in Seq(Nat) PROVE y \o (z \o t) = (y \o z) \o t
          OBVIOUS
        <5>4. x \o (r \o t) = (x \o r) \o t
          BY <5>1, <5>2, <5>3, Zenon
        <5> QED
          BY <5>4 DEF x
      <4> QED
        BY <3>3, <4>1, <4>3, <4>4, Zenon
    <3>5. CASE n = cur
      <4>1. r = <<>>
        BY <1>4, <2>1, <3>5 DEF AddedAt
      <4>2. f[i][n] = a[n].content
        <5> HIDE DEF r, u
        <5> QED
          BY <1>5, <3>2, <3>3, <4>1
      <4>3. CASE b[n].next = 0 /\ b[n].content = a[n].content \o t
        <5>1. u = <<>>
          BY <1>4, <2>1, <4>3
        <5> HIDE DEF r, u
        <5>2. g[i][n] = b[n].content
          BY <1>5, <3>2, <3>3, <5>1
        <5> QED
          BY <4>2, <4>3, <5>2
      <4>4. CASE b[n].content = a[n].content /\ n < b[n].next /\ b[b[n].next] = Piece(t, 0)
        <5> DEFINE m == b[n].next
        <5>1. m \in PageNums /\ m # 0 /\ m \in 1 .. MaxPages
          BY <1>1, <3>1, <3>2, <4>4 DEF PageNums
        <5>2. i - 1 \in 1 .. N /\ i - 1 - 1 \in 0 .. N
          BY <1>1, <2>3, <3>1, <4>4, <5>1
        <5> HIDE DEF m
        <5>3. b[m].content = t /\ b[m].next = 0
          BY <4>4 DEF Piece, m
        <5>4. u = t \o g[i - 1 - 1][0]
          <6>1. g[i - 1][m] = b[m].content \o g[i - 1 - 1][b[m].next]
            BY <1>2, <5>1, <5>2
          <6> QED
            BY <5>3, <6>1 DEF m
        <5>5. g[i - 1 - 1][0] = <<>>
          BY <1>4, <5>2
        <5> HIDE DEF u
        <5>6. u = t
          BY <1>5, <5>4, <5>5
        <5> QED
          BY <3>3, <4>2, <4>4, <5>6
      <4> QED
        BY <3>5, <4>3, <4>4 DEF AddedAt
    <3> QED
      BY <3>4, <3>5
  <2> QED
    BY <2>1, <2>3
<1> HIDE DEF I
<1>8. N \in I
  BY <1>1, <1>6, <1>7, InductionTo
<1>9. first + N > MaxPages
  BY <1>1, <1>3
<1> QED
  BY <1>8, <1>9 DEF I, N

\* The same of the contents of a kind of data.
LEMMA ContentsTypes ==
  ASSUME NEW file \in Files, NEW info \in KindInfos, NEW chunk \in Chunks
  PROVE  /\ Contents(file, info, chunk) \in Seq(Nat)
         /\ info.first = 0 => Contents(file, info, chunk) = <<>>
<1>1. MaxPages + 1 \in 0 .. MaxPages + 1 /\ MaxPages + 1 \in 1 .. MaxPages + 1 /\ info.first \in PageNums
  BY StorageAssumption DEF KindInfos
<1>2. PICK upto : Reads(Pieces(file, info, chunk), upto) /\ Contents(file, info, chunk) = upto[MaxPages + 1][info.first]
  BY ContentsRead
<1> QED
  BY <1>1, <1>2 DEF Reads

\* What a kind holds, when one way of reading its pages stops earlier;
LEMMA ContentsLess ==
  ASSUME NEW on \in Files, NEW info \in KindInfos, NEW c \in Chunks, NEW file \in Files, NEW chunk \in Chunks,
         NEW S, 0 \notin S, info.first \in S \cup {0},
         \A n \in S : LET a == PieceAt(on, info, c, n)
                          b == PieceAt(file, info, chunk, n)
                      IN  n \in PageNums /\ Between(a, b) /\ (a = b => b.next \in S \cup {0})
  PROVE  Begins(Contents(on, info, c), Contents(file, info, chunk))
<1> DEFINE a == Pieces(on, info, c)
           b == Pieces(file, info, chunk)
<1>1. a \in [PageNums -> PieceSet] /\ b \in [PageNums -> PieceSet]
  BY ContentsRead
<1>2. PICK f : Reads(a, f) /\ Contents(on, info, c) = f[MaxPages + 1][info.first]
  BY ContentsRead
<1>3. PICK g : Reads(b, g) /\ Contents(file, info, chunk) = g[MaxPages + 1][info.first]
  BY ContentsRead
<1>4. \A n \in S : n \in PageNums /\ Between(a[n], b[n]) /\ (a[n] = b[n] => b[n].next \in S \cup {0})
  BY DEF Pieces
<1> HIDE DEF a, b
<1> DEFINE first == info.first
<1>5. first \in S \cup {0}
  OBVIOUS
<1> HIDE DEF first
<1>6. Begins(f[MaxPages + 1][first], g[MaxPages + 1][first])
  BY <1>1, <1>2, <1>3, <1>4, <1>5, ReadsLess
<1> QED
  BY <1>2, <1>3, <1>6 DEF first

\* when both read the same;
LEMMA ContentsAlike ==
  ASSUME NEW on \in Files, NEW info \in KindInfos, NEW c \in Chunks, NEW file \in Files, NEW chunk \in Chunks,
         NEW S, 0 \notin S, info.first \in S \cup {0},
         \A n \in S : LET a == PieceAt(on, info, c, n)
                          b == PieceAt(file, info, chunk, n)
                      IN  n \in PageNums /\ a = b /\ b.next \in S \cup {0}
  PROVE  Contents(on, info, c) = Contents(file, info, chunk)
<1> DEFINE a == Pieces(on, info, c)
           b == Pieces(file, info, chunk)
<1>1. a \in [PageNums -> PieceSet] /\ b \in [PageNums -> PieceSet]
  BY ContentsRead
<1>2. PICK f : Reads(a, f) /\ Contents(on, info, c) = f[MaxPages + 1][info.first]
  BY ContentsRead
<1>3. PICK g : Reads(b, g) /\ Contents(file, info, chunk) = g[MaxPages + 1][info.first]
  BY ContentsRead
<1>4. \A n \in S : n \in PageNums /\ a[n] = b[n] /\ b[n].next \in S \cup {0}
  BY DEF Pieces
<1> HIDE DEF a, b
<1> DEFINE first == info.first
<1>5. first \in S \cup {0}
  OBVIOUS
<1> HIDE DEF first
<1>6. f[MaxPages + 1][first] = g[MaxPages + 1][first]
  BY <1>1, <1>2, <1>3, <1>4, <1>5, ReadsAlike
<1> QED
  BY <1>2, <1>3, <1>6 DEF first

\* What is read of the pages of a kind, when t is added at page cur.
MorePieces(on, i, c, file, d, S, cur, t) ==
  /\ 0 \notin S /\ i.first \in S /\ cur \in S
  /\ \A n \in S : LET a == PieceAt(on, i, c, n)
                      b == PieceAt(file, i, d, n)
                  IN  n \in PageNums /\ (n # cur => a = b /\ b.next \in S /\ n < b.next)
  /\ LET a == PieceAt(on, i, c, cur)
         b == PieceAt(file, i, d, cur)
     IN  /\ a.next = 0
         /\ \/ b.next = 0 /\ b.content = a.content \o t
            \/ /\ b.content = a.content /\ cur < b.next /\ b.next \in PageNums
               /\ PieceAt(file, i, d, b.next) = Piece(t, 0)

\* and when one page has more.
LEMMA ContentsMore ==
  ASSUME NEW on \in Files, NEW info \in KindInfos, NEW c \in Chunks, NEW file \in Files, NEW chunk \in Chunks,
         NEW S, NEW cur, NEW t \in Seq(Nat), MorePieces(on, info, c, file, chunk, S, cur, t)
  PROVE  Contents(file, info, chunk) = Contents(on, info, c) \o t
<1> DEFINE a == Pieces(on, info, c)
           b == Pieces(file, info, chunk)
<1>1. a \in [PageNums -> PieceSet] /\ b \in [PageNums -> PieceSet]
  BY ContentsRead
<1>2. PICK f : Reads(a, f) /\ Contents(on, info, c) = f[MaxPages + 1][info.first]
  BY ContentsRead
<1>3. PICK g : Reads(b, g) /\ Contents(file, info, chunk) = g[MaxPages + 1][info.first]
  BY ContentsRead
<1>4. \A n \in S : n \in PageNums /\ (n # cur => a[n] = b[n] /\ b[n].next \in S /\ n < b[n].next)
  BY DEF Pieces, MorePieces
<1>5. cur \in PageNums /\ AddedAt(a, b, cur, t)
  BY DEF Pieces, AddedAt, MorePieces
<1> HIDE DEF a, b
<1> DEFINE first == info.first
<1>6. first \in S /\ 0 \notin S /\ cur \in S
  BY DEF MorePieces
<1> HIDE DEF first
<1>7. g[MaxPages + 1][first] = f[MaxPages + 1][first] \o t
  BY <1>1, <1>2, <1>3, <1>4, <1>5, <1>6, ReadsMore
<1> QED
  BY <1>2, <1>3, <1>7 DEF first

\* The pages of a kind that the header and the links lead to: each is the first
\* or the next of one before it.
OfKind(owner, k) == {n \in DOMAIN owner : owner[n] = Place(k, FALSE)}

\* The pages of a kind in a file that can be opened: a chain upwards, from the first.
LEMMA KindReached ==
  ASSUME NEW owner, NEW info, NEW top, NEW file, Connected(owner, info, top, file), NEW k \in Known(info)
  PROVE  LET S == OfKind(owner, k) IN
         /\ 0 \notin S /\ S \subseteq 1 .. top /\ \A n \in S : n \in PageNums
         /\ info[k].first \in S
         /\ \A n \in S : Continues(file, n) => n < file[n].next /\ file[n].next \in S
         /\ \A n \in S : n # info[k].first => \E m \in S : m < n /\ Continues(file, m) /\ file[m].next = n
<1> DEFINE S == OfKind(owner, k)
<1>1. top \in 0 .. MaxPages /\ owner \in [1 .. top -> Places] /\ DOMAIN owner = 1 .. top /\ k \in Kinds
  BY DEF Connected, Known
<1>2. \A n : n \in S <=> n \in 1 .. top /\ owner[n] = Place(k, FALSE)
  BY <1>1 DEF OfKind
<1>3. \A n : n \in S <=> Owns(owner, n, k, FALSE)
  BY DEF OfKind, Owns
<1>4. info[k].first \in S
  BY <1>3 DEF Connected
<1> HIDE DEF S
<1>5. \A n \in 1 .. top : n # 0 /\ n \in PageNums
  BY <1>1, StorageAssumption DEF PageNums
<1>6. \A n \in S : Continues(file, n) => n < file[n].next /\ file[n].next \in S
  BY <1>1, <1>2, <1>3 DEF Connected
<1>7. ASSUME NEW n \in S, n # info[k].first
      PROVE  \E m \in S : m < n /\ Continues(file, m) /\ file[m].next = n
  <2>1. n \in 1 .. top /\ owner[n] = Place(k, FALSE)
    BY <1>2, <1>7
  <2>2. ~ Starts(info, n)
    <3> SUFFICES ASSUME Starts(info, n) PROVE FALSE
      OBVIOUS
    <3>1. PICK j \in Known(info) : n \in {info[j].first, info[j].blit}
      BY DEF Starts
    <3>2. Owns(owner, info[j].blit, j, TRUE) /\ Owns(owner, info[j].first, j, FALSE) /\ j \in Kinds
      BY DEF Connected, Known
    <3>3. owner[n] = Place(j, TRUE) \/ (owner[n] = Place(j, FALSE) /\ n = info[j].first)
      BY <3>1, <3>2 DEF Owns
    <3> QED
      BY <1>1, <1>7, <2>1, <3>2, <3>3, PlacesOfKind DEF Place
  <2>3. PICK m : m < n /\ Links(owner, file, m, n)
    BY <2>1, <2>2 DEF Connected
  <2>4. m \in 1 .. top /\ ~ owner[m].blit /\ Continues(file, m) /\ file[m].next = n
    BY <1>1, <2>3 DEF Links
  <2> DEFINE j == owner[m].kind
  <2>5. j \in Kinds /\ owner[m] = Place(j, FALSE)
    BY <1>1, <2>4 DEF Places, Place
  <2>6. Owns(owner, n, j, FALSE)
    BY <2>4, <2>5 DEF Connected
  <2>7. owner[m] = Place(k, FALSE)
    BY <1>1, <2>1, <2>5, <2>6, PlacesOfKind DEF Owns
  <2> QED
    BY <1>2, <2>3, <2>4, <2>7
<1>8. S \subseteq 1 .. top /\ 0 \notin S /\ \A n \in S : n \in PageNums
  BY <1>2, <1>5
<1> QED
  BY <1>4, <1>6, <1>7, <1>8 DEF S

\* Those in one file are in another that has its links.
LEMMA KindWithin ==
  ASSUME NEW info, NEW k \in Known(info),
         NEW owner, NEW top, NEW on, Connected(owner, info, top, on),
         NEW own, NEW n, NEW file, Connected(own, info, n, file),
         \A m \in OfKind(owner, k) \cap OfKind(own, k) : Continues(on, m) => Continues(file, m) /\ file[m].next = on[m].next
  PROVE  OfKind(owner, k) \subseteq OfKind(own, k)
<1> DEFINE S    == OfKind(owner, k)
           T    == OfKind(own, k)
           Rest == S \ T
<1>1. S \subseteq 1 .. top /\ \A m \in S : m # info[k].first => \E l \in S : l < m /\ Continues(on, l) /\ on[l].next = m
  BY KindReached
<1>2. info[k].first \in T /\ \A m \in T : Continues(file, m) => file[m].next \in T
  BY KindReached
<1>3. \A m \in S \cap T : Continues(on, m) => Continues(file, m) /\ file[m].next = on[m].next
  OBVIOUS
<1>4. top \in Nat
  BY StorageAssumption DEF Connected
<1> HIDE DEF S, T
<1>5. Rest = {}
  <2> SUFFICES ASSUME Rest # {} PROVE FALSE
    OBVIOUS
  <2>1. Rest \subseteq Nat
    <3>1. \A m \in 1 .. top : m \in Nat
      BY <1>4
    <3> QED
      BY <1>1, <3>1
  <2>2. PICK m \in Rest : \A l \in Rest : m <= l
    <3> HIDE DEF Rest
    <3> QED
      BY <2>1, LeastElement
  <2>3. m \in S /\ m \notin T /\ m # info[k].first
    BY <1>2
  <2>4. PICK l \in S : l < m /\ Continues(on, l) /\ on[l].next = m
    BY <1>1, <2>3
  <2>5. l \in Nat /\ m \in Nat /\ ~ (m <= l)
    BY <1>1, <1>4, <2>3, <2>4
  <2>6. l \in T
    BY <2>2, <2>4, <2>5
  <2> QED
    BY <1>2, <1>3, <2>3, <2>4, <2>6
<1> QED
  BY <1>5 DEF S, T

\* They are a chain: only the last does not continue.
LEMMA KindChain ==
  ASSUME NEW owner, NEW info, NEW top, NEW file, Connected(owner, info, top, file), NEW k \in Known(info),
         NEW last \in OfKind(owner, k), ~ Continues(file, last)
  PROVE  \A n \in OfKind(owner, k) : n <= last /\ (n # last => Continues(file, n))
<1> DEFINE S == OfKind(owner, k)
           first == info[k].first
           Good(m) == \A j \in S : j < m => Continues(file, j) /\ file[j].next <= m
           Bad == {m \in S : ~ Good(m)}
<1>1. /\ S \subseteq 1 .. top
      /\ \A n \in S : Continues(file, n) => n < file[n].next /\ file[n].next \in S
      /\ \A n \in S : n # first => \E m \in S : m < n /\ Continues(file, m) /\ file[m].next = n
  BY KindReached
<1>2. top \in Nat /\ last \in S
  BY StorageAssumption DEF Connected
<1> HIDE DEF S, first
<1>3. \A n \in S : n \in Nat
  BY <1>1, <1>2
<1>4. \A j \in S : ~ (j < first)
  <2> DEFINE Low == {j \in S : j < first}
  <2> SUFFICES ASSUME Low # {} PROVE FALSE
    OBVIOUS
  <2>1. Low \subseteq Nat
    BY <1>3
  <2>2. PICK j \in Low : \A l \in Low : j <= l
    <3> HIDE DEF Low
    <3> QED
      BY <2>1, LeastElement
  <2>3. j \in S /\ j < first /\ j \in Nat
    BY <1>3
  <2>4. PICK m \in S : m < j
    BY <1>1, <2>3, <1>3
  <2>5. m \in Nat
    BY <1>3
  <2>6. first \in Nat
    BY <1>2, <1>3, KindReached DEF first, S
  <2>7. m \in Low
    BY <2>3, <2>4, <2>5, <2>6
  <2>8. j <= m
    BY <2>2, <2>7
  <2> QED
    BY <2>3, <2>4, <2>5, <2>8
<1>5. Bad = {}
  <2> SUFFICES ASSUME Bad # {} PROVE FALSE
    OBVIOUS
  <2>1. Bad \subseteq Nat
    BY <1>3
  <2>2. PICK m \in Bad : \A l \in Bad : m <= l
    <3> HIDE DEF Bad
    <3> QED
      BY <2>1, LeastElement
  <2>3. m \in S /\ m \in Nat
    BY <1>3
  <2>4. m # first
    BY <1>4, <2>2
  <2>5. PICK l \in S : l < m /\ Continues(file, l) /\ file[l].next = m
    BY <1>1, <2>3, <2>4
  <2>6. l \in Nat /\ l \notin Bad
    BY <1>3, <2>2, <2>3, <2>5
  <2>7. Good(l)
    BY <2>6
  <2> DEFINE Mid == {j \in S : l < j /\ j < m}
  <2>8. Mid = {}
    <3> SUFFICES ASSUME Mid # {} PROVE FALSE
      OBVIOUS
    <3>1. Mid \subseteq Nat
      BY <1>3
    <3>2. PICK j \in Mid : \A i \in Mid : j <= i
      <4> HIDE DEF Mid
      <4> QED
        BY <3>1, LeastElement
    <3>3. j \in S /\ j \in Nat /\ l < j /\ j < m
      BY <1>3
    <3>4. j # first
      BY <1>4, <2>6, <3>3
    <3>5. PICK i \in S : i < j /\ Continues(file, i) /\ file[i].next = j
      BY <1>1, <3>3, <3>4
    <3>6. i \in Nat
      BY <1>3
    <3>7. CASE i < l
      <4>1. j <= l
        BY <2>7, <3>5, <3>7
      <4> QED
        BY <2>6, <3>3, <4>1
    <3>8. CASE i = l
      BY <2>3, <2>5, <3>3, <3>5, <3>8
    <3>9. CASE l < i
      <4>1. i \in Mid
        BY <2>3, <3>3, <3>5, <3>6, <3>9
      <4>2. j <= i
        BY <3>2, <4>1
      <4> QED
        BY <3>3, <3>5, <3>6, <4>2
    <3> QED
      BY <2>6, <3>6, <3>7, <3>8, <3>9
  <2>9. ASSUME NEW j \in S, j < m PROVE Continues(file, j) /\ file[j].next <= m
    <3>1. j \in Nat /\ ~ (l < j)
      BY <1>3, <2>8, <2>9
    <3>2. CASE j = l
      BY <2>3, <2>5, <3>2
    <3>3. CASE j < l
      <4>1. Continues(file, j) /\ file[j].next <= l /\ file[j].next \in Nat
        BY <1>1, <1>3, <2>7, <3>3
      <4> QED
        BY <2>3, <2>5, <2>6, <4>1
    <3> QED
      BY <2>6, <3>1, <3>2, <3>3
  <2>10. Good(m)
    BY <2>9
  <2> QED
    BY <2>2, <2>10
<1>6. \A m \in S : Good(m)
  BY <1>5
<1> HIDE DEF Bad
<1>7. \A n \in S : n <= last
  BY <1>2, <1>3, <1>6
<1>8. \A n \in S : n # last => n < last
  BY <1>2, <1>3, <1>7
<1> QED
  BY <1>2, <1>6, <1>7, <1>8 DEF S
-----------------------------------------------------------------------------
(* The pages of a kind on disk and in memory.                              *)

Written(writes) == {writes[i].page : i \in DOMAIN writes}

\* A page in memory that was never written.
Fresh(c) == ~ c.toBlit /\ c.page.next = 0

\* What is on disk of a page in memory: itself or, when that was written last, in
\* the blit page.
OnDisk(on, c) ==
  LET page == on[c.cur]
      blit == on[c.blit]
      at   == IF c.toBlit THEN page ELSE blit
  IN  /\ IsData(at) /\ at.status = c.page.status /\ at.next = IF c.toBlit THEN 0 ELSE c.cur
      /\ Begins(at.content, c.page.content)
      /\ ~ c.dirty => at.content = c.page.content
      /\ c.toBlit => ~ (IsData(blit) /\ blit.next = c.cur /\ Further(blit.status, page.status))
      /\ ~ c.toBlit /\ IsData(page) => page.next = 0 /\ Further(blit.status, page.status)

\* What may be in a blit page for page n.
HeldFor(on, p, b, n) == \E page : MayHold(on, p, b, page) /\ IsData(page) /\ page.next = n

NotOnDisk(on, p, c) == ~ IsData(on[c.cur]) /\ c.cur \notin Written(p) /\ ~ HeldFor(on, p, c.blit, c.cur)

\* No write is to a page of the kind.
Idle(owner, p, k) == \A n \in DOMAIN owner : owner[n].kind = k => n \notin Written(p)

KindKept(owner, on, p, k, c) ==
  /\ IsChunk(c) /\ Fresh(c) => NotOnDisk(on, p, c)
  /\ ~ (IsChunk(c) /\ Fresh(c)) => Idle(owner, p, k)
  /\ IsChunk(c) /\ ~ Fresh(c) => OnDisk(on, c)

Kept(owner, e, on, p) == \A k \in Known(e.info) : KindKept(owner, on, p, k, e.chunks[k])

BlitsIn(owner, info, on, p) == \A k \in Known(info) : \A n : HeldFor(on, p, info[k].blit, n) => n \in OfKind(owner, k)

WritesIn(owner, p) == Written(p) \subseteq {-1, 0} \cup DOMAIN owner

\* What a crash leaves of a page is between what is on disk of it and what is in
\* memory.
PieceSurvives(on, p, info, c, n) ==
  \A d \in CrashOutcomes(on, p) : /\ Between(PieceAt(on, info, NoChunk, n), PieceAt(d, info, NoChunk, n))
                                  /\ Between(PieceAt(d, info, NoChunk, n), PieceAt(FileOf(on, p), info, c, n))

KindSurvives(owner, e, on, p, k) ==
  \A n \in OfKind(owner, k) : PieceSurvives(on, p, e.info[k], e.chunks[k], n)

\* What owners say of the pages of a kind.
LEMMA KindPages ==
  ASSUME NEW e \in Engines, NEW owner, NEW file, Reaches(owner, e, file), NEW k \in Known(e.info)
  PROVE  LET S == OfKind(owner, k)
             i == e.info[k]
             c == e.chunks[k]
         IN  /\ k \in Kinds /\ i \in KindInfos /\ c \in Chunks /\ c.page \in DataPageSet /\ c.page.content \in Seq(Nat)
             /\ 0 \notin S /\ S \subseteq DOMAIN owner /\ S \subseteq PageNums /\ i.first \in S
             /\ i.blit \in DOMAIN owner /\ i.blit \notin S /\ i.blit # 0
             /\ owner[i.blit].kind = k /\ \A n \in S : owner[n].kind = k
             /\ \A n \in S : Continues(file, n) => n < file[n].next /\ file[n].next \in S
             /\ IsChunk(c) => /\ c.cur \in S /\ c.blit = i.blit /\ ~ Continues(file, c.cur)
                              /\ c.page.next \in {0, c.cur} /\ (c.toBlit => c.page.next = 0)
                              /\ \A n \in S : n # c.cur => Continues(file, n)
<1> DEFINE S == OfKind(owner, k)
           i == e.info[k]
           c == e.chunks[k]
           t == e.nextFree - 1
<1>1. /\ Owned(owner, {}, e, file) /\ CursEnd(e, file) /\ k \in Kinds /\ Connected(owner, e.info, t, file)
  BY OwnedConnects DEF Reaches, Known
<1>2. i \in KindInfos /\ c \in Chunks /\ c.page \in DataPageSet /\ c.page.content \in Seq(Nat)
  BY <1>1 DEF Engines, Infos, KindInfos, Chunks, DataPageSet
<1> HIDE DEF t
<1>3. /\ 0 \notin S /\ S \subseteq 1 .. t /\ \A n \in S : n \in PageNums
      /\ i.first \in S
      /\ \A n \in S : Continues(file, n) => n < file[n].next /\ file[n].next \in S
  BY <1>1, KindReached
<1>4. Owns(owner, i.blit, k, TRUE) /\ DOMAIN owner = 1 .. t
  BY <1>1 DEF Connected
<1>5. i.blit \in DOMAIN owner /\ i.blit \notin S /\ i.blit # 0 /\ owner[i.blit].kind = k
  BY <1>4 DEF Owns, OfKind, Place
<1>6. \A n \in S : owner[n].kind = k
  BY DEF OfKind, Place
<1>7. ASSUME IsChunk(c)
      PROVE  /\ c.cur \in S /\ c.blit = i.blit /\ ~ Continues(file, c.cur)
             /\ c.page.next \in {0, c.cur} /\ (c.toBlit => c.page.next = 0)
  BY <1>1, <1>7 DEF Owned, ChunkOwned, Owns, OfKind, CursEnd
<1>8. ASSUME IsChunk(c), NEW n \in S, n # c.cur PROVE Continues(file, n)
  BY <1>1, <1>7, <1>8, KindChain
<1> HIDE DEF S, i, c
<1>9. S \subseteq DOMAIN owner /\ S \subseteq PageNums
  BY <1>3, <1>4
<1> QED
  BY <1>1, <1>2, <1>3, <1>5, <1>6, <1>7, <1>8, <1>9 DEF S, i, c

\* A page is read alike where it and the blit page are the same, and one that
\* continues wherever it is the same.
LEMMA PiecesSame ==
  ASSUME NEW file, NEW other, NEW info, NEW chunk, NEW n
  PROVE  /\ file[n] = other[n] /\ file[info.blit] = other[info.blit] => PieceAt(file, info, chunk, n) = PieceAt(other, info, chunk, n)
         /\ Continues(file, n) /\ ~ (IsChunk(chunk) /\ n = chunk.cur) => PieceAt(file, info, chunk, n) = Piece(file[n].content, file[n].next)
         /\ ~ IsChunk(chunk) \/ n # chunk.cur => PieceAt(file, info, chunk, n) = PieceAt(file, info, NoChunk, n)
         /\ IsChunk(chunk) /\ n = chunk.cur => PieceAt(file, info, chunk, n) = Piece(chunk.page.content, 0)
<1>1. ~ IsChunk(NoChunk)
  BY DEF NoChunk, Chunk, IsChunk
<1> QED
  BY <1>1 DEF PieceAt, BlitFor, Continues

\* The page a write of it is to holds it, is torn or is as before; the page is
\* read as it was or as it is in memory.
Writing(on, d, c) ==
  LET w == WritePage(c, 0).write
      n == IF c.toBlit THEN c.cur ELSE c.blit
  IN  d[n] = on[n] /\ (d[w.page] = on[w.page] \/ d[w.page] = Torn \/ d[w.page] = w.to)

\* What is read of a kind's last page while it is written.
LEMMA LastPiece ==
  ASSUME NEW on \in Files, NEW d \in Files, NEW info \in KindInfos, NEW c \in Chunks, IsChunk(c), ~ Fresh(c), c.blit = info.blit,
         c.page.next \in {0, c.cur}, c.toBlit => c.page.next = 0, OnDisk(on, c), Writing(on, d, c)
  PROVE  LET a == PieceAt(on, info, NoChunk, c.cur)
             b == PieceAt(d, info, NoChunk, c.cur)
         IN  /\ a = Piece(a.content, 0) /\ Begins(a.content, c.page.content)
             /\ ~ c.dirty => a.content = c.page.content
             /\ b = a \/ b = Piece(c.page.content, 0)
<1> DEFINE a == PieceAt(on, info, NoChunk, c.cur)
           b == PieceAt(d, info, NoChunk, c.cur)
           w == WritePage(c, 0).write
           s == c.page.status
<1>1. /\ ~ IsChunk(NoChunk) /\ ~ IsData(Torn)
      /\ w.to = Data(IF c.toBlit THEN c.cur ELSE 0, Rolled(s), c.page.content)
      /\ w.page = IF c.toBlit THEN c.blit ELSE c.cur
  BY DEF NoChunk, Chunk, IsChunk, IsData, Torn, WritePage, Write
<1>2. /\ IsData(w.to) /\ w.to.next = (IF c.toBlit THEN c.cur ELSE 0) /\ w.to.status = Rolled(s) /\ w.to.content = c.page.content
  BY <1>1 DEF Data, IsData
<1>3. s \in 0 .. 2 /\ Further(Rolled(s), s) /\ ~ Further(s, Rolled(s))
  <2>1. s \in {0, 1, 2}
    BY DEF Chunks, DataPageSet
  <2> HIDE DEF s
  <2>2. Rolled(0) = 1 /\ Rolled(1) = 2 /\ Rolled(2) = 0
    BY DEF Rolled
  <2> QED
    BY <2>1, <2>2 DEF Further
<1>4. c.cur # 0 /\ c.toBlit \in BOOLEAN
  BY DEF IsChunk, Chunks
<1> HIDE DEF w, s
<1>5. CASE c.toBlit
  <2>1. /\ IsData(on[c.cur]) /\ on[c.cur].status = s /\ on[c.cur].next = 0
        /\ Begins(on[c.cur].content, c.page.content) /\ (~ c.dirty => on[c.cur].content = c.page.content)
        /\ ~ (IsData(on[c.blit]) /\ on[c.blit].next = c.cur /\ Further(on[c.blit].status, on[c.cur].status))
    BY <1>5 DEF OnDisk, s
  <2>2. a = Piece(on[c.cur].content, 0)
    BY <1>1, <2>1 DEF PieceAt, BlitFor
  <2>3. a.content = on[c.cur].content /\ a = Piece(a.content, 0)
    BY <2>2 DEF Piece
  <2>4. d[c.cur] = on[c.cur] /\ (d[c.blit] = on[c.blit] \/ d[c.blit] = Torn \/ d[c.blit] = w.to)
    BY <1>1, <1>5 DEF Writing, w
  <2>5. CASE d[c.blit] = on[c.blit]
    <3>1. b = a
      BY <2>4, <2>5, PiecesSame
    <3> QED
      BY <2>1, <2>3, <3>1
  <2>6. CASE d[c.blit] = Torn
    <3>1. b = Piece(on[c.cur].content, 0)
      BY <1>1, <2>1, <2>4, <2>6 DEF PieceAt, BlitFor
    <3> QED
      BY <2>1, <2>2, <2>3, <3>1
  <2>7. CASE d[c.blit] = w.to
    <3>1. b = Piece(c.page.content, 0)
      BY <1>1, <1>2, <1>3, <1>5, <2>1, <2>4, <2>7 DEF PieceAt, BlitFor
    <3> QED
      BY <2>1, <2>3, <3>1
  <2> QED
    BY <2>4, <2>5, <2>6, <2>7
<1>6. CASE ~ c.toBlit
  <2>1. /\ IsData(on[c.blit]) /\ on[c.blit].status = s /\ on[c.blit].next = c.cur
        /\ Begins(on[c.blit].content, c.page.content) /\ (~ c.dirty => on[c.blit].content = c.page.content)
        /\ IsData(on[c.cur]) => on[c.cur].next = 0 /\ Further(on[c.blit].status, on[c.cur].status)
    BY <1>6 DEF OnDisk, s
  <2>2. a = Piece(on[c.blit].content, 0)
    BY <1>1, <2>1 DEF PieceAt, BlitFor
  <2>3. a.content = on[c.blit].content /\ a = Piece(a.content, 0)
    BY <2>2 DEF Piece
  <2>4. d[c.blit] = on[c.blit] /\ (d[c.cur] = on[c.cur] \/ d[c.cur] = Torn \/ d[c.cur] = w.to)
    BY <1>1, <1>6 DEF Writing, w
  <2>5. CASE d[c.cur] = on[c.cur]
    <3>1. b = a
      BY <2>4, <2>5, PiecesSame
    <3> QED
      BY <2>1, <2>3, <3>1
  <2>6. CASE d[c.cur] = Torn
    <3>1. b = Piece(on[c.blit].content, 0)
      BY <1>1, <2>1, <2>4, <2>6 DEF PieceAt, BlitFor
    <3> QED
      BY <2>1, <2>2, <2>3, <3>1
  <2>7. CASE d[c.cur] = w.to
    <3>1. b = Piece(c.page.content, 0)
      BY <1>1, <1>2, <1>3, <1>6, <2>1, <2>4, <2>7 DEF PieceAt, BlitFor
    <3> QED
      BY <2>1, <2>3, <3>1
  <2> QED
    BY <2>4, <2>5, <2>6, <2>7
<1> QED
  BY <1>4, <1>5, <1>6

\* Once it is written, what is in memory is on disk.
LEMMA WrittenOnDisk ==
  ASSUME NEW on \in Files, NEW d \in Files, NEW c \in Chunks, IsChunk(c),
         c.page.next \in {0, c.cur}, c.toBlit => c.page.next = 0,
         IF Fresh(c) THEN ~ (IsData(on[c.blit]) /\ on[c.blit].next = c.cur) ELSE OnDisk(on, c),
         LET w == WritePage(c, 0).write
             n == IF c.toBlit THEN c.cur ELSE c.blit
         IN  d[n] = on[n] /\ d[w.page] = w.to
  PROVE  OnDisk(d, WritePage(c, 0).chunk) /\ ~ Fresh(WritePage(c, 0).chunk)
<1> DEFINE w == WritePage(c, 0).write
           f == WritePage(c, 0).chunk
           s == c.page.status
           page == Data(IF c.toBlit THEN c.cur ELSE 0, Rolled(s), c.page.content)
<1>1. /\ w.to = page /\ w.page = IF c.toBlit THEN c.blit ELSE c.cur
      /\ f = [c EXCEPT !.dirty = FALSE, !.page = page, !.toBlit = ~ @]
  BY DEF WritePage, Write
<1>2. /\ IsData(page) /\ page.next = (IF c.toBlit THEN c.cur ELSE 0) /\ page.status = Rolled(s) /\ page.content = c.page.content
  BY DEF Data, IsData
<1> HIDE DEF page
<1>3. f = [cur |-> c.cur, toBlit |-> ~ c.toBlit, blit |-> c.blit, page |-> page, dirty |-> FALSE]
  BY <1>1 DEF Chunks
<1>4. f.cur = c.cur /\ f.toBlit = ~ c.toBlit /\ f.blit = c.blit /\ f.page = page
  BY <1>3
<1>5. s \in 0 .. 2 /\ Further(Rolled(s), s) /\ ~ Further(s, Rolled(s))
  <2>1. s \in {0, 1, 2}
    BY DEF Chunks, DataPageSet
  <2> HIDE DEF s
  <2>2. Rolled(0) = 1 /\ Rolled(1) = 2 /\ Rolled(2) = 0
    BY DEF Rolled
  <2> QED
    BY <2>1, <2>2 DEF Further
<1>6. c.cur # 0 /\ c.toBlit \in BOOLEAN /\ Begins(c.page.content, c.page.content)
  <2>1. c.page.content \in Seq(Nat)
    BY DEF Chunks, DataPageSet
  <2> QED
    BY <2>1, BeginsWith DEF IsChunk, Chunks
<1> HIDE DEF f, s, w
<1>7. CASE c.toBlit
  <2>1. ~ Fresh(c) /\ d[c.cur] = on[c.cur] /\ d[c.blit] = page
    BY <1>1, <1>7 DEF Fresh, w
  <2>2. IsData(on[c.cur]) /\ on[c.cur].status = s /\ on[c.cur].next = 0
    BY <1>7, <2>1 DEF OnDisk, s
  <2> QED
    BY <1>2, <1>4, <1>5, <1>6, <1>7, <2>1, <2>2 DEF OnDisk, Fresh, f
<1>8. CASE ~ c.toBlit
  <2>1. d[c.blit] = on[c.blit] /\ d[c.cur] = page
    BY <1>1, <1>8 DEF w
  <2>2. ~ (IsData(d[c.blit]) /\ d[c.blit].next = c.cur /\ Further(d[c.blit].status, Rolled(s)))
    <3>1. CASE Fresh(c)
      BY <2>1, <3>1
    <3>2. CASE ~ Fresh(c)
      BY <1>5, <1>8, <2>1, <3>2 DEF OnDisk, s
    <3> QED
      BY <3>1, <3>2
  <2> QED
    BY <1>2, <1>4, <1>6, <1>8, <2>1, <2>2 DEF OnDisk, Fresh, f
<1> QED
  BY <1>6, <1>7, <1>8
-----------------------------------------------------------------------------
(* What a crash keeps of more writes.                                      *)

\* The pages that a sequence of writes is to, and what they put on a blit page.
LEMMA WrittenMore ==
  ASSUME NEW p \in Seq(Writes), NEW ws \in Seq(Writes)
  PROVE  /\ Written(p \o ws) = Written(p) \cup Written(ws)
         /\ \A on, b, n : HeldFor(on, p \o ws, b, n) =>
              \/ HeldFor(on, p, b, n)
              \/ \E i \in DOMAIN ws : ws[i].page = b /\ IsData(ws[i].to) /\ ws[i].to.next = n
<1>1. /\ \A i \in DOMAIN p : i \in DOMAIN (p \o ws) /\ (p \o ws)[i] = p[i]
      /\ \A i \in DOMAIN ws : Len(p) + i \in DOMAIN (p \o ws) /\ (p \o ws)[Len(p) + i] = ws[i]
      /\ \A i \in DOMAIN (p \o ws) : \/ \E j \in DOMAIN p : (p \o ws)[i] = p[j]
                                     \/ \E j \in DOMAIN ws : (p \o ws)[i] = ws[j]
  OBVIOUS
<1>2. Written(p \o ws) = Written(p) \cup Written(ws)
  <2> DEFINE q == p \o ws
  <2>1. /\ \A i \in DOMAIN p : \E j \in DOMAIN q : q[j] = p[i]
        /\ \A i \in DOMAIN ws : \E j \in DOMAIN q : q[j] = ws[i]
        /\ \A i \in DOMAIN q : \/ \E j \in DOMAIN p : q[i] = p[j]
                              \/ \E j \in DOMAIN ws : q[i] = ws[j]
    BY <1>1
  <2> HIDE DEF q
  <2>2. \A n : n \in Written(q) <=> n \in Written(p) \cup Written(ws)
    BY <2>1 DEF Written
  <2> QED
    BY <2>2 DEF q
<1>3. ASSUME NEW on, NEW b, NEW n, HeldFor(on, p \o ws, b, n)
      PROVE  \/ HeldFor(on, p, b, n)
             \/ \E i \in DOMAIN ws : ws[i].page = b /\ IsData(ws[i].to) /\ ws[i].to.next = n
  <2>1. PICK page : MayHold(on, p \o ws, b, page) /\ IsData(page) /\ page.next = n
    BY <1>3 DEF HeldFor
  <2>2. MayHold(on, p, b, page) \/ \E i \in DOMAIN ws : ws[i].page = b /\ page = ws[i].to
    BY <2>1, MoreMayHold
  <2> QED
    BY <2>1, <2>2 DEF HeldFor
<1> QED
  BY <1>2, <1>3

\* A crash keeps the writes before some barrier, and some of those up to the next.
CrashIs(on, p, d) ==
  \E from \in Blocks(p) : \E some \in SUBSET CrashBlock(p, from) : \E torn \in SUBSET some :
    d = WrittenBy(1 .. from \cup some, torn, on, p)

\* A crash leaves a page alone that nothing was written to.
LEMMA CrashKeeps ==
  ASSUME NEW on, NEW p
  PROVE  /\ \A d \in CrashOutcomes(on, p) : CrashIs(on, p, d)
         /\ \A from \in Blocks(p) : \A some \in SUBSET CrashBlock(p, from) : \A torn \in SUBSET some :
              WrittenBy(1 .. from \cup some, torn, on, p) \in CrashOutcomes(on, p)
<1> DEFINE OfSome(from, some) == {WrittenBy(1 .. from \cup some, torn, on, p) : torn \in SUBSET some}
           OfFrom(from)       == UNION {OfSome(from, some) : some \in SUBSET CrashBlock(p, from)}
<1>1. CrashOutcomes(on, p) = UNION {OfFrom(from) : from \in Blocks(p)}
  BY Zenon DEF CrashOutcomes
<1>2. \A from, some : \A d \in OfSome(from, some) : \E torn \in SUBSET some : d = WrittenBy(1 .. from \cup some, torn, on, p)
  OBVIOUS
<1>3. \A from, some : \A torn \in SUBSET some : WrittenBy(1 .. from \cup some, torn, on, p) \in OfSome(from, some)
  OBVIOUS
<1> HIDE DEF OfSome
<1>4. \A from, d : d \in OfFrom(from) <=> \E some \in SUBSET CrashBlock(p, from) : d \in OfSome(from, some)
  OBVIOUS
<1> HIDE DEF OfFrom
<1>5. \A d : d \in CrashOutcomes(on, p) <=> \E from \in Blocks(p) : d \in OfFrom(from)
  BY <1>1
<1>6. ASSUME NEW d \in CrashOutcomes(on, p)
      PROVE  CrashIs(on, p, d)
  <2>1. PICK from \in Blocks(p) : d \in OfFrom(from)
    BY <1>5
  <2>2. PICK some \in SUBSET CrashBlock(p, from) : d \in OfSome(from, some)
    BY <1>4, <2>1
  <2>3. \E torn \in SUBSET some : d = WrittenBy(1 .. from \cup some, torn, on, p)
    BY <1>2, <2>2
  <2> QED
    BY <2>3 DEF CrashIs
<1>7. ASSUME NEW from \in Blocks(p), NEW some \in SUBSET CrashBlock(p, from), NEW torn \in SUBSET some
      PROVE  WrittenBy(1 .. from \cup some, torn, on, p) \in CrashOutcomes(on, p)
  <2> DEFINE d == WrittenBy(1 .. from \cup some, torn, on, p)
  <2>1. d \in OfSome(from, some)
    BY <1>3
  <2> HIDE DEF d
  <2>2. d \in OfFrom(from)
    BY <1>4, <2>1
  <2> QED
    BY <1>5, <2>2 DEF d
<1> QED
  BY <1>6, <1>7

\* Where none of more writes is to, a page is the same when the same are done and
\* torn of those before.
DoneAlike(p, done, torn, first, lost) ==
  /\ first \subseteq DOMAIN p
  /\ \A i \in DOMAIN p : (i \in done <=> i \in first) /\ (i \in torn <=> i \in lost)

\* Further writes do not change what a crash leaves of the other pages.
LEMMA WrittenAlike ==
  ASSUME NEW on, NEW p \in Seq(Writes), NEW ws \in Seq(Writes)
  PROVE  \A done, torn, first, lost : done \subseteq DOMAIN (p \o ws) /\ DoneAlike(p, done, torn, first, lost) =>
           \A n \in PageNums : n \notin Written(ws) => WrittenBy(done, torn, on, p \o ws)[n] = WrittenBy(first, lost, on, p)[n]
<1> DEFINE q == p \o ws
<1> SUFFICES ASSUME NEW done, NEW torn, NEW first, NEW lost, done \subseteq DOMAIN q, DoneAlike(p, done, torn, first, lost),
                    NEW n \in PageNums, n \notin Written(ws)
             PROVE  WrittenBy(done, torn, on, q)[n] = WrittenBy(first, lost, on, p)[n]
  OBVIOUS
<1> DEFINE L  == Len(p)
           A  == {i \in done : q[i].page = n}
           B  == {i \in first : p[i].page = n}
<1>1. /\ L \in Nat /\ DOMAIN p = 1 .. L /\ DOMAIN q \subseteq Nat
      /\ \A i \in DOMAIN p : i \in DOMAIN q /\ q[i] = p[i]
      /\ \A i \in DOMAIN q : i \notin DOMAIN p => \E j \in DOMAIN ws : q[i] = ws[j]
  OBVIOUS
<1>2. \A i \in DOMAIN q : q[i].page = n => i \in DOMAIN p
  BY <1>1 DEF Written
<1>3. A = B /\ B \in SUBSET (1 .. L)
  BY <1>1, <1>2 DEF DoneAlike
<1>4. WrittenBy(done, torn, on, q)[n] = CASE A = {} -> on[n] [] A # {} /\ LastOf(A) \in torn -> Torn [] OTHER -> q[LastOf(A)].to
  BY DEF WrittenBy
<1>5. WrittenBy(first, lost, on, p)[n] = CASE B = {} -> on[n] [] B # {} /\ LastOf(B) \in lost -> Torn [] OTHER -> p[LastOf(B)].to
  BY DEF WrittenBy
<1> HIDE DEF A, B, L
<1>6. B # {} => LastOf(B) \in DOMAIN p
  BY <1>1, <1>3, LastOfPositions
<1>7. CASE B = {}
  BY <1>3, <1>4, <1>5, <1>7
<1>8. CASE B # {}
  <2>1. q[LastOf(B)] = p[LastOf(B)] /\ (LastOf(B) \in torn <=> LastOf(B) \in lost)
    BY <1>1, <1>6, <1>8 DEF DoneAlike
  <2> QED
    BY <1>3, <1>4, <1>5, <1>8, <2>1
<1> QED
  BY <1>7, <1>8

\* The pages that none of more writes is to are as a crash before them leaves them.
LEMMA CrashBefore ==
  ASSUME NEW on \in Files, NEW p \in Seq(Writes), NEW ws \in Seq(Writes), NEW d \in CrashOutcomes(on, p \o ws)
  PROVE  \E b \in CrashOutcomes(on, p) : \A n \in PageNums : n \notin Written(ws) => d[n] = b[n]
<1> DEFINE q == p \o ws
           L == Len(p)
<1>1. /\ L \in Nat /\ DOMAIN p = 1 .. L /\ Len(q) \in Nat /\ L <= Len(q) /\ DOMAIN q = 1 .. Len(q)
      /\ \A i \in DOMAIN p : i \in DOMAIN q /\ q[i] = p[i]
  OBVIOUS
<1>20. PICK from \in Blocks(q) : \E some \in SUBSET CrashBlock(q, from) : \E torn \in SUBSET some :
        d = WrittenBy(1 .. from \cup some, torn, on, q)
  <2> HIDE DEF q
  <2>1. d \in CrashOutcomes(on, q)
    BY DEF q
  <2> QED
    <3>1. CrashIs(on, q, d)
      BY <2>1, CrashKeeps
    <3> QED
      BY <3>1 DEF CrashIs
<1>21. PICK some \in SUBSET CrashBlock(q, from) : \E torn \in SUBSET some : d = WrittenBy(1 .. from \cup some, torn, on, q)
  BY <1>20
<1>2. PICK torn \in SUBSET some : d = WrittenBy(1 .. from \cup some, torn, on, q)
  BY <1>21
<1> HIDE DEF q, L
<1>3. /\ from \in 0 .. Len(q) /\ some \subseteq from + 1 .. Len(q)
      /\ \A i \in some, b \in Blocks(q) : b > from => i < b
      /\ (from = 0 \/ (from \in DOMAIN q /\ IsBarrier(q[from])))
  BY <1>1, <1>2 DEF Blocks, CrashBlock
<1>4. Blocks(p) \subseteq Blocks(q) /\ Blocks(p) \subseteq 0 .. L
  BY <1>1 DEF Blocks
<1>5. ASSUME NEW f \in Blocks(p), NEW r \in SUBSET CrashBlock(p, f), NEW lost \in SUBSET r,
             \A i \in DOMAIN p : (i \in 1 .. from \cup some <=> i \in 1 .. f \cup r) /\ (i \in torn <=> i \in lost)
      PROVE  \E b \in CrashOutcomes(on, p) : \A n \in PageNums : n \notin Written(ws) => d[n] = b[n]
  <2> DEFINE done  == 1 .. from \cup some
             first == 1 .. f \cup r
             b     == WrittenBy(first, lost, on, p)
  <2>1. b \in CrashOutcomes(on, p)
    BY CrashKeeps
  <2>2. done \subseteq DOMAIN q
    BY <1>1, <1>3
  <2>3. first \subseteq DOMAIN p
    <3>1. f \in 0 .. L /\ r \subseteq f + 1 .. L
      BY <1>4 DEF CrashBlock, L
    <3> QED
      BY <1>1, <3>1
  <2>4. DoneAlike(p, done, torn, first, lost)
    BY <1>5, <2>3 DEF DoneAlike
  <2>5. d = WrittenBy(done, torn, on, q)
    BY <1>2
  <2>7. \A e, t, g, l : e \subseteq DOMAIN q /\ DoneAlike(p, e, t, g, l) =>
          \A m \in PageNums : m \notin Written(ws) => WrittenBy(e, t, on, q)[m] = WrittenBy(g, l, on, p)[m]
    BY WrittenAlike DEF q
  <2> HIDE DEF done, first
  <2>6. \A n \in PageNums : n \notin Written(ws) => d[n] = b[n]
    <3> SUFFICES ASSUME NEW n \in PageNums, n \notin Written(ws) PROVE d[n] = b[n]
      OBVIOUS
    <3> HIDE DEF b
    <3>1. WrittenBy(done, torn, on, q)[n] = WrittenBy(first, lost, on, p)[n]
      <4>1. done \subseteq DOMAIN q /\ DoneAlike(p, done, torn, first, lost) =>
              \A m \in PageNums : m \notin Written(ws) => WrittenBy(done, torn, on, q)[m] = WrittenBy(first, lost, on, p)[m]
        BY <2>7
      <4>2. \A m \in PageNums : m \notin Written(ws) => WrittenBy(done, torn, on, q)[m] = WrittenBy(first, lost, on, p)[m]
        BY <2>2, <2>4, <4>1
      <4> QED
        BY <4>2
    <3> QED
      BY <2>5, <3>1 DEF b
  <2> QED
    BY <2>1, <2>6
<1>6. CASE from <= L
  <2> DEFINE r == some \cap (1 .. L)
             lost == torn \cap r
  <2>1. from \in Blocks(p)
    BY <1>1, <1>3, <1>6 DEF Blocks
  <2>2. r \in SUBSET CrashBlock(p, from)
    BY <1>1, <1>3, <1>4, <1>6 DEF CrashBlock, L
  <2>3. \A i \in DOMAIN p : (i \in 1 .. from \cup some <=> i \in 1 .. from \cup r) /\ (i \in torn <=> i \in lost)
    BY <1>1
  <2> HIDE DEF r
  <2>4. lost \in SUBSET r
    OBVIOUS
  <2> HIDE DEF lost
  <2> QED
    BY <1>5, <2>1, <2>2, <2>3, <2>4
<1>7. CASE from > L
  <2>1. PICK f \in Blocks(p) : \A b \in Blocks(p) : b <= f
    <3>1. 0 \in Blocks(p) /\ Blocks(p) \subseteq Nat /\ \A b \in Blocks(p) : b <= L
      BY <1>1, <1>4 DEF Blocks
    <3> QED
      BY <1>1, <3>1, GreatestElement
  <2>2. f \in 0 .. L /\ \A b \in Blocks(p) : b \in 0 .. L /\ ~ (b > f)
    BY <1>1, <1>4, <2>1
  <2> DEFINE r == CrashBlock(p, f)
  <2>3. \A i \in f + 1 .. L : i \in r
    BY <2>2 DEF CrashBlock, L
  <2>4. \A i \in DOMAIN p : i \in 1 .. from \cup some /\ i \in 1 .. f \cup r /\ i \notin torn
    BY <1>1, <1>3, <1>7, <2>2, <2>3
  <2>5. r \in SUBSET CrashBlock(p, f) /\ {} \in SUBSET r
    OBVIOUS
  <2> HIDE DEF r
  <2> DEFINE lost == {}
  <2>6. lost \in SUBSET r /\ \A i \in DOMAIN p : i \notin lost
    OBVIOUS
  <2> HIDE DEF lost
  <2>7. \A i \in DOMAIN p : (i \in 1 .. from \cup some <=> i \in 1 .. f \cup r) /\ (i \in torn <=> i \in lost)
    BY <2>4, <2>6
  <2> QED
    BY <1>5, <2>5, <2>6, <2>7
<1> QED
  BY <1>1, <1>3, <1>6, <1>7

\* What is written after a barrier is not done unless what is written before it
\* is.
LEMMA BarrierKeeps ==
  ASSUME NEW on \in Files, NEW p \in Seq(Writes), NEW v \in Writes, NEW w \in Writes,
         v.page \in PageNums, w.page \in PageNums, v.page # w.page, v.page \notin Written(p), w.page \notin Written(p),
         NEW d \in CrashOutcomes(on, p \o <<v, Barrier, w>>)
  PROVE  d[w.page] = on[w.page] \/ d[v.page] = v.to
<1> SUFFICES ASSUME d[w.page] # on[w.page] PROVE d[v.page] = v.to
  OBVIOUS
<1> DEFINE ws == <<v, Barrier, w>>
           q  == p \o ws
           L  == Len(p)
<1>1. Barrier \in Writes /\ Barrier.page = -1 /\ IsBarrier(Barrier)
  BY MadePages DEF Barrier, Writes, IsBarrier
<1>2. /\ L \in Nat /\ DOMAIN p = 1 .. L /\ DOMAIN q = 1 .. L + 3 /\ Len(q) = L + 3
      /\ \A i \in DOMAIN p : q[i] = p[i]
      /\ q[L + 1] = v /\ q[L + 2] = Barrier /\ q[L + 3] = w
  BY <1>1
<1>20. PICK from \in Blocks(q) : \E some \in SUBSET CrashBlock(q, from) : \E torn \in SUBSET some :
        d = WrittenBy(1 .. from \cup some, torn, on, q)
  <2>1. d \in CrashOutcomes(on, q)
    OBVIOUS
  <2> HIDE DEF q
  <2> QED
    <3>1. CrashIs(on, q, d)
      BY <2>1, CrashKeeps
    <3> QED
      BY <3>1 DEF CrashIs
<1>21. PICK some \in SUBSET CrashBlock(q, from) : \E torn \in SUBSET some : d = WrittenBy(1 .. from \cup some, torn, on, q)
  BY <1>20
<1>3. PICK torn \in SUBSET some : d = WrittenBy(1 .. from \cup some, torn, on, q)
  BY <1>21
<1> HIDE DEF q, ws, L
<1> DEFINE done  == 1 .. from \cup some
           to(n) == {i \in done : q[i].page = n}
<1>4. w.page # -1 /\ v.page # -1 /\ w.page \in Nat /\ v.page \in Nat
  BY StorageAssumption DEF PageNums
<1>5. /\ from \in 0 .. L + 3 /\ some \subseteq from + 1 .. L + 3
      /\ \A i \in some, b \in Blocks(q) : b > from => i < b
      /\ (from = 0 \/ IsBarrier(q[from]))
  BY <1>2, <1>3 DEF Blocks, CrashBlock
<1>6. from # L + 3 /\ L + 2 \in Blocks(q)
  <2>1. ~ IsBarrier(w) /\ L + 2 \in DOMAIN q
    BY <1>2, <1>4 DEF IsBarrier
  <2> QED
    BY <1>1, <1>2, <1>5, <2>1 DEF Blocks
<1>7. L + 3 \in done
  <2> SUFFICES ASSUME L + 3 \notin done PROVE FALSE
    OBVIOUS
  <2>1. ASSUME NEW i \in done PROVE q[i].page # w.page
    <3>1. i \in 1 .. L + 3 /\ i # L + 3
      BY <1>2, <1>5
    <3>2. i \in DOMAIN p \/ i = L + 1 \/ i = L + 2
      BY <1>2, <3>1
    <3> QED
      BY <1>1, <1>2, <1>4, <3>2 DEF Written
  <2>2. to(w.page) = {}
    BY <2>1
  <2> HIDE DEF done
  <2> QED
    BY <1>3, <2>2 DEF WrittenBy, done
<1>8. L + 3 \in some
  BY <1>2, <1>5, <1>6, <1>7
<1>9. from >= L + 2
  BY <1>2, <1>5, <1>6, <1>8
<1>10. L + 1 \in done /\ L + 1 \notin torn
  BY <1>2, <1>3, <1>5, <1>9
<1>11. \A i \in done : q[i].page = v.page => i = L + 1
  <2> SUFFICES ASSUME NEW i \in done, q[i].page = v.page, i # L + 1 PROVE FALSE
    OBVIOUS
  <2>1. i \in 1 .. L + 3
    BY <1>2, <1>5
  <2>2. i \in DOMAIN p \/ i = L + 2 \/ i = L + 3
    BY <1>2, <2>1
  <2> QED
    BY <1>1, <1>2, <1>4, <2>2 DEF Written
<1>12. to(v.page) = {L + 1}
  BY <1>2, <1>10, <1>11
<1>13. LastOf({L + 1}) = L + 1
  <2> DEFINE m == L + 1
  <2>1. m \in Int /\ {m} \in SUBSET Int /\ m \in {m} /\ \A j \in {m} : j <= m
    BY <1>2
  <2> HIDE DEF m
  <2>2. LastOf({m}) = m
    BY <2>1, LastOfPositions
  <2> QED
    BY <2>2 DEF m
<1>14. d[v.page] = CASE to(v.page) = {} -> on[v.page]
                     [] to(v.page) # {} /\ LastOf(to(v.page)) \in torn -> Torn
                     [] OTHER -> q[LastOf(to(v.page))].to
  <2> HIDE DEF done
  <2> QED
    BY <1>3 DEF WrittenBy, done
<1> HIDE DEF to, done
<1>15. to(v.page) # {} /\ LastOf(to(v.page)) = L + 1
  BY <1>12, <1>13
<1> QED
  BY <1>2, <1>10, <1>14, <1>15

\* Between the same, and between nothing and anything.
LEMMA BetweenSome ==
  ASSUME NEW x \in Seq(Nat), NEW b
  PROVE  /\ Between(b, b)
         /\ b.content \in Seq(Nat) => Between(Piece(<<>>, 0), b)
         /\ b.content \in Seq(Nat) /\ Begins(x, b.content) => Between(Piece(x, 0), b)
BY BeginsWith DEF Between, Piece

\* A page that is not on disk.
LEMMA MissingPiece ==
  ASSUME NEW file, NEW info, NEW n, ~ IsData(file[n]), ~ (IsData(file[info.blit]) /\ file[info.blit].next = n)
  PROVE  PieceAt(file, info, NoChunk, n) = Piece(<<>>, 0)
<1>1. ~ IsChunk(NoChunk)
  BY DEF NoChunk, Chunk, IsChunk
<1> QED
  BY <1>1 DEF PieceAt, BlitFor

\* Without a write to it a page is as on disk.
LEMMA PageUnwritten ==
  ASSUME NEW on \in Files, NEW p \in Seq(Writes), NEW n \in PageNums, n \notin Written(p)
  PROVE  /\ FileOf(on, p)[n] = on[n]
         /\ \A d \in CrashOutcomes(on, p) : d[n] = on[n]
<1>1. \A i \in DOMAIN p : p[i].page # n
  BY DEF Written
<1>2. FileOf(on, p)[n] = on[n]
  BY <1>1 DEF FileOf, WrittenBy
<1> QED
  BY <1>1, <1>2, CrashedFile

\* A blit page that is for another page is so after a crash.
LEMMA NotHeld ==
  ASSUME NEW on \in Files, NEW p \in Seq(Writes), NEW b \in PageNums, NEW n, ~ HeldFor(on, p, b, n)
  PROVE  /\ ~ (IsData(on[b]) /\ on[b].next = n)
         /\ \A d \in CrashOutcomes(on, p) : ~ (IsData(d[b]) /\ d[b].next = n)
<1>1. MayHold(on, p, b, on[b])
  BY DEF MayHold
<1>2. ASSUME NEW d \in CrashOutcomes(on, p) PROVE ~ (IsData(d[b]) /\ d[b].next = n)
  <2>1. d[b] = Torn \/ MayHold(on, p, b, d[b])
    BY CrashedFile
  <2>2. ~ IsData(Torn)
    BY DEF IsData, Torn
  <2> QED
    BY <2>1, <2>2 DEF HeldFor
<1> QED
  BY <1>1, <1>2 DEF HeldFor

\* The pages of a kind that nothing is written to survive, those that were written
\* as they are.
LEMMA IdleSurvives ==
  ASSUME NEW e \in Engines, NEW on \in Files, NEW p \in Seq(Writes), NEW owner, Reaches(owner, e, FileOf(on, p)),
         NEW k \in Known(e.info), KindKept(owner, on, p, k, e.chunks[k]), Idle(owner, p, k)
  PROVE  /\ KindSurvives(owner, e, on, p, k)
         /\ (IsChunk(e.chunks[k]) => ~ Fresh(e.chunks[k]) /\ ~ e.chunks[k].dirty) =>
              \A n \in OfKind(owner, k) : PieceAt(on, e.info[k], NoChunk, n) = PieceAt(FileOf(on, p), e.info[k], e.chunks[k], n)
<1> DEFINE S    == OfKind(owner, k)
           i    == e.info[k]
           c    == e.chunks[k]
           file == FileOf(on, p)
<1>1. /\ k \in Kinds /\ i \in KindInfos /\ c \in Chunks /\ c.page.content \in Seq(Nat)
      /\ S \subseteq DOMAIN owner /\ S \subseteq PageNums /\ i.blit \in DOMAIN owner /\ i.blit \in PageNums
      /\ owner[i.blit].kind = k /\ \A n \in S : owner[n].kind = k
      /\ IsChunk(c) => /\ c.cur \in S /\ c.blit = i.blit /\ c.page.next \in {0, c.cur} /\ (c.toBlit => c.page.next = 0)
  BY KindPages DEF KindInfos
<1>2. \A n \in S \cup {i.blit} : n \in PageNums /\ n \notin Written(p)
  BY <1>1 DEF Idle
<1>3. \A n \in S \cup {i.blit} : file[n] = on[n] /\ \A d \in CrashOutcomes(on, p) : d[n] = on[n]
  BY <1>2, PageUnwritten
<1>4. \A d \in CrashOutcomes(on, p) : d \in Files
  BY CrashedFile
<1>5. /\ IsChunk(c) /\ Fresh(c) => NotOnDisk(on, p, c)
      /\ IsChunk(c) /\ ~ Fresh(c) => OnDisk(on, c)
  BY DEF KindKept
<1> HIDE DEF S, i, c, file
<1>6. ASSUME NEW n \in S, NEW d \in CrashOutcomes(on, p) PROVE PieceAt(d, i, NoChunk, n) = PieceAt(on, i, NoChunk, n)
  BY <1>3, PiecesSame
<1>7. ASSUME NEW n \in S, ~ IsChunk(c) \/ n # c.cur PROVE PieceAt(file, i, c, n) = PieceAt(on, i, NoChunk, n)
  <2>1. PieceAt(file, i, c, n) = PieceAt(file, i, NoChunk, n)
    BY <1>7, PiecesSame
  <2>2. PieceAt(file, i, NoChunk, n) = PieceAt(on, i, NoChunk, n)
    BY <1>3, PiecesSame
  <2> QED
    BY <2>1, <2>2
<1>8. ASSUME IsChunk(c)
      PROVE  LET a == PieceAt(on, i, NoChunk, c.cur)
                 b == PieceAt(file, i, c, c.cur)
             IN  Between(a, b) /\ (~ Fresh(c) /\ ~ c.dirty => a = b)
  <2>1. PieceAt(file, i, c, c.cur) = Piece(c.page.content, 0)
    BY <1>8, PiecesSame
  <2>2. Piece(c.page.content, 0).content = c.page.content
    BY DEF Piece
  <2>3. CASE Fresh(c)
    <3>1. ~ IsData(on[c.cur]) /\ ~ HeldFor(on, p, i.blit, c.cur)
      BY <1>1, <1>5, <1>8, <2>3 DEF NotOnDisk
    <3>2. PieceAt(on, i, NoChunk, c.cur) = Piece(<<>>, 0)
      BY <1>1, <3>1, NotHeld, MissingPiece
    <3> QED
      BY <1>1, <2>1, <2>2, <2>3, <3>2, BetweenSome
  <2>4. CASE ~ Fresh(c)
    <3> DEFINE a == PieceAt(on, i, NoChunk, c.cur)
    <3>1. Writing(on, on, c)
      BY DEF Writing
    <3>2. a = Piece(a.content, 0) /\ Begins(a.content, c.page.content) /\ (~ c.dirty => a.content = c.page.content)
      BY <1>1, <1>5, <1>8, <2>4, <3>1, LastPiece
    <3>3. a.content \in Seq(Nat)
      <4>1. a \in PieceSet
        <5>1. NoChunk \in Chunks /\ c.cur \in PageNums
          BY <1>1, <1>8, MadePages
        <5> QED
          BY <1>1, <5>1, PieceTypes
      <4> QED
        BY <4>1 DEF PieceSet
    <3> HIDE DEF a
    <3>4. Between(a, Piece(c.page.content, 0))
      BY <1>1, <2>2, <3>2, <3>3, BetweenSome
    <3> QED
      BY <2>1, <3>2, <3>4 DEF a
  <2> QED
    BY <2>3, <2>4
<1>9. ASSUME NEW n \in S PROVE Between(PieceAt(on, i, NoChunk, n), PieceAt(file, i, c, n))
  <2>1. \A b : Between(b, b)
    BY DEF Between
  <2> QED
    BY <1>7, <1>8, <2>1
<1>10. ASSUME NEW n \in S PROVE PieceSurvives(on, p, i, c, n)
  <2>1. \A b : Between(b, b)
    BY DEF Between
  <2> QED
    BY <1>6, <1>9, <2>1 DEF PieceSurvives, file
<1>11. ASSUME IsChunk(c) => ~ Fresh(c) /\ ~ c.dirty, NEW n \in S
       PROVE  PieceAt(on, i, NoChunk, n) = PieceAt(file, i, c, n)
  BY <1>7, <1>8, <1>11
<1> QED
  BY <1>10, <1>11 DEF KindSurvives, S, i, c, file

\* An item that is added in memory changes nothing of what survives.
LEMMA ItemSurvives ==
  ASSUME NEW e \in Engines, NEW on \in Files, NEW p \in Seq(Writes), NEW owner, Reaches(owner, e, FileOf(on, p)),
         NEW k \in Kinds, NEW x \in Nat, IsChunk(e.chunks[k])
  PROVE  LET f == WithItem(e, k, x) IN
         /\ Kept(owner, e, on, p) => Kept(owner, f, on, p)
         /\ \A j \in Known(e.info) : KindSurvives(owner, e, on, p, j) => KindSurvives(owner, f, on, p, j)
<1> DEFINE f == WithItem(e, k, x)
           c == e.chunks[k]
           b == f.chunks[k]
<1>1. /\ f.info = e.info /\ (\A j \in Kinds \ {k} : f.chunks[j] = e.chunks[j])
      /\ b.cur = c.cur /\ b.blit = c.blit /\ b.toBlit = c.toBlit /\ b.page.next = c.page.next
  BY ItemAdded
<1>2. c \in Chunks /\ c.page \in DataPageSet /\ c.page.content \in Seq(Nat)
  BY DEF Engines, Chunks, DataPageSet
<1>3. b.page.status = c.page.status /\ b.page.content = Append(c.page.content, x) /\ b.dirty
  <2> DEFINE q == [c.page EXCEPT !.content = Append(@, x)]
  <2>1. f = [e EXCEPT !.chunks[k].page.content = Append(@, x), !.chunks[k].dirty = TRUE]
    BY DEF WithItem
  <2>2. b = [c EXCEPT !.page = q, !.dirty = TRUE]
    BY <2>1 DEF Engines, Chunks
  <2>3. q.status = c.page.status /\ q.content = Append(c.page.content, x)
    BY <1>2 DEF DataPageSet
  <2> HIDE DEF q, c, f
  <2>4. b.page = q /\ b.dirty
    BY <1>2, <2>2 DEF Chunks
  <2> QED
    BY <2>3, <2>4
<1>4. Append(c.page.content, x) = c.page.content \o <<x>> /\ <<x>> \in Seq(Nat)
  <2>1. \A s \in Seq(Nat) : Append(s, x) = s \o <<x>>
    <3> HIDE DEF c, f, b
    <3> SUFFICES ASSUME NEW s \in Seq(Nat) PROVE Append(s, x) = s \o <<x>>
      OBVIOUS
    <3> QED
      OBVIOUS
  <2>2. <<x>> \in Seq(Nat)
    OBVIOUS
  <2> HIDE DEF c, f, b
  <2> QED
    BY <1>2, <2>1, <2>2
<1>5. \A s \in Seq(Nat) : Begins(s, c.page.content) => Begins(s, b.page.content)
  <2>1. \A r, s, t \in Seq(Nat) : Begins(r, s) => Begins(r, s \o t)
    BY BeginsWith
  <2> HIDE DEF c, f, b
  <2> QED
    BY <1>2, <1>3, <1>4, <2>1
<1>6. k \in Known(e.info) /\ c.blit = e.info[k].blit /\ c.cur \in PageNums
  <2>1. k \in Known(e.info) /\ c.blit = e.info[k].blit
    BY DEF Reaches, Owned, ChunkOwned
  <2> QED
    BY <1>2, <2>1 DEF Chunks
<1> HIDE DEF c, f, b
<1>7. ASSUME KindKept(owner, on, p, k, c) PROVE KindKept(owner, on, p, k, b)
  <2>1. IsChunk(b) = IsChunk(c) /\ Fresh(b) = Fresh(c)
    BY <1>1 DEF IsChunk, Fresh
  <2>2. NotOnDisk(on, p, c) => NotOnDisk(on, p, b)
    BY <1>1 DEF NotOnDisk
  <2>3. ASSUME OnDisk(on, c) PROVE OnDisk(on, b)
    <3> DEFINE at == IF c.toBlit THEN on[c.cur] ELSE on[c.blit]
    <3>1. IsData(at) /\ Begins(at.content, c.page.content)
      BY <2>3 DEF OnDisk
    <3>2. at \in Pages
      BY <1>2 DEF Files, Chunks
    <3>3. at.content \in Seq(Nat)
      BY <3>1, <3>2, PageTypes DEF DataPageSet
    <3>4. Begins(at.content, b.page.content)
      BY <1>5, <3>1, <3>3
    <3> QED
      BY <1>1, <1>3, <2>3, <3>4 DEF OnDisk
  <2> QED
    BY <1>7, <2>1, <2>2, <2>3 DEF KindKept
<1>8. ASSUME Kept(owner, e, on, p) PROVE Kept(owner, f, on, p)
  <2> SUFFICES ASSUME NEW j \in Known(e.info) PROVE KindKept(owner, on, p, j, f.chunks[j])
    BY <1>1 DEF Kept
  <2>1. KindKept(owner, on, p, j, e.chunks[j])
    BY <1>8 DEF Kept
  <2>2. CASE j = k
    BY <1>7, <2>1, <2>2 DEF b, c
  <2>3. CASE j # k
    BY <1>1, <2>1, <2>3 DEF Known
  <2> QED
    BY <2>2, <2>3
<1>9. ASSUME NEW n, n \in OfKind(owner, k), PieceSurvives(on, p, e.info[k], c, n)
      PROVE  PieceSurvives(on, p, e.info[k], b, n)
  <2> DEFINE info == e.info[k]
             file == FileOf(on, p)
  <2>1. CASE n # c.cur
    <3>1. PieceAt(file, info, b, n) = PieceAt(file, info, c, n)
      <4>1. n # b.cur
        BY <1>1, <2>1
      <4>2. PieceAt(file, info, b, n) = PieceAt(file, info, NoChunk, n) /\ PieceAt(file, info, c, n) = PieceAt(file, info, NoChunk, n)
        BY <2>1, <4>1, PiecesSame
      <4> QED
        BY <4>2
    <3> QED
      BY <1>9, <3>1 DEF PieceSurvives
  <2>2. CASE n = c.cur
    <3> SUFFICES ASSUME NEW d \in CrashOutcomes(on, p)
                 PROVE  /\ Between(PieceAt(on, info, NoChunk, n), PieceAt(d, info, NoChunk, n))
                        /\ Between(PieceAt(d, info, NoChunk, n), PieceAt(file, info, b, n))
      BY DEF PieceSurvives
    <3> DEFINE a == PieceAt(d, info, NoChunk, n)
    <3>1. Between(PieceAt(on, info, NoChunk, n), a) /\ Between(a, PieceAt(file, info, c, n))
      BY <1>9 DEF PieceSurvives
    <3>2. PieceAt(file, info, c, n) = Piece(c.page.content, 0) /\ PieceAt(file, info, b, n) = Piece(b.page.content, 0)
      <4>1. IsChunk(c) /\ IsChunk(b) /\ n = b.cur
        BY <1>1, <2>2 DEF IsChunk, c
      <4> HIDE DEF file, info
      <4>2. PieceAt(file, info, c, n) = Piece(c.page.content, 0)
        BY <2>2, <4>1 DEF PieceAt
      <4>3. PieceAt(file, info, b, n) = Piece(b.page.content, 0)
        BY <4>1, PiecesSame
      <4> QED
        BY <4>2, <4>3
    <3>3. a.content \in Seq(Nat)
      <4>1. d \in Files /\ NoChunk \in Chunks /\ n \in PageNums /\ info \in KindInfos
        BY <1>6, <2>2, CrashedFile, MadePages DEF Engines, Infos, KindInfos, Known
      <4>2. a \in PieceSet
        BY <4>1, PieceTypes
      <4> QED
        BY <4>2 DEF PieceSet
    <3> HIDE DEF a
    <3>4. a.next = 0 /\ Begins(a.content, c.page.content)
      <4>1. Piece(c.page.content, 0).next = 0 /\ Piece(c.page.content, 0).content = c.page.content
        BY DEF Piece
      <4>2. Between(a, Piece(c.page.content, 0))
        BY <3>1, <3>2
      <4>3. Begins(c.page.content, c.page.content)
        BY <1>2, BeginsWith
      <4> QED
        BY <4>1, <4>2, <4>3 DEF Between
    <3>5. Begins(a.content, b.page.content)
      BY <1>5, <3>3, <3>4
    <3>6. Between(a, Piece(b.page.content, 0))
      BY <3>4, <3>5 DEF Between, Piece
    <3> QED
      BY <3>1, <3>2, <3>6 DEF a
  <2> QED
    BY <2>1, <2>2
<1>10. ASSUME NEW j \in Known(e.info), KindSurvives(owner, e, on, p, j) PROVE KindSurvives(owner, f, on, p, j)
  <2>1. CASE j = k
    BY <1>1, <1>9, <1>10, <2>1 DEF KindSurvives, b, c
  <2>2. CASE j # k
    BY <1>1, <1>10, <2>2 DEF KindSurvives, Known
  <2> QED
    BY <2>1, <2>2
<1> QED
  BY <1>8, <1>10 DEF f

\* A page that only later writes are to is torn, as it was or as one of them makes it.
LEMMA CrashedPage ==
  ASSUME NEW on \in Files, NEW p \in Seq(Writes), NEW ws \in Seq(Writes), NEW d \in CrashOutcomes(on, p \o ws),
         NEW n \in PageNums, n \notin Written(p)
  PROVE  d[n] = Torn \/ d[n] = on[n] \/ \E i \in DOMAIN ws : ws[i].page = n /\ d[n] = ws[i].to
<1>1. p \o ws \in Seq(Writes)
  OBVIOUS
<1>2. d[n] = Torn \/ MayHold(on, p \o ws, n, d[n])
  BY <1>1, CrashedFile
<1>3. ASSUME MayHold(on, p \o ws, n, d[n]) PROVE d[n] = on[n] \/ \E i \in DOMAIN ws : ws[i].page = n /\ d[n] = ws[i].to
  <2>1. MayHold(on, p, n, d[n]) \/ \E i \in DOMAIN ws : ws[i].page = n /\ d[n] = ws[i].to
    BY <1>3, MoreMayHold
  <2>2. MayHold(on, p, n, d[n]) => d[n] = on[n]
    BY DEF MayHold, Written
  <2> QED
    BY <2>1, <2>2
<1> QED
  BY <1>2, <1>3

\* The writes of a page that is full.
LEMMA FullPageWrites ==
  ASSUME NEW c \in Chunks, NEW next \in PageNums
  PROVE  LET x == c.page.content
             s == c.page.status
         IN  /\ c.toBlit => FinalWrites(c, next) = <<Write(c.blit, Data(c.cur, Rolled(s), x)), Barrier,
                                                       Write(c.cur, Data(next, Rolled(Rolled(s)), x))>>
             /\ ~ c.toBlit => FinalWrites(c, next) = <<Write(c.cur, Data(next, Rolled(s), x))>>
<1>1. ASSUME c.toBlit
      PROVE  FinalWrites(c, next) = <<Write(c.blit, Data(c.cur, Rolled(c.page.status), c.page.content)), Barrier,
                                      Write(c.cur, Data(next, Rolled(Rolled(c.page.status)), c.page.content))>>
  <2> DEFINE one == WritePage(c, next)
             q == Data(c.cur, Rolled(c.page.status), c.page.content)
  <2>1. one.write = Write(c.blit, q) /\ one.chunk = [c EXCEPT !.dirty = FALSE, !.page = q, !.toBlit = ~ @]
    BY <1>1 DEF WritePage
  <2>2. one.chunk.page = q /\ ~ one.chunk.toBlit /\ one.chunk.cur = c.cur
    BY <1>1, <2>1 DEF Chunks
  <2>3. q.status = Rolled(c.page.status) /\ q.content = c.page.content
    BY DEF Data
  <2> HIDE DEF q
  <2>4. WritePage(one.chunk, next).write = Write(c.cur, Data(next, Rolled(Rolled(c.page.status)), c.page.content))
    <3> HIDE DEF one
    <3> QED
      BY <2>2, <2>3 DEF WritePage
  <2>5. FinalWrites(c, next) = <<one.write, Barrier, WritePage(one.chunk, next).write>>
    BY <1>1 DEF FinalWrites
  <2> HIDE DEF one
  <2> QED
    BY <2>1, <2>4, <2>5 DEF q
<1>2. ASSUME ~ c.toBlit PROVE FinalWrites(c, next) = <<Write(c.cur, Data(next, Rolled(c.page.status), c.page.content))>>
  <2>1. WritePage(c, next).write = Write(c.cur, Data(next, Rolled(c.page.status), c.page.content))
    BY <1>2 DEF WritePage
  <2> QED
    BY <1>2, <2>1 DEF FinalWrites
<1> QED
  BY <1>1, <1>2

\* The last page, when it is written with its next one.
LEMMA NextPiece ==
  ASSUME NEW on \in Files, NEW p \in Seq(Writes), NEW i \in KindInfos, NEW c \in Chunks, IsChunk(c), c.blit = i.blit, c.cur # c.blit,
         c.page.next = 0, c.cur \notin Written(p), c.toBlit => c.blit \notin Written(p) /\ OnDisk(on, c), ~ c.toBlit => NotOnDisk(on, p, c),
         NEW next \in PageNums, next # 0, NEW d \in CrashOutcomes(on, p \o FinalWrites(c, next))
  PROVE  /\ Between(PieceAt(on, i, NoChunk, c.cur), PieceAt(d, i, NoChunk, c.cur))
         /\ Between(PieceAt(d, i, NoChunk, c.cur), Piece(c.page.content, next))
<1> DEFINE x == c.page.content
           s == c.page.status
           ws == FinalWrites(c, next)
           a == PieceAt(on, i, NoChunk, c.cur)
           b == PieceAt(d, i, NoChunk, c.cur)
<1>1. /\ c.cur \in PageNums /\ c.blit \in PageNums /\ c.page \in DataPageSet /\ x \in Seq(Nat) /\ s \in 0 .. 2 /\ NoChunk \in Chunks
      /\ Rolled(s) \in 0 .. 2 /\ Rolled(Rolled(s)) \in 0 .. 2
  BY MadePages DEF Chunks, DataPageSet, Rolled
<1>2. ws \in Seq(Writes)
  BY WritesOfFullPage
<1>3. p \o ws \in Seq(Writes) /\ d \in Files
  <2> HIDE DEF ws
  <2>1. p \o ws \in Seq(Writes)
    BY <1>2
  <2>2. d \in CrashOutcomes(on, p \o ws)
    BY DEF ws
  <2> QED
    BY <2>1, <2>2, CrashedFile
<1>4. a \in PieceSet /\ b \in PieceSet
  BY <1>1, <1>3, PieceTypes
<1>5. ~ IsChunk(NoChunk)
  BY DEF IsChunk, NoChunk, Chunk
<1>6. Piece(x, 0) \in PieceSet /\ Piece(x, next) \in PieceSet /\ Between(Piece(x, 0), Piece(x, next))
  <2>1. Begins(x, x)
    BY <1>1, BeginsWith
  <2> HIDE DEF x
  <2> QED
    BY <1>1, <2>1, MadePages DEF Between, Piece, PieceSet
<1>7. CASE c.toBlit
  <2> DEFINE v == Data(c.cur, Rolled(s), x)
             w == Data(next, Rolled(Rolled(s)), x)
  <2>1. ws = <<Write(c.blit, v), Barrier, Write(c.cur, w)>>
    BY <1>7, FullPageWrites
  <2>2. v \in Pages /\ w \in Pages /\ IsData(v) /\ v.next = c.cur /\ v.status = Rolled(s) /\ v.content = x
          /\ IsData(w) /\ w.next = next /\ w.content = x
    <3>1. v \in Pages /\ w \in Pages
      BY <1>1, MadePages
    <3> QED
      BY <3>1 DEF Data, IsData
  <2> HIDE DEF v, w, x, s
  <2>3. Write(c.blit, v) \in Writes /\ Write(c.cur, w) \in Writes
    BY <1>1, <2>2 DEF Write, Writes, PageNums
  <2>4. d[c.cur] = on[c.cur] \/ d[c.blit] = v
    <3>1. Write(c.blit, v).page = c.blit /\ Write(c.cur, w).page = c.cur /\ Write(c.blit, v).to = v
      BY DEF Write
    <3>2. d \in CrashOutcomes(on, p \o <<Write(c.blit, v), Barrier, Write(c.cur, w)>>)
      BY <2>1
    <3> QED
      BY <1>1, <1>7, <2>3, <3>1, <3>2, BarrierKeeps
  <2>5. d[c.cur] = Torn \/ d[c.cur] = on[c.cur] \/ d[c.cur] = w
    <3>1. \A j \in DOMAIN ws : ws[j].page = c.cur => ws[j].to = w
      BY <1>1, <2>1 DEF Write, Barrier, PageNums
    <3> QED
      BY <1>1, <1>2, <3>1, CrashedPage
  <2>6. d[c.blit] = Torn \/ d[c.blit] = on[c.blit] \/ d[c.blit] = v
    <3>1. \A j \in DOMAIN ws : ws[j].page = c.blit => ws[j].to = v
      BY <1>1, <2>1 DEF Write, Barrier, PageNums
    <3> QED
      <4>1. c.blit \notin Written(p)
        BY <1>7
      <4> HIDE DEF ws
      <4>2. d \in CrashOutcomes(on, p \o ws)
        BY DEF ws
      <4>3. d[c.blit] = Torn \/ d[c.blit] = on[c.blit] \/ \E j \in DOMAIN ws : ws[j].page = c.blit /\ d[c.blit] = ws[j].to
        BY <1>1, <1>2, <4>1, <4>2, CrashedPage
      <4> QED
        BY <3>1, <4>3
  <2>7. /\ IsData(on[c.cur]) /\ on[c.cur].next = 0 /\ on[c.cur].status = s /\ Begins(on[c.cur].content, x)
        /\ ~ (IsData(on[c.blit]) /\ on[c.blit].next = c.cur /\ Further(on[c.blit].status, s))
    BY <1>7 DEF OnDisk, s, x
  <2>8. ~ IsData(Torn)
    BY DEF IsData, Torn
  <2>9. a = Piece(on[c.cur].content, 0)
    <3>1. ~ Continues(on, c.cur)
      BY <2>7 DEF Continues
    <3>2. a.content = on[c.cur].content /\ a.next = 0 /\ a = Piece(a.content, a.next)
      <4> HIDE DEF a
      <4> QED
        BY <1>5, <2>7, <3>1, PieceCases DEF a
    <3> QED
      BY <3>2
  <2>10. Between(a, Piece(x, 0)) /\ Between(a, Piece(x, next))
    BY <2>7, <2>9 DEF Between, Piece
  <2>11. CASE d[c.cur] = w
    <3>1. Continues(d, c.cur)
      BY <2>2, <2>11 DEF Continues
    <3>2. b = Piece(d[c.cur].content, d[c.cur].next)
      BY <1>5, <3>1, PiecesSame
    <3>3. b = Piece(x, next)
      BY <2>2, <2>11, <3>2
    <3> HIDE DEF a, b
    <3>4. Between(b, Piece(x, next))
      BY <3>3 DEF Between
    <3> QED
      BY <2>10, <3>3, <3>4 DEF a, b, x
  <2>12. CASE d[c.cur] # w /\ d[c.blit] = v
    <3>1. ~ Continues(d, c.cur) /\ (IsData(d[c.cur]) => d[c.cur].next = 0 /\ d[c.cur].status = s)
      BY <2>5, <2>7, <2>8, <2>12 DEF Continues
    <3>2. IsData(d[i.blit]) /\ d[i.blit].next = c.cur /\ d[i.blit].content = x /\ d[i.blit].status = Rolled(s)
      BY <2>2, <2>12
    <3>3. IsData(d[c.cur]) => Further(d[i.blit].status, d[c.cur].status)
      BY <3>1, <3>2 DEF Further
    <3>4. b.content = x /\ b.next = 0 /\ b = Piece(b.content, b.next)
      <4> HIDE DEF b
      <4>1. IsData(d[c.cur]) => b.content = d[i.blit].content
        BY <1>5, <3>1, <3>2, <3>3, PieceCases DEF b
      <4>2. ~ IsData(d[c.cur]) => b.content = d[i.blit].content
        BY <1>5, <3>1, <3>2, PieceCases DEF b
      <4>3. b.next = 0 /\ b = Piece(b.content, b.next)
        BY <1>5, <3>1, PieceCases DEF b
      <4> QED
        BY <3>2, <4>1, <4>2, <4>3
    <3>5. b = Piece(x, 0)
      BY <3>4
    <3> HIDE DEF a, b
    <3>6. Between(Piece(x, 0), Piece(x, next))
      BY <1>6 DEF x
    <3> QED
      BY <2>10, <3>5, <3>6 DEF a, b, x
  <2>13. CASE d[c.cur] # w /\ d[c.blit] # v
    <3>1. d[c.cur] = on[c.cur]
      BY <2>4, <2>13
    <3>2. b = a
      <4>1. CASE d[c.blit] = on[c.blit]
        BY <3>1, <4>1, PiecesSame
      <4>2. CASE d[c.blit] = Torn
        <5>1. ~ Continues(d, c.cur) /\ IsData(d[c.cur]) /\ d[c.cur].next = 0 /\ ~ IsData(d[i.blit])
          BY <2>7, <2>8, <3>1, <4>2 DEF Continues
        <5>2. b.content = d[c.cur].content /\ b.next = 0 /\ b = Piece(b.content, b.next)
          <6> HIDE DEF b
          <6> QED
            BY <1>5, <5>1, PieceCases DEF b
        <5> QED
          BY <2>9, <3>1, <5>2
      <4> QED
        BY <2>6, <2>13, <4>1, <4>2
    <3>3. Between(a, a)
      BY DEF Between
    <3> HIDE DEF a, b
    <3> QED
      BY <2>10, <3>2, <3>3 DEF a, b, x
  <2> QED
    BY <2>11, <2>12, <2>13
<1>8. CASE ~ c.toBlit
  <2> DEFINE w == Data(next, Rolled(s), x)
  <2>1. ws = <<Write(c.cur, w)>>
    BY <1>8, FullPageWrites
  <2>2. IsData(w) /\ w.next = next /\ w.content = x
    BY DEF Data, IsData
  <2> HIDE DEF w, x
  <2>3. d[c.cur] = Torn \/ d[c.cur] = on[c.cur] \/ d[c.cur] = w
    <3>1. \A j \in DOMAIN ws : ws[j].page = c.cur => ws[j].to = w
      BY <2>1 DEF Write
    <3> QED
      BY <1>1, <1>2, <3>1, CrashedPage
  <2>4. ~ HeldFor(on, p \o ws, c.blit, c.cur)
    <3>1. ~ HeldFor(on, p, c.blit, c.cur)
      BY <1>8 DEF NotOnDisk
    <3>2. \A j \in DOMAIN ws : ws[j].page # c.blit
      BY <2>1 DEF Write
    <3> QED
      BY <1>2, <3>1, <3>2, WrittenMore
  <2>5. ~ (IsData(on[c.blit]) /\ on[c.blit].next = c.cur) /\ ~ (IsData(d[c.blit]) /\ d[c.blit].next = c.cur)
    BY <1>1, <1>3, <2>4, NotHeld
  <2>6. ~ IsData(on[c.cur])
    BY <1>8 DEF NotOnDisk
  <2>7. a = Piece(<<>>, 0)
    BY <2>5, <2>6, MissingPiece
  <2>8. CASE d[c.cur] = w
    <3>1. Continues(d, c.cur)
      BY <2>2, <2>8 DEF Continues
    <3>2. b = Piece(d[c.cur].content, d[c.cur].next)
      BY <1>5, <3>1, PiecesSame
    <3>3. b = Piece(x, next)
      BY <2>2, <2>8, <3>2
    <3>4. Piece(x, next).content = x
      BY DEF Piece
    <3> HIDE DEF a, b
    <3>5. Between(b, b)
      BY DEF Between
    <3>6. Between(Piece(<<>>, 0), b)
      BY <1>1, <3>3, <3>4, BetweenSome DEF x
    <3> QED
      BY <2>7, <3>3, <3>5, <3>6 DEF a, b, x
  <2>9. CASE d[c.cur] # w
    <3>1. ~ IsData(d[c.cur])
      BY <2>3, <2>6, <2>9 DEF IsData, Torn
    <3>2. b = Piece(<<>>, 0)
      BY <2>5, <3>1, MissingPiece
    <3>3. Piece(x, next).content = x
      BY DEF Piece
    <3>4. Between(Piece(<<>>, 0), Piece(x, next))
      BY <1>1, <3>3, BetweenSome DEF x
    <3>5. Between(a, b)
      BY <2>7, <3>2 DEF Between
    <3> HIDE DEF a, b
    <3>6. Between(b, Piece(x, next))
      BY <3>2, <3>4
    <3> QED
      BY <3>5, <3>6 DEF a, b, x
  <2> QED
    BY <2>8, <2>9
<1> QED
  BY <1>7, <1>8

\* The writes of a full page: to its blit page and itself, and in the end its next page.
LEMMA FullPageEnds ==
  ASSUME NEW c \in Chunks, NEW next \in PageNums
  PROVE  LET ws == FinalWrites(c, next)
             w  == ws[Len(ws)]
         IN  /\ Len(ws) \in DOMAIN ws /\ w.page = c.cur /\ IsData(w.to) /\ w.to.next = next /\ w.to.content = c.page.content
             /\ \A i \in DOMAIN ws : /\ ws[i].page \in {-1, c.blit, c.cur}
                                     /\ ws[i].page = c.blit /\ c.blit # c.cur => ws[i].to.next = c.cur
                                     /\ ~ c.toBlit => ws[i].page = c.cur
<1> DEFINE x == c.page.content
           s == c.page.status
           ws == FinalWrites(c, next)
<1>1. \A n, t : Data(n, t, x).next = n /\ Data(n, t, x).content = x /\ IsData(Data(n, t, x))
  BY DEF Data, IsData
<1>2. c.cur \in PageNums /\ c.blit \in PageNums /\ -1 \notin PageNums
  BY DEF Chunks, PageNums
<1>3. CASE c.toBlit
  <2> DEFINE v == Data(c.cur, Rolled(s), x)
             w == Data(next, Rolled(Rolled(s)), x)
  <2>1. ws = <<Write(c.blit, v), Barrier, Write(c.cur, w)>>
    BY <1>3, FullPageWrites
  <2>2. v.next = c.cur /\ w.next = next /\ w.content = x /\ IsData(w)
    BY <1>1
  <2> HIDE DEF v, w, x, ws
  <2>3. Len(ws) = 3 /\ DOMAIN ws = {1, 2, 3} /\ ws[1] = Write(c.blit, v) /\ ws[2] = Barrier /\ ws[3] = Write(c.cur, w)
    BY <2>1
  <2>4. /\ Len(ws) \in DOMAIN ws /\ ws[Len(ws)].page = c.cur /\ IsData(ws[Len(ws)].to)
        /\ ws[Len(ws)].to.next = next /\ ws[Len(ws)].to.content = x
    BY <2>2, <2>3 DEF Write
  <2>5. ASSUME NEW i \in DOMAIN ws
        PROVE  ws[i].page \in {-1, c.blit, c.cur} /\ (ws[i].page = c.blit /\ c.blit # c.cur => ws[i].to.next = c.cur)
    BY <1>2, <2>2, <2>3 DEF Write, Barrier
  <2> QED
    BY <1>3, <2>4, <2>5 DEF ws, x
<1>4. CASE ~ c.toBlit
  <2> DEFINE w == Data(next, Rolled(s), x)
  <2>1. ws = <<Write(c.cur, w)>>
    BY <1>4, FullPageWrites
  <2>2. w.next = next /\ w.content = x /\ IsData(w)
    BY <1>1
  <2> HIDE DEF w, x, ws
  <2>3. Len(ws) = 1 /\ DOMAIN ws = {1} /\ ws[1] = Write(c.cur, w)
    BY <2>1
  <2>4. /\ Len(ws) \in DOMAIN ws /\ ws[Len(ws)].page = c.cur /\ IsData(ws[Len(ws)].to)
        /\ ws[Len(ws)].to.next = next /\ ws[Len(ws)].to.content = x
    BY <2>2, <2>3 DEF Write
  <2>5. \A i \in DOMAIN ws : ws[i].page = c.cur
    BY <2>3 DEF Write
  <2> QED
    BY <2>4, <2>5 DEF ws, x
<1> QED
  BY <1>3, <1>4

\* When a page fills, its kind survives as it is then.
LEMMA NextSurvives ==
  ASSUME NEW e \in Engines, NEW on \in Files, NEW p \in Seq(Writes), NEW owner, Reaches(owner, e, FileOf(on, p)),
         NEW k \in Kinds, IsChunk(e.chunks[k]), e.chunks[k].page.next = 0, e.nextFree \in PageNums,
         KindKept(owner, on, p, k, e.chunks[k]),
         ~ IsData(on[e.nextFree]), e.nextFree \notin Written(p), ~ HeldFor(on, p, e.chunks[k].blit, e.nextFree),
         NEW ws, ws = FinalWrites(e.chunks[k], e.nextFree)
  PROVE  LET own == Grown(owner, e.nextFree, Place(k, FALSE))
             f   == Finalized(e, k, e.chunks[k])
         IN  /\ KindSurvives(owner, e, on, p, k) => KindSurvives(own, f, on, p \o ws, k)
             /\ KindKept(own, on, p \o ws, k, f.chunks[k])
<1> DEFINE S == OfKind(owner, k)
           i == e.info[k]
           c == e.chunks[k]
           nf == e.nextFree
           own == Grown(owner, nf, Place(k, FALSE))
           f == Finalized(e, k, c)
           c2 == f.chunks[k]
           file == FileOf(on, p)
           after == FileOf(on, p \o ws)
<1>1. k \in Known(e.info)
  BY DEF Reaches, Owned, ChunkOwned
<1>2. /\ i \in KindInfos /\ c \in Chunks /\ c.page \in DataPageSet /\ c.page.content \in Seq(Nat)
      /\ 0 \notin S /\ S \subseteq DOMAIN owner /\ S \subseteq PageNums
      /\ i.blit \in DOMAIN owner /\ i.blit \notin S /\ owner[i.blit].kind = k /\ \A n \in S : owner[n].kind = k
      /\ c.cur \in S /\ c.blit = i.blit /\ \A n \in S : n # c.cur => Continues(file, n)
  BY <1>1, KindPages
<1>3. DOMAIN owner = 1 .. nf - 1 /\ owner \in [1 .. nf - 1 -> Places] /\ nf \in Nat \ {0} /\ nf # 0
  BY DEF Reaches, Owned
<1>4. nf \notin DOMAIN owner /\ c.cur # nf /\ c.blit # nf /\ c.cur # c.blit /\ c.cur \in PageNums /\ c.blit \in PageNums
  BY <1>2, <1>3 DEF Chunks
<1>5. \A n \in OfKind(own, k) : n \in S \/ n = nf
  <2>1. Grows(own, owner, nf, Place(k, FALSE))
    BY <1>3, OwnerGrows, PlacesOfKind
  <2> HIDE DEF own
  <2> QED
    BY <1>3, <2>1 DEF Grows, OfKind
<1>6. f.info = e.info /\ c2 = Chunk(nf, FALSE, c.blit, NewPage)
  <2>1. NextOf(e, c) = nf
    BY DEF NextOf
  <2>2. c \in Chunks /\ NextOf(e, c) \in PageNums
    BY <1>2, <2>1
  <2> HIDE DEF c
  <2>3. f.info = e.info /\ f.chunks[k] = Chunk(NextOf(e, c), FALSE, c.blit, NewPage)
    BY <2>2, NextAssigned
  <2> HIDE DEF f
  <2> QED
    BY <2>1, <2>3
<1>7. IsChunk(c2) /\ Fresh(c2) /\ c2.cur = nf /\ c2.blit = c.blit /\ c2.page.content = <<>>
  BY <1>3, <1>6 DEF IsChunk, Fresh, Chunk, NewPage, Data
<1>8. ws \in Seq(Writes) /\ p \o ws \in Seq(Writes)
  <2>1. ws \in Seq(Writes)
    BY <1>2, WritesOfFullPage
  <2> QED
    BY <2>1
<1>9. /\ \A j \in DOMAIN ws : /\ ws[j].page \in {-1, c.blit, c.cur}
                              /\ ws[j].page = c.blit => ws[j].to.next = c.cur
                              /\ ~ c.toBlit => ws[j].page = c.cur
      /\ Len(ws) \in DOMAIN ws /\ ws[Len(ws)].page = c.cur /\ IsData(ws[Len(ws)].to)
      /\ ws[Len(ws)].to.next = nf /\ ws[Len(ws)].to.content = c.page.content
  <2>1. c \in Chunks /\ nf \in PageNums /\ ws = FinalWrites(c, nf) /\ c.blit # c.cur
    BY <1>2, <1>4
  <2> HIDE DEF c, nf
  <2> QED
    BY <2>1, FullPageEnds
<1>10. Written(p \o ws) = Written(p) \cup Written(ws) /\ \A n \in Written(ws) : n \in {-1, c.blit, c.cur} /\ (~ c.toBlit => n = c.cur)
  <2>1. Written(p \o ws) = Written(p) \cup Written(ws)
    BY <1>8, WrittenMore
  <2> QED
    BY <1>9, <2>1 DEF Written
<1>11. NotOnDisk(on, p \o ws, c2)
  <2>1. nf \notin Written(p \o ws)
    BY <1>3, <1>4, <1>10
  <2>2. ~ HeldFor(on, p \o ws, c.blit, nf)
    BY <1>4, <1>8, <1>9, WrittenMore
  <2> QED
    BY <1>7, <2>1, <2>2 DEF NotOnDisk
<1>12. KindKept(own, on, p \o ws, k, c2)
  BY <1>7, <1>11 DEF KindKept
<1> HIDE DEF S, i, c, nf, own, f, c2, file, after
<1>13. ASSUME NEW d \in CrashOutcomes(on, p \o ws)
       PROVE  LET z == PieceAt(after, i, c2, nf) IN
              Between(PieceAt(on, i, NoChunk, nf), PieceAt(d, i, NoChunk, nf)) /\ Between(PieceAt(d, i, NoChunk, nf), z)
  <2>1. PieceAt(after, i, c2, nf) = Piece(<<>>, 0)
    BY <1>7, PiecesSame
  <2>2. ~ IsData(on[nf]) /\ d[nf] = on[nf]
    <3>1. nf \notin Written(p \o ws) /\ nf \in PageNums
      BY <1>7, <1>11 DEF NotOnDisk, nf
    <3> QED
      BY <1>8, <3>1, PageUnwritten DEF nf
  <2>3. ~ (IsData(on[i.blit]) /\ on[i.blit].next = nf) /\ ~ (IsData(d[i.blit]) /\ d[i.blit].next = nf)
    <3>1. ~ HeldFor(on, p \o ws, c.blit, nf)
      BY <1>7, <1>11 DEF NotOnDisk
    <3>2. c.blit \in PageNums /\ p \o ws \in Seq(Writes)
      BY <1>4, <1>8
    <3>3. /\ ~ (IsData(on[c.blit]) /\ on[c.blit].next = nf)
          /\ \A b \in CrashOutcomes(on, p \o ws) : ~ (IsData(b[c.blit]) /\ b[c.blit].next = nf)
      BY <3>1, <3>2, NotHeld
    <3> QED
      BY <1>2, <3>3
  <2>4. PieceAt(on, i, NoChunk, nf) = Piece(<<>>, 0) /\ PieceAt(d, i, NoChunk, nf) = Piece(<<>>, 0)
    <3>1. PieceAt(on, i, NoChunk, nf) = Piece(<<>>, 0)
      BY <2>2, <2>3, MissingPiece
    <3>2. PieceAt(d, i, NoChunk, nf) = Piece(<<>>, 0)
      BY <2>2, <2>3, MissingPiece
    <3> QED
      BY <3>1, <3>2
  <2> QED
    BY <2>1, <2>4 DEF Between
<1>14. ASSUME NEW d \in CrashOutcomes(on, p \o ws)
       PROVE  LET z == PieceAt(after, i, c2, c.cur) IN
              Between(PieceAt(on, i, NoChunk, c.cur), PieceAt(d, i, NoChunk, c.cur)) /\ Between(PieceAt(d, i, NoChunk, c.cur), z)
  <2>1. after[c.cur] = ws[Len(ws)].to
    <3>1. \A j \in DOMAIN ws : j <= Len(ws)
      BY <1>8
    <3> QED
      BY <1>4, <1>8, <1>9, <3>1, FurtherWrites DEF after
  <2>2. Continues(after, c.cur) /\ after[c.cur].next = nf /\ after[c.cur].content = c.page.content
    BY <1>3, <1>9, <2>1 DEF Continues
  <2>3. PieceAt(after, i, c2, c.cur) = Piece(c.page.content, nf)
    BY <1>4, <1>7, <2>2, PiecesSame
  <2>4. c.toBlit => Idle(owner, p, k) /\ OnDisk(on, c)
    BY <1>1 DEF KindKept, Fresh, c
  <2>5. ~ c.toBlit => NotOnDisk(on, p, c)
    BY <1>1 DEF KindKept, Fresh, c
  <2>6. c.cur \notin Written(p) /\ (c.toBlit => c.blit \notin Written(p))
    <3>1. c.cur \in DOMAIN owner /\ owner[c.cur].kind = k /\ c.blit \in DOMAIN owner /\ owner[c.blit].kind = k
      BY <1>2
    <3>2. c.toBlit => c.cur \notin Written(p) /\ c.blit \notin Written(p)
      BY <2>4, <3>1 DEF Idle
    <3>3. ~ c.toBlit => c.cur \notin Written(p)
      BY <2>5 DEF NotOnDisk
    <3> QED
      BY <3>2, <3>3
  <2>7. d \in CrashOutcomes(on, p \o FinalWrites(c, nf)) /\ nf \in PageNums /\ IsChunk(c) /\ c.page.next = 0
    BY DEF c, nf
  <2>8. /\ Between(PieceAt(on, i, NoChunk, c.cur), PieceAt(d, i, NoChunk, c.cur))
        /\ Between(PieceAt(d, i, NoChunk, c.cur), Piece(c.page.content, nf))
    BY <1>2, <1>3, <1>4, <2>4, <2>5, <2>6, <2>7, NextPiece
  <2> QED
    BY <2>3, <2>8
<1>15. ASSUME KindSurvives(owner, e, on, p, k), NEW d \in CrashOutcomes(on, p \o ws), NEW n \in S, n # c.cur
       PROVE  LET z == PieceAt(after, i, c2, n) IN
              Between(PieceAt(on, i, NoChunk, n), PieceAt(d, i, NoChunk, n)) /\ Between(PieceAt(d, i, NoChunk, n), z)
  <2>1. n \in PageNums /\ n # c.blit /\ n # nf /\ n # -1 /\ Continues(file, n) /\ n \in DOMAIN owner /\ owner[n].kind = k
    BY <1>2, <1>4, <1>15 DEF PageNums
  <2>2. after[n] = file[n]
    <3>1. \A j \in DOMAIN ws : ws[j].page # n
      BY <1>9, <1>15, <2>1
    <3> QED
      BY <1>8, <2>1, <3>1, FurtherWrites DEF after, file
  <2>3. PieceAt(after, i, c2, n) = Piece(file[n].content, file[n].next) /\ PieceAt(file, i, c, n) = Piece(file[n].content, file[n].next)
    <3>1. Continues(after, n)
      BY <2>1, <2>2 DEF Continues
    <3>2. PieceAt(after, i, c2, n) = Piece(after[n].content, after[n].next)
      BY <1>7, <2>1, <3>1, PiecesSame
    <3>3. PieceAt(file, i, c, n) = Piece(file[n].content, file[n].next)
      BY <1>15, <2>1, PiecesSame
    <3> QED
      BY <2>2, <3>2, <3>3
  <2>4. CASE c.toBlit
    <3>1. n \notin Written(p) /\ n \notin Written(p \o ws)
      <4>1. Idle(owner, p, k)
        BY <2>4 DEF KindKept, Fresh, c
      <4> QED
        BY <1>10, <1>15, <2>1, <4>1 DEF Idle
    <3>2. on[n] = file[n] /\ d[n] = on[n]
      BY <1>8, <2>1, <3>1, PageUnwritten DEF file
    <3>3. Continues(on, n) /\ Continues(d, n)
      BY <2>1, <3>2 DEF Continues
    <3>4. ~ IsChunk(NoChunk)
      BY DEF IsChunk, NoChunk, Chunk
    <3>5. PieceAt(on, i, NoChunk, n) = Piece(file[n].content, file[n].next)
      <4>1. PieceAt(on, i, NoChunk, n) = Piece(on[n].content, on[n].next)
        BY <3>3, <3>4, PiecesSame
      <4> QED
        BY <3>2, <4>1
    <3>6. PieceAt(d, i, NoChunk, n) = Piece(file[n].content, file[n].next)
      <4>1. PieceAt(d, i, NoChunk, n) = Piece(d[n].content, d[n].next)
        BY <3>3, <3>4, PiecesSame
      <4> QED
        BY <3>2, <4>1
    <3> QED
      BY <2>3, <3>5, <3>6 DEF Between
  <2>5. CASE ~ c.toBlit
    <3>1. PieceSurvives(on, p, i, c, n)
      BY <1>15 DEF KindSurvives, S, i, c
    <3>2. PICK b \in CrashOutcomes(on, p) : \A m \in PageNums : m \notin Written(ws) => d[m] = b[m]
      BY <1>8, CrashBefore
    <3>3. d[n] = b[n] /\ d[i.blit] = b[i.blit]
      <4>1. n \notin Written(ws) /\ i.blit \notin Written(ws)
        BY <1>2, <1>4, <1>10, <1>15, <2>5
      <4> QED
        BY <1>2, <1>4, <2>1, <3>2, <4>1
    <3>4. PieceAt(d, i, NoChunk, n) = PieceAt(b, i, NoChunk, n)
      BY <3>3, PiecesSame
    <3>5. Between(PieceAt(on, i, NoChunk, n), PieceAt(b, i, NoChunk, n)) /\ Between(PieceAt(b, i, NoChunk, n), PieceAt(file, i, c, n))
      BY <3>1 DEF PieceSurvives, file
    <3> QED
      BY <2>3, <3>4, <3>5
  <2> QED
    BY <2>4, <2>5
<1>16. ASSUME KindSurvives(owner, e, on, p, k) PROVE KindSurvives(own, f, on, p \o ws, k)
  <2> SUFFICES ASSUME NEW n \in OfKind(own, k), NEW d \in CrashOutcomes(on, p \o ws)
               PROVE  LET z == PieceAt(after, i, c2, n) IN
                      Between(PieceAt(on, i, NoChunk, n), PieceAt(d, i, NoChunk, n)) /\ Between(PieceAt(d, i, NoChunk, n), z)
    BY <1>6 DEF KindSurvives, PieceSurvives, after, i, c2
  <2>1. n = nf \/ n = c.cur \/ (n \in S /\ n # c.cur)
    BY <1>5
  <2> QED
    BY <1>13, <1>14, <1>15, <1>16, <2>1
<1> QED
  BY <1>12, <1>16 DEF own, f, c, c2, nf
-----------------------------------------------------------------------------
(* What a sync writes.                                                     *)

\* A sync writes the header, and the pages in memory that are dirty.
LEMMA SyncWritten ==
  ASSUME NEW e \in Engines
  PROVE  LET ws == SyncWrites(e) IN
         /\ ws \in Seq(Writes)
         /\ \A i \in DOMAIN ws : \/ ws[i].page \in {-1, 0, e.nextFree}
                                 \/ \E k \in Kinds : e.chunks[k].dirty /\ ws[i] = WriteOf(e, k)
         /\ ~ e.headerDirty => \A i \in DOMAIN ws : \E k \in Kinds : e.chunks[k].dirty /\ ws[i] = WriteOf(e, k)
         /\ \A k \in Kinds : e.chunks[k].dirty => \E i \in DOMAIN ws : ws[i] = WriteOf(e, k)
<1> DEFINE hs == HeaderWrites(e)
           ps == PageWrites(e)
           ws == SyncWrites(e)
<1>1. /\ ps \in Seq(Writes)
      /\ \A i \in DOMAIN ps : \E k \in Kinds : e.chunks[k].dirty /\ ps[i] = WriteOf(e, k)
      /\ \A k \in Kinds : e.chunks[k].dirty => \E i \in DOMAIN ps : ps[i] = WriteOf(e, k)
  BY PagesWritten
<1>2. /\ hs \in Seq(Writes)
      /\ \A i \in DOMAIN hs : hs[i].page \in {-1, 0, e.nextFree}
      /\ ~ e.headerDirty => hs = <<>>
  BY WritesOfHeader
<1>3. ws = hs \o ps
  BY DEF SyncWrites
<1> HIDE DEF hs, ps, ws
<1>4. ws \in Seq(Writes)
  BY <1>1, <1>2, <1>3
<1>5. ASSUME NEW i \in DOMAIN ws
      PROVE  (\E j \in DOMAIN hs : ws[i] = hs[j]) \/ (\E j \in DOMAIN ps : ws[i] = ps[j])
  <2>1. hs \in Seq(Writes) /\ ps \in Seq(Writes)
    BY <1>1, <1>2
  <2>2. /\ i <= Len(hs) => i \in DOMAIN hs /\ ws[i] = hs[i]
        /\ ~ (i <= Len(hs)) => i - Len(hs) \in DOMAIN ps /\ ws[i] = ps[i - Len(hs)]
    BY <1>3, <2>1
  <2> QED
    BY <2>2
<1>6. \A j \in DOMAIN ps : \E i \in DOMAIN ws : ws[i] = ps[j]
  <2> SUFFICES ASSUME NEW j \in DOMAIN ps PROVE \E i \in DOMAIN ws : ws[i] = ps[j]
    OBVIOUS
  <2>1. Len(hs) + j \in DOMAIN ws /\ ws[Len(hs) + j] = ps[j]
    BY <1>1, <1>2, <1>3
  <2> QED
    BY <2>1
<1>7. ~ e.headerDirty => DOMAIN hs = {}
  BY <1>2
<1>8. ASSUME NEW i \in DOMAIN ws
      PROVE  ws[i].page \in {-1, 0, e.nextFree} \/ \E k \in Kinds : e.chunks[k].dirty /\ ws[i] = WriteOf(e, k)
  <2>1. CASE \E j \in DOMAIN hs : ws[i] = hs[j]
    BY <1>2, <2>1
  <2>2. CASE \E j \in DOMAIN ps : ws[i] = ps[j]
    BY <1>1, <2>2
  <2> QED
    BY <1>5, <2>1, <2>2
<1>9. ASSUME ~ e.headerDirty, NEW i \in DOMAIN ws
      PROVE  \E k \in Kinds : e.chunks[k].dirty /\ ws[i] = WriteOf(e, k)
  <2>1. PICK j \in DOMAIN ps : ws[i] = ps[j]
    BY <1>5, <1>7, <1>9
  <2> QED
    BY <1>1, <2>1
<1>10. ASSUME NEW k \in Kinds, e.chunks[k].dirty PROVE \E i \in DOMAIN ws : ws[i] = WriteOf(e, k)
  <2>1. PICK j \in DOMAIN ps : ps[j] = WriteOf(e, k)
    BY <1>1, <1>10
  <2> QED
    BY <1>6, <2>1
<1> QED
  BY <1>4, <1>8, <1>9, <1>10 DEF ws

\* The last of the writes to a page.
LEMMA LastTo ==
  ASSUME NEW ws \in Seq(Writes), NEW n, \E i \in DOMAIN ws : ws[i].page = n
  PROVE  \E i \in DOMAIN ws : ws[i].page = n /\ \A j \in DOMAIN ws : ws[j].page = n => j <= i
<1> DEFINE is == {i \in DOMAIN ws : ws[i].page = n}
<1>1. is \subseteq Nat /\ is # {} /\ Len(ws) \in Nat /\ \A i \in is : i <= Len(ws)
  OBVIOUS
<1> HIDE DEF is
<1>2. PICK i \in is : \A j \in is : j <= i
  BY <1>1, GreatestElement
<1> QED
  BY <1>2 DEF is

\* The page that is written of a page in memory.
LEMMA WrittenPage ==
  ASSUME NEW e \in Engines, NEW owner, NEW file, Reaches(owner, e, file), NEW k \in Kinds, e.chunks[k].dirty
  PROVE  LET c == e.chunks[k]
             w == WriteOf(e, k)
         IN  /\ k \in Known(e.info) /\ IsChunk(c) /\ w \in Writes /\ w.page = (IF c.toBlit THEN c.blit ELSE c.cur)
             /\ w.to = Data(IF c.toBlit THEN c.cur ELSE 0, Rolled(c.page.status), c.page.content)
             /\ w.page \in DOMAIN owner /\ owner[w.page].kind = k /\ w.page \in PageNums /\ w.page \notin {-1, 0, e.nextFree}
<1> DEFINE c == e.chunks[k]
           w == WriteOf(e, k)
<1>1. IsChunk(c) /\ k \in Known(e.info)
  BY DEF Reaches, Owned, ChunkOwned
<1>2. /\ c \in Chunks /\ c.cur \in OfKind(owner, k) /\ c.blit = e.info[k].blit /\ e.info[k].blit \in DOMAIN owner
      /\ owner[e.info[k].blit].kind = k /\ (\A n \in OfKind(owner, k) : owner[n].kind = k) /\ OfKind(owner, k) \subseteq DOMAIN owner
  BY <1>1, KindPages
<1>3. DOMAIN owner = 1 .. e.nextFree - 1 /\ e.nextFree \in 1 .. MaxPages + 1
  BY DEF Reaches, Owned
<1>4. \A n \in DOMAIN owner : n \in PageNums /\ n \notin {-1, 0, e.nextFree}
  BY <1>3, StorageAssumption DEF PageNums
<1>5. w = Write(IF c.toBlit THEN c.blit ELSE c.cur, Data(IF c.toBlit THEN c.cur ELSE 0, Rolled(c.page.status), c.page.content))
  BY DEF WriteOf, WritePage
<1>6. w \in Writes
  BY <1>2, MadePages, WriteOfPage DEF WriteOf
<1>7. /\ w.page = (IF c.toBlit THEN c.blit ELSE c.cur)
      /\ w.to = Data(IF c.toBlit THEN c.cur ELSE 0, Rolled(c.page.status), c.page.content)
  BY <1>5 DEF Write
<1> HIDE DEF c, w
<1>8. w.page \in DOMAIN owner /\ owner[w.page].kind = k
  BY <1>2, <1>7
<1> QED
  BY <1>1, <1>4, <1>6, <1>7, <1>8 DEF c, w

\* Of a page that a kind owns, a sync writes only that kind's page in memory.
LEMMA SyncWritesOf ==
  ASSUME NEW e \in Engines, NEW owner, NEW file, Reaches(owner, e, file), NEW k \in Kinds,
         NEW n \in DOMAIN owner, owner[n].kind = k, NEW i \in DOMAIN SyncWrites(e), SyncWrites(e)[i].page = n
  PROVE  e.chunks[k].dirty /\ SyncWrites(e)[i] = WriteOf(e, k)
<1> DEFINE ws == SyncWrites(e)
<1>1. DOMAIN owner = 1 .. e.nextFree - 1 /\ e.nextFree \in 1 .. MaxPages + 1
  BY DEF Reaches, Owned
<1>2. n \notin {-1, 0, e.nextFree}
  BY <1>1
<1>3. PICK j \in Kinds : e.chunks[j].dirty /\ ws[i] = WriteOf(e, j)
  <2>1. ws[i].page \in {-1, 0, e.nextFree} \/ \E j \in Kinds : e.chunks[j].dirty /\ ws[i] = WriteOf(e, j)
    BY SyncWritten
  <2> QED
    BY <1>2, <2>1
<1>4. owner[WriteOf(e, j).page].kind = j
  BY <1>3, WrittenPage
<1> QED
  BY <1>3, <1>4

\* What a sync makes of a kind's pages.
LEMMA SyncedPages ==
  ASSUME NEW e \in Engines, NEW on \in Files, NEW p \in Seq(Writes), NEW owner, Reaches(owner, e, FileOf(on, p)), NEW k \in Kinds
  PROVE  LET ws == SyncWrites(e)
             after == FileOf(on, p \o ws)
             w == WriteOf(e, k)
         IN  /\ \A n \in DOMAIN owner : owner[n].kind = k /\ (e.chunks[k].dirty => n # w.page) => n \notin Written(ws) /\ after[n] = FileOf(on, p)[n]
             /\ e.chunks[k].dirty => after[w.page] = w.to
             /\ e.chunks[k].dirty /\ w.page \notin Written(p) =>
                  \A d \in CrashOutcomes(on, p \o ws) : d[w.page] = Torn \/ d[w.page] = on[w.page] \/ d[w.page] = w.to
<1> DEFINE ws == SyncWrites(e)
           after == FileOf(on, p \o ws)
           w == WriteOf(e, k)
<1>1. ws \in Seq(Writes)
  BY SyncWritten
<1>2. DOMAIN owner \subseteq PageNums
  BY StorageAssumption DEF Reaches, Owned, PageNums
<1>3. ASSUME NEW n \in DOMAIN owner, owner[n].kind = k, NEW i \in DOMAIN ws, ws[i].page = n
      PROVE  e.chunks[k].dirty /\ ws[i] = w
  BY <1>3, SyncWritesOf
<1> HIDE DEF ws, w
<1>4. ASSUME NEW n \in DOMAIN owner, owner[n].kind = k, e.chunks[k].dirty => n # w.page
      PROVE  n \notin Written(ws) /\ after[n] = FileOf(on, p)[n]
  <2>1. \A i \in DOMAIN ws : ws[i].page # n
    BY <1>3, <1>4
  <2> QED
    BY <1>1, <1>2, <2>1, FurtherWrites DEF Written
<1>5. ASSUME e.chunks[k].dirty
      PROVE  /\ after[w.page] = w.to
             /\ w.page \notin Written(p) =>
                  \A d \in CrashOutcomes(on, p \o ws) : d[w.page] = Torn \/ d[w.page] = on[w.page] \/ d[w.page] = w.to
  <2>1. w.page \in DOMAIN owner /\ owner[w.page].kind = k /\ w.page \in PageNums
    BY <1>5, WrittenPage DEF w
  <2>2. \A i \in DOMAIN ws : ws[i].page = w.page => ws[i] = w
    BY <1>3, <2>1
  <2>3. after[w.page] = w.to
    <3>1. \E i \in DOMAIN ws : ws[i].page = w.page
      <4>1. \E i \in DOMAIN ws : ws[i] = w
        BY <1>5, SyncWritten DEF ws, w
      <4> QED
        BY <4>1
    <3>2. PICK i \in DOMAIN ws : ws[i].page = w.page /\ \A j \in DOMAIN ws : ws[j].page = w.page => j <= i
      BY <1>1, <3>1, LastTo
    <3>3. after[w.page] = ws[i].to
      BY <1>1, <2>1, <3>2, FurtherWrites
    <3> QED
      BY <2>2, <3>2, <3>3
  <2>4. ASSUME w.page \notin Written(p), NEW d \in CrashOutcomes(on, p \o ws)
        PROVE  d[w.page] = Torn \/ d[w.page] = on[w.page] \/ d[w.page] = w.to
    <3>1. d[w.page] = Torn \/ d[w.page] = on[w.page] \/ \E i \in DOMAIN ws : ws[i].page = w.page /\ d[w.page] = ws[i].to
      BY <1>1, <2>1, <2>4, CrashedPage
    <3> QED
      BY <2>2, <3>1
  <2> QED
    BY <2>3, <2>4
<1> QED
  BY <1>4, <1>5 DEF ws, w

\* A page in memory that was never written is dirty.
FreshDirty(e) == \A k \in Kinds : IsChunk(e.chunks[k]) /\ Fresh(e.chunks[k]) => e.chunks[k].dirty

\* All was written.
Clean(e) == \A k \in Kinds : ~ e.chunks[k].dirty /\ (IsChunk(e.chunks[k]) => ~ Fresh(e.chunks[k]))

Synced(e) == [e EXCEPT !.chunks = [k \in Kinds |-> IF @[k].dirty THEN WritePage(@[k], 0).chunk ELSE @[k]]]

\* What fsync() changes in memory.
LEMMA SyncedChunks ==
  ASSUME NEW e \in Engines
  PROVE  LET f == Synced(e) IN
         /\ f.info = e.info /\ f.nextFree = e.nextFree /\ f.headerDirty = e.headerDirty
         /\ \A k \in Kinds : /\ e.chunks[k].dirty => f.chunks[k] = WritePage(e.chunks[k], 0).chunk
                             /\ ~ e.chunks[k].dirty => f.chunks[k] = e.chunks[k]
                             /\ f.chunks[k].cur = e.chunks[k].cur /\ f.chunks[k].page.content = e.chunks[k].page.content
                             /\ ~ f.chunks[k].dirty
<1> DEFINE f == Synced(e)
<1>1. /\ f.info = e.info /\ f.nextFree = e.nextFree /\ f.headerDirty = e.headerDirty
      /\ \A k \in Kinds : f.chunks[k].cur = e.chunks[k].cur
  BY SyncedEngine DEF Synced
<1>2. ASSUME NEW k \in Kinds
      PROVE  f.chunks[k] = IF e.chunks[k].dirty THEN WritePage(e.chunks[k], 0).chunk ELSE e.chunks[k]
  BY DEF Synced, Engines
<1>3. ASSUME NEW k \in Kinds, e.chunks[k].dirty
      PROVE  /\ WritePage(e.chunks[k], 0).chunk.page.content = e.chunks[k].page.content
             /\ ~ WritePage(e.chunks[k], 0).chunk.dirty
  <2> DEFINE c == e.chunks[k]
             q == Data(IF c.toBlit THEN c.cur ELSE 0, Rolled(c.page.status), c.page.content)
  <2>1. c \in Chunks
    BY DEF Engines
  <2>2. WritePage(c, 0).chunk = [c EXCEPT !.dirty = FALSE, !.page = q, !.toBlit = ~ @]
    BY DEF WritePage
  <2>3. q.content = c.page.content
    BY DEF Data
  <2> HIDE DEF c, q
  <2>4. WritePage(c, 0).chunk.page = q /\ ~ WritePage(c, 0).chunk.dirty
    BY <2>1, <2>2 DEF Chunks
  <2> QED
    BY <2>3, <2>4 DEF c
<1> HIDE DEF f
<1>4. ASSUME NEW k \in Kinds
      PROVE  /\ e.chunks[k].dirty => f.chunks[k] = WritePage(e.chunks[k], 0).chunk
             /\ ~ e.chunks[k].dirty => f.chunks[k] = e.chunks[k]
             /\ f.chunks[k].page.content = e.chunks[k].page.content /\ ~ f.chunks[k].dirty
  <2>1. CASE e.chunks[k].dirty
    BY <1>2, <1>3, <2>1
  <2>2. CASE ~ e.chunks[k].dirty
    BY <1>2, <2>2
  <2> QED
    BY <2>1, <2>2
<1> QED
  BY <1>1, <1>4 DEF f

\* What FileOf gives is what a write may have left.
LEMMA FileHolds ==
  ASSUME NEW on \in Files, NEW p \in Seq(Writes), NEW n \in PageNums
  PROVE  MayHold(on, p, n, FileOf(on, p)[n])
<1>1. <<>> \in Seq(Writes) /\ <<>> \o p = p /\ FileOf(on, <<>>) = on
  <2>1. <<>> \in Seq(Writes) /\ <<>> \o p = p
    OBVIOUS
  <2> QED
    BY <2>1, FileTypes
<1>2. FileOf(on, p)[n] = on[n] \/ \E i \in DOMAIN p : p[i].page = n /\ FileOf(on, p)[n] = p[i].to
  <2>1. \/ FileOf(on, <<>> \o p)[n] = FileOf(on, <<>>)[n]
        \/ \E i \in DOMAIN p : p[i].page = n /\ FileOf(on, <<>> \o p)[n] = p[i].to
    BY <1>1, PageWritten
  <2> QED
    BY <1>1, <2>1, Zenon
<1> QED
  BY <1>2 DEF MayHold

\* What is on disk of a page is there where the two pages are the same.
LEMMA SameOnDisk ==
  ASSUME NEW on, NEW other, NEW c, other[c.cur] = on[c.cur], other[c.blit] = on[c.blit], OnDisk(on, c)
  PROVE  OnDisk(other, c)
<1> DEFINE next == IF c.toBlit THEN 0 ELSE c.cur
           At(file) == IF c.toBlit THEN file[c.cur] ELSE file[c.blit]
           Is(page) == /\ IsData(page) /\ page.status = c.page.status /\ page.next = next
                       /\ Begins(page.content, c.page.content) /\ (~ c.dirty => page.content = c.page.content)
           Rest(page, blit) == /\ c.toBlit => ~ (IsData(blit) /\ blit.next = c.cur /\ Further(blit.status, page.status))
                               /\ ~ c.toBlit /\ IsData(page) => page.next = 0 /\ Further(blit.status, page.status)
<1>1. \A file : OnDisk(file, c) <=> Is(At(file)) /\ Rest(file[c.cur], file[c.blit])
  BY DEF OnDisk
<1>2. At(other) = At(on)
  OBVIOUS
<1> HIDE DEF Is, At, Rest
<1> QED
  BY <1>1, <1>2

\* Once it is synced, all that is in memory is on disk.
LEMMA SyncKept ==
  ASSUME NEW e \in Engines, NEW on \in Files, NEW p \in Seq(Writes), NEW owner, Reaches(owner, e, FileOf(on, p)),
         Kept(owner, e, on, p), FreshDirty(e)
  PROVE  Kept(owner, Synced(e), FileOf(on, p \o SyncWrites(e)), <<>>) /\ Clean(Synced(e))
<1> DEFINE f == Synced(e)
           ws == SyncWrites(e)
           file == FileOf(on, p)
           after == FileOf(on, p \o ws)
<1>1. /\ f.info = e.info
      /\ \A k \in Kinds : /\ e.chunks[k].dirty => f.chunks[k] = WritePage(e.chunks[k], 0).chunk
                          /\ ~ e.chunks[k].dirty => f.chunks[k] = e.chunks[k]
                          /\ f.chunks[k].cur = e.chunks[k].cur /\ ~ f.chunks[k].dirty
  BY SyncedChunks
<1>2. file \in Files /\ after \in Files /\ ws \in Seq(Writes)
  <2>1. ws \in Seq(Writes)
    BY SyncWritten
  <2> HIDE DEF ws
  <2>2. p \o ws \in Seq(Writes)
    BY <2>1
  <2> QED
    BY <2>1, <2>2, FileTypes
<1>3. \A k \in Known(e.info) : KindKept(owner, on, p, k, e.chunks[k])
  BY DEF Kept
<1> HIDE DEF f, ws, file, after
<1>4. ASSUME NEW k \in Kinds, IsChunk(e.chunks[k])
      PROVE  ~ Fresh(f.chunks[k]) /\ OnDisk(after, f.chunks[k])
  <2> DEFINE c == e.chunks[k]
             i == e.info[k]
             w == WriteOf(e, k)
  <2>1. k \in Known(e.info)
    BY <1>4 DEF Reaches, Owned, ChunkOwned
  <2>2. /\ c \in Chunks /\ c.cur \in OfKind(owner, k) /\ c.blit = i.blit /\ i.blit \notin OfKind(owner, k) /\ i.blit \in DOMAIN owner
        /\ owner[i.blit].kind = k /\ owner[c.cur].kind = k /\ c.cur \in DOMAIN owner /\ c.cur \in PageNums
        /\ c.page.next \in {0, c.cur} /\ (c.toBlit => c.page.next = 0)
    BY <1>4, <2>1, KindPages
  <2>3. c.blit \in PageNums /\ c.cur # c.blit
    BY <2>2 DEF Chunks
  <2>4. KindKept(owner, on, p, k, c)
    BY <1>3, <2>1
  <2>5. IF Fresh(c) THEN ~ (IsData(file[c.blit]) /\ file[c.blit].next = c.cur) ELSE OnDisk(file, c)
    <3>1. CASE Fresh(c)
      <4>1. ~ HeldFor(on, p, c.blit, c.cur)
        BY <1>4, <2>4, <3>1 DEF KindKept, NotOnDisk
      <4>2. MayHold(on, p, c.blit, file[c.blit])
        BY <2>3, FileHolds DEF file
      <4> QED
        BY <3>1, <4>1, <4>2 DEF HeldFor
    <3>2. CASE ~ Fresh(c)
      <4>1. Idle(owner, p, k) /\ OnDisk(on, c)
        BY <1>4, <2>4, <3>2 DEF KindKept
      <4>2. file[c.cur] = on[c.cur] /\ file[c.blit] = on[c.blit]
        <5>1. c.cur \notin Written(p) /\ c.blit \notin Written(p)
          BY <2>2, <4>1 DEF Idle
        <5> QED
          BY <2>2, <2>3, <5>1, PageUnwritten DEF file
      <4>3. OnDisk(file, c)
        BY <4>1, <4>2, SameOnDisk
      <4> QED
        BY <3>2, <4>3
    <3> QED
      BY <3>1, <3>2
  <2>6. /\ \A n \in DOMAIN owner : owner[n].kind = k /\ (c.dirty => n # w.page) => after[n] = file[n]
        /\ c.dirty => after[w.page] = w.to
    BY SyncedPages DEF ws, after, file
  <2>7. CASE c.dirty
    <3>1. w.page = (IF c.toBlit THEN c.blit ELSE c.cur)
      BY <2>7, WrittenPage
    <3> DEFINE n == IF c.toBlit THEN c.cur ELSE c.blit
    <3>2. after[n] = file[n]
      BY <2>2, <2>3, <2>6, <3>1
    <3>3. after[w.page] = w.to
      BY <2>6, <2>7
    <3>4. f.chunks[k] = WritePage(c, 0).chunk
      BY <1>1, <2>7
    <3>5. w = WritePage(c, 0).write
      BY DEF WriteOf
    <3> HIDE DEF c, w
    <3>6. OnDisk(after, WritePage(c, 0).chunk) /\ ~ Fresh(WritePage(c, 0).chunk)
      <4>1. IsChunk(c)
        BY <1>4 DEF c
      <4> QED
        BY <1>2, <2>2, <2>5, <3>2, <3>3, <3>5, <4>1, WrittenOnDisk
    <3> QED
      BY <3>4, <3>6
  <2>8. CASE ~ c.dirty
    <3>1. ~ Fresh(c) /\ f.chunks[k] = c
      BY <1>1, <1>4, <2>8 DEF FreshDirty
    <3>2. OnDisk(file, c)
      BY <2>5, <3>1
    <3>3. after[c.cur] = file[c.cur] /\ after[c.blit] = file[c.blit]
      BY <2>2, <2>6, <2>8
    <3>4. OnDisk(after, c)
      BY <3>2, <3>3, SameOnDisk
    <3> QED
      BY <3>1, <3>4
  <2> QED
    BY <2>7, <2>8
<1>5. ASSUME NEW k \in Kinds PROVE IsChunk(f.chunks[k]) = IsChunk(e.chunks[k])
  BY <1>1 DEF IsChunk
<1>6. Written(<<>>) = {}
  BY DEF Written
<1>7. ASSUME NEW k \in Known(e.info) PROVE KindKept(owner, after, <<>>, k, f.chunks[k])
  <2>1. k \in Kinds
    BY DEF Known
  <2> QED
    BY <1>4, <1>5, <1>6, <2>1 DEF KindKept, Idle
<1>8. Clean(f)
  BY <1>1, <1>4, <1>5 DEF Clean
<1> QED
  BY <1>1, <1>7, <1>8 DEF Kept, f, after, ws

\* A sync writes to blit pages only what belongs there.
LEMMA SyncBlits ==
  ASSUME NEW e \in Engines, NEW on \in Files, NEW p \in Seq(Writes), NEW owner, Reaches(owner, e, FileOf(on, p)),
         NEW k \in Known(e.info), NEW n, HeldFor(on, p \o SyncWrites(e), e.info[k].blit, n)
  PROVE  HeldFor(on, p, e.info[k].blit, n) \/ (IsChunk(e.chunks[k]) /\ e.chunks[k].toBlit /\ n = e.chunks[k].cur)
<1> DEFINE ws == SyncWrites(e)
           b == e.info[k].blit
           c == e.chunks[k]
<1>1. ws \in Seq(Writes)
  BY SyncWritten
<1>2. b \in DOMAIN owner /\ owner[b].kind = k /\ b \notin OfKind(owner, k) /\ k \in Kinds
  BY KindPages
<1>3. HeldFor(on, p, b, n) \/ \E i \in DOMAIN ws : ws[i].page = b /\ IsData(ws[i].to) /\ ws[i].to.next = n
  <2> HIDE DEF ws
  <2> QED
    BY <1>1, WrittenMore DEF ws
<1>4. ASSUME NEW i \in DOMAIN ws, ws[i].page = b, IsData(ws[i].to), ws[i].to.next = n
      PROVE  IsChunk(c) /\ c.toBlit /\ n = c.cur
  <2>1. c.dirty /\ ws[i] = WriteOf(e, k)
    BY <1>2, <1>4, SyncWritesOf
  <2>2. /\ IsChunk(c) /\ WriteOf(e, k).page = (IF c.toBlit THEN c.blit ELSE c.cur)
        /\ WriteOf(e, k).to = Data(IF c.toBlit THEN c.cur ELSE 0, Rolled(c.page.status), c.page.content)
    BY <1>2, <2>1, WrittenPage
  <2>3. c.cur \in OfKind(owner, k)
    BY <2>2, KindPages
  <2>4. c.toBlit
    BY <1>2, <1>4, <2>1, <2>2, <2>3
  <2> QED
    BY <1>4, <2>1, <2>2, <2>4 DEF Data
<1> QED
  BY <1>3, <1>4

\* What survives still does while a sync writes.
LEMMA SyncSurvives ==
  ASSUME NEW e \in Engines, NEW on \in Files, NEW p \in Seq(Writes), NEW owner, Reaches(owner, e, FileOf(on, p)),
         Synced(e) \in Engines, Reaches(owner, Synced(e), FileOf(on, p \o SyncWrites(e))),
         Kept(owner, e, on, p), FreshDirty(e), NEW k \in Known(e.info), KindSurvives(owner, e, on, p, k)
  PROVE  KindSurvives(owner, Synced(e), on, p \o SyncWrites(e), k)
<1> DEFINE f == Synced(e)
           ws == SyncWrites(e)
           file == FileOf(on, p)
           after == FileOf(on, p \o ws)
           S == OfKind(owner, k)
           i == e.info[k]
           c == e.chunks[k]
           c2 == f.chunks[k]
           w == WriteOf(e, k)
<1>1. /\ k \in Kinds /\ i \in KindInfos /\ c \in Chunks /\ c.page \in DataPageSet /\ c.page.content \in Seq(Nat)
      /\ S \subseteq DOMAIN owner /\ S \subseteq PageNums
      /\ i.blit \in DOMAIN owner /\ i.blit \notin S /\ owner[i.blit].kind = k /\ \A n \in S : owner[n].kind = k
      /\ IsChunk(c) => /\ c.cur \in S /\ c.blit = i.blit /\ c.page.next \in {0, c.cur} /\ (c.toBlit => c.page.next = 0)
                       /\ \A n \in S : n # c.cur => Continues(file, n)
  BY KindPages
<1>2. /\ f.info = e.info
      /\ c.dirty => c2 = WritePage(c, 0).chunk
      /\ ~ c.dirty => c2 = c
      /\ c2.cur = c.cur /\ c2.page.content = c.page.content
  BY <1>1, SyncedChunks
<1>3. ws \in Seq(Writes) /\ p \o ws \in Seq(Writes)
  <2>1. ws \in Seq(Writes)
    BY SyncWritten
  <2> HIDE DEF ws
  <2> QED
    BY <2>1
<1>4. Written(p \o ws) = Written(p) \cup Written(ws)
  <2> HIDE DEF ws
  <2> QED
    BY <1>3, WrittenMore
<1>5. /\ \A n \in DOMAIN owner : owner[n].kind = k /\ (c.dirty => n # w.page) => n \notin Written(ws) /\ after[n] = file[n]
      /\ c.dirty => after[w.page] = w.to
      /\ c.dirty /\ w.page \notin Written(p) =>
           \A d \in CrashOutcomes(on, p \o ws) : d[w.page] = Torn \/ d[w.page] = on[w.page] \/ d[w.page] = w.to
  BY <1>1, SyncedPages
<1>6. KindKept(owner, on, p, k, c)
  BY DEF Kept
<1>7. IsChunk(c) /\ Fresh(c) => c.dirty
  BY <1>1 DEF FreshDirty
<1>8. c.dirty => /\ IsChunk(c) /\ w.page = (IF c.toBlit THEN c.blit ELSE c.cur)
                 /\ w.to = Data(IF c.toBlit THEN c.cur ELSE 0, Rolled(c.page.status), c.page.content)
  BY <1>1, WrittenPage
<1>9. ~ IsChunk(NoChunk)
  BY DEF IsChunk, NoChunk, Chunk
<1>10. w = WritePage(c, 0).write
  BY DEF WriteOf
<1> HIDE DEF f, ws, file, after, S, i, c, c2, w
<1>11. CASE ~ c.dirty
  <2>1. c2 = c /\ ~ (IsChunk(c) /\ Fresh(c))
    BY <1>2, <1>7, <1>11
  <2>2. Idle(owner, p \o ws, k)
    <3>1. Idle(owner, p, k)
      BY <1>6, <2>1 DEF KindKept
    <3> QED
      BY <1>4, <1>5, <1>11, <3>1 DEF Idle
  <2>3. KindKept(owner, on, p \o ws, k, c)
    BY <1>6, <2>1, <2>2 DEF KindKept
  <2>4. KindKept(owner, on, p \o ws, k, f.chunks[k]) /\ k \in Known(f.info)
    BY <1>2, <2>1, <2>3 DEF c2
  <2>5. Reaches(owner, f, FileOf(on, p \o ws)) /\ f \in Engines
    BY DEF f, ws
  <2>6. KindSurvives(owner, f, on, p \o ws, k)
    BY <1>3, <2>2, <2>4, <2>5, IdleSurvives
  <2> QED
    BY <2>6 DEF f, ws
<1>12. CASE c.dirty
  <2>1. /\ IsChunk(c) /\ IsChunk(c2) /\ c.cur \in S /\ c.cur \in PageNums /\ c.blit = i.blit /\ c.blit \in PageNums /\ c.blit # c.cur
        /\ c.cur \in DOMAIN owner /\ owner[c.cur].kind = k
    <3>1. IsChunk(c)
      BY <1>8, <1>12
    <3>2. c.cur \in S /\ c.blit = i.blit /\ c.blit \in PageNums
      BY <1>1, <3>1 DEF Chunks
    <3> QED
      BY <1>1, <1>2, <3>1, <3>2 DEF IsChunk
  <2>2. ASSUME NEW n \in S, n # c.cur
        PROVE  /\ n \in PageNums /\ n \notin Written(ws) /\ Continues(file, n) /\ after[n] = file[n] /\ n \in DOMAIN owner
               /\ PieceAt(after, i, c2, n) = Piece(file[n].content, file[n].next)
               /\ PieceAt(file, i, c, n) = Piece(file[n].content, file[n].next)
    <3>1. n \in PageNums /\ n \in DOMAIN owner /\ owner[n].kind = k /\ Continues(file, n)
      BY <1>1, <2>1, <2>2
    <3>2. n # w.page
      BY <1>1, <1>8, <1>12, <2>1, <2>2
    <3>3. n \notin Written(ws) /\ after[n] = file[n]
      BY <1>5, <3>1, <3>2
    <3>4. Continues(after, n)
      BY <3>1, <3>3 DEF Continues
    <3>5. PieceAt(after, i, c2, n) = Piece(after[n].content, after[n].next)
      BY <1>2, <2>2, <3>4, PiecesSame
    <3>6. PieceAt(file, i, c, n) = Piece(file[n].content, file[n].next)
      BY <2>2, <3>1, PiecesSame
    <3> QED
      BY <3>1, <3>3, <3>5, <3>6
  <2>3. PieceAt(after, i, c2, c.cur) = Piece(c.page.content, 0)
    <3>1. PieceAt(after, i, c2, c.cur) = Piece(c2.page.content, 0)
      BY <1>2, <2>1, PiecesSame
    <3> QED
      BY <1>2, <3>1
  <2> DEFINE Ok(d, n) == /\ Between(PieceAt(on, i, NoChunk, n), PieceAt(d, i, NoChunk, n))
                         /\ Between(PieceAt(d, i, NoChunk, n), PieceAt(after, i, c2, n))
  <2>4. ASSUME ~ Fresh(c), NEW d \in CrashOutcomes(on, p \o ws), NEW n \in S PROVE Ok(d, n)
    <3>1. Idle(owner, p, k) /\ OnDisk(on, c)
      BY <1>6, <2>1, <2>4 DEF KindKept
    <3>2. CASE n # c.cur
      <4>1. n \notin Written(p) /\ n \notin Written(p \o ws)
        BY <1>1, <1>4, <2>2, <3>1, <3>2 DEF Idle
      <4>2. file[n] = on[n]
        BY <2>2, <3>2, <4>1, PageUnwritten DEF file
      <4>3. d[n] = on[n]
        BY <1>3, <2>2, <3>2, <4>1, PageUnwritten
      <4>4. Continues(on, n) /\ Continues(d, n)
        BY <2>2, <3>2, <4>2, <4>3 DEF Continues
      <4>5. PieceAt(on, i, NoChunk, n) = Piece(on[n].content, on[n].next)
        BY <1>9, <4>4, PiecesSame
      <4>6. PieceAt(d, i, NoChunk, n) = Piece(d[n].content, d[n].next)
        BY <1>9, <4>4, PiecesSame
      <4> QED
        BY <2>2, <3>2, <4>2, <4>3, <4>5, <4>6 DEF Between
    <3>3. CASE n = c.cur
      <4> DEFINE a == PieceAt(on, i, NoChunk, c.cur)
                 b == PieceAt(d, i, NoChunk, c.cur)
                 x == c.page.content
                 m == IF c.toBlit THEN c.cur ELSE c.blit
      <4>1. Writing(on, d, c)
        <5>1. w.page \notin Written(p) /\ m \notin Written(p \o ws) /\ m \in PageNums
          <6>1. m \in DOMAIN owner /\ owner[m].kind = k /\ m # w.page /\ m \in PageNums
            BY <1>1, <1>8, <1>12, <2>1
          <6>2. w.page \in DOMAIN owner /\ owner[w.page].kind = k
            BY <1>1, <1>8, <1>12, <2>1
          <6> HIDE DEF m
          <6>3. m \notin Written(ws)
            BY <1>5, <6>1
          <6> QED
            BY <1>4, <3>1, <6>1, <6>2, <6>3 DEF Idle
        <5>2. d[w.page] = Torn \/ d[w.page] = on[w.page] \/ d[w.page] = w.to
          BY <1>5, <1>12, <5>1
        <5>3. d[m] = on[m]
          BY <1>3, <5>1, PageUnwritten
        <5> QED
          BY <1>10, <5>2, <5>3 DEF Writing
      <4>2. d \in Files
        BY <1>3, CrashedFile
      <4>3. a = Piece(a.content, 0) /\ Begins(a.content, x) /\ (b = a \/ b = Piece(x, 0))
        BY <1>1, <2>1, <2>4, <3>1, <4>1, <4>2, LastPiece
      <4> HIDE DEF a, b, x
      <4>4. Between(a, Piece(x, 0))
        BY <4>3 DEF Between, Piece
      <4>5. Between(a, b) /\ Between(b, Piece(x, 0))
        BY <4>3, <4>4 DEF Between
      <4> QED
        BY <2>3, <3>3, <4>5 DEF a, b, x
    <3> QED
      BY <3>2, <3>3
  <2>5. ASSUME Fresh(c), NEW d \in CrashOutcomes(on, p \o ws), NEW n \in S PROVE Ok(d, n)
    <3>1. NotOnDisk(on, p, c)
      BY <1>6, <2>1, <2>5 DEF KindKept
    <3>2. ~ c.toBlit /\ w.page = c.cur /\ w.to = Data(0, Rolled(c.page.status), c.page.content)
      BY <1>8, <1>12, <2>5 DEF Fresh
    <3>3. i.blit \notin Written(ws)
      BY <1>1, <1>5, <2>1, <3>2
    <3>4. CASE n # c.cur
      <4>1. PICK b \in CrashOutcomes(on, p) : \A m \in PageNums : m \notin Written(ws) => d[m] = b[m]
        BY <1>3, CrashBefore
      <4>2. d[n] = b[n] /\ d[i.blit] = b[i.blit]
        BY <2>1, <2>2, <3>3, <3>4, <4>1
      <4>3. PieceAt(d, i, NoChunk, n) = PieceAt(b, i, NoChunk, n)
        BY <4>2, PiecesSame
      <4>4. Between(PieceAt(on, i, NoChunk, n), PieceAt(b, i, NoChunk, n)) /\ Between(PieceAt(b, i, NoChunk, n), PieceAt(file, i, c, n))
        BY DEF KindSurvives, PieceSurvives, file, i, c, S
      <4> QED
        BY <2>2, <3>4, <4>3, <4>4
    <3>5. CASE n = c.cur
      <4> DEFINE x == c.page.content
      <4>1. ~ HeldFor(on, p \o ws, c.blit, c.cur)
        <5>1. ~ HeldFor(on, p, c.blit, c.cur)
          BY <3>1 DEF NotOnDisk
        <5>2. \A j \in DOMAIN ws : ws[j].page # c.blit
          BY <2>1, <3>3 DEF Written
        <5> QED
          BY <1>3, <5>1, <5>2, WrittenMore
      <4>2. ~ (IsData(on[c.blit]) /\ on[c.blit].next = c.cur) /\ ~ (IsData(d[c.blit]) /\ d[c.blit].next = c.cur)
        BY <1>3, <2>1, <4>1, NotHeld
      <4>3. ~ IsData(on[c.cur]) /\ c.cur \notin Written(p)
        BY <3>1 DEF NotOnDisk
      <4>4. PieceAt(on, i, NoChunk, c.cur) = Piece(<<>>, 0)
        BY <2>1, <4>2, <4>3, MissingPiece
      <4>5. d[c.cur] = Torn \/ d[c.cur] = on[c.cur] \/ d[c.cur] = w.to
        BY <1>5, <1>12, <3>2, <4>3
      <4>6. Between(Piece(<<>>, 0), Piece(x, 0))
        <5>1. Begins(<<>>, x)
          BY <1>1, BeginsWith
        <5> QED
          BY <5>1 DEF Between, Piece
      <4>7. CASE ~ IsData(d[c.cur])
        <5>1. PieceAt(d, i, NoChunk, c.cur) = Piece(<<>>, 0)
          BY <2>1, <4>2, <4>7, MissingPiece
        <5> HIDE DEF x
        <5>2. Between(Piece(<<>>, 0), Piece(<<>>, 0))
          BY DEF Between
        <5> QED
          BY <2>3, <3>5, <4>4, <4>6, <5>1, <5>2 DEF x
      <4>8. CASE IsData(d[c.cur])
        <5>1. d[c.cur] = w.to
          BY <4>3, <4>5, <4>8 DEF IsData, Torn
        <5>2. d[c.cur].next = 0 /\ d[c.cur].content = x
          BY <3>2, <5>1 DEF Data
        <5> DEFINE b == PieceAt(d, i, NoChunk, c.cur)
        <5>3. ~ Continues(d, c.cur) /\ ~ (IsData(d[i.blit]) /\ d[i.blit].next = c.cur)
          BY <2>1, <4>2, <5>2 DEF Continues
        <5>4. b.content = x /\ b.next = 0 /\ b = Piece(b.content, b.next)
          <6>1. b.content = d[c.cur].content /\ b.next = 0 /\ b = Piece(b.content, b.next)
            <7> HIDE DEF b
            <7> QED
              BY <1>9, <4>8, <5>2, <5>3, PieceCases DEF b
          <6> QED
            BY <5>2, <6>1
        <5>5. b = Piece(x, 0)
          BY <5>4
        <5> HIDE DEF b, x
        <5>6. Between(Piece(x, 0), Piece(x, 0))
          BY DEF Between
        <5> QED
          BY <2>3, <3>5, <4>4, <4>6, <5>5, <5>6 DEF b, x
      <4> QED
        BY <4>7, <4>8
    <3> QED
      BY <3>4, <3>5
  <2>6. \A d \in CrashOutcomes(on, p \o ws), n \in S : Ok(d, n)
    BY <2>4, <2>5
  <2> QED
    BY <1>2, <2>6 DEF KindSurvives, PieceSurvives, f, S, i, c2, after, ws
<1> QED
  BY <1>11, <1>12

\* When a page fills, the other kinds survive as well: nothing was written to them.
LEMMA OthersSurvive ==
  ASSUME NEW e \in Engines, NEW on \in Files, NEW p \in Seq(Writes), NEW owner, Reaches(owner, e, FileOf(on, p)),
         NEW k \in Kinds, IsChunk(e.chunks[k]), e.chunks[k].page.next = 0, e.nextFree \in PageNums,
         WritesOnlyOf(e, on, p, k), Kept(owner, e, on, p), Finalized(e, k, e.chunks[k]) \in Engines,
         Reaches(Grown(owner, e.nextFree, Place(k, FALSE)), Finalized(e, k, e.chunks[k]),
                 FileOf(on, p \o FinalWrites(e.chunks[k], e.nextFree))),
         NEW j \in Known(e.info), j # k
  PROVE  LET own == Grown(owner, e.nextFree, Place(k, FALSE))
             f   == Finalized(e, k, e.chunks[k])
             q   == p \o FinalWrites(e.chunks[k], e.nextFree)
         IN  KindKept(own, on, q, j, f.chunks[j]) /\ KindSurvives(own, f, on, q, j)
<1> DEFINE c == e.chunks[k]
           b == e.chunks[j]
           nf == e.nextFree
           own == Grown(owner, nf, Place(k, FALSE))
           f == Finalized(e, k, c)
           ws == FinalWrites(c, nf)
<1>0. f \in Engines /\ Reaches(own, f, FileOf(on, p \o ws))
  OBVIOUS
<1>1. k \in Known(e.info) /\ j \in Kinds
  BY DEF Reaches, Owned, ChunkOwned, Known
<1>2. /\ c \in Chunks /\ e.info[k].blit \in DOMAIN owner /\ owner[e.info[k].blit].kind = k /\ e.info[k].blit \notin OfKind(owner, k)
      /\ c.cur \in DOMAIN owner /\ owner[c.cur].kind = k /\ c.blit = e.info[k].blit /\ c.cur \in OfKind(owner, k)
  BY <1>1, KindPages
<1>3. /\ b \in Chunks /\ e.info[j].blit \in DOMAIN owner /\ owner[e.info[j].blit].kind = j
      /\ IsChunk(b) => b.cur \in DOMAIN owner /\ owner[b.cur].kind = j /\ b.blit = e.info[j].blit
  BY <1>1, KindPages
<1>4. DOMAIN owner = 1 .. nf - 1 /\ owner \in [1 .. nf - 1 -> Places] /\ nf \in Nat \ {0} /\ Owned(owner, {}, e, FileOf(on, p))
  BY DEF Reaches, Owned
<1>5. ws \in Seq(Writes) /\ p \o ws \in Seq(Writes)
  <2>1. ws \in Seq(Writes)
    BY <1>2, WritesOfFullPage
  <2> HIDE DEF ws
  <2> QED
    BY <2>1
<1>6. \A i \in DOMAIN ws : ws[i].page \in {-1, c.blit, c.cur}
  <2>1. c \in Chunks /\ nf \in PageNums
    BY <1>2
  <2> HIDE DEF c, nf
  <2> QED
    BY <2>1, FullPageEnds
<1>7. Written(p \o ws) = Written(p) \cup Written(ws)
  <2> HIDE DEF ws
  <2> QED
    BY <1>5, WrittenMore
<1>8. f.info = e.info /\ f.chunks[j] = b
  <2>1. NextOf(e, c) = nf
    BY DEF NextOf
  <2>2. c \in Chunks /\ NextOf(e, c) \in PageNums
    BY <1>2, <2>1
  <2> HIDE DEF c, b
  <2>3. f.info = e.info /\ \A l \in Kinds \ {k} : f.chunks[l] = e.chunks[l]
    BY <2>2, NextAssigned DEF c
  <2> QED
    BY <1>1, <2>3 DEF b
<1> HIDE DEF c, b, nf, own, f, ws
<1>9. ASSUME NEW n \in DOMAIN owner, owner[n].kind = j
      PROVE  n \notin Written(p \o ws) /\ n \notin Written(ws)
  <2>1. n # -1 /\ n # c.blit /\ n # c.cur
    BY <1>2, <1>4, <1>9
  <2>2. n \notin Written(p)
    BY <1>4, <1>9 DEF WritesOnlyOf, Written
  <2> QED
    BY <1>6, <1>7, <2>1, <2>2 DEF Written
<1>10. Idle(own, p \o ws, j)
  <2> SUFFICES ASSUME NEW n \in DOMAIN own, own[n].kind = j PROVE n \notin Written(p \o ws)
    BY DEF Idle
  <2>1. Grows(own, owner, nf, Place(k, FALSE))
    BY <1>4, OwnerGrows, PlacesOfKind DEF own
  <2>2. n # nf
    BY <2>1 DEF Grows, Place
  <2>3. n \in DOMAIN owner /\ owner[n].kind = j
    BY <1>4, <2>1, <2>2 DEF Grows
  <2> QED
    BY <1>9, <2>3
<1>11. KindKept(own, on, p \o ws, j, b)
  <2>1. KindKept(owner, on, p, j, b)
    BY DEF Kept, b
  <2>2. ASSUME IsChunk(b), NotOnDisk(on, p, b) PROVE NotOnDisk(on, p \o ws, b)
    <3>1. b.cur \notin Written(p \o ws)
      BY <1>3, <1>9, <2>2
    <3>2. \A i \in DOMAIN ws : ws[i].page # b.blit
      <4>1. b.blit \notin Written(ws)
        BY <1>3, <1>9, <2>2
      <4> QED
        BY <4>1 DEF Written
    <3>3. ~ HeldFor(on, p \o ws, b.blit, b.cur)
      BY <1>5, <2>2, <3>2, WrittenMore DEF NotOnDisk
    <3> QED
      BY <2>2, <3>1, <3>3 DEF NotOnDisk
  <2> QED
    BY <1>10, <2>1, <2>2 DEF KindKept
<1>12. KindSurvives(own, f, on, p \o ws, j)
  <2>1. j \in Known(f.info) /\ KindKept(own, on, p \o ws, j, f.chunks[j])
    BY <1>8, <1>11
  <2> QED
    BY <1>0, <1>5, <1>10, <2>1, IdleSurvives
<1> QED
  BY <1>8, <1>11, <1>12 DEF own, f, ws, c, nf

-----------------------------------------------------------------------------
(* What is in the file survives.                                           *)

\* What is on disk can be opened.
Settled(info, on, p) == \E own, m : Connected(own, info, m, on) /\ BlitsIn(own, info, on, p)

\* What a crash may leave of an open file can be opened and has what was in it,
\* unless the file is being created.
Durable(owner, e, on, p) ==
  /\ SafeFor(owner, e, on, p) /\ BlitsIn(owner, e.info, on, p)
  /\ Creates(e, on, p) \/ (Settled(e.info, on, p) /\ \A k \in Known(e.info) : KindSurvives(owner, e, on, p, k))

\* A kind that nothing is written to is on disk.
LEMMA IdleOnDisk ==
  ASSUME NEW e \in Engines, NEW on \in Files, NEW p \in Seq(Writes), NEW owner, Reaches(owner, e, FileOf(on, p)),
         NEW k \in Known(e.info), Idle(owner, p, k), NEW own, NEW m, Connected(own, e.info, m, on)
  PROVE  OfKind(owner, k) \subseteq OfKind(own, k)
<1>1. Connected(owner, e.info, e.nextFree - 1, FileOf(on, p))
  BY OwnedConnects DEF Reaches
<1>2. ASSUME NEW n \in OfKind(owner, k) PROVE FileOf(on, p)[n] = on[n]
  <2>1. n \in DOMAIN owner /\ owner[n].kind = k /\ n \in PageNums
    BY KindPages
  <2> QED
    BY <2>1, PageUnwritten DEF Idle
<1>3. \A n \in OfKind(owner, k) \cap OfKind(own, k) :
        Continues(FileOf(on, p), n) => Continues(on, n) /\ on[n].next = FileOf(on, p)[n].next
  BY <1>2 DEF Continues
<1> QED
  BY <1>1, <1>3, KindWithin

\* In blit pages the last page of a kind may be held as well.
LEMMA BlitsStay ==
  ASSUME NEW e \in Engines, NEW on \in Files, NEW p \in Seq(Writes), NEW owner, Reaches(owner, e, FileOf(on, p)),
         Kept(owner, e, on, p), NEW q,
         \A k \in Known(e.info) : \A n : HeldFor(on, q, e.info[k].blit, n) =>
           HeldFor(on, p, e.info[k].blit, n) \/ (IsChunk(e.chunks[k]) /\ e.chunks[k].toBlit /\ n = e.chunks[k].cur)
  PROVE  /\ BlitsIn(owner, e.info, on, p) => BlitsIn(owner, e.info, on, q)
         /\ Settled(e.info, on, p) => Settled(e.info, on, q)
<1>1. ASSUME NEW k \in Known(e.info), IsChunk(e.chunks[k]) PROVE e.chunks[k].cur \in OfKind(owner, k)
  BY <1>1, KindPages
<1>2. ASSUME BlitsIn(owner, e.info, on, p) PROVE BlitsIn(owner, e.info, on, q)
  <2> SUFFICES ASSUME NEW k \in Known(e.info), NEW n, HeldFor(on, q, e.info[k].blit, n) PROVE n \in OfKind(owner, k)
    BY DEF BlitsIn
  <2>1. CASE HeldFor(on, p, e.info[k].blit, n)
    BY <1>2, <2>1 DEF BlitsIn
  <2>2. CASE IsChunk(e.chunks[k]) /\ n = e.chunks[k].cur
    BY <1>1, <2>2
  <2> QED
    BY <2>1, <2>2
<1>3. ASSUME Settled(e.info, on, p) PROVE Settled(e.info, on, q)
  <2>1. PICK own, m : Connected(own, e.info, m, on) /\ BlitsIn(own, e.info, on, p)
    BY <1>3 DEF Settled
  <2>2. ASSUME NEW k \in Known(e.info), NEW n, HeldFor(on, q, e.info[k].blit, n) PROVE n \in OfKind(own, k)
    <3>1. CASE HeldFor(on, p, e.info[k].blit, n)
      BY <2>1, <3>1 DEF BlitsIn
    <3>2. CASE IsChunk(e.chunks[k]) /\ e.chunks[k].toBlit /\ n = e.chunks[k].cur
      <4>1. Idle(owner, p, k)
        BY <3>2 DEF Kept, KindKept, Fresh
      <4>2. OfKind(owner, k) \subseteq OfKind(own, k)
        BY <2>1, <4>1, IdleOnDisk
      <4>3. n \in OfKind(owner, k)
        BY <1>1, <3>2
      <4> QED
        BY <4>2, <4>3
    <3> QED
      BY <2>2, <3>1, <3>2
  <2>3. BlitsIn(own, e.info, on, q)
    BY <2>2 DEF BlitsIn
  <2> QED
    BY <2>1, <2>3 DEF Settled
<1> QED
  BY <1>2, <1>3

\* An item that is added in memory.
LEMMA ItemDurable ==
  ASSUME NEW e \in Engines, NEW on \in Files, NEW p \in Seq(Writes), NEW owner, Durable(owner, e, on, p),
         NEW k \in Kinds, NEW x \in Nat, IsChunk(e.chunks[k])
  PROVE  Durable(owner, WithItem(e, k, x), on, p)
<1> DEFINE f == WithItem(e, k, x)
<1>1. f.info = e.info
  BY ItemAdded
<1>2. SafeFor(owner, f, on, p)
  BY ItemKeepsSafe DEF Durable
<1>3. Reaches(owner, e, FileOf(on, p))
  BY DEF Durable, SafeFor
<1>4. \A j \in Known(e.info) : KindSurvives(owner, e, on, p, j) => KindSurvives(owner, f, on, p, j)
  BY <1>3, ItemSurvives
<1>5. Creates(f, on, p) = Creates(e, on, p)
  BY <1>1 DEF Creates
<1> QED
  BY <1>1, <1>2, <1>4, <1>5 DEF Durable

\* A page that fills.
LEMMA NextDurable ==
  ASSUME NEW e \in Engines, NEW on \in Files, NEW p \in Seq(Writes), NEW owner, Durable(owner, e, on, p), Kept(owner, e, on, p), WritesIn(owner, p),
         NEW k \in Kinds, IsChunk(e.chunks[k]), e.chunks[k].page.next = 0, e.nextFree \in PageNums, ~ IsData(FileOf(on, p)[e.nextFree]),
         WritesOnlyOf(e, on, p, k)
  PROVE  LET own == Grown(owner, e.nextFree, Place(k, FALSE))
             f   == Finalized(e, k, e.chunks[k])
             q   == p \o FinalWrites(e.chunks[k], e.nextFree)
         IN  Durable(own, f, on, q) /\ Kept(own, f, on, q) /\ WritesIn(own, q)
<1> DEFINE c == e.chunks[k]
           nf == e.nextFree
           own == Grown(owner, nf, Place(k, FALSE))
           f == Finalized(e, k, c)
           ws == FinalWrites(c, nf)
           q == p \o ws
<1>1. SafeFor(owner, e, on, p) /\ Reaches(owner, e, FileOf(on, p)) /\ BlitsIn(owner, e.info, on, p)
  BY DEF Durable, SafeFor
<1>2. SafeFor(own, f, on, q)
  BY <1>1, NextKeepsSafe
<1>3. k \in Known(e.info)
  BY <1>1 DEF Reaches, Owned, ChunkOwned
<1>4. /\ c \in Chunks /\ e.info[k].blit \in DOMAIN owner /\ e.info[k].blit \notin OfKind(owner, k)
      /\ c.cur \in DOMAIN owner /\ c.cur \in OfKind(owner, k) /\ c.blit = e.info[k].blit /\ c.blit # c.cur
  BY <1>1, <1>3, KindPages
<1>5. DOMAIN owner = 1 .. nf - 1 /\ owner \in [1 .. nf - 1 -> Places] /\ nf \in Nat \ {0}
  BY <1>1 DEF Reaches, Owned
<1>6. Grows(own, owner, nf, Place(k, FALSE))
  BY <1>5, OwnerGrows, PlacesOfKind
<1>7. f \in Engines /\ f.info = e.info
  <2>1. NextOf(e, c) = nf
    BY DEF NextOf
  <2>2. c \in Chunks /\ NextOf(e, c) \in PageNums
    BY <1>4, <2>1
  <2> HIDE DEF c
  <2> QED
    BY <2>2, NextAssigned
<1>8. ws \in Seq(Writes) /\ q \in Seq(Writes)
  <2>1. ws \in Seq(Writes)
    BY <1>4, WritesOfFullPage
  <2> HIDE DEF ws
  <2> QED
    BY <2>1
<1>9. \A i \in DOMAIN ws : /\ ws[i].page \in {-1, c.blit, c.cur}
                           /\ ws[i].page = c.blit => ws[i].to.next = c.cur
                           /\ ~ c.toBlit => ws[i].page = c.cur
  <2>1. c \in Chunks /\ nf \in PageNums /\ c.blit # c.cur
    BY <1>4
  <2> HIDE DEF c, nf
  <2> QED
    BY <2>1, FullPageEnds
<1>10. Written(q) = Written(p) \cup Written(ws)
  <2> HIDE DEF ws
  <2> QED
    BY <1>8, WrittenMore
<1>11. WritesIn(own, q)
  <2>1. DOMAIN own = 1 .. nf
    BY <1>6 DEF Grows
  <2> HIDE DEF ws, q, own, nf, c
  <2>2. \A n \in Written(ws) : n \in {-1, 0} \cup DOMAIN owner
    BY <1>4, <1>9 DEF Written
  <2> QED
    BY <1>5, <1>10, <2>1, <2>2 DEF WritesIn
<1>12. nf \notin Written(p) /\ ~ HeldFor(on, p, c.blit, nf) /\ ~ IsData(on[nf])
  <2>1. nf \notin Written(p)
    BY <1>5 DEF WritesIn
  <2>2. nf \notin OfKind(owner, k)
    <3>1. nf \notin DOMAIN owner
      BY <1>5
    <3> QED
      BY <3>1 DEF OfKind
  <2>3. ~ HeldFor(on, p, c.blit, nf)
    BY <1>1, <1>3, <1>4, <2>2 DEF BlitsIn
  <2> QED
    BY <2>1, <2>3, PageUnwritten
<1>13. Reaches(own, f, FileOf(on, q))
  BY <1>2 DEF SafeFor
<1>14. KindKept(own, on, q, k, f.chunks[k]) /\ (KindSurvives(owner, e, on, p, k) => KindSurvives(own, f, on, q, k))
  <2>1. KindKept(owner, on, p, k, c)
    BY <1>3 DEF Kept
  <2> QED
    BY <1>1, <1>12, <2>1, NextSurvives
<1>15. ASSUME NEW j \in Known(e.info), j # k
       PROVE  KindKept(own, on, q, j, f.chunks[j]) /\ KindSurvives(own, f, on, q, j)
  <2>1. Reaches(owner, e, FileOf(on, p)) /\ Kept(owner, e, on, p) /\ WritesOnlyOf(e, on, p, k)
    BY <1>1
  <2> QED
    BY <1>7, <1>13, <1>15, <2>1, OthersSurvive
<1>16. Kept(own, f, on, q)
  BY <1>7, <1>14, <1>15 DEF Kept
<1>17. BlitsIn(owner, e.info, on, q) /\ (Settled(e.info, on, p) => Settled(e.info, on, q))
  <2>1. ASSUME NEW j \in Known(e.info), NEW n, HeldFor(on, q, e.info[j].blit, n)
        PROVE  HeldFor(on, p, e.info[j].blit, n) \/ (IsChunk(e.chunks[j]) /\ e.chunks[j].toBlit /\ n = e.chunks[j].cur)
    <3>1. HeldFor(on, p, e.info[j].blit, n) \/ \E i \in DOMAIN ws : ws[i].page = e.info[j].blit /\ IsData(ws[i].to) /\ ws[i].to.next = n
      <4> HIDE DEF ws
      <4> QED
        BY <1>8, <2>1, WrittenMore
    <3>2. ASSUME NEW i \in DOMAIN ws, ws[i].page = e.info[j].blit, ws[i].to.next = n
          PROVE  IsChunk(e.chunks[j]) /\ e.chunks[j].toBlit /\ n = e.chunks[j].cur
      <4>1. Owns(owner, e.info[j].blit, j, TRUE) /\ Owns(owner, e.info[k].blit, k, TRUE)
        BY <1>1, <1>3 DEF Reaches, Owned, HeaderOwned, Found
      <4>2. owner[c.cur] = Place(k, FALSE)
        BY <1>4 DEF OfKind
      <4>3. ws[i].page # -1 /\ ws[i].page # c.cur
        <5>1. ws[i].page \in DOMAIN owner
          BY <3>2, <4>1 DEF Owns
        <5>2. owner[ws[i].page] # owner[c.cur]
          BY <3>2, <4>1, <4>2 DEF Owns, Place
        <5> QED
          BY <1>5, <5>1, <5>2
      <4>4. ws[i].page = c.blit /\ c.toBlit
        BY <1>9, <4>3
      <4>5. j = k
        BY <1>4, <3>2, <4>1, <4>4 DEF Owns, Place
      <4> QED
        BY <1>9, <3>2, <4>4, <4>5
    <3> QED
      BY <3>1, <3>2
  <2> QED
    BY <1>1, <2>1, BlitsStay
<1>18. BlitsIn(own, e.info, on, q)
  <2>1. \A j : OfKind(owner, j) \subseteq OfKind(own, j)
    BY <1>6 DEF Grows, OfKind, Owns
  <2> HIDE DEF own, q
  <2> QED
    BY <1>17, <2>1 DEF BlitsIn
<1>19. Creates(e, on, p) => Creates(f, on, q)
  <2>1. \A i \in DOMAIN p : i \in DOMAIN q /\ q[i] = p[i]
    <3> HIDE DEF ws
    <3> QED
      BY <1>8, WritesBefore
  <2> HIDE DEF q
  <2> QED
    BY <1>7, <2>1 DEF Creates
<1>20. Creates(f, on, q) \/ (Settled(e.info, on, q) /\ \A j \in Known(e.info) : KindSurvives(own, f, on, q, j))
  <2>1. CASE Creates(e, on, p)
    BY <1>19, <2>1
  <2>2. CASE Settled(e.info, on, p) /\ \A j \in Known(e.info) : KindSurvives(owner, e, on, p, j)
    BY <1>3, <1>14, <1>15, <1>17, <2>2
  <2> QED
    BY <2>1, <2>2 DEF Durable
<1> HIDE DEF own, f, q
<1>21. Durable(own, f, on, q)
  BY <1>2, <1>7, <1>18, <1>20 DEF Durable
<1> QED
  BY <1>11, <1>16, <1>21 DEF own, f, q

\* A kind that the header did not have.
LEMMA PrepareDurable ==
  ASSUME NEW e \in Engines, NEW on \in Files, NEW p \in Seq(Writes), NEW owner, Durable(owner, e, on, p), Kept(owner, e, on, p), WritesIn(owner, p),
         NEW k \in Kinds, ~ IsChunk(e.chunks[k]), e.info[k] = NoInfo, e.nextFree + 1 \in PageNums,
         ~ IsData(FileOf(on, p)[e.nextFree]), ~ IsData(FileOf(on, p)[e.nextFree + 1]),
         on[0].type = "header" => Known(on[0].info) \subseteq Known(e.info)
  PROVE  LET own == Grown(Grown(owner, e.nextFree, Place(k, TRUE)), e.nextFree + 1, Place(k, FALSE))
             f   == Prepare(e, k)
         IN  Durable(own, f, on, p) /\ Kept(own, f, on, p) /\ WritesIn(own, p)
<1> DEFINE nf == e.nextFree
           mid == Grown(owner, nf, Place(k, TRUE))
           own == Grown(mid, nf + 1, Place(k, FALSE))
           f == Prepare(e, k)
<1>1. SafeFor(owner, e, on, p) /\ Reaches(owner, e, FileOf(on, p)) /\ BlitsIn(owner, e.info, on, p)
  BY DEF Durable, SafeFor
<1>2. SafeFor(own, f, on, p)
  BY <1>1, PrepareKeepsSafe
<1>3. /\ f \in Engines /\ f.info[k] = [first |-> nf + 1, blit |-> nf] /\ f.chunks[k] = Chunk(nf + 1, FALSE, nf, NewPage)
      /\ \A j \in Kinds \ {k} : f.info[j] = e.info[j] /\ f.chunks[j] = e.chunks[j]
  BY KindPrepared
<1>4. DOMAIN owner = 1 .. nf - 1 /\ owner \in [1 .. nf - 1 -> Places] /\ nf \in Nat \ {0} /\ nf \in PageNums
  <2>1. DOMAIN owner = 1 .. nf - 1 /\ owner \in [1 .. nf - 1 -> Places] /\ nf \in Nat \ {0}
    BY <1>1 DEF Reaches, Owned
  <2> QED
    BY <2>1, StorageAssumption DEF PageNums
<1>5. mid \in [1 .. nf -> Places] /\ DOMAIN mid = 1 .. nf /\ mid[nf] = Place(k, TRUE) /\ \A n \in DOMAIN owner : mid[n] = owner[n]
  <2>1. Grows(mid, owner, nf, Place(k, TRUE))
    BY <1>4, OwnerGrows, PlacesOfKind
  <2> HIDE DEF mid
  <2> QED
    BY <1>4, <2>1 DEF Grows
<1> HIDE DEF mid
<1>6. DOMAIN own = 1 .. nf + 1 /\ own[nf] = Place(k, TRUE) /\ own[nf + 1] = Place(k, FALSE) /\ \A n \in DOMAIN owner : own[n] = owner[n]
  <2>1. nf + 1 \in Nat \ {0} /\ (nf + 1) - 1 = nf
    BY <1>4
  <2>2. Grows(own, mid, nf + 1, Place(k, FALSE))
    BY <1>5, <2>1, OwnerGrows, PlacesOfKind
  <2>3. /\ nf \in 1 .. nf + 1 /\ nf # nf + 1 /\ nf + 1 \in 1 .. nf + 1
        /\ \A n \in 1 .. nf - 1 : n \in 1 .. nf + 1 /\ n # nf + 1
    <3> HIDE DEF own, nf
    <3> QED
      BY <1>4
  <2> HIDE DEF own, nf
  <2>4. \A n \in 1 .. nf + 1 : n # nf + 1 => own[n] = mid[n]
    BY <2>2 DEF Grows
  <2>5. DOMAIN own = 1 .. nf + 1 /\ own[nf + 1] = Place(k, FALSE)
    BY <2>2 DEF Grows
  <2>6. own[nf] = mid[nf] /\ \A n \in 1 .. nf - 1 : own[n] = mid[n]
    BY <2>3, <2>4
  <2> QED
    BY <1>4, <1>5, <2>5, <2>6
<1> HIDE DEF own, f, nf
<1>7. Known(f.info) = Known(e.info) \cup {k} /\ k \notin Known(e.info)
  <2>1. f.info[k] # NoInfo
    BY <1>3, <1>4 DEF NoInfo
  <2>2. e.info[k] = NoInfo
    OBVIOUS
  <2> QED
    BY <1>3, <2>1, <2>2 DEF Known
<1>8. nf \notin Written(p) /\ nf + 1 \notin Written(p)
  BY <1>4 DEF WritesIn
<1>9. ~ IsData(on[nf]) /\ ~ IsData(on[nf + 1])
  <2>1. nf + 1 \in PageNums /\ ~ IsData(FileOf(on, p)[nf]) /\ ~ IsData(FileOf(on, p)[nf + 1])
    BY DEF nf
  <2> QED
    BY <1>4, <1>8, <2>1, PageUnwritten
<1>10. \A n : ~ HeldFor(on, p, nf, n)
  BY <1>8, <1>9 DEF HeldFor, MayHold, Written
<1>11. BlitsIn(own, f.info, on, p)
  <2> SUFFICES ASSUME NEW j \in Known(f.info), NEW n, HeldFor(on, p, f.info[j].blit, n) PROVE n \in OfKind(own, j)
    BY DEF BlitsIn
  <2>1. j # k
    BY <1>3, <1>10
  <2>2. n \in OfKind(owner, j)
    BY <1>1, <1>3, <1>7, <2>1 DEF BlitsIn, Known
  <2>3. DOMAIN owner \subseteq DOMAIN own
    BY <1>4, <1>6
  <2>4. \A m \in DOMAIN owner : own[m] = owner[m]
    BY <1>6
  <2> QED
    BY <2>2, <2>3, <2>4 DEF OfKind
<1>12. Creates(f, on, p)
  <2>1. on[0] # Header(f.info)
    <3> SUFFICES ASSUME on[0] = Header(f.info) PROVE FALSE
      OBVIOUS
    <3>1. on[0].type = "header" /\ on[0].info = f.info
      BY DEF Header
    <3> QED
      BY <1>7, <3>1
  <2> QED
    BY <2>1 DEF Creates
<1>13. WritesIn(own, p)
  BY <1>4, <1>6 DEF WritesIn
<1>14. ASSUME NEW j \in Known(f.info) PROVE KindKept(own, on, p, j, f.chunks[j])
  <2>1. CASE j = k
    <3> DEFINE c == f.chunks[k]
    <3>1. c.cur = nf + 1 /\ c.blit = nf /\ ~ c.toBlit /\ c.page.next = 0
      BY <1>3 DEF Chunk, NewPage, Data
    <3>2. IsChunk(c) /\ Fresh(c)
      BY <1>4, <3>1 DEF IsChunk, Fresh
    <3>3. NotOnDisk(on, p, c)
      BY <1>8, <1>9, <1>10, <3>1 DEF NotOnDisk
    <3> QED
      BY <2>1, <3>2, <3>3 DEF KindKept
  <2>2. CASE j # k
    <3>1. j \in Known(e.info) /\ f.chunks[j] = e.chunks[j]
      BY <1>3, <1>7, <2>2 DEF Known
    <3>2. KindKept(owner, on, p, j, e.chunks[j])
      BY <3>1 DEF Kept
    <3>3. Idle(owner, p, j) => Idle(own, p, j)
      <4>1. \A n \in DOMAIN own : n \in DOMAIN owner \/ n = nf \/ n = nf + 1
        BY <1>4, <1>6
      <4>2. own[nf].kind = k /\ own[nf + 1].kind = k
        BY <1>6 DEF Place
      <4> QED
        BY <1>6, <2>2, <4>1, <4>2 DEF Idle
    <3> QED
      BY <3>1, <3>2, <3>3 DEF KindKept
  <2> QED
    BY <2>1, <2>2
<1>15. Durable(own, f, on, p) /\ Kept(own, f, on, p)
  BY <1>2, <1>11, <1>12, <1>14 DEF Durable, Kept
<1> QED
  BY <1>13, <1>15 DEF own, mid, f, nf

\* A sync that is not on disk yet.
LEMMA SyncDurable ==
  ASSUME NEW e \in Engines, NEW on \in Files, NEW p \in Seq(Writes), NEW owner, Durable(owner, e, on, p), Kept(owner, e, on, p), FreshDirty(e),
         ~ e.headerDirty => FileOf(on, p)[0] = Header(e.info)
  PROVE  LET f == Synced(e)
             q == p \o SyncWrites(e)
         IN  Durable(owner, f, on, q) /\ Kept(owner, f, FileOf(on, q), <<>>) /\ Clean(f)
<1> DEFINE f == Synced(e)
           ws == SyncWrites(e)
           q == p \o ws
<1>1. SafeFor(owner, e, on, p) /\ Reaches(owner, e, FileOf(on, p)) /\ BlitsIn(owner, e.info, on, p)
  BY DEF Durable, SafeFor
<1>2. SafeFor(owner, f, on, q)
  BY <1>1, SyncKeepsSafe DEF Synced
<1>3. f \in Engines
  BY <1>1, SyncOwns DEF Synced, Reaches
<1>4. f.info = e.info
  BY SyncedChunks
<1>5. ws \in Seq(Writes)
  BY SyncWritten
<1>6. BlitsIn(owner, e.info, on, q) /\ (Settled(e.info, on, p) => Settled(e.info, on, q))
  <2>1. ASSUME NEW j \in Known(e.info), NEW n, HeldFor(on, q, e.info[j].blit, n)
        PROVE  HeldFor(on, p, e.info[j].blit, n) \/ (IsChunk(e.chunks[j]) /\ e.chunks[j].toBlit /\ n = e.chunks[j].cur)
    <3>1. Reaches(owner, e, FileOf(on, p))
      BY <1>1
    <3>2. HeldFor(on, p \o SyncWrites(e), e.info[j].blit, n)
      BY <2>1
    <3> HIDE DEF f, ws, q
    <3> QED
      BY <3>1, <3>2, SyncBlits
  <2> HIDE DEF f, ws, q
  <2> QED
    BY <1>1, <2>1, BlitsStay
<1>7. Reaches(owner, f, FileOf(on, q))
  BY <1>2 DEF SafeFor
<1>8. ASSUME NEW j \in Known(e.info), KindSurvives(owner, e, on, p, j) PROVE KindSurvives(owner, f, on, q, j)
  BY <1>1, <1>3, <1>7, <1>8, SyncSurvives
<1>9. Creates(e, on, p) => Creates(f, on, q)
  <2>1. \A i \in DOMAIN p : i \in DOMAIN q /\ q[i] = p[i]
    <3> HIDE DEF ws
    <3> QED
      BY <1>5, WritesBefore
  <2> HIDE DEF q, f
  <2> QED
    BY <1>4, <2>1 DEF Creates
<1>10. Durable(owner, f, on, q)
  <2> HIDE DEF f, q
  <2>1. Creates(f, on, q) \/ (Settled(e.info, on, q) /\ \A j \in Known(e.info) : KindSurvives(owner, f, on, q, j))
    BY <1>6, <1>8, <1>9 DEF Durable
  <2> QED
    BY <1>2, <1>4, <1>6, <2>1 DEF Durable
<1>11. Kept(owner, f, FileOf(on, q), <<>>) /\ Clean(f)
  BY <1>1, SyncKept
<1> QED
  BY <1>10, <1>11

\* A file without writes to come.
LEMMA SettledDurable ==
  ASSUME NEW e \in Engines, NEW file \in Files, NEW owner, Reaches(owner, e, file), file[0] = Header(e.info),
         BlitsIn(owner, e.info, file, <<>>), Kept(owner, e, file, <<>>)
  PROVE  Durable(owner, e, file, <<>>) /\ WritesIn(owner, <<>>)
<1>1. <<>> \in Seq(Writes)
  OBVIOUS
<1>2. FileOf(file, <<>>) = file
  BY <1>1, FileTypes
<1>3. SafeFor(owner, e, file, <<>>)
  BY ReachesSafe
<1>4. Written(<<>>) = {}
  BY DEF Written
<1>5. Settled(e.info, file, <<>>)
  <2>1. Connected(owner, e.info, e.nextFree - 1, file)
    BY OwnedConnects DEF Reaches
  <2> QED
    BY <2>1 DEF Settled
<1>6. ASSUME NEW k \in Known(e.info) PROVE KindSurvives(owner, e, file, <<>>, k)
  <2>1. Idle(owner, <<>>, k)
    BY <1>4 DEF Idle
  <2>2. KindKept(owner, file, <<>>, k, e.chunks[k])
    BY DEF Kept
  <2> QED
    BY <1>1, <1>2, <2>1, <2>2, IdleSurvives
<1> QED
  BY <1>3, <1>4, <1>5, <1>6 DEF Durable, WritesIn

\* What is held when all is on disk was held before.
LEMMA FileBlits ==
  ASSUME NEW info \in Infos, NEW on \in Files, NEW p \in Seq(Writes), NEW owner, BlitsIn(owner, info, on, p)
  PROVE  BlitsIn(owner, info, FileOf(on, p), <<>>)
<1> SUFFICES ASSUME NEW k \in Known(info), NEW n, HeldFor(FileOf(on, p), <<>>, info[k].blit, n) PROVE n \in OfKind(owner, k)
  BY DEF BlitsIn
<1>1. info[k].blit \in PageNums
  BY DEF Infos, Known
<1>2. MayHold(on, p, info[k].blit, FileOf(on, p)[info[k].blit])
  BY <1>1, FileHolds
<1>3. IsData(FileOf(on, p)[info[k].blit]) /\ FileOf(on, p)[info[k].blit].next = n
  BY DEF HeldFor, MayHold
<1>4. HeldFor(on, p, info[k].blit, n)
  BY <1>2, <1>3 DEF HeldFor
<1> QED
  BY <1>4 DEF BlitsIn
-----------------------------------------------------------------------------
(* What a scan reads is on disk.                                           *)

\* The last page, as open() reads it.
LEMMA LastPageOnDisk ==
  ASSUME NEW file \in Files, NEW i \in KindInfos, NEW n \in PageNums, ~ Continues(file, n), IsChunk(LastPage(file, i, n))
  PROVE  LET c == LastPage(file, i, n) IN ~ c.dirty /\ ~ Fresh(c) /\ OnDisk(file, c)
<1> DEFINE page == file[n]
           blit == file[i.blit]
           c    == LastPage(file, i, n)
<1>1. i.blit \in PageNums /\ page \in Pages /\ blit \in Pages
  BY DEF Files, KindInfos
<1>2. (IsData(page) => page \in DataPageSet /\ page.next = 0) /\ (IsData(blit) => blit \in DataPageSet)
  BY <1>1, PageTypes DEF Continues
<1>3. \/ /\ c = Chunk(n, FALSE, i.blit, blit) /\ IsData(blit) /\ blit.next = n
         /\ IsData(page) => Further(blit.status, page.status)
      \/ /\ c = Chunk(n, TRUE, i.blit, page) /\ IsData(page)
         /\ ~ (IsData(blit) /\ blit.next = n /\ Further(blit.status, page.status))
      \/ c = NoChunk
  BY DEF LastPage, BlitFor
<1>4. c # NoChunk
  BY DEF IsChunk, NoChunk, Chunk
<1> HIDE DEF c
<1>5. CASE /\ c = Chunk(n, FALSE, i.blit, blit) /\ IsData(blit) /\ blit.next = n
           /\ IsData(page) => Further(blit.status, page.status)
  <2>1. c.cur = n /\ ~ c.toBlit /\ c.blit = i.blit /\ c.page = blit /\ ~ c.dirty /\ c.cur # 0
    BY <1>5 DEF Chunk, IsChunk, c
  <2>2. blit.content \in Seq(Nat) /\ Begins(blit.content, blit.content)
    BY <1>2, <1>5, BeginsWith DEF DataPageSet
  <2>3. OnDisk(file, c)
    BY <1>2, <1>5, <2>1, <2>2 DEF OnDisk
  <2> QED
    BY <1>5, <2>1, <2>3 DEF Fresh, c
<1>6. CASE /\ c = Chunk(n, TRUE, i.blit, page) /\ IsData(page)
           /\ ~ (IsData(blit) /\ blit.next = n /\ Further(blit.status, page.status))
  <2>1. c.cur = n /\ c.toBlit /\ c.blit = i.blit /\ c.page = page /\ ~ c.dirty
    BY <1>6 DEF Chunk
  <2>2. page.content \in Seq(Nat) /\ Begins(page.content, page.content) /\ page.next = 0
    BY <1>2, <1>6, BeginsWith DEF DataPageSet
  <2>3. OnDisk(file, c)
    BY <1>6, <2>1, <2>2 DEF OnDisk
  <2> QED
    BY <2>1, <2>3 DEF Fresh, c
<1> QED
  BY <1>3, <1>4, <1>5, <1>6

\* The pages in memory are as open() reads them.
ReadFrom(file, info, st) ==
  \A k \in Kinds : IsChunk(st.chunks[k]) => st.chunks[k].cur \in PageNums /\ st.chunks[k] = LastPage(file, info[k], st.chunks[k].cur)

\* A step of the scan keeps the pages in memory as they are read from the file;
LEMMA StepReads ==
  ASSUME NEW file \in Files, NEW info \in Infos, NEW st \in Scans, NEW x \in st.queue, ReadFrom(file, info, st)
  PROVE  ReadFrom(file, info, ScanStep(file, info, st, x))
<1> DEFINE f == ScanStep(file, info, st, x)
<1>1. x.n \in PageNums /\ x.kind \in Kinds /\ st.chunks \in [Kinds -> Chunks] /\ f \in Scans
  BY ScanStepCases DEF Scans, ScanItems
<1>2. f.chunks = st.chunks \/ PassesLast(file, info, st, x, f)
  BY ScanStepCases DEF PassesBlit, PassesPage
<1> HIDE DEF f
<1>3. CASE f.chunks = st.chunks
  BY <1>3 DEF ReadFrom, f
<1>4. CASE PassesLast(file, info, st, x, f)
  <2>1. ~ Continues(file, x.n) /\ f.chunks[x.kind] = LastPage(file, info[x.kind], x.n) /\ \A k \in Kinds : k # x.kind => f.chunks[k] = st.chunks[k]
    BY <1>1, <1>4 DEF PassesLast
  <2>2. info[x.kind].blit \in PageNums
    BY <1>1 DEF Infos
  <2>3. IsChunk(f.chunks[x.kind]) => f.chunks[x.kind].cur = x.n
    BY <1>1, <2>1, <2>2, LastPageRead
  <2>4. ASSUME NEW k \in Kinds, IsChunk(f.chunks[k])
        PROVE  f.chunks[k].cur \in PageNums /\ f.chunks[k] = LastPage(file, info[k], f.chunks[k].cur)
    BY <1>1, <2>1, <2>3, <2>4 DEF ReadFrom
  <2> QED
    BY <2>4 DEF ReadFrom, f
<1> QED
  BY <1>2, <1>3, <1>4

\* and so does the whole scan.
LEMMA ScanReads ==
  ASSUME NEW file \in Files, NEW info \in Infos
  PROVE  ReadFrom(file, info, ScanBlocks(file, info))
<1> DEFINE N == MaxPages + 1
           G(st) == ReadFrom(file, info, st)
<1>1. N \in Nat /\ N \in 0 .. N /\ 0 \in 0 .. N /\ \A i \in 1 .. N : i - 1 \in 0 .. N /\ i \in 0 .. N
  BY StorageAssumption
<1> HIDE DEF N
<1>2. PICK scan : ScanRun(file, info, scan)
  BY ScanRuns
<1>3. /\ scan[0] = ScanStart(info) /\ (\A i \in 0 .. N : scan[i] \in Scans)
      /\ \A i \in 1 .. N : StepsTo(file, info, scan[i - 1], scan[i])
      /\ ScanBlocks(file, info) = scan[N]
  BY <1>2 DEF ScanRun, N
<1>4. G(scan[0])
  <2>1. \A k \in Kinds : ~ IsChunk(ScanStart(info).chunks[k])
    BY DEF ScanStart, NoChunk, Chunk, IsChunk
  <2> QED
    BY <1>3, <2>1 DEF ReadFrom
<1>5. ASSUME NEW i \in 1 .. N, G(scan[i - 1])
      PROVE  G(scan[i])
  <2>1. i - 1 \in 0 .. N
    BY <1>1
  <2>2. scan[i - 1] \in Scans /\ StepsTo(file, info, scan[i - 1], scan[i])
    BY <1>3, <2>1
  <2> QED
    BY <1>5, <2>2, StepReads DEF StepsTo, LowestOf
<1> DEFINE S == {i \in 0 .. N : G(scan[i])}
<1>6. 0 \in S /\ \A i \in 1 .. N : i - 1 \in S => i \in S
  <2> HIDE DEF G
  <2> QED
    BY <1>1, <1>4, <1>5
<1> HIDE DEF S
<1>7. N \in S
  BY <1>1, <1>6, InductionTo
<1> QED
  BY <1>3, <1>7 DEF S

\* A file that is opened.
LEMMA OpenDurable ==
  ASSUME NEW file \in Files, NEW info \in Infos, file[0] = Header(info), ScanBlocks(file, info).ok, Settled(info, file, <<>>)
  PROVE  LET e == Opened(info, ScanBlocks(file, info))
         IN  /\ e \in Engines /\ Clean(e)
             /\ \E owner : Reaches(owner, e, file) /\ Durable(owner, e, file, <<>>) /\ Kept(owner, e, file, <<>>) /\ WritesIn(owner, <<>>)
<1> DEFINE scan == ScanBlocks(file, info)
           e == Opened(info, scan)
<1>1. /\ scan \in Scans
      /\ \E owner : Owned(owner, {}, e, file) /\ Reached(owner, {}, info, file)
      /\ \A k \in Kinds : IsChunk(scan.chunks[k]) => ~ Continues(file, scan.chunks[k].cur)
  BY ScanOwns
<1>2. ReadFrom(file, info, scan)
  BY ScanReads
<1> HIDE DEF scan
<1>3. e.info = info /\ e.chunks = scan.chunks /\ e \in Engines
  BY <1>1, OpenedEngine DEF Opened
<1> HIDE DEF e
<1>4. ASSUME NEW k \in Kinds, IsChunk(e.chunks[k])
      PROVE  ~ e.chunks[k].dirty /\ ~ Fresh(e.chunks[k]) /\ OnDisk(file, e.chunks[k])
  <2> DEFINE c == e.chunks[k]
  <2>1. c.cur \in PageNums /\ c = LastPage(file, info[k], c.cur) /\ ~ Continues(file, c.cur) /\ info[k] \in KindInfos /\ IsChunk(c)
    BY <1>1, <1>2, <1>3, <1>4 DEF ReadFrom, Infos, KindInfos
  <2> HIDE DEF c
  <2>2. ~ c.dirty /\ ~ Fresh(c) /\ OnDisk(file, c)
    BY <2>1, LastPageOnDisk
  <2> QED
    BY <2>2 DEF c
<1>5. PICK owner : Reaches(owner, e, file)
  BY <1>1, <1>3 DEF Reaches, CursEnd
<1>6. Clean(e)
  <2>1. ASSUME NEW k \in Kinds, ~ IsChunk(e.chunks[k]) PROVE ~ e.chunks[k].dirty
    BY <1>5, <2>1 DEF Reaches, Owned, ChunkOwned
  <2> QED
    BY <1>4, <2>1 DEF Clean
<1>7. Kept(owner, e, file, <<>>)
  <2>1. \A k : Idle(owner, <<>>, k)
    BY DEF Idle, Written
  <2> QED
    BY <1>4, <2>1 DEF Kept, KindKept, Known
<1>8. BlitsIn(owner, info, file, <<>>)
  <2>1. PICK own : \E m : Connected(own, info, m, file) /\ BlitsIn(own, info, file, <<>>)
    BY DEF Settled
  <2>2. PICK m : Connected(own, info, m, file) /\ BlitsIn(own, info, file, <<>>)
    BY <2>1
  <2>3. Connected(owner, info, e.nextFree - 1, file)
    BY <1>3, <1>5, OwnedConnects DEF Reaches
  <2>4. ASSUME NEW k \in Known(info) PROVE OfKind(own, k) \subseteq OfKind(owner, k)
    BY <2>2, <2>3, KindWithin
  <2> QED
    BY <2>2, <2>4 DEF BlitsIn
<1>9. Durable(owner, e, file, <<>>) /\ WritesIn(owner, <<>>)
  BY <1>3, <1>5, <1>7, <1>8, SettledDurable
<1> QED
  BY <1>3, <1>5, <1>6, <1>7, <1>9 DEF e, scan
-----------------------------------------------------------------------------
(* What the kinds hold.                                                    *)

\* The page after a page of a kind is of the kind.
LEMMA NextPieces ==
  ASSUME NEW e \in Engines, NEW owner, NEW file \in Files, Reaches(owner, e, file), NEW k \in Known(e.info), NEW n \in OfKind(owner, k)
  PROVE  LET b == PieceAt(file, e.info[k], e.chunks[k], n) IN
         /\ b.next \in OfKind(owner, k) \cup {0}
         /\ b.next # 0 => n < b.next
         /\ IsChunk(e.chunks[k]) /\ n # e.chunks[k].cur => b.next \in OfKind(owner, k) /\ b = Piece(file[n].content, file[n].next)
<1> DEFINE S == OfKind(owner, k)
           i == e.info[k]
           c == e.chunks[k]
           b == PieceAt(file, i, c, n)
<1>1. \A m \in S : Continues(file, m) => m < file[m].next /\ file[m].next \in S
  BY KindPages
<1>2. IsChunk(c) => \A m \in S : m # c.cur => Continues(file, m)
  BY KindPages
<1>3. \/ b.next = 0
      \/ Continues(file, n) /\ b.next = file[n].next
  BY PieceCases
<1>4. Continues(file, n) /\ n # c.cur => b = Piece(file[n].content, file[n].next)
  BY PiecesSame
<1>5. b = Piece(file[n].content, file[n].next) => b.next = file[n].next
  BY DEF Piece
<1> HIDE DEF S, i, c, b
<1>6. n \in S
  BY DEF S
<1> QED
  BY <1>1, <1>2, <1>3, <1>4, <1>5, <1>6 DEF S, i, c, b

\* A kind that the header does not have holds nothing.
LEMMA UnknownHolds ==
  ASSUME NEW e \in Engines, NEW file \in Files, NEW k \in Kinds, k \notin Known(e.info), NEW c \in Chunks
  PROVE  Contents(file, e.info[k], c) = <<>>
<1>1. e.info[k] = NoInfo /\ e.info[k] \in KindInfos
  BY DEF Known, Engines, Infos, KindInfos
<1>2. e.info[k].first = 0
  BY <1>1 DEF NoInfo
<1> QED
  BY <1>1, <1>2, ContentsTypes

\* What an engine has of a kind.
LEMMA TypesOfKind ==
  ASSUME NEW e \in Engines, NEW k \in Kinds
  PROVE  e.info[k] \in KindInfos /\ e.chunks[k] \in Chunks /\ NoChunk \in Chunks /\ e.info \in Infos /\ k \in Kinds
BY MadePages DEF Engines, Infos, KindInfos

\* When all was written, what is on disk is what is in memory.
LEMMA CleanHolds ==
  ASSUME NEW e \in Engines, NEW on \in Files, NEW p \in Seq(Writes), NEW owner, Reaches(owner, e, FileOf(on, p)),
         Kept(owner, e, on, p), Clean(e), NEW k \in Kinds
  PROVE  Contents(on, e.info[k], NoChunk) = Contents(FileOf(on, p), e.info[k], e.chunks[k])
<1> DEFINE file == FileOf(on, p)
           i == e.info[k]
           c == e.chunks[k]
           S == OfKind(owner, k)
<1>1. i \in KindInfos /\ c \in Chunks /\ NoChunk \in Chunks
  BY TypesOfKind
<1>2. file \in Files
  BY FileTypes
<1>3. CASE k \notin Known(e.info)
  BY <1>1, <1>2, <1>3, UnknownHolds
<1>4. CASE k \in Known(e.info)
  <2>1. 0 \notin S /\ S \subseteq PageNums /\ i.first \in S
    BY <1>4, KindPages
  <2>2. KindKept(owner, on, p, k, c) /\ Idle(owner, p, k) /\ (IsChunk(c) => ~ Fresh(c) /\ ~ c.dirty)
    BY <1>4 DEF Kept, KindKept, Clean
  <2>3. \A n \in S : PieceAt(on, i, NoChunk, n) = PieceAt(file, i, c, n)
    BY <1>4, <2>2, IdleSurvives
  <2>4. \A n \in S : PieceAt(file, i, c, n).next \in S \cup {0}
    BY <1>2, <1>4, NextPieces
  <2> HIDE DEF file, i, c, S
  <2>5. \A n \in S : LET a == PieceAt(on, i, NoChunk, n)
                         b == PieceAt(file, i, c, n)
                     IN  n \in PageNums /\ a = b /\ b.next \in S \cup {0}
    BY <2>1, <2>3, <2>4
  <2>6. Contents(on, i, NoChunk) = Contents(file, i, c)
    BY <1>1, <1>2, <2>1, <2>5, ContentsAlike
  <2> QED
    BY <2>6 DEF file, i, c
<1> QED
  BY <1>3, <1>4

\* All is on disk: the file holds it.
LEMMA CleanKept ==
  ASSUME NEW e \in Engines, NEW on \in Files, NEW p \in Seq(Writes), NEW owner, Reaches(owner, e, FileOf(on, p)),
         Kept(owner, e, on, p), Clean(e)
  PROVE  Kept(owner, e, FileOf(on, p), <<>>)
<1> DEFINE file == FileOf(on, p)
<1> SUFFICES ASSUME NEW k \in Known(e.info) PROVE KindKept(owner, file, <<>>, k, e.chunks[k])
  BY DEF Kept
<1>1. Idle(owner, <<>>, k)
  BY DEF Idle, Written
<1>2. ASSUME IsChunk(e.chunks[k]) PROVE ~ Fresh(e.chunks[k]) /\ OnDisk(file, e.chunks[k])
  <2> DEFINE c == e.chunks[k]
  <2>1. KindKept(owner, on, p, k, c) /\ ~ Fresh(c)
    BY <1>2 DEF Kept, Clean, Known
  <2>2. Idle(owner, p, k) /\ OnDisk(on, c)
    BY <1>2, <2>1 DEF KindKept
  <2>3. /\ c.cur \in DOMAIN owner /\ owner[c.cur].kind = k /\ c.cur \in PageNums
        /\ c.blit \in DOMAIN owner /\ owner[c.blit].kind = k /\ c.blit \in PageNums
    <3>1. /\ c \in Chunks /\ OfKind(owner, k) \subseteq DOMAIN owner
          /\ c.cur \in OfKind(owner, k) /\ c.blit = e.info[k].blit
      BY <1>2, KindPages
    <3>2. e.info[k].blit \in DOMAIN owner /\ owner[e.info[k].blit].kind = k /\ \A n \in OfKind(owner, k) : owner[n].kind = k
      BY KindPages
    <3> HIDE DEF c
    <3> QED
      BY <3>1, <3>2 DEF Chunks
  <2> HIDE DEF c, file
  <2>4. file[c.cur] = on[c.cur] /\ file[c.blit] = on[c.blit]
    BY <2>2, <2>3, PageUnwritten DEF Idle, file
  <2>5. OnDisk(file, c)
    BY <2>2, <2>4, SameOnDisk
  <2> QED
    BY <2>1, <2>5 DEF c
<1> QED
  BY <1>1, <1>2 DEF KindKept

\* An item that is added is added at the end.
LEMMA ItemHolds ==
  ASSUME NEW e \in Engines, NEW owner, NEW file \in Files, Reaches(owner, e, file), NEW k \in Known(e.info),
         IsChunk(e.chunks[k]), NEW x \in Nat
  PROVE  Contents(file, e.info[k], WithItem(e, k, x).chunks[k]) = Append(Contents(file, e.info[k], e.chunks[k]), x)
<1> DEFINE i == e.info[k]
           c == e.chunks[k]
           d == WithItem(e, k, x).chunks[k]
           S == OfKind(owner, k)
<1>1. i \in KindInfos /\ c \in Chunks /\ k \in Kinds
  BY TypesOfKind DEF Known
<1>2. d \in Chunks /\ d.cur = c.cur
  BY <1>1, ItemAdded DEF Engines
<1>3. d.page.content = c.page.content \o <<x>>
  <2>1. d = [c EXCEPT !.page.content = Append(@, x), !.dirty = TRUE]
    BY <1>1 DEF WithItem, Engines
  <2>2. c.page.content \in Seq(Nat) /\ c.page \in DataPageSet
    BY <1>1 DEF Chunks, DataPageSet
  <2> HIDE DEF d, c
  <2>3. d.page.content = Append(c.page.content, x)
    BY <1>1, <2>1, <2>2 DEF Chunks, DataPageSet
  <2>4. \A s \in Seq(Nat) : Append(s, x) = s \o <<x>>
    OBVIOUS
  <2> QED
    BY <2>2, <2>3, <2>4
<1>4. 0 \notin S /\ S \subseteq PageNums /\ i.first \in S /\ c.cur \in S
  BY KindPages
<1>5. \A n \in S : PieceAt(file, i, c, n).next \in S \cup {0} /\ (PieceAt(file, i, c, n).next # 0 => n < PieceAt(file, i, c, n).next)
                   /\ (n # c.cur => PieceAt(file, i, c, n).next \in S)
  BY NextPieces
<1>6. \A n : n # c.cur => PieceAt(file, i, c, n) = PieceAt(file, i, d, n)
  <2> SUFFICES ASSUME NEW n, n # c.cur PROVE PieceAt(file, i, c, n) = PieceAt(file, i, d, n)
    OBVIOUS
  <2> HIDE DEF i, c, d
  <2>1. PieceAt(file, i, c, n) = PieceAt(file, i, NoChunk, n) /\ PieceAt(file, i, d, n) = PieceAt(file, i, NoChunk, n)
    BY <1>2, PiecesSame
  <2> QED
    BY <2>1
<1>7. IsChunk(c) /\ IsChunk(d)
  BY <1>2 DEF IsChunk
<1> HIDE DEF i, c, d, S
<1>8. PieceAt(file, i, c, c.cur) = Piece(c.page.content, 0) /\ PieceAt(file, i, d, c.cur) = Piece(d.page.content, 0)
  BY <1>2, <1>7, PiecesSame
<1>9. LET a == PieceAt(file, i, c, c.cur)
          b == PieceAt(file, i, d, c.cur)
      IN  a.next = 0 /\ b.next = 0 /\ b.content = a.content \o <<x>>
  BY <1>3, <1>8 DEF Piece
<1>10. \A n \in S : LET a == PieceAt(file, i, c, n)
                        b == PieceAt(file, i, d, n)
                    IN  n \in PageNums /\ (n # c.cur => a = b /\ b.next \in S /\ n < b.next)
  BY <1>4, <1>5, <1>6
<1>11. Contents(file, i, d) = Contents(file, i, c) \o <<x>>
  <2>1. <<x>> \in Seq(Nat)
    OBVIOUS
  <2>2. MorePieces(file, i, c, file, d, S, c.cur, <<x>>)
    BY <1>4, <1>9, <1>10 DEF MorePieces
  <2> QED
    BY <1>1, <1>2, <2>1, <2>2, ContentsMore
<1>12. Contents(file, i, c) \in Seq(Nat)
  BY <1>1, ContentsTypes
<1>13. \A s \in Seq(Nat) : Append(s, x) = s \o <<x>>
  OBVIOUS
<1> QED
  BY <1>11, <1>12, <1>13 DEF i, c, d

\* A kind that is new holds nothing.
LEMMA NewHolds ==
  ASSUME NEW file \in Files, NEW i \in KindInfos, NEW c \in Chunks, IsChunk(c), i.first = c.cur, c.page.content = <<>>
  PROVE  Contents(file, i, c) = <<>>
<1>1. PICK upto : Reads(Pieces(file, i, c), upto) /\ Contents(file, i, c) = upto[MaxPages + 1][i.first]
  BY ContentsRead
<1>2. i.first \in PageNums /\ i.first # 0 /\ 0 \in PageNums
  BY MadePages DEF KindInfos, IsChunk
<1>3. Pieces(file, i, c)[i.first] = Piece(<<>>, 0)
  BY <1>2, PiecesSame DEF Pieces
<1>4. MaxPages + 1 \in 1 .. MaxPages + 1 /\ (MaxPages + 1) - 1 = MaxPages /\ MaxPages \in 0 .. MaxPages + 1
          /\ (MaxPages # 0 => MaxPages \in 1 .. MaxPages + 1)
  BY StorageAssumption
<1>5. upto[MaxPages][0] = <<>>
  <2>1. CASE MaxPages = 0
    BY <1>1, <1>2, <2>1 DEF Reads
  <2>2. CASE MaxPages # 0
    BY <1>1, <1>2, <1>4, <2>2 DEF Reads
  <2> QED
    BY <2>1, <2>2
<1>6. upto[MaxPages + 1][i.first] = Piece(<<>>, 0).content \o upto[MaxPages][Piece(<<>>, 0).next]
  BY <1>1, <1>2, <1>3, <1>4 DEF Reads
<1>7. Piece(<<>>, 0).content = <<>> /\ Piece(<<>>, 0).next = 0
  BY DEF Piece
<1>8. <<>> \o <<>> = <<>>
  OBVIOUS
<1> QED
  BY <1>1, <1>5, <1>6, <1>7, <1>8

\* A page that fills and gets a next one.
LEMMA NextHolds ==
  ASSUME NEW e \in Engines, NEW on \in Files, NEW p \in Seq(Writes), NEW owner, Reaches(owner, e, FileOf(on, p)),
         NEW k \in Kinds, IsChunk(e.chunks[k]), e.chunks[k].page.next = 0, e.nextFree \in PageNums,
         NEW j \in Kinds
  PROVE  LET f == Finalized(e, k, e.chunks[k])
             q == p \o FinalWrites(e.chunks[k], e.nextFree)
         IN  Contents(FileOf(on, q), e.info[j], f.chunks[j]) = Contents(FileOf(on, p), e.info[j], e.chunks[j])
<1> DEFINE nf == e.nextFree
           c == e.chunks[k]
           ws == FinalWrites(c, nf)
           q == p \o ws
           file == FileOf(on, p)
           after == FileOf(on, q)
           f == Finalized(e, k, c)
           N == Chunk(nf, FALSE, c.blit, NewPage)
<1>1. c \in Chunks /\ k \in Known(e.info) /\ e.chunks[j] \in Chunks /\ e.info[j] \in KindInfos /\ e.info[k] \in KindInfos
  BY TypesOfKind DEF Reaches, Owned, ChunkOwned
<1>2. NextOf(e, c) = nf /\ nf \in Nat
  BY DEF NextOf, Engines
<1>3. f \in Engines /\ f.chunks[k] = N /\ (j # k => f.chunks[j] = e.chunks[j])
  <2>1. c \in Chunks /\ NextOf(e, c) = nf /\ NextOf(e, c) \in PageNums
    BY <1>1, <1>2
  <2> HIDE DEF c, nf
  <2>2. f \in Engines /\ f.chunks[k] = Chunk(NextOf(e, c), FALSE, c.blit, NewPage) /\ \A i \in Kinds \ {k} : f.chunks[i] = e.chunks[i]
    BY <2>1, NextAssigned
  <2> QED
    BY <2>1, <2>2
<1>4. /\ Len(ws) \in DOMAIN ws /\ ws[Len(ws)].page = c.cur /\ IsData(ws[Len(ws)].to)
            /\ ws[Len(ws)].to.next = nf /\ ws[Len(ws)].to.content = c.page.content
      /\ \A i \in DOMAIN ws : ws[i].page \in {-1, c.blit, c.cur}
  BY <1>1, FullPageEnds
<1>5. ws \in Seq(Writes)
  BY <1>1, WritesOfFullPage
<1>6. file \in Files /\ after \in Files
  <2>1. q \in Seq(Writes)
    BY <1>5
  <2> HIDE DEF ws, q
  <2> QED
    BY <2>1, FileTypes
<1>7. f.chunks[j] \in Chunks
  BY <1>3, TypesOfKind
<1>8. DOMAIN owner = 1 .. nf - 1 /\ nf # 0 /\ \A n \in DOMAIN owner : n < nf /\ n # nf /\ n # -1
  <2>1. owner \in [1 .. nf - 1 -> Places] /\ nf \in Nat \ {0}
    BY <1>2 DEF Reaches, Owned
  <2> HIDE DEF nf
  <2> QED
    BY <2>1
<1> HIDE DEF nf, c, ws, q, file, after, f, N
<1>9. \A n \in PageNums : n \notin {-1, c.blit, c.cur} => after[n] = file[n]
  <2> SUFFICES ASSUME NEW n \in PageNums, n \notin {-1, c.blit, c.cur} PROVE after[n] = file[n]
    OBVIOUS
  <2>1. \A i \in DOMAIN ws : ws[i].page # n
    BY <1>4
  <2> QED
    BY <1>5, <2>1, FurtherWrites DEF after, file, q
<1>10. CASE j \notin Known(e.info)
  BY <1>1, <1>6, <1>7, <1>10, UnknownHolds DEF q, ws, c, nf, file, after, f
<1>11. CASE j \in Known(e.info) /\ j # k
  <2> DEFINE S == OfKind(owner, j)
             i == e.info[j]
             b == e.chunks[j]
  <2>1. /\ 0 \notin S /\ S \subseteq DOMAIN owner /\ S \subseteq PageNums /\ i.first \in S
        /\ i.blit \in DOMAIN owner /\ owner[i.blit].kind = j /\ \A n \in S : owner[n].kind = j
    BY <1>11, KindPages DEF file
  <2>2. /\ c.cur \in OfKind(owner, k) /\ c.blit \in DOMAIN owner /\ owner[c.blit].kind = k /\ owner[c.cur].kind = k
    BY <1>1, KindPages DEF file, c
  <2>3. \A n \in S : PieceAt(file, i, b, n).next \in S \cup {0}
    BY <1>6, <1>11, NextPieces DEF file
  <2>4. i.blit \in PageNums
    BY <1>1 DEF KindInfos
  <2> HIDE DEF S, i, b
  <2>5. \A n \in PageNums : n \in DOMAIN owner /\ owner[n].kind = j => after[n] = file[n]
    BY <1>8, <1>9, <1>11, <2>2
  <2>6. after[i.blit] = file[i.blit] /\ \A n \in S : after[n] = file[n]
    BY <2>1, <2>4, <2>5
  <2>7. \A n \in S : PieceAt(after, i, b, n) = PieceAt(file, i, b, n)
    BY <2>6, PiecesSame
  <2>8. \A n \in S : LET x == PieceAt(after, i, b, n)
                         y == PieceAt(file, i, b, n)
                     IN  n \in PageNums /\ x = y /\ y.next \in S \cup {0}
    BY <2>1, <2>3, <2>7
  <2>9. i \in KindInfos /\ b \in Chunks
    BY <1>1 DEF i, b
  <2>10. Contents(after, i, b) = Contents(file, i, b)
    BY <1>6, <2>1, <2>8, <2>9, ContentsAlike
  <2> QED
    BY <1>3, <1>11, <2>10 DEF q, ws, c, nf, file, after, f, i, b
<1>12. CASE j = k
  <2> DEFINE S == OfKind(owner, k)
             i == e.info[k]
  <2>1. /\ 0 \notin S /\ S \subseteq DOMAIN owner /\ S \subseteq PageNums /\ i.first \in S /\ i.blit \notin S
        /\ c.cur \in S /\ c.blit = i.blit /\ (\A n \in S : n # c.cur => Continues(file, n)) /\ c.page.content \in Seq(Nat)
    BY <1>1, KindPages DEF file, c
  <2>2. \A n \in S : n # c.cur => PieceAt(file, i, c, n).next \in S /\ PieceAt(file, i, c, n) = Piece(file[n].content, file[n].next)
                                  /\ (PieceAt(file, i, c, n).next # 0 => n < PieceAt(file, i, c, n).next)
    BY <1>1, <1>6, NextPieces DEF file, c
  <2>3. i \in KindInfos /\ IsChunk(c)
    BY <1>1 DEF i, c
  <2> HIDE DEF S, i
  <2>4. N.cur = nf /\ IsChunk(N) /\ N.page.content = <<>> /\ N \in Chunks
    BY <1>3, <1>7, <1>8, <1>12 DEF N, Chunk, IsChunk, NewPage, Data
  <2>5. \A n \in S : n # c.cur => /\ PieceAt(after, i, N, n) = PieceAt(file, i, c, n)
    <3> SUFFICES ASSUME NEW n \in S, n # c.cur PROVE PieceAt(after, i, N, n) = PieceAt(file, i, c, n)
      OBVIOUS
    <3>1. after[n] = file[n]
      <4>1. n \in PageNums /\ n # -1 /\ n # c.blit
        BY <1>8, <2>1
      <4> QED
        BY <1>9, <4>1
    <3>2. Continues(after, n) /\ n # N.cur
      <4>1. n \in DOMAIN owner /\ Continues(file, n)
        BY <2>1
      <4> QED
        BY <1>8, <2>4, <3>1, <4>1 DEF Continues
    <3>3. PieceAt(after, i, N, n) = Piece(after[n].content, after[n].next)
      BY <3>2, PiecesSame
    <3> QED
      BY <2>2, <3>1, <3>3
  <2>6. IsData(after[c.cur]) /\ after[c.cur].next = nf /\ after[c.cur].content = c.page.content
    <3>1. c.cur \in PageNums
      BY <2>1
    <3>2. DOMAIN ws = 1 .. Len(ws)
      BY <1>5
    <3>3. \A m \in DOMAIN ws : m <= Len(ws)
      BY <3>2
    <3>4. after[c.cur] = ws[Len(ws)].to
      BY <1>4, <1>5, <3>1, <3>3, FurtherWrites DEF after, q
    <3> QED
      BY <1>4, <3>4
  <2>7. PieceAt(after, i, N, c.cur) = Piece(c.page.content, nf)
    <3>1. Continues(after, c.cur) /\ c.cur # N.cur
      BY <1>8, <2>1, <2>4, <2>6 DEF Continues
    <3>2. PieceAt(after, i, N, c.cur) = Piece(after[c.cur].content, after[c.cur].next)
      BY <3>1, PiecesSame
    <3> QED
      BY <2>6, <3>2
  <2>8. PieceAt(after, i, N, nf) = Piece(<<>>, 0)
    BY <2>4, PiecesSame
  <2>9. PieceAt(file, i, c, c.cur) = Piece(c.page.content, 0)
    BY <2>3, PiecesSame
  <2>10. nf \in PageNums /\ c.cur < nf
    BY <1>8, <2>1 DEF nf
  <2>11. MorePieces(file, i, c, after, N, S, c.cur, <<>>)
    <3>1. LET a == PieceAt(file, i, c, c.cur)
              b == PieceAt(after, i, N, c.cur)
          IN  a.next = 0 /\ b.content = a.content /\ c.cur < b.next /\ b.next \in PageNums /\ PieceAt(after, i, N, b.next) = Piece(<<>>, 0)
      BY <2>7, <2>8, <2>9, <2>10 DEF Piece
    <3>2. \A n \in S : LET a == PieceAt(file, i, c, n)
                           b == PieceAt(after, i, N, n)
                       IN  n \in PageNums /\ (n # c.cur => a = b /\ b.next \in S /\ n < b.next)
      BY <2>1, <2>2, <2>5
    <3> QED
      BY <2>1, <3>1, <3>2 DEF MorePieces
  <2>12. Contents(after, i, N) = Contents(file, i, c) \o <<>>
    <3> DEFINE t == <<>>
    <3>1. t \in Seq(Nat) /\ MorePieces(file, i, c, after, N, S, c.cur, t)
      BY <2>11
    <3> HIDE DEF t
    <3>2. Contents(after, i, N) = Contents(file, i, c) \o t
      BY <1>1, <1>6, <2>3, <2>4, <3>1, ContentsMore
    <3> QED
      BY <3>2 DEF t
  <2>13. Contents(file, i, c) \in Seq(Nat)
    BY <1>1, <1>6, <2>3, ContentsTypes
  <2>14. \A s \in Seq(Nat) : s \o <<>> = s
    OBVIOUS
  <2>15. Contents(after, i, N) = Contents(file, i, c)
    BY <2>12, <2>13, <2>14
  <2> QED
    BY <1>3, <1>12, <2>15 DEF q, ws, c, nf, file, after, f, i
<1> QED
  BY <1>10, <1>11, <1>12

\* A sync changes nothing of what is read.
LEMMA SyncHolds ==
  ASSUME NEW e \in Engines, NEW on \in Files, NEW p \in Seq(Writes), NEW owner, Reaches(owner, e, FileOf(on, p)), NEW k \in Kinds,
         Synced(e) \in Engines
  PROVE  Contents(FileOf(on, p \o SyncWrites(e)), e.info[k], Synced(e).chunks[k]) = Contents(FileOf(on, p), e.info[k], e.chunks[k])
<1> DEFINE file == FileOf(on, p)
           ws == SyncWrites(e)
           q == p \o ws
           after == FileOf(on, q)
           f == Synced(e)
           i == e.info[k]
           c == e.chunks[k]
           d == f.chunks[k]
           S == OfKind(owner, k)
<1>1. i \in KindInfos /\ c \in Chunks /\ d \in Chunks
  BY TypesOfKind
<1>2. file \in Files /\ after \in Files
  <2>1. q \in Seq(Writes)
    <3>1. ws \in Seq(Writes)
      BY SyncWritten
    <3> HIDE DEF ws
    <3> QED
      BY <3>1
  <2> HIDE DEF q
  <2> QED
    BY <2>1, FileTypes
<1>3. /\ c.dirty => IsChunk(c)
      /\ ~ c.dirty => d = c
      /\ d.cur = c.cur /\ d.page.content = c.page.content
  BY SyncedChunks DEF Reaches, Owned, ChunkOwned
<1>4. CASE k \notin Known(e.info)
  BY <1>1, <1>2, <1>4, UnknownHolds
<1>5. CASE k \in Known(e.info)
  <2>1. /\ 0 \notin S /\ S \subseteq DOMAIN owner /\ S \subseteq PageNums /\ i.first \in S /\ \A n \in S : owner[n].kind = k
        /\ i.blit \in DOMAIN owner /\ owner[i.blit].kind = k
        /\ IsChunk(c) => c.cur \in S /\ c.blit = i.blit /\ \A n \in S : n # c.cur => Continues(file, n)
    BY <1>5, KindPages
  <2>2. \A n \in S : PieceAt(file, i, c, n).next \in S \cup {0}
    BY <1>2, <1>5, NextPieces
  <2>3. \A n \in DOMAIN owner : owner[n].kind = k /\ (c.dirty => n # WriteOf(e, k).page) => after[n] = file[n]
    BY SyncedPages
  <2>4. c.dirty => WriteOf(e, k).page \in {c.cur, c.blit}
    BY WrittenPage
  <2> DEFINE w == WriteOf(e, k).page
  <2> HIDE DEF w, file, ws, q, after, f, i, c, d, S
  <2>5. ASSUME NEW n \in S PROVE PieceAt(after, i, d, n) = PieceAt(file, i, c, n)
    <3>1. CASE IsChunk(c) /\ n = c.cur
      <4>1. IsChunk(d) /\ n = d.cur
        BY <1>3, <3>1 DEF IsChunk
      <4>2. PieceAt(file, i, c, n) = Piece(c.page.content, 0)
        BY <3>1, PiecesSame
      <4>3. PieceAt(after, i, d, n) = Piece(d.page.content, 0)
        BY <4>1, PiecesSame
      <4> QED
        BY <1>3, <4>2, <4>3
    <3>2. CASE IsChunk(c) /\ n # c.cur
      <4>1. Continues(file, n)
        BY <2>1, <3>2
      <4>2. n # c.blit
        <5>1. c.blit \notin S
          BY <1>5, <3>2, KindPages DEF S, file, c
        <5> QED
          BY <5>1
      <4>3. after[n] = file[n]
        BY <2>1, <2>3, <2>4, <3>2, <4>2 DEF w
      <4>4. Continues(after, n) /\ n # d.cur
        BY <1>3, <3>2, <4>1, <4>3 DEF Continues
      <4>5. PieceAt(file, i, c, n) = Piece(file[n].content, file[n].next)
        BY <3>2, <4>1, PiecesSame
      <4>6. PieceAt(after, i, d, n) = Piece(after[n].content, after[n].next)
        BY <4>4, PiecesSame
      <4> QED
        BY <4>3, <4>5, <4>6
    <3>3. CASE ~ IsChunk(c)
      <4>1. ~ c.dirty /\ d = c
        BY <1>3, <3>3
      <4>2. after[n] = file[n] /\ after[i.blit] = file[i.blit]
        BY <2>1, <2>3, <4>1
      <4> QED
        BY <4>1, <4>2, PiecesSame
    <3> QED
      BY <3>1, <3>2, <3>3
  <2>6. \A n \in S : LET x == PieceAt(after, i, d, n)
                         y == PieceAt(file, i, c, n)
                     IN  n \in PageNums /\ x = y /\ y.next \in S \cup {0}
    BY <2>1, <2>2, <2>5
  <2>7. Contents(after, i, d) = Contents(file, i, c)
    BY <1>1, <1>2, <2>1, <2>6, ContentsAlike
  <2> QED
    BY <2>7 DEF file, ws, q, after, f, i, c, d
<1> QED
  BY <1>4, <1>5
-----------------------------------------------------------------------------
(* What a crash leaves.                                                    *)

\* Of what is read, what is on disk is still there, and nothing else but what was
\* written.
LEMMA CrashHolds ==
  ASSUME NEW e \in Engines, NEW on \in Files, NEW p \in Seq(Writes), NEW owner, Reaches(owner, e, FileOf(on, p)),
         NEW k \in Kinds, k \in Known(e.info) => KindSurvives(owner, e, on, p, k), NEW d \in CrashOutcomes(on, p)
  PROVE  /\ Begins(Contents(on, e.info[k], NoChunk), Contents(d, e.info[k], NoChunk))
         /\ Begins(Contents(d, e.info[k], NoChunk), Contents(FileOf(on, p), e.info[k], e.chunks[k]))
<1> DEFINE file == FileOf(on, p)
           i == e.info[k]
           c == e.chunks[k]
           S == OfKind(owner, k)
<1>1. i \in KindInfos /\ c \in Chunks /\ NoChunk \in Chunks /\ file \in Files /\ d \in Files
  BY TypesOfKind, FileTypes, CrashedFile
<1>2. CASE k \notin Known(e.info)
  <2>1. Contents(on, i, NoChunk) = <<>> /\ Contents(d, i, NoChunk) = <<>> /\ Contents(file, i, c) = <<>>
    BY <1>1, <1>2, UnknownHolds
  <2> HIDE DEF file, i, c
  <2>2. Begins(<<>>, <<>>)
    <3>1. <<>> \in Seq(Nat)
      OBVIOUS
    <3> QED
      BY <3>1, BeginsWith
  <2>3. Begins(Contents(on, i, NoChunk), Contents(d, i, NoChunk)) /\ Begins(Contents(d, i, NoChunk), Contents(file, i, c))
    BY <2>1, <2>2
  <2> QED
    BY <2>3 DEF file, i, c
<1>3. CASE k \in Known(e.info)
  <2>1. 0 \notin S /\ S \subseteq PageNums /\ i.first \in S
    BY <1>3, KindPages
  <2>2. \A n \in S : PieceAt(file, i, c, n).next \in S \cup {0}
    BY <1>1, <1>3, NextPieces
  <2>3. \A n \in S : /\ Between(PieceAt(on, i, NoChunk, n), PieceAt(d, i, NoChunk, n))
                     /\ Between(PieceAt(d, i, NoChunk, n), PieceAt(file, i, c, n))
    BY <1>3 DEF KindSurvives, PieceSurvives
  <2> HIDE DEF file, i, c, S
  <2>4. \A n \in S : LET x == PieceAt(d, i, NoChunk, n)
                         y == PieceAt(file, i, c, n)
                     IN  n \in PageNums /\ Between(x, y) /\ (x = y => y.next \in S \cup {0})
    BY <2>1, <2>2, <2>3
  <2>5. \A n \in S : PieceAt(d, i, NoChunk, n).next \in S \cup {0}
    BY <2>2, <2>3 DEF Between
  <2>6. \A n \in S : LET x == PieceAt(on, i, NoChunk, n)
                         y == PieceAt(d, i, NoChunk, n)
                     IN  n \in PageNums /\ Between(x, y) /\ (x = y => y.next \in S \cup {0})
    BY <2>1, <2>3, <2>5
  <2>7. Begins(Contents(d, i, NoChunk), Contents(file, i, c))
    BY <1>1, <2>1, <2>4, ContentsLess
  <2>8. Begins(Contents(on, i, NoChunk), Contents(d, i, NoChunk))
    BY <1>1, <2>1, <2>6, ContentsLess
  <2> QED
    BY <2>7, <2>8 DEF file, i, c
<1> QED
  BY <1>2, <1>3

\* The links that are on disk.
LEMMA LinksSurvive ==
  ASSUME NEW on, NEW p, NEW i, NEW c, NEW n, PieceSurvives(on, p, i, c, n), Continues(on, n), NEW d \in CrashOutcomes(on, p)
  PROVE  /\ Continues(d, n) /\ d[n].next = on[n].next
         /\ Continues(FileOf(on, p), n) /\ FileOf(on, p)[n].next = on[n].next
<1> DEFINE x == PieceAt(on, i, NoChunk, n)
           y == PieceAt(d, i, NoChunk, n)
           z == PieceAt(FileOf(on, p), i, c, n)
<1>1. Between(x, y) /\ Between(y, z)
  BY DEF PieceSurvives
<1>2. ~ IsChunk(NoChunk)
  BY DEF IsChunk, NoChunk, Chunk
<1>3. x.next = on[n].next /\ on[n].next # 0
  BY <1>2, PieceCases DEF Continues
<1>4. y.next # 0 => Continues(d, n) /\ y.next = d[n].next
  BY <1>2, PieceCases
<1>5. z.next # 0 => Continues(FileOf(on, p), n) /\ z.next = FileOf(on, p)[n].next
  BY PieceCases
<1> HIDE DEF x, y, z
<1> QED
  BY <1>1, <1>3, <1>4, <1>5 DEF Between

\* What a crash leaves can be opened.
LEMMA CrashSettled ==
  ASSUME NEW e \in Engines, NEW on \in Files, NEW p \in Seq(Writes), NEW owner, Durable(owner, e, on, p), ~ Creates(e, on, p),
         NEW d \in CrashOutcomes(on, p)
  PROVE  Settled(e.info, d, <<>>)
<1>1. Reaches(owner, e, FileOf(on, p)) /\ (\A k \in Known(e.info) : KindSurvives(owner, e, on, p, k)) /\ Settled(e.info, on, p)
  BY DEF Durable, SafeFor
<1>2. PICK own : \E n : Connected(own, e.info, n, d)
  <2>1. PICK old : CrashSafe(owner, e, on, p, old)
    BY DEF Durable, SafeFor
  <2>2. Owned(owner, {}, e, FileOf(on, p))
    BY <1>1 DEF Reaches
  <2> QED
    BY <2>1, <2>2, CrashConnects
<1>3. PICK top : Connected(own, e.info, top, d)
  BY <1>2
<1>4. PICK was : \E n : Connected(was, e.info, n, on) /\ BlitsIn(was, e.info, on, p)
  BY <1>1 DEF Settled
<1>5. PICK m : Connected(was, e.info, m, on) /\ BlitsIn(was, e.info, on, p)
  BY <1>4
<1>6. Connected(owner, e.info, e.nextFree - 1, FileOf(on, p))
  BY <1>1, OwnedConnects DEF Reaches
<1>7. ASSUME NEW k \in Known(e.info) PROVE OfKind(was, k) \subseteq OfKind(own, k)
  <2>1. \A n \in OfKind(owner, k) : Continues(on, n) => /\ Continues(d, n) /\ d[n].next = on[n].next
                                                       /\ Continues(FileOf(on, p), n) /\ FileOf(on, p)[n].next = on[n].next
    BY <1>1, LinksSurvive DEF KindSurvives
  <2>2. OfKind(was, k) \subseteq OfKind(owner, k)
    BY <1>5, <1>6, <2>1, KindWithin
  <2>3. \A n \in OfKind(was, k) : Continues(on, n) => Continues(d, n) /\ d[n].next = on[n].next
    BY <2>1, <2>2
  <2> QED
    BY <1>3, <1>5, <2>3, KindWithin
<1>8. BlitsIn(own, e.info, d, <<>>)
  <2> SUFFICES ASSUME NEW k \in Known(e.info), NEW n, HeldFor(d, <<>>, e.info[k].blit, n) PROVE n \in OfKind(own, k)
    BY DEF BlitsIn
  <2>1. e.info[k].blit \in PageNums
    BY DEF Engines, Infos, Known
  <2> DEFINE b == e.info[k].blit
  <2>2. IsData(d[b]) /\ d[b].next = n
    BY DEF HeldFor, MayHold
  <2>3. d[b] # Torn
    BY <2>2 DEF IsData, Torn
  <2>4. MayHold(on, p, b, d[b])
    BY <2>1, <2>3, CrashedFile
  <2>5. HeldFor(on, p, b, n)
    BY <2>2, <2>4 DEF HeldFor
  <2> QED
    BY <1>5, <1>7, <2>5 DEF BlitsIn
<1> QED
  BY <1>3, <1>8 DEF Settled
-----------------------------------------------------------------------------
(* What is synced survives.                                                *)

\* When a file is on disk it can be opened, and it has all that is in memory.
LEMMA FileDurable ==
  ASSUME NEW e \in Engines, NEW on \in Files, NEW p \in Seq(Writes), NEW owner, Durable(owner, e, on, p), FileOf(on, p)[0] = Header(e.info),
         Kept(owner, e, FileOf(on, p), <<>>), Clean(e)
  PROVE  LET file == FileOf(on, p) IN
         /\ file \in Files /\ Durable(owner, e, file, <<>>) /\ WritesIn(owner, <<>>) /\ Settled(e.info, file, <<>>)
         /\ \A k \in Kinds : Contents(file, e.info[k], NoChunk) = Contents(file, e.info[k], e.chunks[k])
<1> DEFINE file == FileOf(on, p)
<1>1. Reaches(owner, e, file) /\ BlitsIn(owner, e.info, file, <<>>)
  <2>1. e.info \in Infos
    BY DEF Engines
  <2> QED
    BY <2>1, FileBlits DEF Durable, SafeFor
<1>2. file \in Files /\ <<>> \in Seq(Writes) /\ FileOf(file, <<>>) = file
  <2>1. file \in Files
    BY FileTypes
  <2> HIDE DEF file
  <2>2. <<>> \in Seq(Writes)
    OBVIOUS
  <2> QED
    BY <2>1, <2>2, FileTypes
<1> HIDE DEF file
<1>3. Durable(owner, e, file, <<>>) /\ WritesIn(owner, <<>>)
  BY <1>1, <1>2, SettledDurable DEF file
<1>4. Settled(e.info, file, <<>>)
  <2>1. ~ Creates(e, file, <<>>)
    BY DEF Creates, file
  <2> QED
    BY <1>3, <2>1 DEF Durable
<1>5. \A k \in Kinds : Contents(file, e.info[k], NoChunk) = Contents(file, e.info[k], e.chunks[k])
  <2> DEFINE none == <<>>
  <2>1. none \in Seq(Writes) /\ FileOf(file, none) = file /\ Kept(owner, e, file, none) /\ Reaches(owner, e, FileOf(file, none))
    BY <1>1, <1>2 DEF file
  <2> HIDE DEF none
  <2> QED
    BY <1>2, <2>1, CleanHolds
<1> QED
  BY <1>2, <1>3, <1>4, <1>5 DEF file

\* The invariant: what the storage was last shown to hold is on disk; what is on
\* disk can be opened; of an open file, what a crash may leave can be, and holds
\* what is on disk; and what is in memory has been written, or will be.
EngineKept(owner) ==
  /\ Durable(owner, engine, disk, pending)
  /\ phase = "open" => Kept(owner, engine, disk, pending) /\ WritesIn(owner, pending) /\ FreshDirty(engine)
  /\ phase # "open" => Kept(owner, engine, File, <<>>) /\ Clean(engine)

SurvivesInv ==
  /\ synced = Recovered(disk)
  /\ phase = "closed" => IsEmptyFile \/ Settled(disk[0].info, disk, <<>>)
  /\ IsOpen => \E owner : EngineKept(owner)
  /\ IsOpen /\ ~ engine.headerDirty => disk[0] = Header(engine.info) \/ (Known(engine.info) = {} /\ disk[0].type # "header")

\* The types that the lemmas need.
LEMMA InvTypes ==
  ASSUME StorageInv
  PROVE  /\ engine \in Engines /\ disk \in Files /\ pending \in Seq(Writes) /\ items \in Nat /\ items + 1 \in Nat
         /\ File = FileOf(disk, pending) /\ File \in Files
         /\ ~ IsOpen => pending = <<>>
<1>1. engine \in Engines /\ disk \in Files /\ pending \in Seq(Writes) /\ items \in Nat /\ (~ IsOpen => pending = <<>>)
  BY DEF StorageInv, StorageTypeOK
<1> QED
  BY <1>1, FileTypes DEF File, FileOf

\* SurvivesInv holds at first.
LEMMA InitSurvives == Init => SurvivesInv
<1> SUFFICES ASSUME Init PROVE SurvivesInv
  OBVIOUS
<1>1. IsEmptyFile /\ ~ IsOpen /\ disk[0] = Blank
  BY MadePages DEF Init, IsEmptyFile, IsOpen
<1>2. synced = Recovered(disk)
  <2>1. disk[0].type # "header"
    BY <1>1 DEF Blank
  <2> QED
    BY <2>1 DEF Init, Recovered
<1> QED
  BY <1>1, <1>2 DEF SurvivesInv

\* SurvivesInv is kept when a new file is opened;
LEMMA OpenNewSurvives ==
  ASSUME StorageInv, StorageInv', OpensInv', SurvivesInv, OpenNew
  PROVE  SurvivesInv'
<1> DEFINE w  == Write(0, Header(NoHeader))
<1>1. /\ disk' = disk /\ synced' = synced /\ pending' = <<w>> /\ phase' = "open" /\ disk[0] = Blank
      /\ engine'.info = NoHeader /\ engine'.headerDirty = FALSE /\ engine'.chunks = [k \in Kinds |-> NoChunk]
  BY MadePages DEF OpenNew, IsEmptyFile, Opened
<1>2. Known(engine'.info) = {}
  BY <1>1 DEF NoHeader, Known
<1>3. w.page = 0
  BY DEF Write
<1> HIDE DEF w
<1>4. PICK owner : SafeFor(owner, engine', disk', pending')
  BY <1>1 DEF OpensInv, IsOpen, Safe
<1>5. Creates(engine', disk', pending')
  <2>1. 1 \in DOMAIN pending' /\ pending'[1].page = 0
    BY <1>1, <1>3
  <2> QED
    BY <2>1 DEF Creates
<1>6. Durable(owner, engine', disk', pending')
  BY <1>2, <1>4, <1>5 DEF Durable, BlitsIn
<1>7. Kept(owner, engine', disk', pending')
  BY <1>2 DEF Kept
<1>8. WritesIn(owner, pending')
  BY <1>1, <1>3 DEF WritesIn, Written
<1>9. FreshDirty(engine')
  BY <1>1 DEF FreshDirty, NoChunk, Chunk, IsChunk
<1>10. EngineKept(owner)'
  BY <1>1, <1>6, <1>7, <1>8, <1>9 DEF EngineKept
<1>11. disk'[0].type # "header"
  BY <1>1 DEF Blank
<1> QED
  BY <1>1, <1>2, <1>10, <1>11 DEF SurvivesInv, Recovered

\* when a file is opened and scanned;
LEMMA OpenFileSurvives ==
  ASSUME StorageInv, OpensInv, SurvivesInv, OpenFile
  PROVE  SurvivesInv'
<1> DEFINE info == disk[0].info
           scan == ScanBlocks(disk, info)
           e == Opened(info, scan)
<1>1. disk \in Files /\ pending' = <<>> /\ disk' = disk /\ synced' = synced /\ phase = "closed" /\ ~ IsEmptyFile
  BY InvTypes DEF OpenFile, IsOpen
<1>2. disk[0].type = "header" /\ scan.ok
  BY <1>1 DEF OpensInv, Opens
<1>3. engine' = e /\ phase' = "open"
  BY <1>2 DEF OpenFile
<1>4. disk[0] \in Pages
  BY <1>1, MadePages DEF Files
<1>5. info \in Infos /\ disk[0] = Header(info)
  BY <1>2, <1>4, PageTypes
<1>6. Settled(info, disk, <<>>)
  BY <1>1 DEF SurvivesInv
<1>7. e.info = info
  BY DEF Opened
<1>8. /\ e \in Engines /\ Clean(e)
      /\ \E owner : Durable(owner, e, disk, <<>>) /\ Kept(owner, e, disk, <<>>) /\ WritesIn(owner, <<>>)
  BY <1>1, <1>2, <1>5, <1>6, OpenDurable
<1> HIDE DEF e, info, scan
<1>9. PICK owner : Durable(owner, e, disk, <<>>) /\ Kept(owner, e, disk, <<>>) /\ WritesIn(owner, <<>>)
  BY <1>8
<1>10. FreshDirty(e)
  BY <1>8 DEF Clean, FreshDirty
<1>11. EngineKept(owner)'
  BY <1>1, <1>3, <1>9, <1>10 DEF EngineKept
<1> QED
  BY <1>1, <1>3, <1>5, <1>7, <1>11 DEF SurvivesInv, Recovered

\* The engine that an item is added to.
LEMMA PrepareSurvives ==
  ASSUME Situations = {}, StorageInv, OpensInv, SurvivesInv, NEW k \in Kinds, AppendFits(k)
  PROVE  LET e == Prepare(engine, k) IN
         /\ e \in Engines /\ IsChunk(e.chunks[k]) /\ k \in Known(e.info)
         /\ \A j \in Kinds \ {k} : e.info[j] = engine.info[j] /\ e.chunks[j] = engine.chunks[j]
         /\ Contents(File, e.info[k], e.chunks[k]) = Contents(File, engine.info[k], engine.chunks[k])
         /\ e.headerDirty \/ e = engine
         /\ \E owner : Durable(owner, e, disk, pending) /\ Kept(owner, e, disk, pending) /\ WritesIn(owner, pending)
<1> DEFINE e == Prepare(engine, k)
           nf == engine.nextFree
<1>1. /\ engine \in Engines /\ disk \in Files /\ pending \in Seq(Writes) /\ File = FileOf(disk, pending) /\ File \in Files
      /\ phase = "open" /\ IsOpen
  BY InvTypes DEF AppendFits, CanAppend, IsOpen
<1>2. PICK owner : EngineKept(owner)
  BY <1>1 DEF SurvivesInv
<1>3. Durable(owner, engine, disk, pending) /\ Kept(owner, engine, disk, pending) /\ WritesIn(owner, pending)
  BY <1>1, <1>2 DEF EngineKept
<1>4. Reaches(owner, engine, File)
  BY <1>1, <1>3 DEF Durable, SafeFor
<1>5. CASE IsChunk(engine.chunks[k])
  <2>1. e = engine
    BY <1>5 DEF Prepare
  <2>2. k \in Known(engine.info)
    BY <1>4, <1>5 DEF Reaches, Owned, ChunkOwned
  <2> QED
    BY <1>1, <1>3, <1>5, <2>1, <2>2
<1>6. CASE ~ IsChunk(engine.chunks[k])
  <2>1. e.nextFree = nf + 2 /\ nf \in Nat
    BY <1>1, <1>6 DEF Prepare, Engines
  <2>2. Assignable(nf .. e.nextFree - 1)
    BY DEF AppendFits
  <2>3. engine.info[k] = NoInfo
    BY <1>6 DEF AppendFits, CanAppend
  <2>4. nf # 0
    BY <1>4 DEF Reaches, Owned
  <2> HIDE DEF e, nf
  <2>5. nf + 1 < MaxPages /\ ~ IsData(File[nf]) /\ ~ IsData(File[nf + 1])
    <3>1. nf \in nf .. e.nextFree - 1 /\ nf + 1 \in nf .. e.nextFree - 1
      BY <2>1
    <3> QED
      BY <2>2, <3>1 DEF Assignable
  <2>6. nf + 1 \in PageNums /\ nf + 1 # 0
    BY <2>1, <2>5, StorageAssumption DEF PageNums
  <2>7. disk[0].type = "header" => Known(disk[0].info) \subseteq Known(engine.info)
    BY <1>1 DEF OpensInv
  <2>8. /\ e \in Engines /\ e.headerDirty
        /\ e.info[k] = [first |-> nf + 1, blit |-> nf] /\ e.chunks[k] = Chunk(nf + 1, FALSE, nf, NewPage)
        /\ \A j \in Kinds \ {k} : e.info[j] = engine.info[j] /\ e.chunks[j] = engine.chunks[j]
    BY <1>1, <1>6, <2>6, KindPrepared DEF e, nf
  <2>9. e.chunks[k].cur = nf + 1 /\ e.chunks[k].page.content = <<>> /\ e.info[k].first = nf + 1 /\ e.info[k] # NoInfo
    BY <2>6, <2>8 DEF Chunk, NewPage, Data, NoInfo
  <2>10. IsChunk(e.chunks[k]) /\ k \in Known(e.info)
    BY <2>6, <2>9 DEF IsChunk, Known
  <2>11. Contents(File, e.info[k], e.chunks[k]) = <<>>
    <3> DEFINE i == e.info[k]
               c == e.chunks[k]
    <3>1. i \in KindInfos /\ c \in Chunks
      BY <2>8, TypesOfKind
    <3>2. File \in Files /\ IsChunk(c) /\ i.first = c.cur /\ c.page.content = <<>>
      BY <1>1, <2>9, <2>10
    <3> HIDE DEF i, c
    <3>3. Contents(File, i, c) = <<>>
      BY <3>1, <3>2, NewHolds
    <3> QED
      BY <3>3 DEF i, c
  <2>12. Contents(File, engine.info[k], engine.chunks[k]) = <<>>
    BY <1>1, <2>3, TypesOfKind, UnknownHolds DEF Known
  <2>13. \E own : Durable(own, e, disk, pending) /\ Kept(own, e, disk, pending) /\ WritesIn(own, pending)
    BY <1>1, <1>3, <1>6, <2>3, <2>5, <2>6, <2>7, PrepareDurable DEF e, nf
  <2> QED
    BY <2>8, <2>10, <2>11, <2>12, <2>13 DEF e
<1> QED
  BY <1>5, <1>6

\* An item that is added to it.
LEMMA ItemStep ==
  ASSUME StorageInv, SurvivesInv, IsOpen, NEW e \in Engines, NEW k \in Known(e.info), IsChunk(e.chunks[k]), NEW owner, NEW p \in Seq(Writes),
         Durable(owner, e, disk, p), Kept(owner, e, disk, p), WritesIn(owner, p),
         NEW x \in Nat, disk' = disk, synced' = synced, pending' = p, phase' = "open", engine' = WithItem(e, k, x),
         \A j \in Kinds \ {k} : e.chunks[j] = engine.chunks[j], FreshDirty(engine),
         e.headerDirty \/ (e.headerDirty = engine.headerDirty /\ e.info = engine.info)
  PROVE  /\ SurvivesInv'
         /\ \A j \in Kinds : Contents(File', engine'.info[j], engine'.chunks[j]) =
              IF j = k THEN Append(Contents(FileOf(disk, p), e.info[k], e.chunks[k]), x) ELSE Contents(FileOf(disk, p), e.info[j], e.chunks[j])
<1> DEFINE f == WithItem(e, k, x)
<1>1. k \in Kinds /\ disk \in Files
  BY InvTypes DEF Known
<1>2. /\ f \in Engines /\ f.info = e.info /\ f.headerDirty = e.headerDirty
      /\ \A j \in Kinds \ {k} : f.chunks[j] = e.chunks[j]
  BY <1>1, ItemAdded
<1>3. Reaches(owner, e, FileOf(disk, p)) /\ FileOf(disk, p) \in Files
  BY <1>1, FileTypes DEF Durable, SafeFor
<1>4. Durable(owner, f, disk, p) /\ Kept(owner, f, disk, p)
  BY <1>1, <1>3, ItemDurable, ItemSurvives
<1>5. f.chunks[k].dirty
  BY <1>1 DEF WithItem, Engines, Chunks
<1>6. FreshDirty(f)
  <2> HIDE DEF f
  <2> QED
    BY <1>1, <1>2, <1>5 DEF FreshDirty
<1>7. File' = FileOf(disk, p)
  <2>1. File' = FileOf(disk', pending')
    BY DEF File, FileOf
  <2> QED
    BY <2>1
<1>8. Contents(File', f.info[k], f.chunks[k]) = Append(Contents(FileOf(disk, p), e.info[k], e.chunks[k]), x)
  BY <1>2, <1>3, <1>7, ItemHolds
<1> HIDE DEF f
<1>9. engine' = f
  BY DEF f
<1>10. EngineKept(owner)'
  BY <1>4, <1>6, <1>9 DEF EngineKept
<1>11. SurvivesInv'
  BY <1>2, <1>9, <1>10 DEF SurvivesInv, Recovered
<1> QED
  BY <1>2, <1>7, <1>8, <1>9, <1>11

\* An append that fits: the invariant, and what it does to the logs.
AppendsTo(k, x) ==
  \A j \in Kinds : Contents(File', engine'.info[j], engine'.chunks[j]) =
    IF j = k THEN Append(Contents(File, engine.info[k], engine.chunks[k]), x) ELSE Contents(File, engine.info[j], engine.chunks[j])

\* when an item is put in a kind's last page;
LEMMA AppendFitsSurvives ==
  ASSUME Situations = {}, StorageInv, OpensInv, SurvivesInv, NEW k \in Kinds, AppendFits(k)
  PROVE  SurvivesInv' /\ AppendsTo(k, items + 1)
<1> DEFINE e == Prepare(engine, k)
           x == items + 1
<1>1. /\ disk' = disk /\ pending' = pending /\ phase = "open" /\ phase' = "open" /\ synced' = synced /\ engine' = WithItem(e, k, x) /\ IsOpen
  BY DEF AppendFits, CanAppend, IsOpen
<1>2. /\ engine \in Engines /\ disk \in Files /\ pending \in Seq(Writes) /\ x \in Nat /\ File = FileOf(disk, pending)
  BY InvTypes
<1>3. FreshDirty(engine)
  BY <1>1 DEF SurvivesInv, EngineKept
<1>4. /\ e \in Engines /\ IsChunk(e.chunks[k]) /\ k \in Known(e.info)
      /\ \A j \in Kinds \ {k} : e.info[j] = engine.info[j] /\ e.chunks[j] = engine.chunks[j]
      /\ Contents(File, e.info[k], e.chunks[k]) = Contents(File, engine.info[k], engine.chunks[k])
      /\ e.headerDirty \/ e = engine
      /\ \E owner : Durable(owner, e, disk, pending) /\ Kept(owner, e, disk, pending) /\ WritesIn(owner, pending)
  BY PrepareSurvives
<1> HIDE DEF e, x
<1>5. PICK owner : Durable(owner, e, disk, pending) /\ Kept(owner, e, disk, pending) /\ WritesIn(owner, pending)
  BY <1>4
<1>6. e.headerDirty \/ (e.headerDirty = engine.headerDirty /\ e.info = engine.info)
  BY <1>4
<1>7. /\ SurvivesInv'
      /\ \A j \in Kinds : Contents(File', engine'.info[j], engine'.chunks[j]) =
           IF j = k THEN Append(Contents(FileOf(disk, pending), e.info[k], e.chunks[k]), x) ELSE Contents(FileOf(disk, pending), e.info[j], e.chunks[j])
  BY <1>1, <1>2, <1>3, <1>4, <1>5, <1>6, ItemStep
<1>8. AppendsTo(k, x)
  BY <1>2, <1>4, <1>7 DEF AppendsTo
<1> QED
  BY <1>7, <1>8 DEF x

\* when the last page is full and another is assigned;
LEMMA AppendFullSurvives ==
  ASSUME Situations = {}, StorageInv, OpensInv, SurvivesInv, NEW k \in Kinds, AppendFull(k)
  PROVE  SurvivesInv' /\ AppendsTo(k, items + 1)
<1> DEFINE c  == engine.chunks[k]
           n  == engine.nextFree
           e  == Finalized(engine, k, c)
           x  == items + 1
           q  == pending \o FinalWrites(c, n)
<1>1. /\ engine \in Engines /\ disk \in Files /\ pending \in Seq(Writes) /\ x \in Nat /\ File = FileOf(disk, pending)
      /\ phase = "open" /\ IsChunk(c) /\ IsOpen
  BY InvTypes DEF AppendFull, CanAppend, IsOpen
<1>2. c.page.next = 0 /\ ~ AssignedByOthers(k)
  BY DEF AppendFull
<1>3. NextOf(engine, c) = n
  BY <1>2 DEF NextOf
<1>4. /\ disk' = disk /\ phase' = "open" /\ synced' = synced /\ Assignable({n} \ {c.cur})
      /\ pending' = q /\ engine' = WithItem(e, k, x)
  <2>1. (IF c.dirty \/ c.page.next = 0 THEN FinalWrites(c, NextOf(engine, c)) ELSE <<>>) = FinalWrites(c, n)
    BY <1>2, <1>3
  <2> QED
    BY <1>1, <1>3, <2>1 DEF AppendFull
<1>5. PICK owner : Durable(owner, engine, disk, pending) /\ Kept(owner, engine, disk, pending) /\ WritesIn(owner, pending) /\ FreshDirty(engine)
  BY <1>1 DEF SurvivesInv, EngineKept
<1>6. Reaches(owner, engine, File)
  BY <1>1, <1>5 DEF Durable, SafeFor
<1>7. n \in Nat /\ n # 0 /\ c \in Chunks /\ c.cur # n /\ k \in Known(engine.info)
  <2>1. ChunkOwned(owner, engine, k) /\ owner \in [1 .. n - 1 -> Places] /\ n \in Nat /\ n # 0
    BY <1>6, StorageAssumption DEF Reaches, Owned
  <2>2. k \in Known(engine.info) /\ Owns(owner, c.cur, k, FALSE)
    BY <1>1, <2>1 DEF ChunkOwned
  <2>3. c \in Chunks
    BY <1>1 DEF Engines
  <2> HIDE DEF n, c
  <2> QED
    BY <2>1, <2>2, <2>3 DEF Owns
<1>8. n < MaxPages /\ ~ IsData(File[n]) /\ n \in PageNums
  <2>1. n < MaxPages /\ ~ IsData(File[n])
    BY <1>4, <1>7 DEF Assignable
  <2> HIDE DEF n
  <2> QED
    BY <1>7, <2>1, StorageAssumption DEF PageNums
<1>9. WritesOnlyOf(engine, disk, pending, k)
  BY <1>2, <1>7, OwnWrites
<1>10. \E own : Durable(own, e, disk, q) /\ Kept(own, e, disk, q) /\ WritesIn(own, q)
  BY <1>1, <1>2, <1>5, <1>8, <1>9, NextDurable
<1>11. \A j \in Kinds : Contents(FileOf(disk, q), engine.info[j], e.chunks[j]) = Contents(FileOf(disk, pending), engine.info[j], engine.chunks[j])
  BY <1>1, <1>2, <1>6, <1>8, NextHolds
<1>12. q \in Seq(Writes)
  <2>1. FinalWrites(c, n) \in Seq(Writes)
    BY <1>7, <1>8, WritesOfFullPage
  <2> QED
    BY <1>1, <2>1
<1> HIDE DEF q, x
<1>13. /\ e \in Engines /\ e.info = engine.info /\ e.headerDirty = engine.headerDirty
       /\ e.chunks[k] = Chunk(n, FALSE, c.blit, NewPage) /\ \A j \in Kinds \ {k} : e.chunks[j] = engine.chunks[j]
  <2> HIDE DEF c, n
  <2>1. NextOf(engine, c) \in PageNums
    BY <1>3, <1>8
  <2>2. /\ e \in Engines /\ e.info = engine.info /\ e.headerDirty = engine.headerDirty
        /\ e.chunks[k] = Chunk(NextOf(engine, c), FALSE, c.blit, NewPage) /\ \A j \in Kinds \ {k} : e.chunks[j] = engine.chunks[j]
    BY <1>1, <1>7, <2>1, NextAssigned
  <2> QED
    BY <1>3, <2>2
<1>14. IsChunk(e.chunks[k]) /\ k \in Known(e.info)
  <2> HIDE DEF c, n, e
  <2> QED
    BY <1>7, <1>13 DEF IsChunk, Chunk
<1> HIDE DEF c, n, e
<1>15. PICK own : Durable(own, e, disk, q) /\ Kept(own, e, disk, q) /\ WritesIn(own, q)
  BY <1>10
<1>16. /\ SurvivesInv'
       /\ \A j \in Kinds : Contents(File', engine'.info[j], engine'.chunks[j]) =
            IF j = k THEN Append(Contents(FileOf(disk, q), e.info[k], e.chunks[k]), x) ELSE Contents(FileOf(disk, q), e.info[j], e.chunks[j])
  <2>1. e.headerDirty \/ (e.headerDirty = engine.headerDirty /\ e.info = engine.info)
    BY <1>13
  <2>2. \A j \in Kinds \ {k} : e.chunks[j] = engine.chunks[j]
    BY <1>13
  <2>3. e \in Engines /\ x \in Nat /\ IsOpen /\ disk' = disk /\ synced' = synced /\ pending' = q /\ phase' = "open" /\ engine' = WithItem(e, k, x) /\ FreshDirty(engine)
    BY <1>1, <1>4, <1>5, <1>13
  <2> QED
    BY <1>12, <1>14, <1>15, <2>1, <2>2, <2>3, ItemStep
<1>17. AppendsTo(k, x)
  BY <1>1, <1>11, <1>13, <1>16 DEF AppendsTo
<1> QED
  BY <1>16, <1>17 DEF x

\* The logs stay as they are.
SameLogs == \A k \in Kinds : Contents(File', engine'.info[k], engine'.chunks[k]) = Contents(File, engine.info[k], engine.chunks[k])

\* when fsync() writes the header and the pages;
LEMMA StartSyncSurvives ==
  ASSUME StorageInv, StorageInv', OpensInv, SurvivesInv, NEW then \in {"syncing", "closing"}, StartSync(then)
  PROVE  SurvivesInv' /\ SameLogs
<1> DEFINE f == Synced(engine)
           q == pending \o SyncWrites(engine)
<1>1. /\ engine \in Engines /\ disk \in Files /\ pending \in Seq(Writes) /\ File = FileOf(disk, pending)
      /\ phase = "open" /\ IsOpen /\ disk' = disk /\ synced' = synced /\ pending' = q /\ phase' = then /\ phase' # "open" /\ phase' # "closed"
  BY InvTypes DEF StartSync, IsOpen
<1>2. engine' = f
  BY DEF StartSync, Synced
<1>3. f \in Engines
  BY <1>2, StorageInv' DEF StorageInv, StorageTypeOK
<1>4. ~ engine.headerDirty => FileOf(disk, pending)[0] = Header(engine.info)
  BY <1>1 DEF OpensInv
<1>5. PICK owner : Durable(owner, engine, disk, pending) /\ Kept(owner, engine, disk, pending) /\ FreshDirty(engine)
  BY <1>1 DEF SurvivesInv, EngineKept
<1>6. Durable(owner, f, disk, q) /\ Kept(owner, f, FileOf(disk, q), <<>>) /\ Clean(f)
  BY <1>1, <1>4, <1>5, SyncDurable
<1>7. Reaches(owner, engine, FileOf(disk, pending))
  BY <1>5 DEF Durable, SafeFor
<1>8. \A k \in Kinds : Contents(FileOf(disk, q), engine.info[k], f.chunks[k]) = Contents(FileOf(disk, pending), engine.info[k], engine.chunks[k])
  BY <1>1, <1>3, <1>7, SyncHolds
<1>9. f.info = engine.info /\ f.headerDirty = engine.headerDirty
  BY <1>1, SyncedChunks
<1>10. File' = FileOf(disk, q)
  <2>1. File' = FileOf(disk', pending')
    BY DEF File, FileOf
  <2> QED
    BY <1>1, <2>1
<1> HIDE DEF f, q
<1>11. EngineKept(owner)'
  BY <1>1, <1>2, <1>6, <1>10 DEF EngineKept
<1>12. SurvivesInv'
  BY <1>1, <1>2, <1>9, <1>11 DEF SurvivesInv, Recovered
<1>13. SameLogs
  BY <1>1, <1>2, <1>8, <1>9, <1>10 DEF SameLogs
<1> QED
  BY <1>12, <1>13

\* What the kinds of an open file hold.
Held == [k \in Kinds |-> Contents(File, engine.info[k], engine.chunks[k])]

\* When all is on disk, what is recovered from it is what was in memory.
LEMMA FileRecovers ==
  ASSUME StorageInv, OpensInv, SurvivesInv, IsOpen, File[0] = Header(engine.info),
         NEW owner, Durable(owner, engine, disk, pending), Kept(owner, engine, File, <<>>), Clean(engine)
  PROVE  /\ Recovered(File) = Held /\ Settled(File[0].info, File, <<>>) /\ Settled(engine.info, File, <<>>)
         /\ Durable(owner, engine, File, <<>>) /\ WritesIn(owner, <<>>)
<1>1. engine \in Engines /\ disk \in Files /\ pending \in Seq(Writes) /\ File = FileOf(disk, pending)
  BY InvTypes
<1>2. /\ Durable(owner, engine, File, <<>>) /\ WritesIn(owner, <<>>) /\ Settled(engine.info, File, <<>>)
      /\ \A k \in Kinds : Contents(File, engine.info[k], NoChunk) = Contents(File, engine.info[k], engine.chunks[k])
  BY <1>1, FileDurable
<1>3. File[0].type = "header" /\ File[0].info = engine.info
  BY DEF Header
<1> QED
  BY <1>2, <1>3 DEF Recovered, Held

\* when what was written is synced, after which this is what is recovered;
LEMMA SyncDataSurvives ==
  ASSUME StorageInv, OpensInv, SurvivesInv, SyncData
  PROVE  /\ SurvivesInv'
         /\ synced' = Held
         /\ phase' = "open" => Held' = Held
         /\ phase' = "closed" => Recovered(disk') = Held
<1>1. /\ engine \in Engines /\ disk \in Files /\ pending \in Seq(Writes) /\ File = FileOf(disk, pending) /\ File \in Files
      /\ IsOpen /\ phase # "open" /\ disk' = File /\ pending' = <<>> /\ synced' = Held
      /\ \/ phase' = "open" /\ engine' = engine
         \/ phase' = "closed"
  BY InvTypes DEF SyncData, IsOpen, Held
<1>2. File[0] = Header(engine.info)
  BY <1>1 DEF OpensInv
<1>3. PICK owner : EngineKept(owner)
  BY <1>1 DEF SurvivesInv
<1>4. Durable(owner, engine, disk, pending) /\ Kept(owner, engine, File, <<>>) /\ Clean(engine)
  BY <1>1, <1>3 DEF EngineKept
<1>5. /\ Recovered(File) = Held /\ Settled(File[0].info, File, <<>>)
      /\ Durable(owner, engine, File, <<>>) /\ WritesIn(owner, <<>>)
  BY <1>1, <1>2, <1>4, FileRecovers
<1>6. synced' = Recovered(disk') /\ Recovered(disk') = Held
  BY <1>1, <1>5
<1>7. CASE phase' = "open" /\ engine' = engine
  <2>1. FreshDirty(engine)
    BY <1>4 DEF Clean, FreshDirty
  <2>2. EngineKept(owner)'
    BY <1>1, <1>4, <1>5, <1>7, <2>1 DEF EngineKept
  <2>3. File' = File
    <3>1. File' = FileOf(disk', pending')
      BY DEF File, FileOf
    <3>2. <<>> \in Seq(Writes)
      OBVIOUS
    <3> QED
      BY <1>1, <3>1, <3>2, FileTypes
  <2>4. Held' = Held
    BY <1>7, <2>3 DEF Held
  <2> QED
    BY <1>1, <1>2, <1>6, <1>7, <2>2, <2>4 DEF SurvivesInv
<1>8. CASE phase' = "closed"
  BY <1>1, <1>5, <1>6, <1>8 DEF SurvivesInv, IsOpen
<1> QED
  BY <1>1, <1>7, <1>8

\* and when a file is closed with nothing to write.
LEMMA CloseCleanSurvives ==
  ASSUME StorageInv, OpensInv, SurvivesInv, CloseClean
  PROVE  SurvivesInv' /\ phase' = "closed" /\ synced' = synced /\ Recovered(disk') = Held
<1>1. /\ engine \in Engines /\ disk \in Files /\ pending \in Seq(Writes) /\ File = FileOf(disk, pending)
      /\ IsOpen /\ phase = "open" /\ disk' = File /\ phase' = "closed" /\ synced' = synced /\ SyncWrites(engine) = <<>>
  BY InvTypes DEF CloseClean, IsOpen
<1>2. ~ engine.headerDirty
  BY <1>1, CleanHeader
<1>3. File[0] = Header(engine.info)
  BY <1>1, <1>2 DEF OpensInv
<1>4. PICK owner : EngineKept(owner)
  BY <1>1 DEF SurvivesInv
<1>5. Durable(owner, engine, disk, pending) /\ Kept(owner, engine, disk, pending) /\ FreshDirty(engine)
  BY <1>1, <1>4 DEF EngineKept
<1>6. Reaches(owner, engine, FileOf(disk, pending))
  BY <1>5 DEF Durable, SafeFor
<1>7. Clean(engine)
  <2>1. \A k \in Kinds : engine.chunks[k].dirty => \E i \in DOMAIN SyncWrites(engine) : SyncWrites(engine)[i] = WriteOf(engine, k)
    BY <1>1, SyncWritten
  <2>2. DOMAIN SyncWrites(engine) = {}
    BY <1>1
  <2> QED
    BY <1>5, <2>1, <2>2 DEF Clean, FreshDirty
<1>8. Kept(owner, engine, File, <<>>)
  BY <1>1, <1>5, <1>6, <1>7, CleanKept
<1>9. Recovered(File) = Held /\ Settled(File[0].info, File, <<>>)
  BY <1>1, <1>3, <1>5, <1>7, <1>8, FileRecovers
<1>10. \A k \in Kinds : Contents(disk, engine.info[k], NoChunk) = Contents(File, engine.info[k], engine.chunks[k])
  BY <1>1, <1>5, <1>6, <1>7, CleanHolds
<1>11. Recovered(disk) = Held
  <2>1. CASE disk[0] = Header(engine.info)
    <3>1. disk[0].type = "header" /\ disk[0].info = engine.info
      BY <2>1 DEF Header
    <3> QED
      BY <1>10, <3>1 DEF Recovered, Held
  <2>2. CASE Known(engine.info) = {} /\ disk[0].type # "header"
    <3>1. \A k \in Kinds : Contents(File, engine.info[k], engine.chunks[k]) = <<>>
      <4>1. File \in Files
        BY InvTypes
      <4>2. \A k \in Kinds : engine.chunks[k] \in Chunks /\ k \notin Known(engine.info)
        BY <1>1, <2>2, TypesOfKind
      <4> QED
        BY <1>1, <4>1, <4>2, UnknownHolds
    <3> QED
      BY <2>2, <3>1 DEF Recovered, Held
  <2> QED
    BY <1>1, <1>2, <2>1, <2>2 DEF SurvivesInv
<1>12. synced' = Recovered(disk')
  BY <1>1, <1>9, <1>11 DEF SurvivesInv
<1> QED
  BY <1>1, <1>9, <1>12 DEF SurvivesInv, IsOpen

\* What a crash leaves of the logs.
LEMMA CrashSurvives ==
  ASSUME Situations = {}, StorageInv, OpensInv, SurvivesInv, Crash
  PROVE  /\ SurvivesInv' /\ phase' = "closed" /\ synced' = Recovered(disk') /\ IsOpen
         /\ \A k \in Kinds : Begins(synced[k], synced'[k]) /\ Begins(synced'[k], Held[k])
<1>1. /\ engine \in Engines /\ disk \in Files /\ pending \in Seq(Writes) /\ File = FileOf(disk, pending) /\ IsOpen
      /\ disk' \in CrashOutcomes(disk, pending) /\ phase' = "closed" /\ synced' = Recovered(disk')
      /\ disk[0] = Header(engine.info) /\ \A i \in DOMAIN pending : pending[i].page # 0
  BY InvTypes DEF Crash, Creating, IsOpen
<1>2. ~ Creates(engine, disk, pending)
  BY <1>1 DEF Creates
<1>3. PICK owner : Durable(owner, engine, disk, pending)
  BY <1>1 DEF SurvivesInv, EngineKept
<1>4. Settled(engine.info, disk', <<>>)
  BY <1>1, <1>2, <1>3, CrashSettled
<1>5. disk'[0] = disk[0]
  <2>1. \A n \in PageNums : (\A i \in DOMAIN pending : pending[i].page # n) => disk'[n] = disk[n]
    BY <1>1, CrashedFile
  <2> QED
    BY <1>1, <2>1, MadePages
<1>6. disk[0].type = "header" /\ disk[0].info = engine.info /\ disk'[0].type = "header" /\ disk'[0].info = engine.info
  BY <1>1, <1>5 DEF Header
<1>7. SurvivesInv'
  BY <1>1, <1>4, <1>6 DEF SurvivesInv, IsOpen
<1>8. Reaches(owner, engine, FileOf(disk, pending)) /\ \A k \in Known(engine.info) : KindSurvives(owner, engine, disk, pending, k)
  BY <1>2, <1>3 DEF Durable, SafeFor
<1>9. ASSUME NEW k \in Kinds
      PROVE  Begins(synced[k], synced'[k]) /\ Begins(synced'[k], Held[k])
  <2>1. /\ Begins(Contents(disk, engine.info[k], NoChunk), Contents(disk', engine.info[k], NoChunk))
        /\ Begins(Contents(disk', engine.info[k], NoChunk), Contents(File, engine.info[k], engine.chunks[k]))
    BY <1>1, <1>8, CrashHolds
  <2>2. synced[k] = Contents(disk, engine.info[k], NoChunk) /\ synced'[k] = Contents(disk', engine.info[k], NoChunk)
        /\ Held[k] = Contents(File, engine.info[k], engine.chunks[k])
    BY <1>1, <1>6 DEF SurvivesInv, Recovered, Held
  <2> QED
    BY <2>1, <2>2
<1> QED
  BY <1>1, <1>7, <1>9

\* SurvivesInv is kept by every step.
LEMMA StepSurvives ==
  ASSUME Situations = {}, StorageInv, StorageInv', OpensInv, OpensInv', SurvivesInv, [Next]_vars
  PROVE  SurvivesInv'
<1>1. CASE UNCHANGED vars
  BY <1>1 DEF vars, SurvivesInv, EngineKept, IsOpen, IsEmptyFile, File
<1>2. CASE OpenNew \/ OpenFile
  BY <1>2, OpenNewSurvives, OpenFileSurvives
<1>3. CASE \E k \in Kinds : AppendFits(k) \/ AppendFull(k)
  BY <1>3, AppendFitsSurvives, AppendFullSurvives
<1>4. CASE \E then \in {"syncing", "closing"} : StartSync(then)
  BY <1>4, StartSyncSurvives
<1>5. CASE SyncData \/ CloseClean \/ Crash
  BY <1>5, SyncDataSurvives, CloseCleanSurvives, CrashSurvives
<1> QED
  BY <1>1, <1>2, <1>3, <1>4, <1>5 DEF Next
-----------------------------------------------------------------------------
(* A durable log.                                                          *)

\* The prefixes of the community modules are what sequences begin with.
LEMMA BeginsIsPrefix ==
  ASSUME NEW s \in Seq(Nat), NEW t, Begins(s, t)
  PROVE  Promise!IsPrefix(s, t)
<1>1. PICK u \in Seq(Nat) : t = s \o u
  BY DEF Begins
<1>2. Len(s) <= Len(t) /\ SubSeq(s, 1, Len(s)) = SubSeq(t, 1, Len(s))
  <2> HIDE DEF Begins
  <2>1. ASSUME NEW a \in Seq(Nat), NEW b \in Seq(Nat)
        PROVE  Len(a) <= Len(a \o b) /\ SubSeq(a, 1, Len(a)) = SubSeq(a \o b, 1, Len(a))
    <3>1. SubSeq(a, 1, Len(a)) = a
      OBVIOUS
    <3>2. SubSeq(a \o b, 1, Len(a)) = a
      OBVIOUS
    <3> QED
      BY <3>1, <3>2
  <2> QED
    BY <1>1, <2>1
<1> QED
  BY <1>2 DEF Promise!IsPrefix

\* What the kinds hold, open or not.
LEMMA LogIs ==
  /\ IsOpen => Log = Held
  /\ phase = "closed" => Log = Recovered(disk)
  /\ IsOpen' => Log' = Held'
  /\ phase' = "closed" => Log' = Recovered(disk')
BY DEF Log, Held, IsOpen, Recovered

\* What is recovered from a file are sequences.
LEMMA RecoveredTypes ==
  ASSUME NEW d \in Files, NEW k \in Kinds
  PROVE  Recovered(d)[k] \in Seq(Nat)
<1>1. d[0] \in Pages /\ NoChunk \in Chunks
  BY MadePages DEF Files
<1>2. CASE d[0].type = "header"
  <2>1. d[0].info \in Infos
    BY <1>1, <1>2, PageTypes
  <2>2. d[0].info[k] \in KindInfos
    BY <2>1 DEF Infos, KindInfos
  <2> QED
    BY <1>1, <1>2, <2>2, ContentsTypes DEF Recovered
<1>3. CASE d[0].type # "header"
  <2>1. <<>> \in Seq(Nat)
    OBVIOUS
  <2> QED
    BY <1>3, <2>1 DEF Recovered
<1> QED
  BY <1>2, <1>3

\* To open a file shows what was on disk.
LEMMA OpenNewHolds ==
  ASSUME StorageInv', OpenNew
  PROVE  Log' = Log
<1>1. phase = "closed" /\ phase' = "open" /\ disk[0] = Blank /\ engine'.info = NoHeader
  BY MadePages DEF OpenNew, IsEmptyFile, Opened
<1>2. engine' \in Engines /\ File' \in Files
  <2>1. engine' \in Engines /\ disk' \in Files /\ pending' \in Seq(Writes)
    BY DEF StorageInv, StorageTypeOK
  <2>2. File' = FileOf(disk', pending')
    BY DEF File, FileOf
  <2> QED
    BY <2>1, <2>2, FileTypes
<1>3. ASSUME NEW k \in Kinds PROVE Held'[k] = <<>>
  <2>1. k \notin Known(engine'.info) /\ engine'.chunks[k] \in Chunks
    BY <1>1, <1>2, TypesOfKind DEF NoHeader, Known
  <2> QED
    BY <1>2, <2>1, UnknownHolds DEF Held
<1>4. Recovered(disk) = [k \in Kinds |-> <<>>]
  BY <1>1 DEF Recovered, Blank
<1> QED
  BY <1>1, <1>3, <1>4, LogIs DEF Held, IsOpen

\* Opening a file does not change what it holds.
LEMMA OpenFileHolds ==
  ASSUME StorageInv, OpensInv, SurvivesInv, OpenFile
  PROVE  Log' = Log
<1> DEFINE info == disk[0].info
           scan == ScanBlocks(disk, info)
           e == Opened(info, scan)
           none == <<>>
<1>1. disk \in Files /\ pending' = none /\ disk' = disk /\ phase = "closed" /\ ~ IsEmptyFile
  BY InvTypes DEF OpenFile, IsOpen
<1>2. disk[0].type = "header" /\ scan.ok
  BY <1>1 DEF OpensInv, Opens
<1>3. engine' = e /\ phase' = "open" /\ e.info = info
  BY <1>2 DEF OpenFile, Opened
<1>4. disk[0] \in Pages
  BY <1>1, MadePages DEF Files
<1>5. info \in Infos /\ disk[0] = Header(info)
  BY <1>2, <1>4, PageTypes
<1>6. Settled(info, disk, none)
  BY <1>1 DEF SurvivesInv
<1>7. /\ e \in Engines /\ Clean(e)
      /\ \E owner : Reaches(owner, e, disk) /\ Kept(owner, e, disk, none)
  BY <1>1, <1>2, <1>5, <1>6, OpenDurable
<1>8. none \in Seq(Writes)
  OBVIOUS
<1> HIDE DEF e, scan, info, none
<1>9. File' = FileOf(disk, none) /\ FileOf(disk, none) = disk
  <2>1. File' = FileOf(disk', pending')
    BY DEF File, FileOf
  <2>2. FileOf(disk, none) = disk
    BY <1>1, <1>8, FileTypes DEF none
  <2> QED
    BY <1>1, <2>1, <2>2
<1>10. PICK owner : Reaches(owner, e, FileOf(disk, none)) /\ Kept(owner, e, disk, none)
  BY <1>7, <1>9
<1>11. \A k \in Kinds : Contents(disk, e.info[k], NoChunk) = Contents(FileOf(disk, none), e.info[k], e.chunks[k])
  BY <1>1, <1>7, <1>8, <1>10, CleanHolds
<1>12. Held' = Recovered(disk)
  BY <1>2, <1>3, <1>9, <1>11 DEF Held, Recovered, info
<1> QED
  BY <1>1, <1>3, <1>12, LogIs DEF IsOpen

\* An append adds its item.
LEMMA AppendImplements ==
  ASSUME Situations = {}, StorageInv, OpensInv, SurvivesInv, NEW k \in Kinds, AppendFits(k) \/ AppendFull(k)
  PROVE  Promise!AppendItem
<1>1. /\ synced' = synced /\ phase = "open" /\ phase' = "open" /\ items < MaxItems
  BY DEF AppendFits, AppendFull, CanAppend
<1>2. items + 1 \in 1 .. MaxItems
  BY <1>1, InvTypes, StorageAssumption
<1>3. AppendsTo(k, items + 1)
  BY AppendFitsSurvives, AppendFullSurvives
<1>4. Log = Held /\ Log' = Held'
  BY <1>1, LogIs DEF IsOpen
<1> DEFINE x == items + 1
<1> HIDE DEF x
<1>5. Log' = [Log EXCEPT ![k] = Append(@, x)]
  BY <1>3, <1>4 DEF AppendsTo, Held, x
<1> QED
  BY <1>1, <1>2, <1>5 DEF Promise!AppendItem, x

\* A crash leaves of each kind at least what was synced, and nothing but what
\* was appended.
LEMMA CrashImplements ==
  ASSUME Situations = {}, StorageInv, StorageInv', OpensInv, SurvivesInv, Crash
  PROVE  Promise!Crash
<1>1. /\ phase' = "closed" /\ synced' = Recovered(disk') /\ IsOpen /\ synced = Recovered(disk)
      /\ \A k \in Kinds : Begins(synced[k], synced'[k]) /\ Begins(synced'[k], Held[k])
  BY CrashSurvives DEF SurvivesInv
<1>2. disk \in Files /\ disk' \in Files
  BY DEF StorageInv, StorageTypeOK
<1>3. Log = Held /\ Log' = Recovered(disk')
  BY <1>1, LogIs
<1>4. \A k \in Kinds : synced[k] \in Seq(Nat) /\ synced'[k] \in Seq(Nat)
  BY <1>1, <1>2, RecoveredTypes
<1>5. \A k \in Kinds : Promise!IsPrefix(Log'[k], Log[k]) /\ Promise!IsPrefix(synced[k], Log'[k])
  BY <1>1, <1>3, <1>4, BeginsIsPrefix
<1>6. synced' = Log'
  BY <1>1, <1>3
<1> QED
  BY <1>5, <1>6 DEF Promise!Crash

\* A step of the storage appends an item, syncs, or crashes, as DurableLog has it, or leaves both logs alone.
LEMMA StepImplements ==
  ASSUME Situations = {}, StorageInv, StorageInv', OpensInv, SurvivesInv, [Next]_vars
  PROVE  Promise!Next \/ UNCHANGED <<Log, synced>>
<1>1. CASE UNCHANGED vars
  <2>1. Log' = Log
    BY <1>1 DEF vars, Log, Recovered, File
  <2> QED
    BY <1>1, <2>1 DEF vars
<1>2. CASE OpenNew
  BY <1>2, OpenNewHolds DEF OpenNew
<1>3. CASE OpenFile
  BY <1>3, OpenFileHolds DEF OpenFile
<1>4. CASE \E k \in Kinds : AppendFits(k) \/ AppendFull(k)
  BY <1>4, AppendImplements DEF Promise!Next
<1>5. CASE \E then \in {"syncing", "closing"} : StartSync(then)
  <2>1. SameLogs
    BY <1>5, StartSyncSurvives
  <2>2. IsOpen /\ IsOpen' /\ synced' = synced
    BY <1>5 DEF StartSync, IsOpen
  <2>3. Held' = Held
    BY <2>1 DEF SameLogs, Held
  <2> QED
    BY <2>2, <2>3, LogIs
<1>6. CASE SyncData
  <2>1. /\ synced' = Held /\ (phase' = "open" => Held' = Held) /\ (phase' = "closed" => Recovered(disk') = Held)
    BY <1>6, SyncDataSurvives
  <2>2. IsOpen /\ (phase' = "open" \/ phase' = "closed")
    BY <1>6 DEF SyncData, IsOpen
  <2>3. Log = Held /\ Log' = Held
    BY <2>1, <2>2, LogIs DEF IsOpen
  <2> QED
    BY <2>1, <2>3 DEF Promise!Next, Promise!Sync
<1>7. CASE CloseClean
  <2>1. phase' = "closed" /\ synced' = synced /\ Recovered(disk') = Held
    BY <1>7, CloseCleanSurvives
  <2>2. IsOpen
    BY <1>7 DEF CloseClean, IsOpen
  <2> QED
    BY <2>1, <2>2, LogIs
<1>8. CASE Crash
  BY <1>8, CrashImplements DEF Promise!Next
<1> QED
  BY <1>1, <1>2, <1>3, <1>4, <1>5, <1>6, <1>7, <1>8 DEF Next

\* Outside the situations that are named in the model, the storage is a durable
\* log: an item is added at the end, what a sync wrote is there after a crash,
\* and of the rest a prefix, whatever writes the crash tore.
THEOREM StorageIsDurable ==
  ASSUME Situations = {}
  PROVE  Spec => SyncedSurvives
<1>1. Init => Promise!Init
  <2> SUFFICES ASSUME Init PROVE Promise!Init
    OBVIOUS
  <2>1. phase = "closed" /\ disk[0] = Blank /\ synced = [k \in Kinds |-> <<>>]
    BY MadePages DEF Init
  <2>2. Recovered(disk) = [k \in Kinds |-> <<>>]
    BY <2>1 DEF Recovered, Blank
  <2> QED
    BY <2>1, <2>2, LogIs DEF Promise!Init
<1>2. StorageInv /\ StorageInv' /\ OpensInv /\ [Next]_vars => OpensInv'
  BY StepOpens
<1>3. StorageInv /\ StorageInv' /\ OpensInv /\ OpensInv' /\ SurvivesInv /\ [Next]_vars => SurvivesInv'
  BY StepSurvives
<1>4. StorageInv /\ StorageInv' /\ OpensInv /\ SurvivesInv /\ [Next]_vars => [Promise!Next]_<<Log, synced>>
  BY StepImplements
<1> QED
  BY <1>1, <1>2, <1>3, <1>4, InitOpens, InitSurvives, StorageInvariance, PTL DEF Spec, SyncedSurvives, Promise!Spec
=============================================================================
