--------------------------- MODULE FileStoreProofs ---------------------------
(***************************************************************************)
(* Theorems about the files of SimpleFS, for every folder, page and file   *)
(* size: each file has one version and no search misses it, the parts of a *)
(* file find their record, and a collection loses neither files nor space. *)
(***************************************************************************)
EXTENDS SimpleFSFlashProofs, FiniteSetTheorems, WellFoundedInduction

\* Power fails between calls only, the driver reports no error, and the host
\* writes one file at a time.
CleanUse == CrashPcs \subseteq {"idle"} /\ FaultPcs = {} /\ ~Interleave

(***************************************************************************)
(* Records by their address.                                               *)
(***************************************************************************)
IsRec(pgs, a) ==
    a \in Addr /\ a[1] \in DOMAIN pgs /\ a[2] \in DOMAIN pgs[a[1]].recs

Live(pgs, a, id) == IsRec(pgs, a) /\ At(pgs, a).id = id /\ At(pgs, a).st = "ACTIVE"

Partial(pgs, a) == IsRec(pgs, a) /\ At(pgs, a).st = "PARTIAL"

Single(pgs, id) == \A a, b : Live(pgs, a, id) /\ Live(pgs, b, id) => a = b

NonePartial(pgs) == \A a : ~Partial(pgs, a)

(***************************************************************************)
(* The pages.                                                              *)
(***************************************************************************)
\* OBSOLETE pages hold nothing in use, and OLD pages, but for page x, have
\* their END_PAGE.
Marks(pgs, x) ==
    \A p \in 1 .. NPages :
        /\ pgs[p].st = "OBSOLETE" => pgs[p].end /\ ~HasActive(pgs[p])
        /\ pgs[p].st = "OLD" => pgs[p].end \/ p = x

\* The folder is filled from its first page.
Lined(pgs) ==
    \A p \in 1 .. NPages, q \in 1 .. NPages :
        p < q /\ pgs[q].st # "NEW" => pgs[p].end

\* The page between its two marks.
Unmarked == IF pc = "endmark" THEN cur ELSE 0

FolderOK == Marks(pages, Unmarked) /\ (pc \notin GcPcs => Lined(pages))

\* Pages behind the search for space are full; a file is last written in a
\* page that has been begun, and written to the page that takes new files.
CursorOK ==
    /\ pc \in {"find", "endmark"} => \A q \in 1 .. NPages : q < cur => pages[q].end
    /\ pc \notin GcPcs =>
          \/ lastWritten = NoAddr
          \/ lastWritten[1] \in 1 .. NPages /\ pages[lastWritten[1]].st # "NEW"
    /\ pc \in {"data", "retire", "activate"} /\ tgt # NoAddr
          => tgt[1] \in 1 .. NPages /\ pages[tgt[1]].st = "ACTIVE"

(***************************************************************************)
(* The versions of a file.                                                 *)
(***************************************************************************)
\* Both versions are ACTIVE from the new header to the old one's OLD mark.
Swapping(id) ==
    pc \in {"data", "retire"} /\ tgt # NoAddr /\ req.op = "write" /\ id = req.id

\* The records in the GC area that are not back in the folder.
InArea(a) ==
    /\ a[1] < scan.g \/ (a[1] = scan.g /\ scan.open)
    /\ pc = "back" => a[1] >= scan.bg

Kept(a, id) == InArea(a) /\ Live(gc, a, id)

\* A file is in the folder or in the GC area, once.
CopiesOK ==
    pc \in GcPcs =>
        \A id \in Ids : \A a, b :
            /\ Kept(a, id) /\ Kept(b, id) => a = b
            /\ ~(Live(pages, a, id) /\ Kept(b, id))

VersionsOK ==
    /\ \A id \in Ids : ~Swapping(id) => Single(pages, id)
    /\ \A id \in Ids : Swapping(id) =>
          /\ \A a : Live(pages, a, id) => a \in {old, tgt}
          /\ Live(pages, tgt, id)
          /\ old # NoAddr => Live(pages, old, id) /\ old # tgt
          /\ lastWritten = tgt
    /\ pc = "activate" => \A a : ~Live(pages, a, req.id)

(***************************************************************************)
(* The file the host writes in parts.                                      *)
(***************************************************************************)
HostOK ==
    /\ \A t \in xfer, u \in xfer : t = u
    /\ \A t \in xfer : t.sent < Len(t.file)
    /\ Calling =>
        /\ req.op = "write" => xfer = {}
        /\ \A t \in xfer : t.id = req.id /\ t.file = req.file /\ t.sent = req.sent

\* It has at most one record, which is found when a part comes, and room for
\* the parts to come.
PartsOK ==
    /\ pc \in {"find", "endmark", "header", "gc", "back"} => NonePartial(pages)
    /\ pc \in {"data", "retire", "activate"} =>
          /\ \A a : Partial(pages, a) => a = tgt /\ req.op = "part"
          /\ req.op = "part" => /\ At(pages, tgt).id = req.id
                                /\ Len(At(pages, tgt).data) >= Remaining(req)
    /\ pc = "data" /\ req.op = "write" => Len(At(pages, tgt).data) = Remaining(req)
    /\ pc = "activate" => req.op = "part"
    /\ ~Calling =>
          /\ \A a, b : Partial(pages, a) /\ Partial(pages, b) => a = b
          /\ \A a : Partial(pages, a) =>
                /\ pages[a[1]].st = "ACTIVE"
                /\ \E t \in xfer : /\ t.id = At(pages, a).id
                                   /\ Len(At(pages, a).data) >= Len(t.file) - t.sent

(***************************************************************************)
(* The collection.  It never needs more pages than it has erased.          *)
(***************************************************************************)
Packed(pg) == pg.recs # <<>> /\ \A i \in DOMAIN pg.recs : pg.recs[i].st = "ACTIVE"

\* The GC pages from m on that have been filled hold ACTIVE files only.
GcFilled(m) ==
    /\ \A h \in 1 .. GPages : h >= m /\ h < scan.g =>
            gc[h].st = "OLD" /\ gc[h].end /\ Packed(gc[h])
    /\ scan.open => Packed(gc[scan.g])

\* The first k pages are filled again, the pages between them and the one
\* being collected are blank, that one and those behind it are full.
Refilled(k) ==
    /\ scan.p <= NPages + 1 /\ scan.g <= GPages + 1 /\ ~scan.stop
    /\ \A q \in 1 .. NPages :
          /\ q <= k => HasActive(pages[q]) /\ pages[q].st # "NEW"
          /\ q < k => pages[q].end
          /\ q > k /\ q < scan.p => pages[q] = BlankPage
          /\ q >= scan.p => pages[q].end
    /\ scan.p <= NPages => \A i \in DOMAIN pages[scan.p].recs :
            i < scan.i => pages[scan.p].recs[i].st = "OLD"

\* Where record i begins, or would.
Ahead(pg, i) == IF i \in DOMAIN pg.recs THEN pg.recs[i].off ELSE Top(pg)

\* The GC pages have room in the pages erased, and the last of them, if it
\* takes the place of the page being collected, is not ahead of it.
Collects(k) ==
    /\ Refilled(k)
    /\ k \in 1 .. NPages => pages[k].end
    /\ GcFilled(1)
    /\ k + scan.g <= scan.p
    /\ scan.p > NPages => k + scan.g <= NPages
    /\ scan.open /\ k + scan.g = scan.p => Top(gc[scan.g]) <= Ahead(pages[scan.p], scan.i)

\* The GC page behind the last one to be copied back.
Behind == IF scan.open THEN scan.g + 1 ELSE scan.g

CopiesBack(k) ==
    /\ Refilled(k)
    /\ k \in 1 .. NPages => pages[k].end \/ (scan.open /\ scan.bg >= Behind)
    /\ GcFilled(scan.bg)
    /\ scan.p > NPages \/ scan.g > GPages
    /\ k < scan.p
    /\ scan.bg < Behind => k + (Behind - scan.bg) < scan.p /\ scan.bd <= k + 1

CollectOK ==
    /\ pc = "gc" => \E k \in 0 .. NPages : Collects(k)
    /\ pc = "back" => \E k \in 0 .. NPages : CopiesBack(k)
    /\ pc \notin GcPcs => scan = NoScan

FilesOK ==
    FolderOK /\ CursorOK /\ VersionsOK /\ CopiesOK /\ HostOK /\ PartsOK /\ CollectOK

\* No erase has been cut short.
Unspoiled == stale = NoneStale /\ pc # "spoiled"

FInv == PInv /\ suspect = {} /\ Unspoiled /\ (pc # "stray" => FilesOK)

-----------------------------------------------------------------------------
(***************************************************************************)
(* Records and searches.                                                   *)
(***************************************************************************)
LEMMA Records ==
  ASSUME NEW f, IsFolder(f)
  PROVE  /\ \A a : IsRec(f, a) <=> IsRecord(f, a)
         /\ \A a : a \in RecordsOf(f) <=> IsRecord(f, a)
         /\ ~IsRecord(f, NoAddr)
  <1>1. DOMAIN f = 1 .. NPages /\ \A p \in 1 .. NPages : DOMAIN f[p].recs \subseteq Nat
    BY PageOf
  <1>2. NPages \in Nat BY SizesAssumption
  <1>3. \A a : IsRec(f, a) <=> IsRecord(f, a) BY <1>1 DEF IsRec, IsRecord
  <1>4. \A a : a \in RecordsOf(f) <=>
              \E p \in 1 .. NPages : a \in {p} \X DOMAIN f[p].recs
    BY <1>1 DEF RecordsOf
  <1>5. ASSUME NEW a PROVE a \in RecordsOf(f) <=> IsRecord(f, a)
    BY <1>1, <1>2, <1>4 DEF IsRecord, Addr
  <1>6. ~IsRecord(f, NoAddr) BY DEF IsRecord, NoAddr
  <1> QED BY <1>3, <1>5, <1>6

LEMMA SearchHits ==
  ASSUME NEW f, IsFolder(f), NEW id, NEW st, Search(f, id, st) # NoAddr
  PROVE  LET a == Search(f, id, st)
         IN  a \in Visible(f) /\ IsRec(f, a) /\ At(f, a).id = id /\ At(f, a).st = st
  <1> DEFINE hits == {a \in Visible(f) : At(f, a).id = id /\ At(f, a).st = st}
  <1>1. \A S : FirstOf(S) = NoAddr \/ FirstOf(S) \in S BY DEF FirstOf, IsFirst
  <1>2. Search(f, id, st) = FirstOf(hits) BY DEF Search
  <1>3. Search(f, id, st) \in hits
    <2> HIDE DEF hits
    <2> QED BY <1>1, <1>2
  <1>4. Search(f, id, st) \in Visible(f) BY <1>3
  <1>5. Search(f, id, st) \in RecordsOf(f) BY <1>4 DEF Visible
  <1> QED BY <1>3, <1>4, <1>5, Records

\* The search finds the only record that fits, if it comes by.
LEMMA SearchFinds ==
  ASSUME NEW f, NEW id, NEW st, NEW a,
         a \in Visible(f), At(f, a).id = id, At(f, a).st = st,
         \A b \in Visible(f) : At(f, b).id = id /\ At(f, b).st = st => b = a
  PROVE  Search(f, id, st) = a
  <1> DEFINE hits == {b \in Visible(f) : At(f, b).id = id /\ At(f, b).st = st}
  <1>1. hits = {a} OBVIOUS
  <1>2. Search(f, id, st) = FirstOf(hits) BY DEF Search
  <1>3. \A b : IsFirst(b, {a}) <=> b = a BY DEF IsFirst
  <1>4. FirstOf({a}) = a BY <1>3 DEF FirstOf
  <1> HIDE DEF hits
  <1> QED BY <1>1, <1>2, <1>4

LEMMA SearchFails ==
  ASSUME NEW f, NEW id, NEW st,
         \A b \in Visible(f) : ~(At(f, b).id = id /\ At(f, b).st = st)
  PROVE  Search(f, id, st) = NoAddr
  <1> DEFINE hits == {b \in Visible(f) : At(f, b).id = id /\ At(f, b).st = st}
  <1>1. hits = {} OBVIOUS
  <1>2. Search(f, id, st) = FirstOf(hits) BY DEF Search
  <1>3. FirstOf({}) = NoAddr BY DEF FirstOf, IsFirst
  <1> HIDE DEF hits
  <1> QED BY <1>1, <1>2, <1>3

\* In a folder filled from its first page a search comes by every record of
\* a page that is not OBSOLETE.
LEMMA AllVisible ==
  ASSUME NEW f, IsFolder(f), Lined(f), NEW a, IsRec(f, a), f[a[1]].st # "OBSOLETE"
  PROVE  a \in Visible(f)
  <1>1. IsRecord(f, a) /\ a \in RecordsOf(f) BY Records
  <1>2. a[1] \in 1 .. NPages /\ a[2] \in DOMAIN f[a[1]].recs BY <1>1 DEF IsRecord
  <1>3. Good(f[a[1]]) BY <1>2, PageOf
  <1>4. f[a[1]].recs # <<>> BY <1>2
  <1>5. f[a[1]].st # "NEW" BY <1>3, <1>4 DEF Good, WellFormed, MarksAgree
  <1>6. NPages \in Nat BY SizesAssumption
  <1>7. Reached(f, a[1])
    <2> SUFFICES ASSUME NEW q \in 1 .. a[1] - 1 PROVE f[q].end
      BY DEF Reached, Terminated
    <2>1. q \in 1 .. NPages /\ q < a[1] BY <1>2, <1>6
    <2> QED BY <1>2, <1>5, <2>1 DEF Lined
  <1> QED BY <1>1, <1>7 DEF Visible

\* A file that is in use is in a page a search looks into.
LEMMA LiveVisible ==
  ASSUME NEW f, IsFolder(f), Lined(f), NEW x, Marks(f, x), NEW a, NEW id, Live(f, a, id)
  PROVE  a \in Visible(f)
  <1>1. IsRec(f, a) /\ At(f, a).st = "ACTIVE" BY DEF Live
  <1>2. a[1] \in 1 .. NPages /\ a[2] \in DOMAIN f[a[1]].recs BY <1>1, Records DEF IsRecord
  <1>3. HasActive(f[a[1]]) BY <1>1, <1>2 DEF At, HasActive
  <1>4. f[a[1]].st # "OBSOLETE" BY <1>2, <1>3 DEF Marks
  <1> QED BY <1>1, <1>4, AllVisible

\* The search for a file with one version.
LEMMA SearchOne ==
  ASSUME NEW f, IsFolder(f), Lined(f), NEW x, Marks(f, x), NEW id, Single(f, id)
  PROVE  LET v == Search(f, id, "ACTIVE")
         IN  /\ \A a : Live(f, a, id) => a = v
             /\ v # NoAddr => Live(f, v, id)
  <1> DEFINE v == Search(f, id, "ACTIVE")
  <1>1. v # NoAddr => Live(f, v, id) BY SearchHits DEF Live
  <1>2. ASSUME NEW a, Live(f, a, id) PROVE a = v
    <2>1. a \in Visible(f) /\ At(f, a).id = id /\ At(f, a).st = "ACTIVE"
      BY <1>2, LiveVisible DEF Live
    <2>2. \A b \in Visible(f) : IsRec(f, b) BY Records DEF Visible
    <2>3. \A b \in Visible(f) : At(f, b).id = id /\ At(f, b).st = "ACTIVE" => b = a
      BY <1>2, <2>2 DEF Single, Live
    <2> QED BY <2>1, <2>3, SearchFinds
  <1> QED BY <1>1, <1>2

-----------------------------------------------------------------------------
(***************************************************************************)
(* The places of the records in a page.                                    *)
(***************************************************************************)
LEMMA Least ==
  ASSUME NEW S, S \subseteq Nat, S # {}
  PROVE  \E m \in S : \A k \in S : m <= k
  <1> DEFINE R == OpToRel(<, Nat)
  <1>1. IsWellFoundedOn(R, Nat) BY NatLessThanWellFounded
  <1> HIDE DEF R
  <1>2. PICK x \in S : \A y \in S : <<y, x>> \notin R BY <1>1, WFMin
  <1>3. \A y \in S : y < x => <<y, x>> \in R BY DEF R, OpToRel
  <1>4. \A y \in S : y \in Nat OBVIOUS
  <1>5. \A y \in S : ~(y < x) BY <1>2, <1>3
  <1> QED BY <1>4, <1>5

\* A record begins behind the end of each record before it.
LEMMA LaterRecords ==
  ASSUME NEW pg, Good(pg), NEW i \in DOMAIN pg.recs, NEW j \in DOMAIN pg.recs, i < j
  PROVE  pg.recs[i].off + RecLen(pg.recs[i]) <= pg.recs[j].off
  <1> DEFINE end(k) == pg.recs[k].off + RecLen(pg.recs[k])
             S == {k \in DOMAIN pg.recs : k > i /\ ~(end(i) <= pg.recs[k].off)}
  <1>1. /\ DOMAIN pg.recs = 1 .. Len(pg.recs) /\ Len(pg.recs) \in Nat
        /\ \A k \in DOMAIN pg.recs : pg.recs[k] \in Record
    BY GoodParts
  <1>2. \A k \in DOMAIN pg.recs : pg.recs[k].off \in Nat /\ RecLen(pg.recs[k]) \in Nat
    BY <1>1, SizesAssumption DEF Record, RecLen
  <1>3. \A k \in DOMAIN pg.recs : k # 1 => pg.recs[k].off = end(k - 1)
    BY DEF Good, WellFormed, Contiguous
  <1>4. S \subseteq Nat BY <1>1
  <1>5. SUFFICES ASSUME S # {} PROVE FALSE OBVIOUS
  <1>6. PICK m \in S : \A k \in S : m <= k
    <2> HIDE DEF S
    <2> QED BY <1>4, <1>5, Least
  <1>7. m \in DOMAIN pg.recs /\ m > i /\ ~(end(i) <= pg.recs[m].off) BY <1>6
  <1>8. m # 1 /\ m - 1 \in DOMAIN pg.recs /\ m - 1 >= i /\ m - 1 \in Nat BY <1>1, <1>7
  <1>9. pg.recs[m].off = end(m - 1) BY <1>3, <1>7, <1>8
  <1>10. m - 1 # i BY <1>2, <1>7, <1>9
  <1>11. m - 1 \notin S
    <2>1. m \in Nat /\ \A k \in S : k \in Nat BY <1>4, <1>6
    <2> HIDE DEF S
    <2> QED BY <1>6, <2>1
  <1>12. end(i) <= pg.recs[m - 1].off
    <2>1. m - 1 > i BY <1>1, <1>8, <1>10
    <2> QED BY <1>8, <1>11, <2>1
  <1> QED BY <1>2, <1>7, <1>8, <1>9, <1>12

\* Record i begins behind what is Ahead of an earlier one, and ends in front
\* of what is Ahead of the next.
LEMMA AheadGrows ==
  ASSUME NEW pg, Good(pg), NEW i \in DOMAIN pg.recs
  PROVE  /\ \A k \in 1 .. i : Ahead(pg, k) <= pg.recs[i].off
         /\ pg.recs[i].off + RecLen(pg.recs[i]) <= Ahead(pg, i + 1)
         /\ Ahead(pg, i) \in Nat /\ Ahead(pg, i) >= 1
  <1>1. /\ DOMAIN pg.recs = 1 .. Len(pg.recs) /\ Len(pg.recs) \in Nat
        /\ \A k \in DOMAIN pg.recs : pg.recs[k] \in Record
    BY GoodParts
  <1>2. \A k \in DOMAIN pg.recs : pg.recs[k].off \in Nat /\ RecLen(pg.recs[k]) \in Nat
    BY <1>1, SizesAssumption DEF Record, RecLen
  <1>3. pg.recs[i].off >= 1 BY DEF Good, WellFormed, StaysInside
  <1>4. ASSUME NEW k \in 1 .. i PROVE Ahead(pg, k) <= pg.recs[i].off
    <2>1. k \in DOMAIN pg.recs BY <1>1
    <2>2. k = i \/ k < i BY <1>1
    <2>3. k < i => pg.recs[k].off + RecLen(pg.recs[k]) <= pg.recs[i].off
      BY <2>1, LaterRecords
    <2> QED BY <1>2, <2>1, <2>2, <2>3 DEF Ahead
  <1>5. pg.recs[i].off + RecLen(pg.recs[i]) <= Ahead(pg, i + 1)
    <2>1. CASE i + 1 \in DOMAIN pg.recs
      <3>1. pg.recs[i].off + RecLen(pg.recs[i]) <= pg.recs[i + 1].off
        BY <1>1, <2>1, LaterRecords
      <3> QED BY <2>1, <3>1 DEF Ahead
    <2>2. CASE i + 1 \notin DOMAIN pg.recs
      <3>1. i = Len(pg.recs) /\ pg.recs # <<>> BY <1>1, <2>2
      <3>2. Top(pg) = pg.recs[i].off + RecLen(pg.recs[i]) BY <3>1 DEF Top
      <3> QED BY <1>2, <2>2, <3>2 DEF Ahead
    <2> QED BY <2>1, <2>2
  <1> QED BY <1>2, <1>3, <1>4, <1>5 DEF Ahead

-----------------------------------------------------------------------------
(***************************************************************************)
(* What the programs of a call do to the records.                          *)
(***************************************************************************)
\* A program of a page's status or of its END_PAGE.
LEMMA SameRecords ==
  ASSUME NEW f, NEW g, IsFolder(f), IsFolder(g),
         \A p \in 1 .. NPages : g[p].recs = f[p].recs
  PROVE  /\ \A a : IsRec(g, a) <=> IsRec(f, a)
         /\ \A a : IsRec(f, a) => At(g, a) = At(f, a)
         /\ \A a, id : Live(g, a, id) <=> Live(f, a, id)
         /\ \A a : Partial(g, a) <=> Partial(f, a)
         /\ \A p \in 1 .. NPages : HasActive(g[p]) <=> HasActive(f[p])
  <1>1. DOMAIN f = 1 .. NPages /\ DOMAIN g = 1 .. NPages BY PageOf
  <1>2. \A a : IsRec(g, a) <=> IsRec(f, a) BY <1>1 DEF IsRec
  <1>3. \A a : IsRec(f, a) => At(g, a) = At(f, a) BY <1>1 DEF IsRec, At
  <1>4. \A p \in 1 .. NPages : HasActive(g[p]) <=> HasActive(f[p]) BY DEF HasActive
  <1> QED BY <1>2, <1>3, <1>4 DEF Live, Partial

LEMMA SweepView ==
  ASSUME NEW f, IsFolder(f), NEW v
  PROVE  LET g == Sweep(f, v)
         IN  /\ IsFolder(g)
             /\ \A p \in 1 .. NPages :
                  /\ g[p].recs = f[p].recs /\ g[p].end = f[p].end
                  /\ ~f[p].end => g[p] = f[p]
                  /\ f[p].st # "NEW" <=> g[p].st # "NEW"
             /\ \A x : Marks(f, x) => Marks(g, x)
             /\ Lined(f) => Lined(g)
  <1> DEFINE g == Sweep(f, v)
  <1>1. /\ IsFolder(g)
        /\ \A p \in 1 .. NPages : /\ g[p].recs = f[p].recs /\ g[p].end = f[p].end
                                  /\ ~f[p].end => g[p] = f[p]
    BY SweepFolder
  <1>2. DOMAIN f = 1 .. NPages /\ \A p \in 1 .. NPages : f[p] \in Page /\ Good(f[p])
    BY PageOf DEF Good
  <1>3. \A p \in 1 .. NPages :
           g[p] = f[p] \/ (f[p].end /\ ~HasActive(f[p]) /\ g[p].st = "OBSOLETE")
    BY <1>2 DEF Sweep, Page
  <1>4. \A p \in 1 .. NPages : f[p].end => f[p].st # "NEW"
    BY <1>2 DEF Good, WellFormed, MarksAgree
  <1>5. \A p \in 1 .. NPages : HasActive(g[p]) <=> HasActive(f[p])
    BY <1>1 DEF HasActive
  <1> HIDE DEF g
  <1>6. \A p \in 1 .. NPages : f[p].st # "NEW" <=> g[p].st # "NEW" BY <1>3, <1>4
  <1>7. \A x : Marks(f, x) => Marks(g, x) BY <1>1, <1>3, <1>5 DEF Marks
  <1>8. Lined(f) => Lined(g) BY <1>1, <1>6 DEF Lined
  <1> QED BY <1>1, <1>6, <1>7, <1>8 DEF g

\* A program of record a: its status, or cells of its data.
RecordProgrammed(f, g, a) ==
    /\ IsRec(f, a)
    /\ DOMAIN g = 1 .. NPages
    /\ \A p \in 1 .. NPages : p # a[1] => g[p] = f[p]
    /\ DOMAIN g[a[1]].recs = DOMAIN f[a[1]].recs
    /\ \A i \in DOMAIN f[a[1]].recs : i # a[2] => g[a[1]].recs[i] = f[a[1]].recs[i]
    /\ g[a[1]].st = f[a[1]].st /\ g[a[1]].end = f[a[1]].end

LEMMA OneRecord ==
  ASSUME NEW f, IsFolder(f), NEW a, NEW g, RecordProgrammed(f, g, a)
  PROVE  /\ \A b : IsRec(g, b) <=> IsRec(f, b)
         /\ \A b : IsRec(f, b) /\ b # a => At(g, b) = At(f, b)
         /\ \A p \in 1 .. NPages : g[p].st = f[p].st /\ g[p].end = f[p].end
         /\ \A p \in 1 .. NPages : p # a[1] => g[p] = f[p]
  <1>1. /\ a \in Addr /\ a[1] \in 1 .. NPages /\ a[2] \in DOMAIN f[a[1]].recs
        /\ DOMAIN f = 1 .. NPages
    BY Records, PageOf DEF IsRecord, RecordProgrammed
  <1>2. \A p \in 1 .. NPages : DOMAIN g[p].recs = DOMAIN f[p].recs BY DEF RecordProgrammed
  <1>3. \A b : IsRec(g, b) <=> IsRec(f, b) BY <1>1, <1>2 DEF IsRec, RecordProgrammed
  <1>4. ASSUME NEW b, IsRec(f, b), b # a PROVE At(g, b) = At(f, b)
    <2>1. b \in Addr /\ b[1] \in 1 .. NPages /\ b[2] \in DOMAIN f[b[1]].recs
      BY <1>4, Records DEF IsRecord
    <2>2. b[1] # a[1] \/ b[2] # a[2] BY <1>1, <1>4, <2>1 DEF Addr
    <2>3. CASE b[1] # a[1] BY <2>1, <2>3 DEF At, RecordProgrammed
    <2>4. CASE b[1] = a[1]
      <3>1. g[a[1]].recs[b[2]] = f[a[1]].recs[b[2]]
        BY <2>1, <2>2, <2>4 DEF RecordProgrammed
      <3> QED BY <2>4, <3>1 DEF At
    <2> QED BY <2>3, <2>4
  <1> QED BY <1>3, <1>4 DEF RecordProgrammed

LEMMA StatusView ==
  ASSUME NEW f, IsFolder(f), NEW a, IsRec(f, a), NEW st \in FileStatus
  PROVE  LET g == SetStatus(f, a, st)
         IN  /\ IsFolder(g)
             /\ \A b : IsRec(g, b) <=> IsRec(f, b)
             /\ \A b : IsRec(f, b) => At(g, b) = IF b = a THEN [At(f, b) EXCEPT !.st = st]
                                                 ELSE At(f, b)
             /\ \A p \in 1 .. NPages : g[p].st = f[p].st /\ g[p].end = f[p].end
             /\ \A p \in 1 .. NPages : p # a[1] => g[p] = f[p]
             /\ At(g, a) = [At(f, a) EXCEPT !.st = st] /\ At(g, a).st = st /\ At(g, a).id = At(f, a).id
             /\ At(g, a).data = At(f, a).data /\ At(g, a).crc = At(f, a).crc
  <1> DEFINE g == SetStatus(f, a, st)
             r == [At(f, a) EXCEPT !.st = st]
  <1>1. RecordProgrammed(f, g, a) /\ At(g, a) = r
    <2>1. /\ DOMAIN f = 1 .. NPages /\ a[1] \in 1 .. NPages /\ f[a[1]] \in Page
          /\ a[2] \in DOMAIN f[a[1]].recs
      BY PageOf, Records DEF IsRecord, Good
    <2> QED BY <2>1 DEF SetStatus, At, Page, RecordProgrammed
  <1>2. IsFolder(g) BY SetStatusFolder, Records
  <1>3. At(f, a) \in Record BY RecordType, Records
  <1>4. r.st = st /\ r.id = At(f, a).id /\ r.data = At(f, a).data /\ r.crc = At(f, a).crc
    BY <1>3 DEF Record
  <1> HIDE DEF g, r
  <1>5. /\ \A b : IsRec(g, b) <=> IsRec(f, b)
        /\ \A b : IsRec(f, b) /\ b # a => At(g, b) = At(f, b)
        /\ \A p \in 1 .. NPages : g[p].st = f[p].st /\ g[p].end = f[p].end
        /\ \A p \in 1 .. NPages : p # a[1] => g[p] = f[p]
    BY <1>1, OneRecord
  <1>6. At(g, a) = r BY <1>1
  <1>7. /\ At(g, a).st = st /\ At(g, a).id = At(f, a).id
        /\ At(g, a).data = At(f, a).data /\ At(g, a).crc = At(f, a).crc
    BY <1>4, <1>6
  <1>8. \A b : IsRec(f, b) => At(g, b) = IF b = a THEN [At(f, b) EXCEPT !.st = st]
                                                  ELSE At(f, b)
    BY <1>5, <1>6 DEF r
  <1> QED BY <1>2, <1>5, <1>6, <1>7, <1>8 DEF g, r

\* Marking a record OLD takes it out of use; nothing else changes.
LEMMA RetiredView ==
  ASSUME NEW f, IsFolder(f), NEW a, IsRec(f, a)
  PROVE  LET g == SetStatus(f, a, "OLD")
         IN  /\ \A b, id : Live(g, b, id) <=> Live(f, b, id) /\ b # a
             /\ \A b : Partial(g, b) <=> Partial(f, b) /\ b # a
             /\ \A x : Marks(f, x) => Marks(g, x)
             /\ Lined(f) => Lined(g)
             /\ \A b : IsRec(f, b) /\ b # a => At(g, b) = At(f, b)
  <1> DEFINE g == SetStatus(f, a, "OLD")
  <1>1. /\ \A b : IsRec(g, b) <=> IsRec(f, b)
        /\ \A b : IsRec(f, b) => At(g, b) = IF b = a THEN [At(f, b) EXCEPT !.st = "OLD"]
                                            ELSE At(f, b)
        /\ \A p \in 1 .. NPages : g[p].st = f[p].st /\ g[p].end = f[p].end
        /\ \A p \in 1 .. NPages : p # a[1] => g[p] = f[p]
        /\ At(g, a).st = "OLD" /\ IsFolder(g)
    <2>1. "OLD" \in FileStatus BY DEF FileStatus
    <2> QED BY <2>1, StatusView
  <1>2. \A b, id : Live(g, b, id) <=> Live(f, b, id) /\ b # a BY <1>1 DEF Live
  <1>3. \A b : Partial(g, b) <=> Partial(f, b) /\ b # a BY <1>1 DEF Partial
  <1>4. \A p \in 1 .. NPages : HasActive(g[p]) => HasActive(f[p])
    <2> SUFFICES ASSUME NEW p \in 1 .. NPages, NEW i \in DOMAIN g[p].recs,
                        g[p].recs[i].st = "ACTIVE"
                 PROVE  HasActive(f[p])
      BY DEF HasActive
    <2> DEFINE b == <<p, i>>
    <2>1. DOMAIN g = 1 .. NPages /\ DOMAIN g[p].recs \subseteq Nat /\ NPages \in Nat
      BY <1>1, PageOf, SizesAssumption
    <2>2. IsRec(g, b) /\ At(g, b).st = "ACTIVE" BY <2>1 DEF IsRec, At, Addr
    <2>3. IsRec(f, b) /\ At(f, b).st = "ACTIVE" BY <1>1, <2>2
    <2> QED BY <2>3 DEF IsRec, At, HasActive
  <1>5. \A x : Marks(f, x) => Marks(g, x) BY <1>1, <1>4 DEF Marks
  <1>6. Lined(f) => Lined(g) BY <1>1 DEF Lined
  <1> HIDE DEF g
  <1> QED BY <1>1, <1>2, <1>3, <1>5, <1>6 DEF g

\* A record appended to a page, at address n.
RecordAppended(f, g, n, r) ==
    /\ n \in Addr /\ n[1] \in 1 .. NPages /\ n[2] = Len(f[n[1]].recs) + 1
    /\ g = [f EXCEPT ![n[1]].recs = Append(@, r)]

LEMMA AppendView ==
  ASSUME NEW f, IsFolder(f), NEW g, IsFolder(g), NEW n, NEW r, RecordAppended(f, g, n, r)
  PROVE  /\ \A b : IsRec(g, b) <=> IsRec(f, b) \/ b = n
         /\ \A b : IsRec(f, b) => At(g, b) = At(f, b) /\ b # n
         /\ At(g, n) = r
         /\ \A q \in 1 .. NPages : g[q].st = f[q].st /\ g[q].end = f[q].end
         /\ \A q \in 1 .. NPages : q # n[1] => g[q] = f[q]
  <1> DEFINE p == n[1]
  <1>1. /\ DOMAIN f = 1 .. NPages /\ DOMAIN g = 1 .. NPages /\ NPages \in Nat
        /\ \A q \in 1 .. NPages : f[q] \in Page /\ f[q].recs \in Seq(Record)
    BY PageOf, SizesAssumption DEF Good
  <1>2. /\ p \in 1 .. NPages /\ n \in Addr /\ n[2] = Len(f[p].recs) + 1
        /\ g = [f EXCEPT ![p].recs = Append(@, r)]
    BY DEF RecordAppended
  <1>3. /\ g[p].recs = Append(f[p].recs, r) /\ g[p].st = f[p].st /\ g[p].end = f[p].end
        /\ \A q \in 1 .. NPages : q # p => g[q] = f[q]
    BY <1>1, <1>2 DEF Page
  <1> DEFINE s == f[p].recs
  <1>4. s \in Seq(Record) /\ Len(s) \in Nat /\ DOMAIN s = 1 .. Len(s) BY <1>1, <1>2
  <1>5. /\ DOMAIN Append(s, r) = 1 .. Len(s) + 1
        /\ \A i \in 1 .. Len(s) : Append(s, r)[i] = s[i]
        /\ Append(s, r)[Len(s) + 1] = r
    BY <1>4
  <1>7. ASSUME NEW b PROVE IsRec(g, b) <=> IsRec(f, b) \/ b = n
    <2>1. b = n <=> b \in Addr /\ b[1] = p /\ b[2] = Len(s) + 1 BY <1>2 DEF Addr
    <2>2. CASE b \in Addr /\ b[1] = p
      <3>1. IsRec(g, b) <=> b[2] \in 1 .. Len(s) + 1 BY <1>1, <1>2, <1>3, <1>5, <2>2 DEF IsRec
      <3>2. IsRec(f, b) <=> b[2] \in 1 .. Len(s) BY <1>1, <1>2, <1>4, <2>2 DEF IsRec
      <3>3. b[2] \in Nat BY <2>2 DEF Addr
      <3> QED BY <1>4, <2>1, <2>2, <3>1, <3>2, <3>3
    <2>3. CASE ~(b \in Addr /\ b[1] = p) BY <1>1, <1>3, <2>1, <2>3 DEF IsRec
    <2> QED BY <2>2, <2>3
  <1>8. ASSUME NEW b, IsRec(f, b) PROVE At(g, b) = At(f, b) /\ b # n
    <2>1. b \in Addr /\ b[1] \in 1 .. NPages /\ b[2] \in DOMAIN f[b[1]].recs
      BY <1>1, <1>8 DEF IsRec
    <2>2. CASE b[1] = p
      <3>1. b[2] \in 1 .. Len(s) BY <1>4, <2>1, <2>2
      <3> QED BY <1>2, <1>3, <1>4, <1>5, <2>2, <3>1 DEF At
    <2>3. CASE b[1] # p BY <1>3, <2>1, <2>3 DEF At
    <2> QED BY <2>2, <2>3
  <1>9. At(g, n) = r BY <1>2, <1>3, <1>5 DEF At
  <1>10. \A q \in 1 .. NPages : g[q].st = f[q].st /\ g[q].end = f[q].end BY <1>3
  <1> QED BY <1>3, <1>7, <1>8, <1>9, <1>10

-----------------------------------------------------------------------------
(***************************************************************************)
(* The commands.                                                           *)
(***************************************************************************)
LEMMA Folder ==
  ASSUME FInv
  PROVE  /\ IsFolder(pages) /\ IInv /\ NPages \in Nat
         /\ DOMAIN pages = 1 .. NPages
         /\ \A p \in 1 .. NPages :
              /\ pages[p] \in Page /\ Good(pages[p])
              /\ pages[p].end => pages[p].st \in {"OLD", "OBSOLETE"}
              /\ pages[p].st = "NEW" => pages[p].recs = <<>>
  BY PageOf, SizesAssumption DEF FInv, PInv, IInv, Good, WellFormed, MarksAgree

\* A search starts behind full pages only.
LEMMA SearchStarts ==
  ASSUME FInv, pc = "idle"
  PROVE  \A q \in 1 .. NPages : q < FirstPage(lastWritten) => pages[q].end
  <1>1. CursorOK /\ FolderOK BY DEF FInv, FilesOK
  <1>2. CASE lastWritten = NoAddr BY <1>2, Folder DEF FirstPage
  <1>3. CASE lastWritten # NoAddr
    <2>1. lastWritten[1] \in 1 .. NPages /\ pages[lastWritten[1]].st # "NEW"
      BY <1>1, <1>3 DEF CursorOK, GcPcs
    <2>2. Lined(pages) BY <1>1 DEF FolderOK, GcPcs
    <2> QED BY <1>3, <2>1, <2>2 DEF Lined, FirstPage
  <1> QED BY <1>2, <1>3

LEMMA CallWriteFiles ==
  ASSUME FInv, CleanUse, NEW id \in Ids, NEW file \in Files, CallWrite(id, file)
  PROVE  FilesOK'
  <1> DEFINE request == [op |-> "write", id |-> id, file |-> file, sent |-> 0, n |-> Len(file)]
  <1>1. /\ pc = "idle" /\ pc' = "find" /\ req' = request
        /\ cur' = FirstPage(lastWritten) /\ xfer = {}
        /\ UNCHANGED <<pages, gc, lastWritten, tgt, old, scan, xfer, suspect>>
    BY DEF CallWrite, Begin, CleanUse
  <1>2. FilesOK BY <1>1 DEF FInv
  <1>3. request.op = "write" OBVIOUS
  <1> HIDE DEF request
  <1>4. FolderOK' BY <1>1, <1>2 DEF FilesOK, FolderOK, Unmarked, GcPcs
  <1>5. CursorOK' BY <1>1, <1>2, SearchStarts DEF FilesOK, CursorOK, GcPcs
  <1>6. VersionsOK' BY <1>1, <1>2 DEF FilesOK, VersionsOK, Swapping
  <1>7. HostOK' /\ CopiesOK' BY <1>1, <1>3 DEF HostOK, CopiesOK, GcPcs
  <1>8. NonePartial(pages) BY <1>1, <1>2 DEF FilesOK, PartsOK, Calling, AtRest, NonePartial
  <1>9. PartsOK' BY <1>1, <1>8 DEF PartsOK, Calling, AtRest
  <1>10. CollectOK' BY <1>1, <1>2 DEF FilesOK, CollectOK, GcPcs
  <1> QED BY <1>4, <1>5, <1>6, <1>7, <1>9, <1>10 DEF FilesOK

\* The search for the file's PARTIAL record finds it if there is one.
LEMMA PartialFound ==
  ASSUME FInv, CleanUse, pc = "idle", NEW id,
         xfer = {} \/ \E t \in xfer : t.id = id
  PROVE  LET part == Search(pages, id, "PARTIAL")
         IN  /\ \A a : Partial(pages, a) => a = part
             /\ part # NoAddr => Partial(pages, part) /\ At(pages, part).id = id
  <1> DEFINE part == Search(pages, id, "PARTIAL")
  <1>1. FolderOK /\ PartsOK /\ HostOK BY DEF FInv, FilesOK
  <1>2. part # NoAddr => Partial(pages, part) /\ At(pages, part).id = id
    BY SearchHits, Folder DEF Partial
  <1>3. ASSUME NEW a, Partial(pages, a) PROVE a = part
    <2>1. /\ pages[a[1]].st = "ACTIVE"
          /\ \E t \in xfer : t.id = At(pages, a).id
          /\ \A b : Partial(pages, b) => b = a
      BY <1>1, <1>3 DEF PartsOK, Calling, AtRest
    <2>2. At(pages, a).id = id BY <1>1, <2>1 DEF HostOK
    <2>3. a \in Visible(pages)
      BY <1>1, <1>3, <2>1, AllVisible, Folder DEF FolderOK, GcPcs, Partial
    <2>4. \A b \in Visible(pages) : IsRec(pages, b) BY Records, Folder DEF Visible
    <2> QED BY <1>3, <2>1, <2>2, <2>3, <2>4, SearchFinds DEF Partial
  <1> QED BY <1>2, <1>3

LEMMA CallPartFiles ==
  ASSUME FInv, CleanUse, NEW id \in Ids, NEW file \in Files, CallPart(id, file)
  PROVE  FilesOK'
  <1> DEFINE part == Search(pages, id, "PARTIAL")
  <1>1. PICK sent \in 0 .. Len(file) - 1 :
          /\ \/ sent = 0 /\ (\A t \in xfer : t.id # id) /\ (Interleave \/ xfer = {})
             \/ \E t \in xfer : t.id = id /\ t.file = file /\ t.sent = sent
          /\ LET left == Len(file) - sent
                 n    == IF left < PartLen THEN left ELSE PartLen
             IN  /\ Begin([op |-> "part", id |-> id, file |-> file, sent |-> sent, n |-> n],
                          IF part = NoAddr THEN "find" ELSE "data")
                 /\ tgt' = part
                 /\ pages' = Sweep(pages, part)
    BY DEF CallPart
  <1>2. /\ pc = "idle" /\ UNCHANGED <<gc, lastWritten, old, scan, xfer, suspect>>
        /\ xfer = {} \/ \E t \in xfer : t.id = id
    BY <1>1 DEF CallPart, CleanUse
  <1>3. /\ req'.op = "part" /\ req'.id = id /\ req'.file = file /\ req'.sent = sent
        /\ pc' = IF part = NoAddr THEN "find" ELSE "data"
        /\ cur' = FirstPage(lastWritten) /\ tgt' = part /\ pages' = Sweep(pages, part)
    BY <1>1 DEF Begin
  <1>4. FilesOK BY <1>2 DEF FInv
  <1>5. /\ \A a : Partial(pages, a) => a = part
        /\ part # NoAddr => Partial(pages, part) /\ At(pages, part).id = id
    BY <1>2, PartialFound
  <1> HIDE DEF part
  <1>6. /\ IsFolder(pages')
        /\ \A p \in 1 .. NPages :
              /\ pages'[p].recs = pages[p].recs /\ pages'[p].end = pages[p].end
              /\ ~pages[p].end => pages'[p] = pages[p]
              /\ pages[p].st # "NEW" <=> pages'[p].st # "NEW"
        /\ \A x : Marks(pages, x) => Marks(pages', x)
        /\ Lined(pages) => Lined(pages')
    BY <1>3, Folder, SweepView
  <1>7. /\ \A a, i : Live(pages', a, i) <=> Live(pages, a, i)
        /\ \A a : Partial(pages', a) <=> Partial(pages, a)
        /\ \A a : IsRec(pages, a) => At(pages', a) = At(pages, a)
    BY <1>6, Folder, SameRecords
  <1>8. FolderOK'
    BY <1>2, <1>3, <1>4, <1>6 DEF FilesOK, FolderOK, Unmarked, GcPcs
  <1>9. part # NoAddr => part[1] \in 1 .. NPages /\ pages'[part[1]].st = "ACTIVE"
    <2> SUFFICES ASSUME part # NoAddr
                 PROVE  part[1] \in 1 .. NPages /\ pages'[part[1]].st = "ACTIVE"
      OBVIOUS
    <2>1. part[1] \in 1 .. NPages BY <1>5, Folder DEF Partial, IsRec
    <2>2. pages[part[1]].st = "ACTIVE" BY <1>2, <1>4, <1>5 DEF FilesOK, PartsOK, Calling, AtRest
    <2>3. ~pages[part[1]].end BY <2>1, <2>2, Folder
    <2> QED BY <1>6, <2>1, <2>2, <2>3
  <1>10. CursorOK'
    <2>1. pc' = "find" => \A q \in 1 .. NPages : q < cur' => pages'[q].end
      BY <1>2, <1>3, <1>6, SearchStarts
    <2>2. \/ lastWritten' = NoAddr
          \/ lastWritten'[1] \in 1 .. NPages /\ pages'[lastWritten'[1]].st # "NEW"
      BY <1>2, <1>4, <1>6 DEF FilesOK, CursorOK, GcPcs
    <2> QED BY <1>3, <1>9, <2>1, <2>2 DEF CursorOK
  <1>11. VersionsOK'
    BY <1>2, <1>3, <1>4, <1>7 DEF FilesOK, VersionsOK, Swapping, Single
  <1>12. HostOK' /\ CopiesOK'
    <2>1. \A t \in xfer : t.id = id /\ t.file = file /\ t.sent = sent
      BY <1>1, <1>2, <1>4 DEF FilesOK, HostOK
    <2> QED BY <1>2, <1>3, <1>4, <2>1 DEF FilesOK, HostOK, CopiesOK, GcPcs
  <1>13. PartsOK'
    <2>1. CASE part = NoAddr
      <3>1. NonePartial(pages') BY <1>5, <1>7, <2>1, Records, Folder DEF NonePartial, Partial
      <3> QED BY <1>3, <2>1, <3>1 DEF PartsOK, Calling, AtRest
    <2>2. CASE part # NoAddr
      <3>1. PICK t \in xfer : Len(At(pages, part).data) >= Len(t.file) - t.sent
        BY <1>2, <1>4, <1>5, <2>2 DEF FilesOK, PartsOK, Calling, AtRest
      <3>2. t.file = file /\ t.sent = sent
        BY <1>1, <1>2, <1>4 DEF FilesOK, HostOK
      <3>3. IsRec(pages, part) /\ At(pages', part) = At(pages, part)
        BY <1>5, <1>7, <2>2 DEF Partial
      <3>4. Len(At(pages', part).data) >= Remaining(req')
        BY <1>3, <3>1, <3>2, <3>3 DEF Remaining
      <3> QED BY <1>3, <1>5, <1>7, <2>2, <3>3, <3>4 DEF PartsOK, Calling, AtRest
    <2> QED BY <2>1, <2>2
  <1>14. CollectOK' BY <1>2, <1>3, <1>4 DEF FilesOK, CollectOK, GcPcs
  <1> QED BY <1>8, <1>10, <1>11, <1>12, <1>13, <1>14 DEF FilesOK

\* Marks a search makes between calls.
LEMMA SweptFiles ==
  ASSUME FInv, ~Calling, ~Calling', NEW v, pages' = Sweep(pages, v),
         lastWritten' = NoAddr \/ (lastWritten'[1] \in 1 .. NPages
                                      /\ pages[lastWritten'[1]].st # "NEW"),
         UNCHANGED <<scan, xfer>>
  PROVE  FilesOK'
  <1>1. FilesOK /\ pc \in {"idle", "down"} /\ pc' \in {"idle", "down", "spoiled"}
    BY DEF Unspoiled, FInv, Calling, AtRest
  <1>2. /\ IsFolder(pages')
        /\ \A p \in 1 .. NPages :
              /\ pages'[p].recs = pages[p].recs /\ pages'[p].end = pages[p].end
              /\ ~pages[p].end => pages'[p] = pages[p]
              /\ pages[p].st # "NEW" <=> pages'[p].st # "NEW"
        /\ \A x : Marks(pages, x) => Marks(pages', x)
        /\ Lined(pages) => Lined(pages')
    BY Folder, SweepView
  <1>3. /\ \A a, i : Live(pages', a, i) <=> Live(pages, a, i)
        /\ \A a : Partial(pages', a) <=> Partial(pages, a)
        /\ \A a : IsRec(pages, a) => At(pages', a) = At(pages, a)
    BY <1>2, Folder, SameRecords
  <1>4. FolderOK' BY <1>1, <1>2 DEF FilesOK, FolderOK, Unmarked, GcPcs
  <1>5. CursorOK' BY <1>1, <1>2 DEF CursorOK
  <1>6. VersionsOK' BY <1>1, <1>3 DEF FilesOK, VersionsOK, Swapping, Single
  <1>7. HostOK' /\ CopiesOK' BY <1>1 DEF FilesOK, HostOK, CopiesOK, Calling, AtRest, GcPcs
  <1>8. PartsOK'
    <2>1. \A a, b : Partial(pages', a) /\ Partial(pages', b) => a = b
      BY <1>1, <1>3 DEF FilesOK, PartsOK, Calling, AtRest
    <2>2. ASSUME NEW a, Partial(pages', a)
          PROVE  /\ pages'[a[1]].st = "ACTIVE"
                 /\ \E t \in xfer' : /\ t.id = At(pages', a).id
                                     /\ Len(At(pages', a).data) >= Len(t.file) - t.sent
      <3>1. Partial(pages, a) /\ IsRec(pages, a) /\ At(pages', a) = At(pages, a)
        BY <1>3, <2>2 DEF Partial
      <3>2. a[1] \in 1 .. NPages BY <3>1, Folder DEF IsRec
      <3>3. /\ pages[a[1]].st = "ACTIVE"
            /\ \E t \in xfer : /\ t.id = At(pages, a).id
                               /\ Len(At(pages, a).data) >= Len(t.file) - t.sent
        BY <1>1, <3>1 DEF FilesOK, PartsOK, Calling, AtRest
      <3>4. ~pages[a[1]].end BY <3>2, <3>3, Folder
      <3> QED BY <1>2, <3>1, <3>2, <3>3, <3>4
    <2> QED BY <1>1, <2>1, <2>2 DEF PartsOK
  <1>9. CollectOK' BY <1>1 DEF FilesOK, CollectOK, GcPcs
  <1> QED BY <1>4, <1>5, <1>6, <1>7, <1>8, <1>9 DEF FilesOK

LEMMA ReadFileFiles ==
  ASSUME FInv, NEW id \in Ids, ReadFile(id)
  PROVE  FilesOK'
  <1>1. /\ pc = "idle" /\ pages' = Sweep(pages, Search(pages, id, "ACTIVE"))
        /\ UNCHANGED <<lastWritten, pc, scan, xfer>>
    BY DEF ReadFile, call
  <1>2. CursorOK BY <1>1 DEF FInv, FilesOK
  <1> QED BY <1>1, <1>2, SweptFiles DEF CursorOK, Calling, AtRest, GcPcs

\* A blank folder.
LEMMA BlankFiles ==
  ASSUME ~Calling', pages' = BlankFolder, lastWritten' = NoAddr, scan' = NoScan,
         \A t \in xfer', u \in xfer' : t = u, \A t \in xfer' : t.sent < Len(t.file)
  PROVE  FilesOK'
  <1>1. pc' \in {"idle", "down", "spoiled"} BY DEF Calling, AtRest
  <1>2. \A p \in 1 .. NPages : /\ pages'[p].st = "NEW" /\ pages'[p].recs = <<>>
                               /\ ~pages'[p].end
    BY DEF BlankFolder, BlankPage
  <1>3. \A a : ~IsRec(pages', a) BY <1>2 DEF BlankFolder, IsRec
  <1>4. FolderOK' BY <1>1, <1>2 DEF FolderOK, Marks, Lined, Unmarked
  <1>5. CursorOK' BY <1>1 DEF CursorOK
  <1>6. VersionsOK' BY <1>1, <1>3 DEF VersionsOK, Swapping, Single, Live
  <1>7. HostOK' /\ CopiesOK' BY <1>1 DEF HostOK, CopiesOK, Calling, AtRest, GcPcs
  <1>8. PartsOK' BY <1>1, <1>3 DEF PartsOK, Partial
  <1>9. CollectOK' BY <1>1 DEF CollectOK
  <1> QED BY <1>4, <1>5, <1>6, <1>7, <1>8, <1>9 DEF FilesOK

LEMMA EraseChipFiles == ASSUME FInv, EraseChip PROVE FilesOK'
  <1>1. CollectOK /\ pc = "idle" BY DEF EraseChip, FInv, FilesOK, Unspoiled
  <1>2. /\ pages' = BlankFolder /\ lastWritten' = NoAddr /\ xfer' = {}
        /\ scan' = NoScan /\ ~Calling'
    BY <1>1 DEF EraseChip, call, CollectOK, GcPcs, Calling, AtRest
  <1> QED BY <1>2, BlankFiles

\* A power failure between two calls, and the restart after it.
LEMMA CrashFiles == ASSUME FInv, CleanUse, Crash PROVE FilesOK' /\ suspect' = {}
  <1>1. pc = "idle" /\ pc' = "down" BY DEF Crash, CleanUse
  <1>2. FilesOK /\ suspect = {} BY <1>1 DEF FInv
  <1>3. /\ pages' = pages /\ lastWritten' = NoAddr /\ scan' = NoScan /\ UNCHANGED xfer
        /\ suspect' = {}
    <2>1. AtRisk = {} BY <1>1 DEF AtRisk, GcPcs
    <2>2. Torn = {pages} BY <1>1, pc # "data", pc # "back" DEF Torn
    <2> QED BY <1>1, <1>2, <2>1, <2>2 DEF Crash, EraseCut, ErasesPage, Reset
  <1>4. FolderOK' BY <1>1, <1>2, <1>3 DEF FilesOK, FolderOK, Unmarked, GcPcs
  <1>5. CursorOK' BY <1>1, <1>3 DEF CursorOK
  <1>6. VersionsOK' BY <1>1, <1>2, <1>3 DEF FilesOK, VersionsOK, Swapping
  <1>7. HostOK' /\ CopiesOK' BY <1>1, <1>2, <1>3 DEF FilesOK, HostOK, CopiesOK, Calling, AtRest, GcPcs
  <1>8. PartsOK' BY <1>1, <1>2, <1>3 DEF FilesOK, PartsOK, Calling, AtRest
  <1>9. CollectOK' BY <1>1, <1>3 DEF CollectOK
  <1> QED BY <1>3, <1>4, <1>5, <1>6, <1>7, <1>8, <1>9 DEF FilesOK

\* The last file a walk finds is in a page that has been begun.
LEMMA LastAddrPage ==
  ASSUME NEW f, IsFolder(f)
  PROVE  LET a == LastAddr(f)
         IN  a = NoAddr \/ (a[1] \in 1 .. NPages /\ f[a[1]].st # "NEW")
  <1> DEFINE a == LastAddr(f)
             walked == {p \in DOMAIN f : f[p].st # "OBSOLETE" /\ Reached(f, p)}
             found == {b \in Visible(f) : At(f, b).st = "ACTIVE" /\ \A q \in walked : q <= b[1]}
  <1>1. \A S : LastOf(S) = NoAddr \/ LastOf(S) \in S BY DEF LastOf, IsLast
  <1>2. a = LastOf(found) BY DEF LastAddr
  <1>3. a = NoAddr \/ a \in found
    <2> HIDE DEF found
    <2> QED BY <1>1, <1>2
  <1>4. a = NoAddr \/ a \in RecordsOf(f) BY <1>3 DEF Visible
  <1>5. CASE a = NoAddr BY <1>5
  <1>6. CASE a \in RecordsOf(f)
    <2>1. IsRecord(f, a) BY <1>6, Records
    <2>2. a[1] \in 1 .. NPages /\ a[2] \in DOMAIN f[a[1]].recs BY <2>1 DEF IsRecord
    <2>3. Good(f[a[1]]) /\ f[a[1]].recs # <<>> BY <2>2, PageOf
    <2> QED BY <2>2, <2>3 DEF Good, WellFormed, MarksAgree
  <1> QED BY <1>4, <1>5, <1>6

LEMMA RestartFiles == ASSUME FInv, Restart PROVE FilesOK'
  <1>1. /\ pc = "down" /\ pc' = "idle" /\ UNCHANGED <<scan, xfer>>
    BY DEF Restart, call
  <1>2. FilesOK /\ ~Calling /\ ~Calling' BY <1>1 DEF FInv, Calling, AtRest
  <1>3. CASE KeyIntact
    <2>1. pages' = Sweep(pages, NoAddr) /\ lastWritten' = LastAddr(pages)
      BY <1>3 DEF Restart
    <2>2. lastWritten' = NoAddr \/ (lastWritten'[1] \in 1 .. NPages
                                       /\ pages[lastWritten'[1]].st # "NEW")
      BY <2>1, LastAddrPage, Folder
    <2> QED BY <1>1, <1>2, <2>1, <2>2, SweptFiles
  <1>4. CASE ~KeyIntact
    <2>1. pages' = BlankFolder /\ lastWritten' = NoAddr BY <1>4 DEF Restart
    <2>2. scan' = NoScan BY <1>1, <1>2 DEF FilesOK, CollectOK, GcPcs
    <2>3. (\A t \in xfer', u \in xfer' : t = u) /\ \A t \in xfer' : t.sent < Len(t.file)
      BY <1>1, <1>2 DEF FilesOK, HostOK
    <2> QED BY <1>2, <2>1, <2>2, <2>3, BlankFiles
  <1> QED BY <1>3, <1>4

-----------------------------------------------------------------------------
(***************************************************************************)
(* The search for space.                                                   *)
(***************************************************************************)
\* What pages and records share when one step only moves marks of pages.
LEMMA PageStatusView ==
  ASSUME FInv, NEW p \in 1 .. NPages, NEW st, pages' = [pages EXCEPT ![p].st = st]
  PROVE  /\ \A q \in 1 .. NPages : /\ pages'[q].recs = pages[q].recs
                                   /\ pages'[q].end = pages[q].end
         /\ \A q \in 1 .. NPages : q # p => pages'[q] = pages[q]
         /\ pages'[p].st = st
  BY Folder DEF Page

\* Pages in front of the one the search looks into are full.
LEMMA LooksBehind ==
  ASSUME FInv, pc = "find", NEW p \in 1 .. NPages, Looks(p)
  PROVE  /\ \A q \in 1 .. NPages : q < p => pages[q].end
         /\ ~pages[p].end /\ \A q \in 1 .. NPages : q > p => pages[q].st = "NEW"
  <1>1. FolderOK /\ CursorOK /\ Unmarked = 0 BY DEF FInv, FilesOK, Unmarked
  <1>2. pages[p].st \in {"NEW", "ACTIVE"} BY DEF Looks, Open
  <1>3. ~pages[p].end BY <1>2, Folder
  <1>4. \A q \in 1 .. NPages : q > p => pages[q].st = "NEW"
    BY <1>1, <1>3 DEF FolderOK, GcPcs, Lined
  <1>5. ASSUME NEW q \in 1 .. NPages, q < p PROVE pages[q].end
    <2>1. CASE q < cur BY <1>1, <2>1 DEF CursorOK
    <2>2. CASE ~(q < cur)
      <3>1. cur \in Nat /\ q \in cur .. p - 1 BY <1>5, <2>2, Folder DEF IInv, Registers
      <3>2. pages[q].st \notin {"NEW", "ACTIVE"} BY <3>1 DEF Looks, Open
      <3>3. pages[q].st \in PageStatus BY Folder DEF Page
      <3> QED BY <1>1, <3>2, <3>3, Folder DEF PageStatus, FolderOK, Marks
    <2> QED BY <2>1, <2>2
  <1> QED BY <1>3, <1>4, <1>5

LEMMA FindRoomFiles == ASSUME FInv, FindRoom, IsFolder(pages') PROVE FilesOK'
  <1>1. PICK p \in 1 .. NPages : Looks(p) /\ pages' = [pages EXCEPT ![p].st = "ACTIVE"]
    BY DEF FindRoom
  <1>2. /\ pc = "find" /\ pc' = "header"
        /\ UNCHANGED <<gc, lastWritten, req, cur, old, scan, xfer, reply, suspect>>
    BY DEF FindRoom
  <1>3. FilesOK /\ Unmarked = 0 /\ Unmarked' = 0 BY <1>2 DEF FInv, Unmarked
  <1>4. /\ \A q \in 1 .. NPages : pages'[q].recs = pages[q].recs /\ pages'[q].end = pages[q].end
        /\ \A q \in 1 .. NPages : q # p => pages'[q] = pages[q]
        /\ pages'[p].st = "ACTIVE"
    BY <1>1, PageStatusView
  <1>5. /\ \A a, i : Live(pages', a, i) <=> Live(pages, a, i)
        /\ \A a : Partial(pages', a) <=> Partial(pages, a)
    BY <1>4, Folder, SameRecords
  <1>6. \A q \in 1 .. NPages : q < p => pages[q].end BY <1>1, <1>2, LooksBehind
  <1>7. Marks(pages', 0) BY <1>3, <1>4 DEF FilesOK, FolderOK, Marks
  <1>8. Lined(pages') BY <1>2, <1>3, <1>4, <1>6 DEF FilesOK, FolderOK, GcPcs, Lined
  <1>9. FolderOK' BY <1>3, <1>7, <1>8 DEF FolderOK
  <1>10. CursorOK' BY <1>2, <1>3, <1>4 DEF FilesOK, CursorOK, GcPcs
  <1>11. VersionsOK' BY <1>2, <1>3, <1>5 DEF FilesOK, VersionsOK, Swapping, Single
  <1>12. HostOK' /\ CopiesOK'
    BY <1>2, <1>3 DEF FilesOK, HostOK, CopiesOK, Calling, AtRest, GcPcs
  <1>13. PartsOK' BY <1>2, <1>3, <1>5 DEF FilesOK, PartsOK, NonePartial, Calling, AtRest
  <1>14. CollectOK' BY <1>2, <1>3 DEF FilesOK, CollectOK, GcPcs
  <1> QED BY <1>9, <1>10, <1>11, <1>12, <1>13, <1>14 DEF FilesOK

LEMMA FindFullFiles == ASSUME FInv, FindFull, IsFolder(pages') PROVE FilesOK'
  <1>1. PICK p \in 1 .. NPages :
          Looks(p) /\ pages' = [pages EXCEPT ![p].st = "OLD"] /\ cur' = p
    BY DEF FindFull
  <1>2. /\ pc = "find" /\ pc' = "endmark"
        /\ UNCHANGED <<gc, lastWritten, req, tgt, old, scan, xfer, reply, suspect>>
    BY DEF FindFull
  <1>3. FilesOK /\ Unmarked = 0 /\ Unmarked' = p BY <1>1, <1>2 DEF FInv, Unmarked
  <1>4. /\ \A q \in 1 .. NPages : pages'[q].recs = pages[q].recs /\ pages'[q].end = pages[q].end
        /\ \A q \in 1 .. NPages : q # p => pages'[q] = pages[q]
        /\ pages'[p].st = "OLD"
    BY <1>1, PageStatusView
  <1>5. /\ \A a, i : Live(pages', a, i) <=> Live(pages, a, i)
        /\ \A a : Partial(pages', a) <=> Partial(pages, a)
    BY <1>4, Folder, SameRecords
  <1>6. \A q \in 1 .. NPages : q < p => pages[q].end BY <1>1, <1>2, LooksBehind
  <1>7. Marks(pages', p) BY <1>3, <1>4 DEF FilesOK, FolderOK, Marks
  <1>8. Lined(pages') BY <1>2, <1>3, <1>4, <1>6 DEF FilesOK, FolderOK, GcPcs, Lined
  <1>9. FolderOK' BY <1>3, <1>7, <1>8 DEF FolderOK
  <1>10. CursorOK' BY <1>1, <1>2, <1>3, <1>4, <1>6 DEF FilesOK, CursorOK, GcPcs
  <1>11. VersionsOK' BY <1>2, <1>3, <1>5 DEF FilesOK, VersionsOK, Swapping, Single
  <1>12. HostOK' /\ CopiesOK'
    BY <1>2, <1>3 DEF FilesOK, HostOK, CopiesOK, Calling, AtRest, GcPcs
  <1>13. PartsOK' BY <1>2, <1>3, <1>5 DEF FilesOK, PartsOK, NonePartial, Calling, AtRest
  <1>14. CollectOK' BY <1>2, <1>3 DEF FilesOK, CollectOK, GcPcs
  <1> QED BY <1>9, <1>10, <1>11, <1>12, <1>13, <1>14 DEF FilesOK

LEMMA EndMarkFiles == ASSUME FInv, EndMark, IsFolder(pages') PROVE FilesOK'
  <1>1. /\ pc = "endmark" /\ pc' = "find" /\ cur' = cur + 1
        /\ pages' = [pages EXCEPT ![cur].end = TRUE]
        /\ UNCHANGED <<gc, lastWritten, req, tgt, old, scan, xfer, reply, suspect>>
    BY DEF EndMark
  <1>2. cur \in 1 .. NPages BY <1>1, Folder DEF IInv, CallOK, FullOK
  <1>3. FilesOK /\ Unmarked = cur /\ Unmarked' = 0 BY <1>1 DEF FInv, Unmarked
  <1>4. /\ \A q \in 1 .. NPages : pages'[q].recs = pages[q].recs /\ pages'[q].st = pages[q].st
        /\ \A q \in 1 .. NPages : q # cur => pages'[q] = pages[q]
        /\ pages'[cur].end
    BY <1>1, <1>2, Folder DEF Page
  <1>5. /\ \A a, i : Live(pages', a, i) <=> Live(pages, a, i)
        /\ \A a : Partial(pages', a) <=> Partial(pages, a)
        /\ \A q \in 1 .. NPages : HasActive(pages'[q]) <=> HasActive(pages[q])
    BY <1>4, Folder, SameRecords
  <1>6. Marks(pages', 0) BY <1>2, <1>3, <1>4, <1>5 DEF FilesOK, FolderOK, Marks
  <1>7. Lined(pages') BY <1>1, <1>3, <1>4 DEF FilesOK, FolderOK, GcPcs, Lined
  <1>8. FolderOK' BY <1>3, <1>6, <1>7 DEF FolderOK
  <1>9. CursorOK'
    <2>1. ASSUME NEW q \in 1 .. NPages, q < cur + 1 PROVE pages'[q].end
      BY <1>1, <1>2, <1>3, <1>4, <2>1 DEF FilesOK, CursorOK
    <2>2. \/ lastWritten' = NoAddr
          \/ lastWritten'[1] \in 1 .. NPages /\ pages'[lastWritten'[1]].st # "NEW"
      BY <1>1, <1>3, <1>4 DEF FilesOK, CursorOK, GcPcs
    <2> QED BY <1>1, <2>1, <2>2 DEF CursorOK
  <1>10. VersionsOK' BY <1>1, <1>3, <1>5 DEF FilesOK, VersionsOK, Swapping, Single
  <1>11. HostOK' /\ CopiesOK'
    BY <1>1, <1>3 DEF FilesOK, HostOK, CopiesOK, Calling, AtRest, GcPcs
  <1>12. PartsOK' BY <1>1, <1>3, <1>5 DEF FilesOK, PartsOK, NonePartial, Calling, AtRest
  <1>13. CollectOK' BY <1>1, <1>3 DEF FilesOK, CollectOK, GcPcs
  <1> QED BY <1>8, <1>9, <1>10, <1>11, <1>12, <1>13 DEF FilesOK

\* When the search finds no page, all are full.
LEMMA FindNoneFiles == ASSUME FInv, FindNone PROVE FilesOK'
  <1>1. /\ pc = "find" /\ pc' = "gc" /\ scan' = NoScan
        /\ \A p \in cur .. NPages : ~Open(p)
        /\ UNCHANGED <<pages, gc, lastWritten, req, cur, tgt, old, xfer, reply, suspect>>
    BY DEF FindNone
  <1>2. FilesOK /\ Unmarked = 0 /\ Unmarked' = 0 BY <1>1 DEF FInv, Unmarked
  <1>3. ASSUME NEW q \in 1 .. NPages PROVE pages[q].end
    <2>1. CASE q < cur BY <1>1, <1>2, <2>1 DEF FilesOK, CursorOK
    <2>2. CASE ~(q < cur)
      <3>1. cur \in Nat /\ q \in cur .. NPages BY <2>2, Folder DEF IInv, Registers
      <3>2. pages[q].st \notin {"NEW", "ACTIVE"} BY <1>1, <3>1 DEF Open
      <3>3. pages[q].st \in PageStatus BY Folder DEF Page
      <3> QED BY <1>2, <3>2, <3>3 DEF PageStatus, FilesOK, FolderOK, Marks
    <2> QED BY <2>1, <2>2
  <1>4. scan'.p = 1 /\ scan'.i = 1 /\ scan'.g = 1 /\ ~scan'.open /\ ~scan'.stop
    BY <1>1 DEF NoScan
  <1>5. NPages >= 1 /\ NPages \in Nat /\ GPages >= 1 /\ GPages \in Nat
    BY SizesAssumption
  <1>6. Collects(0)'
    <2>1. Refilled(0)'
      <3>1. \A i \in DOMAIN pages[1].recs : ~(i < 1)
        BY <1>5, PageOf, Folder
      <3> QED BY <1>1, <1>3, <1>4, <1>5, <3>1 DEF Refilled
    <2>2. GcFilled(1)' BY <1>4 DEF GcFilled
    <2> QED BY <1>4, <1>5, <2>1, <2>2 DEF Collects
  <1>7. CollectOK' BY <1>1, <1>5, <1>6 DEF CollectOK, GcPcs
  <1>8. FolderOK' /\ CursorOK' BY <1>1, <1>2 DEF FilesOK, FolderOK, CursorOK, GcPcs
  <1>9. VersionsOK' /\ HostOK'
    BY <1>1, <1>2 DEF FilesOK, VersionsOK, Swapping, HostOK, Calling, AtRest
  <1>10. CopiesOK'
    <2>1. \A a : ~InArea(a)' \/ ~IsRec(gc, a)
      <3>1. DOMAIN gc \subseteq Nat \ {0} BY <1>5, Folder DEF IInv, GcGood
      <3> QED BY <1>4, <3>1 DEF InArea, IsRec
    <2> QED BY <1>1, <2>1 DEF CopiesOK, Kept, Live
  <1>11. PartsOK' BY <1>1, <1>2 DEF FilesOK, PartsOK, Calling, AtRest
  <1> QED BY <1>7, <1>8, <1>9, <1>10, <1>11 DEF FilesOK

-----------------------------------------------------------------------------
(***************************************************************************)
(* The programs of a write.                                                *)
(***************************************************************************)
\* What the header adds to the folder.
LEMMA HeaderView ==
  ASSUME FInv, pc = "header"
  PROVE  LET g == HeaderAdded
         IN  /\ IsFolder(g) /\ IsRec(g, tgt) /\ ~IsRec(pages, tgt)
             /\ \A b : IsRec(g, b) <=> IsRec(pages, b) \/ b = tgt
             /\ \A b : IsRec(pages, b) => At(g, b) = At(pages, b)
             /\ At(g, tgt) = NewRecord
             /\ Marks(g, 0) /\ Lined(g)
             /\ tgt[1] \in 1 .. NPages /\ g[tgt[1]].st = "ACTIVE"
             /\ \A p \in 1 .. NPages : /\ pages[p].st # "NEW" <=> g[p].st # "NEW"
                                       /\ g[p].end = pages[p].end
  <1> DEFINE g     == HeaderAdded
             swept == IF Whole THEN Sweep(pages, Version) ELSE pages
             p     == tgt[1]
  <1>1. /\ p \in 1 .. NPages /\ pages[p].st = "ACTIVE" /\ tgt \in Addr
        /\ tgt[2] = Len(pages[p].recs) + 1 /\ FilesOK /\ Unmarked = 0
    BY Folder DEF IInv, Registers, CallOK, RoomOK, FInv, Unmarked
  <1>2. /\ IsFolder(swept)
        /\ \A q \in 1 .. NPages :
              /\ swept[q].recs = pages[q].recs /\ swept[q].end = pages[q].end
              /\ ~pages[q].end => swept[q] = pages[q]
              /\ pages[q].st # "NEW" <=> swept[q].st # "NEW"
        /\ Marks(swept, 0) /\ Lined(swept)
    <2>1. Marks(pages, 0) /\ Lined(pages) BY <1>1 DEF FilesOK, FolderOK, GcPcs
    <2>2. CASE Whole BY <2>1, <2>2, SweepView, Folder
    <2>3. CASE ~Whole BY <2>1, <2>3, Folder
    <2> QED BY <2>2, <2>3
  <1>3. IsFolder(g) BY HeaderFolder, Folder
  <1>4. g = [swept EXCEPT ![p].recs = Append(@, NewRecord)] BY DEF HeaderAdded
  <1>5. /\ \A b : IsRec(swept, b) <=> IsRec(pages, b)
        /\ \A b : IsRec(pages, b) => At(swept, b) = At(pages, b)
    BY <1>2, Folder, SameRecords
  <1> HIDE DEF swept, g
  <1>6. RecordAppended(swept, g, tgt, NewRecord) BY <1>1, <1>2, <1>4 DEF RecordAppended
  <1>8. /\ \A b : IsRec(g, b) <=> IsRec(swept, b) \/ b = tgt
        /\ \A b : IsRec(swept, b) => At(g, b) = At(swept, b) /\ b # tgt
        /\ At(g, tgt) = NewRecord
        /\ \A q \in 1 .. NPages : g[q].st = swept[q].st /\ g[q].end = swept[q].end
        /\ \A q \in 1 .. NPages : q # p => g[q] = swept[q]
    BY <1>2, <1>3, <1>6, AppendView
  <1>9. swept[p].st = "ACTIVE" BY <1>1, <1>2, Folder
  <1>10. Marks(g, 0)
    <2> SUFFICES ASSUME NEW q \in 1 .. NPages
                 PROVE  /\ g[q].st = "OBSOLETE" => g[q].end /\ ~HasActive(g[q])
                        /\ g[q].st = "OLD" => g[q].end \/ q = 0
      BY DEF Marks
    <2>1. CASE q = p BY <1>8, <1>9, <2>1
    <2>2. CASE q # p BY <1>2, <1>8, <2>2 DEF Marks
    <2> QED BY <2>1, <2>2
  <1>11. Lined(g) BY <1>2, <1>8 DEF Lined
  <1> QED BY <1>1, <1>2, <1>3, <1>5, <1>8, <1>9, <1>10, <1>11 DEF g

LEMMA NewRecordFacts ==
  ASSUME FInv, pc = "header"
  PROVE  /\ NewRecord.id = req.id /\ NewRecord.data = Blanks(Remaining(req))
         /\ Len(NewRecord.data) = Remaining(req)
         /\ req.op = "write" => NewRecord.st = "ACTIVE" /\ NewRecord.crc = req.file
         /\ req.op = "part" => NewRecord.st = "PARTIAL" /\ NewRecord.crc = <<>>
         /\ req.op \in {"write", "part"}
  <1>1. Remaining(req) \in Nat /\ req.op \in {"write", "part"}
    BY RequestType, Folder DEF Calling, AtRest
  <1>2. Len(Blanks(Remaining(req))) = Remaining(req) BY <1>1, BlanksType
  <1> QED BY <1>1, <1>2 DEF NewRecord, Whole

LEMMA WriteHeaderFiles == ASSUME FInv, WriteHeader PROVE FilesOK'
  <1>1. /\ pc = "header" /\ pc' = "data" /\ old' = Version /\ pages' = HeaderAdded
        /\ lastWritten' = IF Whole THEN tgt ELSE lastWritten
        /\ UNCHANGED <<gc, req, cur, tgt, scan, xfer, reply, suspect>>
    BY DEF WriteHeader
  <1>2. FilesOK /\ Unmarked = 0 /\ Unmarked' = 0 BY <1>1 DEF FInv, Unmarked
  <1>3. /\ IsRec(pages', tgt) /\ ~IsRec(pages, tgt)
        /\ \A b : IsRec(pages', b) <=> IsRec(pages, b) \/ b = tgt
        /\ \A b : IsRec(pages, b) => At(pages', b) = At(pages, b)
        /\ At(pages', tgt) = NewRecord
        /\ Marks(pages', 0) /\ Lined(pages')
        /\ tgt[1] \in 1 .. NPages /\ pages'[tgt[1]].st = "ACTIVE"
        /\ \A p \in 1 .. NPages : pages[p].st # "NEW" <=> pages'[p].st # "NEW"
    BY <1>1, HeaderView
  <1>4. /\ NewRecord.id = req.id /\ Len(NewRecord.data) = Remaining(req)
        /\ req.op = "write" => NewRecord.st = "ACTIVE"
        /\ req.op = "part" => NewRecord.st = "PARTIAL"
        /\ req.op \in {"write", "part"}
    BY <1>1, NewRecordFacts
  <1>5. /\ \A b, i : Live(pages', b, i) <=>
                        Live(pages, b, i) \/ (b = tgt /\ i = req.id /\ req.op = "write")
        /\ \A b : Partial(pages', b) <=> Partial(pages, b) \/ (b = tgt /\ req.op = "part")
    BY <1>3, <1>4 DEF Live, Partial
  <1>6. FolderOK' BY <1>2, <1>3 DEF FolderOK
  <1>7. CursorOK' BY <1>1, <1>2, <1>3 DEF FilesOK, CursorOK, GcPcs
  <1>8. tgt # NoAddr BY <1>3, Folder, SizesAssumption DEF NoAddr
  <1>9. VersionsOK'
    <2>1. \A i \in Ids : Single(pages, i) BY <1>1, <1>2 DEF FilesOK, VersionsOK, Swapping
    <2>2. CASE req.op = "part"
      <3>1. \A i \in Ids : Single(pages', i) BY <1>5, <2>1, <2>2 DEF Single
      <3> QED BY <1>1, <2>2, <3>1 DEF VersionsOK, Swapping
    <2>3. CASE req.op = "write"
      <3>1. req.id \in Ids BY <1>1, RequestType, Folder DEF Calling, AtRest
      <3>2. /\ \A a : Live(pages, a, req.id) => a = old'
            /\ old' # NoAddr => Live(pages, old', req.id)
        <4>1. old' = Search(pages, req.id, "ACTIVE") BY <1>1, <2>3 DEF Version, Whole
        <4>2. Marks(pages, 0) /\ Lined(pages) BY <1>1, <1>2 DEF FilesOK, FolderOK, GcPcs
        <4> QED BY <2>1, <3>1, <4>1, <4>2, SearchOne, Folder
      <3>3. lastWritten' = tgt BY <1>1, <2>3 DEF Whole
      <3>4. old' # NoAddr => old' # tgt BY <1>3, <3>2 DEF Live
      <3>5. \A i \in Ids : i # req.id => Single(pages', i) BY <1>5, <2>1 DEF Single
      <3> QED BY <1>1, <1>5, <1>8, <2>3, <3>2, <3>3, <3>4, <3>5 DEF VersionsOK, Swapping
    <2> QED BY <1>4, <2>2, <2>3
  <1>10. HostOK' /\ CopiesOK'
    BY <1>1, <1>2 DEF FilesOK, HostOK, CopiesOK, Calling, AtRest, GcPcs
  <1>11. PartsOK'
    <2>1. Remaining(req)' = Remaining(req) BY <1>1
    <2>2. Remaining(req) \in Nat BY <1>1, RequestType, Folder DEF Calling, AtRest
    <2>3. \A b : ~Partial(pages, b) BY <1>1, <1>2 DEF FilesOK, PartsOK, NonePartial
    <2> QED BY <1>1, <1>3, <1>4, <1>5, <2>1, <2>2, <2>3 DEF PartsOK, Calling, AtRest
  <1>12. CollectOK' BY <1>1, <1>2 DEF FilesOK, CollectOK, GcPcs
  <1> QED BY <1>6, <1>7, <1>9, <1>10, <1>11, <1>12 DEF FilesOK

\* The offset computed from rem_len never lies in front of the file.
LEMMA StartInside == ASSUME FInv, pc = "data" PROVE PayloadStart >= 0 /\ tgt # NoAddr
  <1>1. PartsOK /\ IInv /\ Calling BY Folder DEF FInv, FilesOK, Calling, AtRest
  <1>2. Remaining(req) \in Nat /\ req.op \in {"write", "part"} BY <1>1, RequestType
  <1>3. IsRecord(pages, tgt) BY <1>1 DEF IInv, CallOK, TargetOK
  <1>4. Len(At(pages, tgt).data) \in Nat
    <2>1. At(pages, tgt) \in Record BY <1>3, RecordType, Folder
    <2> QED BY <2>1 DEF Record
  <1>5. Len(At(pages, tgt).data) >= Remaining(req) BY <1>1, <1>2, <1>4 DEF PartsOK
  <1>6. tgt # NoAddr BY <1>3, Records, Folder
  <1> QED BY <1>2, <1>4, <1>5, <1>6 DEF PayloadStart

\* What the data of a part does to the folder.
LEMMA PayloadView ==
  ASSUME FInv, pc = "data"
  PROVE  LET g    == WithPayload(req.n)
             data == ProgramAt(At(pages, tgt).data, PayloadStart, SubSeq(Payload, 1, req.n))
         IN  /\ IsFolder(g) /\ IsRec(pages, tgt)
             /\ \A b : IsRec(g, b) <=> IsRec(pages, b)
             /\ \A b : IsRec(pages, b) /\ b # tgt => At(g, b) = At(pages, b)
             /\ At(g, tgt).st = At(pages, tgt).st /\ At(g, tgt).id = At(pages, tgt).id
             /\ At(g, tgt).crc = At(pages, tgt).crc
             /\ At(g, tgt).data = data
             /\ Len(At(g, tgt).data) = Len(At(pages, tgt).data)
             /\ \A p \in 1 .. NPages : g[p].st = pages[p].st /\ g[p].end = pages[p].end
  <1> DEFINE g    == WithPayload(req.n)
             data == ProgramAt(At(pages, tgt).data, PayloadStart, SubSeq(Payload, 1, req.n))
  <1>1. /\ IInv /\ IsFolder(pages) /\ IsRecord(pages, tgt) /\ PayloadStart >= 0
        /\ req.n \in Nat
    BY Folder, StartInside, RequestType DEF IInv, CallOK, TargetOK, Calling, AtRest
  <1>2. IsFolder(g) BY <1>1, WithPayloadFolder
  <1>3. /\ tgt[1] \in 1 .. NPages /\ tgt[2] \in DOMAIN pages[tgt[1]].recs
        /\ At(pages, tgt) = pages[tgt[1]].recs[tgt[2]] /\ At(pages, tgt) \in Record
        /\ pages[tgt[1]] \in Page /\ DOMAIN pages = 1 .. NPages
    BY <1>1, RecordType, Folder
  <1>4. IsRec(pages, tgt) BY <1>1, Records
  <1>5. g = [pages EXCEPT ![tgt[1]].recs[tgt[2]].data = data]
    BY DEF WithPayload, At
  <1>6. Len(data) = Len(At(pages, tgt).data)
    <2> DEFINE d == At(pages, tgt).data
    <2>1. d \in Seq(Cells) BY <1>3 DEF Record
    <2>2. SubSeq(Payload, 1, req.n) \in Seq(Vals) /\ PayloadStart \in Nat
      BY <1>1, PayloadType
    <2> HIDE DEF d
    <2>3. Len(ProgramAt(d, PayloadStart, SubSeq(Payload, 1, req.n))) = Len(d)
      BY <2>1, <2>2, ProgramAtType
    <2> QED BY <2>3 DEF d
  <1> HIDE DEF data, g
  <1>7. RecordProgrammed(pages, g, tgt) /\ At(g, tgt) = [At(pages, tgt) EXCEPT !.data = data]
    BY <1>3, <1>4, <1>5 DEF RecordProgrammed, At, Page
  <1>8. /\ At(g, tgt).st = At(pages, tgt).st /\ At(g, tgt).id = At(pages, tgt).id
        /\ At(g, tgt).crc = At(pages, tgt).crc /\ At(g, tgt).data = data
    BY <1>3, <1>7 DEF Record
  <1>9. /\ \A b : IsRec(g, b) <=> IsRec(pages, b)
        /\ \A b : IsRec(pages, b) /\ b # tgt => At(g, b) = At(pages, b)
        /\ \A p \in 1 .. NPages : g[p].st = pages[p].st /\ g[p].end = pages[p].end
        /\ \A p \in 1 .. NPages : p # tgt[1] => g[p] = pages[p]
    BY <1>1, <1>7, OneRecord
  <1>10. Len(At(g, tgt).data) = Len(At(pages, tgt).data) BY <1>6, <1>8
  <1> QED BY <1>2, <1>4, <1>8, <1>9, <1>10 DEF g, data

LEMMA AddrNotNone == ASSUME NEW f, IsFolder(f), NEW a, IsRec(f, a) PROVE a # NoAddr
  BY Records

\* The host's books after a part that was taken.
LEMMA AdvanceHost ==
  ASSUME FInv, pc \in {"data", "retire", "activate"}, Return(reply'), Advance(FALSE)
  PROVE  /\ HostOK'
         /\ \A t \in xfer' : MoreParts /\ t.id = req.id /\ t.file = req.file
                                       /\ t.sent = req.sent + req.n
         /\ MoreParts => xfer' # {}
  <1> DEFINE new == [id |-> req.id, all |-> Meant, sent |-> req.sent + req.n, file |-> req.file]
  <1>1. /\ HostOK /\ Calling /\ IInv BY Folder DEF FInv, FilesOK, Calling, AtRest
  <1>2. /\ req.op \in {"write", "part"} /\ req.n <= Remaining(req) /\ Remaining(req) \in Nat
        /\ req.sent \in Nat /\ req.n \in Nat /\ Len(req.file) \in Nat
    BY <1>1, RequestType
  <1>3. {t \in xfer : t.id # req.id} = {}
    BY <1>1, <1>2 DEF HostOK
  <1>4. xfer' = IF MoreParts THEN {new} ELSE {} BY <1>2, <1>3 DEF Advance, MoreParts
  <1>5. new.id = req.id /\ new.file = req.file /\ new.sent = req.sent + req.n OBVIOUS
  <1>6. MoreParts => req.sent + req.n < Len(req.file) BY <1>2 DEF MoreParts, Remaining
  <1> HIDE DEF new
  <1>7. \A t \in xfer' : MoreParts /\ t = new BY <1>4
  <1>8. pc' = "idle" BY DEF Return
  <1>9. HostOK' BY <1>5, <1>6, <1>7, <1>8 DEF HostOK, Calling, AtRest
  <1>10. MoreParts => xfer' # {} BY <1>4
  <1> QED BY <1>5, <1>7, <1>9, <1>10 DEF new

LEMMA WriteDataFiles == ASSUME FInv, WriteData PROVE FilesOK' /\ pc' # "stray"
  <1>1. /\ pc = "data" /\ UNCHANGED <<gc, lastWritten, suspect>> BY DEF WriteData
  <1>2. PayloadStart >= 0 /\ tgt # NoAddr BY <1>1, StartInside
  <1>3. /\ pages' = WithPayload(req.n)
        /\ \/ MoreParts /\ Return("success") /\ Advance(FALSE)
           \/ ~MoreParts /\ pc' = "retire" /\ UNCHANGED <<call, xfer, reply>>
    <2>1. ~(PayloadStart < 0)
      <3>1. PayloadStart \in Int BY <1>1, Folder, StartType
      <3> QED BY <1>2, <3>1
    <2> QED BY <2>1 DEF WriteData
  <1>4. FilesOK /\ Unmarked = 0 BY <1>1 DEF FInv, Unmarked
  <1>5. /\ IsFolder(pages') /\ IsRec(pages, tgt)
        /\ \A b : IsRec(pages', b) <=> IsRec(pages, b)
        /\ \A b : IsRec(pages, b) /\ b # tgt => At(pages', b) = At(pages, b)
        /\ At(pages', tgt).st = At(pages, tgt).st /\ At(pages', tgt).id = At(pages, tgt).id
        /\ Len(At(pages', tgt).data) = Len(At(pages, tgt).data)
        /\ \A p \in 1 .. NPages : pages'[p].st = pages[p].st /\ pages'[p].end = pages[p].end
    BY <1>1, <1>3, PayloadView
  <1>6. /\ \A b, i : Live(pages', b, i) <=> Live(pages, b, i)
        /\ \A b : Partial(pages', b) <=> Partial(pages, b)
    <2>1. \A b : IsRec(pages, b) => /\ At(pages', b).st = At(pages, b).st
                                    /\ At(pages', b).id = At(pages, b).id
      BY <1>5
    <2> QED BY <1>5, <2>1 DEF Live, Partial
  <1>7. \A p \in 1 .. NPages : HasActive(pages'[p]) => HasActive(pages[p])
    <2> SUFFICES ASSUME NEW p \in 1 .. NPages, NEW i \in DOMAIN pages'[p].recs,
                        pages'[p].recs[i].st = "ACTIVE"
                 PROVE  HasActive(pages[p])
      BY DEF HasActive
    <2> DEFINE b == <<p, i>>
    <2>1. DOMAIN pages' = 1 .. NPages /\ DOMAIN pages'[p].recs \subseteq Nat /\ NPages \in Nat
      BY <1>5, PageOf, SizesAssumption
    <2>2. Live(pages', b, At(pages', b).id) BY <2>1 DEF Live, IsRec, At, Addr
    <2>3. Live(pages, b, At(pages', b).id) BY <1>6, <2>2
    <2> QED BY <2>3 DEF Live, IsRec, At, HasActive
  <1>8. Marks(pages', 0) /\ Lined(pages')
    BY <1>1, <1>4, <1>5, <1>7 DEF FilesOK, FolderOK, GcPcs, Marks, Lined
  <1>9. pc' \in {"idle", "retire"} BY <1>3 DEF Return
  <1>10. FolderOK' BY <1>8, <1>9 DEF FolderOK, Unmarked
  <1>11. /\ tgt[1] \in 1 .. NPages /\ pages'[tgt[1]].st = "ACTIVE"
    BY <1>1, <1>2, <1>4, <1>5 DEF FilesOK, CursorOK
  <1>12. \/ lastWritten' = NoAddr
         \/ lastWritten'[1] \in 1 .. NPages /\ pages'[lastWritten'[1]].st # "NEW"
    BY <1>1, <1>4, <1>5 DEF FilesOK, CursorOK, GcPcs
  <1>13. CASE MoreParts /\ Return("success") /\ Advance(FALSE)
    <2>1. pc' = "idle" /\ scan' = NoScan /\ reply' = "success" BY <1>13 DEF Return
    <2>2. CursorOK' BY <1>12, <2>1 DEF CursorOK
    <2>3. VersionsOK'
      BY <1>1, <1>4, <1>6, <1>13, <2>1 DEF FilesOK, VersionsOK, Swapping, Single, MoreParts
    <2>4. /\ HostOK'
          /\ \E t \in xfer' : t.id = req.id /\ t.file = req.file /\ t.sent = req.sent + req.n
      BY <1>1, <1>13, <2>1, AdvanceHost
    <2>5. PartsOK'
      <3>1. ASSUME NEW a, Partial(pages', a) PROVE a = tgt /\ req.op = "part"
        BY <1>1, <1>4, <1>6, <3>1 DEF FilesOK, PartsOK
      <3>2. req.op = "part" =>
               /\ At(pages', tgt).id = req.id
               /\ Len(At(pages', tgt).data) >= Remaining(req)
        BY <1>1, <1>4, <1>5 DEF FilesOK, PartsOK
      <3>3. PICK t \in xfer' : t.id = req.id /\ t.file = req.file /\ t.sent = req.sent + req.n
        BY <2>4
      <3>4. /\ req.sent \in Nat /\ req.n \in Nat /\ Len(req.file) \in Nat
            /\ Len(At(pages', tgt).data) \in Nat
        <4>1. At(pages', tgt) \in Record BY <1>5, Records, RecordType
        <4> QED BY <1>1, <4>1, RequestType, Folder DEF Calling, AtRest, Record
      <3>5. req.op = "part" => Len(At(pages', tgt).data) >= Len(t.file) - t.sent
        BY <3>2, <3>3, <3>4 DEF Remaining
      <3> QED BY <1>11, <2>1, <3>1, <3>2, <3>3, <3>5 DEF PartsOK, Calling, AtRest
    <2>6. CopiesOK' /\ CollectOK' BY <2>1 DEF CopiesOK, CollectOK, GcPcs
    <2> QED BY <1>10, <2>1, <2>2, <2>3, <2>4, <2>5, <2>6 DEF FilesOK
  <1>14. CASE pc' = "retire" /\ UNCHANGED <<call, xfer, reply>>
    <2>1. UNCHANGED <<req, tgt, old, scan, xfer, lastWritten>> /\ pc' = "retire"
      BY <1>1, <1>14 DEF call
    <2>2. CursorOK' BY <1>11, <1>12, <2>1 DEF CursorOK
    <2>3. VersionsOK'
      BY <1>1, <1>4, <1>6, <2>1 DEF FilesOK, VersionsOK, Swapping, Single
    <2>4. HostOK' BY <1>1, <1>4, <2>1 DEF FilesOK, HostOK, Calling, AtRest
    <2>5. PartsOK'
      <3>1. Remaining(req)' = Remaining(req) BY <2>1
      <3> QED BY <1>1, <1>4, <1>5, <1>6, <2>1, <3>1 DEF FilesOK, PartsOK, Calling, AtRest
    <2>6. CopiesOK' /\ CollectOK' BY <1>1, <1>4, <2>1 DEF FilesOK, CopiesOK, CollectOK, GcPcs
    <2> QED BY <1>10, <2>1, <2>2, <2>3, <2>4, <2>5, <2>6 DEF FilesOK
  <1> QED BY <1>3, <1>13, <1>14

\* Folder g is f with record v, if any, out of use.
Retired(f, g, v) ==
    /\ IsFolder(g)
    /\ \A b : IsRec(g, b) <=> IsRec(f, b)
    /\ \A b : IsRec(f, b) /\ b # v => At(g, b) = At(f, b)
    /\ \A b, i : Live(g, b, i) <=> Live(f, b, i) /\ b # v
    /\ \A b : Partial(g, b) <=> Partial(f, b) /\ b # v
    /\ \A x : Marks(f, x) => Marks(g, x)
    /\ Lined(f) => Lined(g)
    /\ \A p \in 1 .. NPages : f[p].st # "NEW" <=> g[p].st # "NEW"
    /\ \A p \in 1 .. NPages : ~f[p].end => g[p].st = f[p].st

LEMMA RetireAtView ==
  ASSUME NEW f, IsFolder(f), NEW v, v = NoAddr \/ IsRec(f, v)
  PROVE  Retired(f, RetireAt(f, v), v)
  <1>1. CASE v = NoAddr
    <2>1. \A b : IsRec(f, b) => b # v BY <1>1, AddrNotNone
    <2>2. RetireAt(f, v) = f BY <1>1 DEF RetireAt
    <2> QED BY <2>1, <2>2 DEF Retired, Live, Partial
  <1>2. CASE v # NoAddr
    <2>1. IsRec(f, v) /\ RetireAt(f, v) = SetStatus(f, v, "OLD") /\ "OLD" \in FileStatus
      BY <1>2 DEF RetireAt, FileStatus
    <2> DEFINE g == SetStatus(f, v, "OLD")
    <2>2. /\ IsFolder(g) /\ \A b : IsRec(g, b) <=> IsRec(f, b)
          /\ \A p \in 1 .. NPages : g[p].st = f[p].st /\ g[p].end = f[p].end
      BY <2>1, StatusView
    <2>3. /\ \A b, id : Live(g, b, id) <=> Live(f, b, id) /\ b # v
          /\ \A b : Partial(g, b) <=> Partial(f, b) /\ b # v
          /\ \A x : Marks(f, x) => Marks(g, x)
          /\ Lined(f) => Lined(g)
          /\ \A b : IsRec(f, b) /\ b # v => At(g, b) = At(f, b)
      BY <2>1, RetiredView
    <2> HIDE DEF g
    <2>4. Retired(f, g, v) BY <2>2, <2>3 DEF Retired
    <2> QED BY <2>1, <2>4 DEF g
  <1> QED BY <1>1, <1>2

LEMMA SweptRetiredView ==
  ASSUME NEW f, IsFolder(f), NEW id
  PROVE  LET v == Search(f, id, "ACTIVE") IN Retired(f, RetireAt(Sweep(f, v), v), v)
  <1> DEFINE v == Search(f, id, "ACTIVE")
             s == Sweep(f, v)
             g == RetireAt(s, v)
  <1>1. v = NoAddr \/ IsRec(f, v) BY SearchHits
  <1> HIDE DEF v
  <1>2. /\ IsFolder(s)
        /\ \A p \in 1 .. NPages :
             /\ s[p].recs = f[p].recs /\ s[p].end = f[p].end
             /\ ~f[p].end => s[p] = f[p]
             /\ f[p].st # "NEW" <=> s[p].st # "NEW"
        /\ \A x : Marks(f, x) => Marks(s, x)
        /\ Lined(f) => Lined(s)
    BY SweepView
  <1>3. /\ \A a : IsRec(s, a) <=> IsRec(f, a)
        /\ \A a : IsRec(f, a) => At(s, a) = At(f, a)
        /\ \A a, i : Live(s, a, i) <=> Live(f, a, i)
        /\ \A a : Partial(s, a) <=> Partial(f, a)
    BY <1>2, SameRecords
  <1> HIDE DEF s
  <1>4. Retired(s, g, v) BY <1>1, <1>2, <1>3, RetireAtView
  <1>5. Retired(f, g, v)
    <2> HIDE DEF g
    <2> QED BY <1>2, <1>3, <1>4 DEF Retired
  <1> QED BY <1>5 DEF s, g, v

\* The version replaced is marked OLD, and the call is over.
LEMMA RetireReplacedFiles == ASSUME FInv, RetireReplaced PROVE FilesOK'
  <1> DEFINE looked  == tgt # NoAddr
             version == IF looked THEN old ELSE Search(pages, req.id, "ACTIVE")
             swept   == IF looked THEN pages ELSE Sweep(pages, version)
             answer  == IF looked THEN "success" ELSE "no_space"
  <1>1. /\ pc = "retire" /\ req.op = "write" /\ pages' = RetireAt(swept, version)
        /\ Return(answer) /\ Advance(FALSE)
        /\ UNCHANGED <<gc, lastWritten, suspect>>
    BY DEF RetireReplaced
  <1>2. /\ pc' = "idle" /\ scan' = NoScan /\ reply' = answer BY <1>1 DEF Return
  <1>3. FilesOK /\ Unmarked = 0 BY <1>1 DEF FInv, Unmarked
  <1>4. req.id \in Ids BY <1>1, RequestType, Folder DEF Calling, AtRest
  <1>5. Marks(pages, 0) /\ Lined(pages) BY <1>1, <1>3 DEF FilesOK, FolderOK, GcPcs
  <1>6. Retired(pages, pages', version)
    <2>1. CASE looked
      <3>1. version = old /\ swept = pages BY <2>1
      <3>2. Swapping(req.id) BY <1>1, <2>1 DEF Swapping
      <3>3. old # NoAddr => IsRec(pages, old)
        BY <1>3, <1>4, <3>2 DEF FilesOK, VersionsOK, Live
      <3> HIDE DEF version, swept
      <3> QED BY <1>1, <3>1, <3>3, RetireAtView, Folder
    <2>2. CASE ~looked
      <3>1. version = Search(pages, req.id, "ACTIVE") BY <2>2
      <3>2. pages' = RetireAt(Sweep(pages, version), version) BY <1>1, <2>2
      <3> HIDE DEF version, swept
      <3> QED BY <3>1, <3>2, SweptRetiredView, Folder
    <2> QED BY <2>1, <2>2
  <1>7. \A i \in Ids : Single(pages', i)
    <2> TAKE i \in Ids
    <2>1. CASE Swapping(i)
      <3>1. looked /\ version = old BY <2>1 DEF Swapping
      <3>2. \A a : Live(pages, a, i) => a \in {old, tgt} BY <1>3, <2>1 DEF FilesOK, VersionsOK
      <3> HIDE DEF version
      <3> QED BY <1>6, <3>1, <3>2 DEF Retired, Single
    <2>2. CASE ~Swapping(i)
      <3>1. Single(pages, i) BY <1>3, <2>2 DEF FilesOK, VersionsOK
      <3> HIDE DEF version
      <3> QED BY <1>6, <3>1 DEF Retired, Single
    <2> QED BY <2>1, <2>2
  <1> HIDE DEF version, swept, answer
  <1>8. FolderOK' BY <1>2, <1>5, <1>6 DEF Retired, FolderOK, Unmarked
  <1>9. CursorOK'
    <2>1. \/ lastWritten' = NoAddr
          \/ lastWritten'[1] \in 1 .. NPages /\ pages'[lastWritten'[1]].st # "NEW"
      BY <1>1, <1>3, <1>6 DEF Retired, FilesOK, CursorOK, GcPcs
    <2> QED BY <1>2, <2>1 DEF CursorOK
  <1>10. VersionsOK' BY <1>2, <1>7 DEF VersionsOK, Swapping
  <1>11. HostOK' BY <1>1, <1>2, AdvanceHost
  <1>12. PartsOK'
    <2>1. \A a : ~Partial(pages, a) BY <1>1, <1>3 DEF FilesOK, PartsOK
    <2>2. \A a : ~Partial(pages', a) BY <1>6, <2>1 DEF Retired
    <2> QED BY <1>2, <2>2 DEF PartsOK, Calling, AtRest
  <1>13. CopiesOK' /\ CollectOK' BY <1>2 DEF CopiesOK, CollectOK, GcPcs
  <1> QED BY <1>8, <1>9, <1>10, <1>11, <1>12, <1>13 DEF FilesOK

LEMMA RetireForPartsFiles == ASSUME FInv, RetireForParts PROVE FilesOK'
  <1> DEFINE version == Search(pages, req.id, "ACTIVE")
  <1>1. /\ pc = "retire" /\ req.op = "part" /\ pc' = "activate"
        /\ pages' = RetireAt(Sweep(pages, version), version)
        /\ UNCHANGED <<gc, lastWritten, req, cur, tgt, scan, xfer, reply, suspect>>
    BY DEF RetireForParts
  <1>2. FilesOK /\ Unmarked = 0 BY <1>1 DEF FInv, Unmarked
  <1>3. req.id \in Ids BY <1>1, RequestType, Folder DEF Calling, AtRest
  <1>4. Marks(pages, 0) /\ Lined(pages) BY <1>1, <1>2 DEF FilesOK, FolderOK, GcPcs
  <1>5. \A i \in Ids : Single(pages, i) BY <1>1, <1>2 DEF FilesOK, VersionsOK, Swapping
  <1>6. /\ \A a : Live(pages, a, req.id) => a = version
        /\ version # NoAddr => Live(pages, version, req.id)
    BY <1>3, <1>4, <1>5, SearchOne, Folder
  <1>7. Retired(pages, pages', version) BY <1>1, SweptRetiredView, Folder
  <1>8. Partial(pages, tgt)
    BY <1>1, Records, Folder DEF FInv, PInv, PartialOK, Partial
  <1>9. tgt # version
    <2>1. tgt # NoAddr BY <1>8, AddrNotNone, Folder DEF Partial
    <2> HIDE DEF version
    <2> QED BY <1>6, <1>8, <2>1 DEF Partial, Live
  <1> HIDE DEF version
  <1>10. At(pages', tgt) = At(pages, tgt) BY <1>7, <1>8, <1>9 DEF Retired, Partial
  <1>11. FolderOK' BY <1>1, <1>4, <1>7 DEF Retired, FolderOK, Unmarked
  <1>12. CursorOK'
    <2>1. \/ lastWritten' = NoAddr
          \/ lastWritten'[1] \in 1 .. NPages /\ pages'[lastWritten'[1]].st # "NEW"
      BY <1>1, <1>2, <1>7 DEF Retired, FilesOK, CursorOK, GcPcs
    <2>2. tgt # NoAddr => tgt[1] \in 1 .. NPages /\ pages'[tgt[1]].st = "ACTIVE"
      <3> SUFFICES ASSUME tgt # NoAddr
                   PROVE  tgt[1] \in 1 .. NPages /\ pages'[tgt[1]].st = "ACTIVE"
        OBVIOUS
      <3>1. tgt[1] \in 1 .. NPages /\ pages[tgt[1]].st = "ACTIVE"
        BY <1>1, <1>2 DEF FilesOK, CursorOK
      <3>2. ~pages[tgt[1]].end BY <3>1, Folder
      <3> QED BY <1>7, <3>1, <3>2 DEF Retired
    <2> QED BY <1>1, <2>1, <2>2 DEF CursorOK
  <1>13. VersionsOK'
    <2>1. \A i \in Ids : Single(pages', i) BY <1>5, <1>7 DEF Retired, Single
    <2>2. \A a : ~Live(pages', a, req.id) BY <1>6, <1>7 DEF Retired
    <2> QED BY <1>1, <2>1, <2>2 DEF VersionsOK, Swapping
  <1>14. HostOK' BY <1>1, <1>2 DEF FilesOK, HostOK, Calling, AtRest
  <1>15. PartsOK'
    <2>1. Remaining(req)' = Remaining(req) BY <1>1
    <2>2. /\ \A a : Partial(pages, a) => a = tgt /\ req.op = "part"
          /\ At(pages, tgt).id = req.id /\ Len(At(pages, tgt).data) >= Remaining(req)
      BY <1>1, <1>2 DEF FilesOK, PartsOK
    <2>3. \A a : Partial(pages', a) => a = tgt BY <1>7, <2>2 DEF Retired
    <2> QED BY <1>1, <1>10, <2>1, <2>2, <2>3 DEF PartsOK, Calling, AtRest
  <1>16. CopiesOK' /\ CollectOK' BY <1>1, <1>2 DEF FilesOK, CopiesOK, CollectOK, GcPcs
  <1> QED BY <1>11, <1>12, <1>13, <1>14, <1>15, <1>16 DEF FilesOK

\* The last part is there: its record becomes the file's one version.
LEMMA ActivateFiles == ASSUME FInv, Activate PROVE FilesOK'
  <1>1. /\ pc = "activate" /\ pages' = SetStatus(pages, tgt, "ACTIVE") /\ lastWritten' = tgt
        /\ \E r : Return(r)
        /\ Advance(FALSE) /\ UNCHANGED <<gc, suspect>>
    BY DEF Activate
  <1>2. /\ pc' = "idle" /\ scan' = NoScan /\ Return(reply') BY <1>1 DEF Return
  <1>3. FilesOK /\ Unmarked = 0 BY <1>1 DEF FInv, Unmarked
  <1>4. Partial(pages, tgt)
    BY <1>1, Records, Folder DEF FInv, PInv, PartialOK, Partial
  <1>5. Marks(pages, 0) /\ Lined(pages) BY <1>1, <1>3 DEF FilesOK, FolderOK, GcPcs
  <1>6. /\ req.op = "part" /\ At(pages, tgt).id = req.id
        /\ \A a : Partial(pages, a) => a = tgt
        /\ \A a : ~Live(pages, a, req.id)
        /\ \A i \in Ids : Single(pages, i)
    BY <1>1, <1>3 DEF FilesOK, PartsOK, VersionsOK, Swapping
  <1>7. tgt # NoAddr /\ tgt[1] \in 1 .. NPages /\ pages[tgt[1]].st = "ACTIVE"
    <2>1. tgt # NoAddr BY <1>4, AddrNotNone, Folder DEF Partial
    <2> QED BY <1>1, <1>3, <2>1 DEF FilesOK, CursorOK
  <1>8. /\ IsFolder(pages')
        /\ \A b : IsRec(pages', b) <=> IsRec(pages, b)
        /\ \A b : IsRec(pages, b) => At(pages', b) = IF b = tgt THEN [At(pages, b) EXCEPT !.st = "ACTIVE"]
                                                     ELSE At(pages, b)
        /\ \A p \in 1 .. NPages : pages'[p].st = pages[p].st /\ pages'[p].end = pages[p].end
        /\ \A p \in 1 .. NPages : p # tgt[1] => pages'[p] = pages[p]
        /\ At(pages', tgt).st = "ACTIVE" /\ At(pages', tgt).id = At(pages, tgt).id
    <2>1. "ACTIVE" \in FileStatus /\ IsRec(pages, tgt) BY <1>4 DEF FileStatus, Partial
    <2> QED BY <1>1, <2>1, StatusView, Folder
  <1>9. /\ \A b, i : Live(pages', b, i) <=> Live(pages, b, i) \/ (b = tgt /\ i = req.id)
        /\ \A b : ~Partial(pages', b)
    <2>1. \A b : IsRec(pages, b) /\ b # tgt => At(pages', b) = At(pages, b) BY <1>8
    <2>2. At(pages, tgt).st = "PARTIAL" /\ IsRec(pages, tgt) BY <1>4 DEF Partial
    <2> QED BY <1>6, <1>8, <2>1, <2>2 DEF Live, Partial
  <1>10. Marks(pages', 0)
    <2> SUFFICES ASSUME NEW q \in 1 .. NPages
                 PROVE  /\ pages'[q].st = "OBSOLETE" => pages'[q].end /\ ~HasActive(pages'[q])
                        /\ pages'[q].st = "OLD" => pages'[q].end \/ q = 0
      BY DEF Marks
    <2>1. CASE q = tgt[1] BY <1>7, <1>8, <2>1
    <2>2. CASE q # tgt[1] BY <1>5, <1>8, <2>2 DEF Marks
    <2> QED BY <2>1, <2>2
  <1>11. Lined(pages') BY <1>5, <1>8 DEF Lined
  <1>12. FolderOK' BY <1>2, <1>10, <1>11 DEF FolderOK, Unmarked
  <1>13. CursorOK' BY <1>1, <1>2, <1>7, <1>8 DEF CursorOK
  <1>14. VersionsOK'
    <2>1. \A i \in Ids : Single(pages', i) BY <1>6, <1>9 DEF Single
    <2> QED BY <1>2, <2>1 DEF VersionsOK, Swapping
  <1>15. HostOK' BY <1>1, <1>2, AdvanceHost
  <1>16. PartsOK' BY <1>2, <1>9 DEF PartsOK, Calling, AtRest
  <1>17. CopiesOK' /\ CollectOK' BY <1>2 DEF CopiesOK, CollectOK, GcPcs
  <1> QED BY <1>12, <1>13, <1>14, <1>15, <1>16, <1>17 DEF FilesOK

-----------------------------------------------------------------------------
(***************************************************************************)
(* The collection.                                                         *)
(***************************************************************************)
LEMMA GcFacts ==
  ASSUME FInv, pc \in GcPcs
  PROVE  /\ scan \in Scan /\ scan.p \in Nat /\ scan.i \in Nat /\ scan.g \in Nat
         /\ scan.bd \in Nat /\ scan.bg \in Nat /\ scan.open \in BOOLEAN
         /\ scan.p >= 1 /\ scan.i >= 1 /\ scan.g >= 1 /\ scan.bd >= 1 /\ scan.bg >= 1
         /\ scan.open => scan.g <= GPages /\ gc[scan.g].st = "ACTIVE"
         /\ DOMAIN gc = 1 .. GPages
         /\ \A h \in 1 .. GPages : Good(gc[h]) /\ gc[h] \in Page /\ gc[h].recs \in Seq(Record)
         /\ GPages \in Nat /\ GPages >= 1 /\ NPages >= 1
         /\ tgt = NoAddr /\ old = NoAddr
         /\ FilesOK /\ Marks(pages, 0) /\ NonePartial(pages)
         /\ \A id \in Ids : Single(pages, id)
         /\ \A id \in Ids : \A a, b : Kept(a, id) /\ Kept(b, id) => a = b
         /\ \A id \in Ids : \A a, b : ~(Live(pages, a, id) /\ Kept(b, id))
  <1>1. IInv /\ FilesOK BY DEF FInv, PInv, GcPcs
  <1>2. /\ scan \in Scan /\ tgt = NoAddr /\ old = NoAddr
        /\ scan.p >= 1 /\ scan.i >= 1 /\ scan.g >= 1 /\ scan.bd >= 1 /\ scan.bg >= 1
        /\ scan.open => scan.g <= GPages /\ gc[scan.g].st = "ACTIVE"
    BY <1>1 DEF IInv, Registers, CallOK, SearchOK, ScanOK, GcPcs
  <1>3. /\ scan.p \in Nat /\ scan.i \in Nat /\ scan.g \in Nat
        /\ scan.bd \in Nat /\ scan.bg \in Nat /\ scan.open \in BOOLEAN
    BY <1>2 DEF Scan
  <1>4. /\ DOMAIN gc = 1 .. GPages
        /\ \A h \in 1 .. GPages : Good(gc[h]) /\ gc[h] \in Page /\ gc[h].recs \in Seq(Record)
    BY <1>1, GoodPageIn DEF IInv, GcGood, Good, Page
  <1>5. GPages \in Nat /\ GPages >= 1 /\ NPages >= 1 BY SizesAssumption
  <1>6. Marks(pages, 0) BY <1>1 DEF FilesOK, FolderOK, Unmarked, GcPcs
  <1>7. NonePartial(pages) /\ \A id \in Ids : Single(pages, id)
    BY <1>1, <1>2 DEF FilesOK, PartsOK, VersionsOK, Swapping, GcPcs
  <1>8. /\ \A id \in Ids : \A a, b : Kept(a, id) /\ Kept(b, id) => a = b
        /\ \A id \in Ids : \A a, b : ~(Live(pages, a, id) /\ Kept(b, id))
    BY <1>1 DEF FilesOK, CopiesOK
  <1> QED BY <1>1, <1>2, <1>3, <1>4, <1>5, <1>6, <1>7, <1>8

\* What a step of the collection has to keep.
LEMMA CollectFiles ==
  ASSUME FInv, pc \in GcPcs, pc' \in GcPcs,
         UNCHANGED <<lastWritten, req, cur, tgt, old, xfer>>,
         Marks(pages', 0), NonePartial(pages'), \A id \in Ids : Single(pages', id),
         CopiesOK', CollectOK'
  PROVE  FilesOK'
  <1>1. FilesOK BY GcFacts
  <1>2. FolderOK' /\ CursorOK' BY DEF FolderOK, CursorOK, Unmarked, GcPcs
  <1>3. VersionsOK' BY DEF VersionsOK, Swapping, GcPcs
  <1>4. HostOK' BY <1>1 DEF FilesOK, HostOK, Calling, AtRest, GcPcs
  <1>5. PartsOK' BY DEF PartsOK, Calling, AtRest, GcPcs
  <1> QED BY <1>2, <1>3, <1>4, <1>5 DEF FilesOK

\* An erase of a page without files in use.
LEMMA EraseView ==
  ASSUME FInv, pc \in GcPcs, NEW p \in 1 .. NPages, ~HasActive(pages[p]),
         pages' = [pages EXCEPT ![p] = BlankPage]
  PROVE  /\ \A a, id : Live(pages', a, id) <=> Live(pages, a, id)
         /\ \A a : Live(pages', a, At(pages', a).id) => At(pages', a) = At(pages, a)
         /\ NonePartial(pages') /\ Marks(pages', 0)
         /\ \A id \in Ids : Single(pages', id)
         /\ \A q \in 1 .. NPages : q # p => pages'[q] = pages[q]
         /\ pages'[p] = BlankPage
  <1>1. /\ Marks(pages, 0) /\ NonePartial(pages) /\ \A id \in Ids : Single(pages, id)
    BY GcFacts
  <1>2. /\ DOMAIN pages = 1 .. NPages /\ DOMAIN pages' = 1 .. NPages
        /\ \A q \in 1 .. NPages : q # p => pages'[q] = pages[q]
        /\ pages'[p] = BlankPage
    BY Folder
  <1>3. BlankPage.recs = <<>> /\ BlankPage.st = "NEW" BY DEF BlankPage
  <1>4. \A a : IsRec(pages', a) <=> IsRec(pages, a) /\ a[1] # p BY <1>2, <1>3 DEF IsRec
  <1>5. \A a : IsRec(pages', a) => At(pages', a) = At(pages, a) BY <1>2, <1>4 DEF IsRec, At
  <1>6. \A a, id : Live(pages, a, id) => a[1] # p
    BY DEF Live, IsRec, At, HasActive
  <1>7. \A a, id : Live(pages', a, id) <=> Live(pages, a, id) BY <1>4, <1>5, <1>6 DEF Live
  <1>8. NonePartial(pages') BY <1>1, <1>4, <1>5 DEF NonePartial, Partial
  <1>9. Marks(pages', 0) BY <1>1, <1>2, <1>3 DEF Marks
  <1>10. \A id \in Ids : Single(pages', id) BY <1>1, <1>7 DEF Single
  <1> QED BY <1>2, <1>5, <1>7, <1>8, <1>9, <1>10 DEF Live

\* The page behind the collection is blank, and the collection one on.
LEMMA ErasedFiles ==
  ASSUME FInv, Collecting, ~HasActive(pages[scan.p]),
         pages' = [pages EXCEPT ![scan.p] = BlankPage], scan' \in Scan,
         scan'.p = scan.p + 1, scan'.i = 1, scan'.g = scan.g, scan'.open = scan.open,
         scan'.stop = FALSE,
         UNCHANGED <<gc, pc, lastWritten, req, cur, tgt, old, xfer>>
  PROVE  FilesOK'
  <1> DEFINE p == scan.p
  <1>1. pc = "gc" /\ pc \in GcPcs /\ p \in 1 .. NPages /\ NPages \in Nat
    BY Folder, CollectingFacts DEF GcPcs
  <1>2. /\ scan \in Scan /\ scan.g \in Nat /\ scan.g >= 1 /\ scan.i \in Nat /\ p \in Nat
        /\ FilesOK /\ scan.open \in BOOLEAN
    BY <1>1, GcFacts
  <1>3. /\ \A a, id : Live(pages', a, id) <=> Live(pages, a, id)
        /\ NonePartial(pages') /\ Marks(pages', 0)
        /\ \A id \in Ids : Single(pages', id)
        /\ \A q \in 1 .. NPages : q # p => pages'[q] = pages[q]
        /\ pages'[p] = BlankPage
    BY <1>1, EraseView
  <1>4. PICK k \in 0 .. NPages : Collects(k) BY <1>1, <1>2 DEF FilesOK, CollectOK
  <1>5. k < p BY <1>1, <1>2, <1>4 DEF Collects
  <1>6. Collects(k)'
    <2>1. Refilled(k)'
      <3>1. \A q \in 1 .. NPages : q > k /\ q < p + 1 => pages'[q] = BlankPage
        BY <1>1, <1>3, <1>4 DEF Collects, Refilled
      <3>2. \A q \in 1 .. NPages : q <= k => pages'[q] = pages[q] BY <1>1, <1>3, <1>5
      <3>3. \A q \in 1 .. NPages : q >= p + 1 => pages'[q] = pages[q] BY <1>1, <1>3
      <3>4. p + 1 <= NPages => \A i \in DOMAIN pages'[p + 1].recs : ~(i < 1)
        <4>1. p + 1 <= NPages => p + 1 \in 1 .. NPages BY <1>1
        <4> QED BY <3>3, <4>1, Folder, PageOf
      <3>5. /\ scan.g <= GPages + 1
            /\ \A q \in 1 .. NPages :
                  /\ q <= k => HasActive(pages[q]) /\ pages[q].st # "NEW"
                  /\ q < k => pages[q].end
                  /\ q >= p => pages[q].end
        BY <1>4 DEF Collects, Refilled
      <3>6. \A q \in 1 .. NPages : q >= p + 1 => q >= p BY <1>1
      <3> QED BY <1>1, <3>1, <3>2, <3>3, <3>4, <3>5, <3>6 DEF Refilled
    <2>2. k \in 1 .. NPages => pages'[k].end
      BY <1>1, <1>3, <1>4, <1>5 DEF Collects
    <2>3. GcFilled(1)' BY <1>4 DEF Collects, GcFilled
    <2>4. k + scan'.g <= scan'.p
      BY <1>1, <1>2, <1>4 DEF Collects
    <2>5. k + scan'.g # scan'.p BY <1>1, <1>2, <1>4 DEF Collects
    <2>6. scan'.p > NPages => k + scan'.g <= NPages BY <1>1, <1>2, <1>4 DEF Collects
    <2> QED BY <2>1, <2>2, <2>3, <2>4, <2>5, <2>6 DEF Collects
  <1>7. CollectOK' BY <1>1, <1>6, pc' = "gc" DEF CollectOK, GcPcs
  <1>8. CopiesOK'
    <2>1. \A a : InArea(a)' <=> InArea(a) BY <1>1, pc' = "gc" DEF InArea
    <2> QED BY <1>2, <1>1, <1>3, <2>1 DEF FilesOK, CopiesOK, Kept
  <1> QED BY <1>1, <1>3, <1>7, <1>8, CollectFiles

LEMMA GcObsoleteFiles == ASSUME FInv, GcObsolete PROVE FilesOK'
  <1>1. /\ Collecting /\ pages[scan.p].st = "OBSOLETE"
        /\ pages' = [pages EXCEPT ![scan.p] = BlankPage] /\ scan' = NextPage
        /\ UNCHANGED <<gc, lastWritten, pc, req, cur, tgt, old, xfer>>
    BY DEF GcObsolete
  <1>2. pc \in GcPcs /\ scan.p \in 1 .. NPages /\ ~scan.stop /\ scan \in Scan
    BY <1>1, Folder, CollectingFacts DEF GcPcs, Collecting
  <1>3. ~HasActive(pages[scan.p]) BY <1>1, <1>2, GcFacts DEF Marks
  <1>4. /\ scan' \in Scan /\ scan'.p = scan.p + 1 /\ scan'.i = 1 /\ scan'.g = scan.g
        /\ scan'.open = scan.open
    BY <1>1, <1>2, SetNextPage DEF SameButIn, NextPage
  <1>5. scan'.stop = FALSE
    <2>1. [scan EXCEPT !.p = @ + 1, !.i = 1].stop = scan.stop BY <1>2 DEF Scan
    <2>2. scan.stop \in BOOLEAN BY <1>2 DEF Scan
    <2> QED BY <1>1, <1>2, <2>1, <2>2 DEF NextPage
  <1> QED BY <1>1, <1>3, <1>4, <1>5, ErasedFiles

LEMMA GcEraseFiles == ASSUME FInv, GcErase PROVE FilesOK'
  <1>1. /\ Collecting /\ NoneLeft
        /\ pages' = [pages EXCEPT ![scan.p] = BlankPage]
        /\ scan' = [NextPage EXCEPT !.stop = ~pages[scan.p].end]
        /\ UNCHANGED <<gc, lastWritten, pc, req, cur, tgt, old, xfer>>
    BY DEF GcErase, LooksIntoPage
  <1>2. /\ pc = "gc" /\ pc \in GcPcs /\ scan.p \in 1 .. NPages /\ scan \in Scan
        /\ scan.i \in Nat /\ pages[scan.p].recs \in Seq(Record)
    BY <1>1, Folder, CollectingFacts DEF GcPcs
  <1>3. PICK k \in 0 .. NPages : Collects(k) BY <1>2, GcFacts DEF FilesOK, CollectOK
  <1>4. /\ pages[scan.p].end
        /\ \A i \in DOMAIN pages[scan.p].recs : i < scan.i => pages[scan.p].recs[i].st = "OLD"
    BY <1>2, <1>3 DEF Collects, Refilled
  <1>5. ~HasActive(pages[scan.p])
    <2>1. \A i \in DOMAIN pages[scan.p].recs : i < scan.i \/ i >= scan.i BY <1>2
    <2> QED BY <1>1, <1>4, <2>1 DEF NoneLeft, HasActive
  <1> DEFINE n == NextPage
  <1>6. /\ n \in Scan /\ n.p = scan.p + 1 /\ n.i = 1 /\ n.g = scan.g /\ n.open = scan.open
    BY <1>2, SetNextPage DEF SameButIn, NextPage
  <1>7. scan' = [n EXCEPT !.stop = FALSE]
    <2>1. (~pages[scan.p].end) = FALSE BY <1>4
    <2> QED BY <1>1, <2>1
  <1> HIDE DEF n
  <1>8. /\ scan' \in Scan /\ scan'.p = n.p /\ scan'.i = n.i /\ scan'.g = n.g
        /\ scan'.open = n.open /\ scan'.stop = FALSE
    BY <1>6, <1>7 DEF Scan
  <1> QED BY <1>1, <1>5, <1>6, <1>8, ErasedFiles

\* The GC page when it has taken a record: those it held, if it was open, and it.
Takes(g, open, r) ==
    LET t == MovedTo(g, open, r)
        m == IF open THEN Len(g.recs) ELSE 0
    IN  /\ m \in Nat /\ DOMAIN t.recs = 1 .. m + 1 /\ t.recs # <<>>
        /\ \A j \in 1 .. m : open /\ j \in DOMAIN g.recs /\ t.recs[j] = g.recs[j]
        /\ t.recs[m + 1].st = r.st /\ t.recs[m + 1].id = r.id
        /\ t.recs[m + 1].data = r.data /\ t.recs[m + 1].crc = r.crc
        /\ Top(t) = (IF open THEN Top(g) ELSE 1) + RecLen(r)
        /\ open => DOMAIN g.recs = 1 .. m

LEMMA MovedToView ==
  ASSUME NEW g, Good(g), NEW open \in BOOLEAN, NEW r \in Record
  PROVE  Takes(g, open, r)
  <1> DEFINE pg == IF open THEN g ELSE [BlankPage EXCEPT !.st = "ACTIVE"]
             s  == [r EXCEPT !.off = Top(pg)]
             t  == MovedTo(g, open, r)
             m  == IF open THEN Len(g.recs) ELSE 0
  <1>1. g \in Page /\ g.recs \in Seq(Record) /\ Len(g.recs) \in Nat BY DEF Good, Page
  <1>2. pg \in Page
    <2>1. [BlankPage EXCEPT !.st = "ACTIVE"] \in Page
      BY EmptySeq DEF BlankPage, Page, PageStatus
    <2> QED BY <1>1, <2>1
  <1>3. pg.recs \in Seq(Record) /\ Len(pg.recs) = m /\ (open => pg = g)
    <2>1. CASE open BY <1>1, <2>1
    <2>2. CASE ~open
      <3>1. pg.recs = <<>> BY <2>2 DEF BlankPage
      <3> QED BY <1>2, <2>2, <3>1 DEF Page
    <2> QED BY <2>1, <2>2
  <1>4. Top(pg) = (IF open THEN Top(g) ELSE 1) BY DEF BlankPage, Top
  <1>5. Top(pg) \in Nat
    <2>1. CASE open BY <2>1, TopType
    <2>2. CASE ~open BY <1>4, <2>2
    <2> QED BY <2>1, <2>2
  <1>6. /\ s \in Record /\ s.off = Top(pg) /\ s.st = r.st /\ s.id = r.id
        /\ s.data = r.data /\ s.crc = r.crc
    <2> HIDE DEF pg
    <2> QED BY <1>5 DEF Record
  <1>7. RecLen(s) = RecLen(r) BY <1>6 DEF RecLen
  <1>8. t.recs = Append(pg.recs, s)
    <2>1. t = [pg EXCEPT !.recs = Append(@, s)] BY DEF MovedTo
    <2> HIDE DEF pg, s
    <2> QED BY <1>2, <2>1 DEF Page
  <1> HIDE DEF pg, s, t, m
  <1>9. m \in Nat BY <1>1 DEF m
  <1>10. /\ t.recs # <<>> /\ Len(t.recs) = m + 1 /\ DOMAIN t.recs = 1 .. m + 1
         /\ \A j \in 1 .. m : t.recs[j] = pg.recs[j]
         /\ t.recs[m + 1] = s
    <2> DEFINE before == pg.recs
               after  == t.recs
    <2>1. before \in Seq(Record) /\ Len(before) = m /\ s \in Record /\ after = Append(before, s)
      BY <1>3, <1>6, <1>8
    <2> HIDE DEF before, after
    <2>2. /\ Len(after) = m + 1 /\ DOMAIN after = 1 .. m + 1
          /\ \A j \in 1 .. m : after[j] = before[j]
          /\ after[m + 1] = s
      BY <1>9, <2>1
    <2>3. after # <<>> BY <1>9, <2>2
    <2> QED BY <2>2, <2>3 DEF before, after
  <1>11. Top(t) = Top(pg) + RecLen(r) BY <1>6, <1>7, <1>10 DEF Top
  <1>12. /\ open => DOMAIN g.recs = 1 .. m
         /\ \A j \in 1 .. m : open
    BY <1>1, <1>9 DEF m
  <1> QED BY <1>3, <1>4, <1>6, <1>9, <1>10, <1>11, <1>12 DEF t, m, Takes

\* What the collection has moved is in the GC area, and no more in the folder.
LEMMA MoveView ==
  ASSUME FInv, Collecting, NEW i, Meets(i),
         gc' = [gc EXCEPT ![scan.g] = MovedTo(gc[scan.g], scan.open, pages[scan.p].recs[i])],
         pages' = SetStatus(pages, <<scan.p, i>>, "OLD"),
         pc' = "gc", scan'.g = scan.g, scan'.open = TRUE
  PROVE  LET m == IF scan.open THEN Len(gc[scan.g].recs) ELSE 0
             n == <<scan.g, m + 1>>
             c == <<scan.p, i>>
             r == pages[scan.p].recs[i]
         IN  /\ \A a, id : Live(pages', a, id) <=> Live(pages, a, id) /\ a # c
             /\ \A a, id : Kept(a, id)' <=> Kept(a, id) \/ (a = n /\ id = r.id)
             /\ \A a, id : Kept(a, id) => a # n /\ At(gc', a) = At(gc, a)
             /\ Live(pages, c, r.id) /\ At(pages, c) = r /\ r \in Record /\ r.id \in Ids
             /\ At(gc', n).data = r.data /\ At(gc', n).crc = r.crc
             /\ \A a : IsRec(pages, a) /\ a # c => At(pages', a) = At(pages, a)
             /\ NonePartial(pages') /\ Marks(pages', 0)
  <1> DEFINE g == scan.g
             p == scan.p
             r == pages[p].recs[i]
             c == <<p, i>>
             m == IF scan.open THEN Len(gc[g].recs) ELSE 0
             n == <<g, m + 1>>
             t == MovedTo(gc[g], scan.open, r)
  <1>1. /\ pc = "gc" /\ pc \in GcPcs /\ p \in 1 .. NPages /\ g \in 1 .. GPages /\ p \in Nat /\ g \in Nat
        /\ Good(gc[g]) /\ pages[p].recs \in Seq(Record)
    BY Folder, CollectingFacts DEF GcPcs, Scan
  <1>2. i \in DOMAIN pages[p].recs /\ i \in Nat /\ r.st # "OLD" /\ r \in Record
    BY <1>1 DEF Meets
  <1>3. IsRec(pages, c) /\ At(pages, c) = r
    BY <1>1, <1>2, Folder DEF IsRec, Addr, At
  <1>4. r.st = "ACTIVE" /\ r.id \in Ids
    <2>1. r.st # "PARTIAL" BY <1>1, <1>3, GcFacts DEF NonePartial, Partial
    <2> QED BY <1>2, <2>1 DEF Record, FileStatus
  <1>5. Live(pages, c, r.id) BY <1>3, <1>4 DEF Live
  <1>6. /\ DOMAIN gc = 1 .. GPages /\ DOMAIN gc' = 1 .. GPages
        /\ \A h \in 1 .. GPages : h # g => gc'[h] = gc[h]
        /\ gc'[g] = t
        /\ scan.open \in BOOLEAN
    BY <1>1, GcFacts
  <1>7. /\ m \in Nat /\ DOMAIN t.recs = 1 .. m + 1
        /\ \A j \in 1 .. m : scan.open /\ j \in DOMAIN gc[g].recs /\ t.recs[j] = gc[g].recs[j]
        /\ t.recs[m + 1].st = r.st /\ t.recs[m + 1].id = r.id
        /\ t.recs[m + 1].data = r.data /\ t.recs[m + 1].crc = r.crc
        /\ scan.open => DOMAIN gc[g].recs = 1 .. m
    <2>1. Good(gc[g]) /\ scan.open \in BOOLEAN /\ r \in Record BY <1>1, <1>2, <1>6
    <2> DEFINE b == gc[g]
               o == scan.open
    <2> HIDE DEF b, o, r
    <2>2. Takes(b, o, r) BY <2>1, MovedToView DEF b, o
    <2> QED BY <2>2 DEF Takes, b, o
  <1> HIDE DEF t, m, r
  <1>8. n \in Addr /\ n[1] = g /\ n[2] = m + 1 BY <1>1, <1>7 DEF Addr
  <1>9. At(gc', n) = t.recs[m + 1] /\ Live(gc', n, r.id)
    BY <1>1, <1>4, <1>6, <1>7, <1>8 DEF Live, IsRec, At
  <1>10. ASSUME NEW a, NEW id
         PROVE  /\ Kept(a, id)' <=> Kept(a, id) \/ (a = n /\ id = r.id)
                /\ Kept(a, id) => a # n /\ At(gc', a) = At(gc, a)
    <2>0. /\ InArea(a)' <=> a[1] < g \/ a[1] = g
          /\ InArea(a) <=> a[1] < g \/ (a[1] = g /\ scan.open)
      BY <1>1 DEF InArea
    <2>1. CASE a[1] < g
      <3>1. IsRec(gc', a) <=> IsRec(gc, a) BY <1>1, <1>6, <2>1 DEF IsRec
      <3>2. IsRec(gc, a) => At(gc', a) = At(gc, a) BY <1>1, <1>6, <2>1 DEF IsRec, At
      <3>3. a # n BY <1>1, <1>8, <2>1
      <3> QED BY <2>0, <2>1, <3>1, <3>2, <3>3 DEF Kept, Live
    <2>2. CASE a[1] = g
      <3>1. InArea(a)' /\ (InArea(a) <=> scan.open) BY <1>1, <2>0, <2>2
      <3>2. IsRec(gc', a) <=> a \in Addr /\ a[2] \in 1 .. m + 1
        BY <1>1, <1>6, <1>7, <2>2 DEF IsRec
      <3>3. scan.open => (IsRec(gc, a) <=> a \in Addr /\ a[2] \in 1 .. m)
        BY <1>1, <1>6, <1>7, <2>2 DEF IsRec
      <3>4. a = n <=> a \in Addr /\ a[2] = m + 1 BY <1>8, <2>2 DEF Addr
      <3>5. CASE a = n
        <4>1. ~(scan.open /\ IsRec(gc, a)) BY <1>7, <3>3, <3>4, <3>5
        <4>2. ~Kept(a, id) BY <3>1, <4>1 DEF Kept, Live
        <4>3. Live(gc', a, id) <=> id = r.id
          BY <1>9, <3>5 DEF Live
        <4> QED BY <3>1, <3>5, <4>2, <4>3 DEF Kept
      <3>6. CASE a # n
        <4>1. IsRec(gc', a) <=> a \in Addr /\ a[2] \in 1 .. m
          BY <1>7, <3>2, <3>4, <3>6 DEF Addr
        <4>2. a[2] \in 1 .. m => scan.open /\ At(gc', a) = At(gc, a)
          BY <1>6, <1>7, <2>2 DEF At
        <4> QED BY <3>1, <3>3, <3>6, <4>1, <4>2 DEF Kept, Live
      <3> QED BY <3>5, <3>6
    <2>3. CASE ~(a[1] < g) /\ a[1] # g
      <3>1. a # n BY <1>8, <2>3
      <3> QED BY <2>0, <2>3, <3>1 DEF Kept
    <2> QED BY <2>1, <2>2, <2>3
  <1>11. /\ \A b, id : Live(pages', b, id) <=> Live(pages, b, id) /\ b # c
         /\ \A b : Partial(pages', b) <=> Partial(pages, b) /\ b # c
         /\ \A x : Marks(pages, x) => Marks(pages', x)
         /\ \A b : IsRec(pages, b) /\ b # c => At(pages', b) = At(pages, b)
    <2> HIDE DEF c
    <2> QED BY <1>3, RetiredView, Folder DEF c
  <1>12. NonePartial(pages') /\ Marks(pages', 0)
    BY <1>1, <1>11, GcFacts DEF NonePartial
  <1> QED BY <1>2, <1>3, <1>4, <1>5, <1>7, <1>9, <1>10, <1>11, <1>12 DEF m, r

LEMMA GcMoveFiles == ASSUME FInv, GcMove, IsFolder(pages') PROVE FilesOK'
  <1> DEFINE p == scan.p
             g == scan.g
             m == IF scan.open THEN Len(gc[g].recs) ELSE 0
             n == <<g, m + 1>>
  <1>1. PICK i \in 1 .. PageLen :
          /\ Meets(i)
          /\ GcRoom(gc[g], scan.open, pages[p].recs[i])
          /\ gc' = [gc EXCEPT ![g] = MovedTo(gc[g], scan.open, pages[p].recs[i])]
          /\ pages' = SetStatus(pages, <<p, i>>, "OLD")
          /\ scan' = [scan EXCEPT !.i = i + 1, !.open = TRUE]
    BY DEF GcMove, MovedTo
  <1> DEFINE r == pages[p].recs[i]
             c == <<p, i>>
  <1>2. /\ Collecting /\ UNCHANGED <<lastWritten, pc, req, cur, tgt, old, xfer>>
    BY DEF GcMove, LooksIntoPage
  <1>3. /\ pc = "gc" /\ pc \in GcPcs /\ p \in 1 .. NPages /\ g \in 1 .. GPages
        /\ Good(gc[g]) /\ Good(pages[p]) /\ scan \in Scan /\ scan.i \in Nat /\ g \in Nat
        /\ p \in Nat /\ scan.open \in BOOLEAN /\ ~scan.stop /\ NPages \in Nat
        /\ DOMAIN gc = 1 .. GPages /\ GPages \in Nat
    BY <1>2, Folder, CollectingFacts, GcFacts DEF GcPcs, Collecting
  <1>4. /\ scan'.p = p /\ scan'.i = i + 1 /\ scan'.g = g /\ scan'.open = TRUE
        /\ scan'.stop = scan.stop
    BY <1>1, <1>3 DEF Scan
  <1>5. /\ \A a, id : Live(pages', a, id) <=> Live(pages, a, id) /\ a # c
        /\ \A a, id : Kept(a, id)' <=> Kept(a, id) \/ (a = n /\ id = r.id)
        /\ Live(pages, c, r.id) /\ At(pages, c) = r /\ r \in Record /\ r.id \in Ids
        /\ NonePartial(pages') /\ Marks(pages', 0)
    <2>1. pc' = "gc" BY <1>2, <1>3
    <2> QED BY <1>1, <1>2, <1>4, <2>1, MoveView
  <1>6. /\ i \in DOMAIN pages[p].recs /\ i >= scan.i
        /\ \A j \in scan.i .. i - 1 : pages[p].recs[j].st = "OLD"
    BY <1>1 DEF Meets
  <1>7. PICK k \in 0 .. NPages : Collects(k) BY <1>3, GcFacts DEF FilesOK, CollectOK
  <1>8. k < p BY <1>3, <1>7, GcFacts DEF Collects
  \* The pages that change.
  <1>9. /\ Takes(gc[g], scan.open, r)
        /\ DOMAIN gc' = 1 .. GPages
        /\ gc'[g] = MovedTo(gc[g], scan.open, r)
        /\ \A h \in 1 .. GPages : h # g => gc'[h] = gc[h]
    <2>1. Takes(gc[g], scan.open, r)
      <3> DEFINE b == gc[g]
                 o == scan.open
      <3>1. Good(b) /\ o \in BOOLEAN /\ r \in Record BY <1>3, <1>5
      <3> HIDE DEF b, o, r
      <3>2. Takes(b, o, r) BY <3>1, MovedToView
      <3> QED BY <3>2 DEF b, o
    <2> QED BY <1>1, <1>3, <2>1
  <1>10. /\ \A q \in 1 .. NPages : q # p => pages'[q] = pages[q]
         /\ pages'[p].st = pages[p].st /\ pages'[p].end = pages[p].end
         /\ DOMAIN pages'[p].recs = DOMAIN pages[p].recs
         /\ \A j \in DOMAIN pages[p].recs : j # i => pages'[p].recs[j] = pages[p].recs[j]
         /\ pages'[p].recs[i].st = "OLD" /\ pages'[p].recs[i].data = r.data
         /\ pages'[p].recs[i].off = r.off
    <2>1. DOMAIN pages = 1 .. NPages /\ pages[p] \in Page /\ pages[p].recs \in Seq(Record)
      BY <1>3, Folder, PageOf
    <2>2. /\ \A q \in 1 .. NPages : q # p => pages'[q] = pages[q]
          /\ pages'[p].st = pages[p].st /\ pages'[p].end = pages[p].end
          /\ DOMAIN pages'[p].recs = DOMAIN pages[p].recs
          /\ \A j \in DOMAIN pages[p].recs : j # i => pages'[p].recs[j] = pages[p].recs[j]
          /\ pages'[p].recs[i] = [r EXCEPT !.st = "OLD"]
      BY <1>1, <1>3, <1>6, <2>1 DEF SetStatus, Page
    <2>3. [r EXCEPT !.st = "OLD"].st = "OLD" BY <1>5 DEF Record
    <2>4. [r EXCEPT !.st = "OLD"].data = r.data /\ [r EXCEPT !.st = "OLD"].off = r.off
      BY <1>5 DEF Record
    <2> QED BY <2>2, <2>3, <2>4
  <1> HIDE DEF r, c, m, n
  <1>11. Ahead(pages'[p], i + 1) = Ahead(pages[p], i + 1)
    <2>1. /\ pages[p].recs \in Seq(Record) /\ pages'[p].recs \in Seq(Record)
          /\ i \in Nat
      BY <1>3, PageOf, Folder
    <2>2. \A j \in DOMAIN pages[p].recs : /\ pages'[p].recs[j].off = pages[p].recs[j].off
                                          /\ pages'[p].recs[j].data = pages[p].recs[j].data
      BY <1>10 DEF r
    <2>3. \A j \in DOMAIN pages[p].recs : RecLen(pages'[p].recs[j]) = RecLen(pages[p].recs[j])
      BY <2>2 DEF RecLen
    <2>4. Len(pages'[p].recs) = Len(pages[p].recs) BY <1>10, <2>1
    <2>5. pages[p].recs # <<>> /\ pages'[p].recs # <<>> /\ Len(pages[p].recs) \in DOMAIN pages[p].recs
      BY <1>6, <1>10, <2>1
    <2>6. Top(pages'[p]) = Top(pages[p]) BY <2>2, <2>3, <2>4, <2>5 DEF Top
    <2> QED BY <1>10, <2>2, <2>6 DEF Ahead
  <1>12. Collects(k)'
    <2>1. Refilled(k)'
      <3>1. \A q \in 1 .. NPages : q <= k => pages'[q] = pages[q] BY <1>3, <1>8, <1>10
      <3>2. \A q \in 1 .. NPages : q > k /\ q < p => pages'[q] = BlankPage
        BY <1>3, <1>7, <1>10 DEF Collects, Refilled
      <3>3. \A q \in 1 .. NPages : q >= p => pages'[q].end
        BY <1>3, <1>7, <1>10 DEF Collects, Refilled
      <3>4. \A j \in DOMAIN pages'[p].recs : j < i + 1 => pages'[p].recs[j].st = "OLD"
        <4> SUFFICES ASSUME NEW j \in DOMAIN pages[p].recs, j < i + 1
                     PROVE  pages'[p].recs[j].st = "OLD"
          BY <1>10
        <4>1. j \in Nat /\ i \in Nat BY <1>3, PageOf, Folder
        <4>2. CASE j = i BY <1>10, <4>2
        <4>3. CASE j # i /\ j >= scan.i BY <1>3, <1>6, <1>10, <4>1, <4>3
        <4>4. CASE j # i /\ j < scan.i
          BY <1>3, <1>7, <1>10, <4>4 DEF Collects, Refilled
        <4> QED BY <1>3, <4>1, <4>2, <4>3, <4>4
      <3>5. /\ p <= NPages + 1 /\ g <= GPages + 1
            /\ \A q \in 1 .. NPages :
                  /\ q <= k => HasActive(pages[q]) /\ pages[q].st # "NEW"
                  /\ q < k => pages[q].end
        BY <1>7 DEF Collects, Refilled
      <3> QED BY <1>3, <1>4, <3>1, <3>2, <3>3, <3>4, <3>5 DEF Refilled
    <2>2. k \in 1 .. NPages => pages'[k].end BY <1>3, <1>7, <1>8, <1>10 DEF Collects
    <2>3. GcFilled(1)'
      <3>1. Packed(gc'[g])
        <4> DEFINE t == MovedTo(gc[g], scan.open, r)
        <4>1. /\ m \in Nat /\ DOMAIN t.recs = 1 .. m + 1 /\ t.recs # <<>>
              /\ \A j \in 1 .. m : scan.open /\ j \in DOMAIN gc[g].recs /\ t.recs[j] = gc[g].recs[j]
              /\ t.recs[m + 1].st = r.st
          BY <1>9 DEF Takes, m
        <4>2. scan.open => Packed(gc[g]) BY <1>7 DEF Collects, GcFilled
        <4>3. r.st = "ACTIVE" BY <1>5 DEF Live
        <4> HIDE DEF t
        <4>4. \A j \in 1 .. m + 1 : t.recs[j].st = "ACTIVE"
          <5> TAKE j \in 1 .. m + 1
          <5>1. j = m + 1 \/ j \in 1 .. m BY <4>1
          <5> QED BY <4>1, <4>2, <4>3, <5>1 DEF Packed
        <4> QED BY <1>9, <4>1, <4>4 DEF Packed, t
      <3>2. \A h \in 1 .. GPages : h >= 1 /\ h < g =>
               gc'[h].st = "OLD" /\ gc'[h].end /\ Packed(gc'[h])
        BY <1>3, <1>7, <1>9 DEF Collects, GcFilled
      <3> QED BY <1>4, <3>1, <3>2 DEF GcFilled
    <2>4. k + g <= p /\ p <= NPages BY <1>3, <1>7 DEF Collects
    <2>5. k + g = p => Top(gc'[g]) <= Ahead(pages'[p], i + 1)
      <3> SUFFICES ASSUME k + g = p PROVE Top(gc'[g]) <= Ahead(pages[p], i + 1)
        BY <1>11
      <3>1. Top(gc'[g]) = (IF scan.open THEN Top(gc[g]) ELSE 1) + RecLen(r)
        BY <1>9 DEF Takes
      <3>2. scan.open => Top(gc[g]) <= Ahead(pages[p], scan.i) BY <1>7 DEF Collects
      <3>3. /\ \A j \in 1 .. i : Ahead(pages[p], j) <= r.off
            /\ r.off + RecLen(r) <= Ahead(pages[p], i + 1)
        BY <1>3, <1>6, AheadGrows DEF r
      <3>4. scan.i \in 1 .. i BY <1>3, <1>6, GcFacts
      <3>5. r.off \in Nat /\ r.off >= 1 /\ RecLen(r) \in Nat /\ Top(gc[g]) \in Nat
        <4>1. r.off >= 1 BY <1>3, <1>6 DEF r, Good, WellFormed, StaysInside
        <4>2. Top(gc[g]) \in Nat BY <1>3, TopType
        <4> QED BY <1>5, <4>1, <4>2, SizesAssumption DEF Record, RecLen
      <3>6. Ahead(pages[p], scan.i) \in Nat /\ Ahead(pages[p], i + 1) \in Nat
        <4>1. \A j \in DOMAIN pages[p].recs : Ahead(pages[p], j) \in Nat BY <1>3, AheadGrows
        <4>2. Top(pages[p]) \in Nat BY <1>3, TopType
        <4> QED BY <4>1, <4>2 DEF Ahead
      <3>7. Ahead(pages[p], scan.i) <= r.off BY <3>3, <3>4
      <3> HIDE DEF p, g
      <3>8. (IF scan.open THEN Top(gc[g]) ELSE 1) <= r.off BY <3>2, <3>5, <3>6, <3>7
      <3> QED BY <3>1, <3>3, <3>5, <3>6, <3>8
    <2> QED BY <1>3, <1>4, <2>1, <2>2, <2>3, <2>4, <2>5 DEF Collects
  <1>13. CollectOK'
    <2>1. pc' = "gc" BY <1>2, <1>3
    <2> QED BY <1>12, <2>1 DEF CollectOK, GcPcs
  <1>14. (\A id \in Ids : Single(pages', id)) /\ CopiesOK'
    <2>1. /\ \A id \in Ids : Single(pages, id)
          /\ \A id \in Ids : \A a, b : Kept(a, id) /\ Kept(b, id) => a = b
          /\ \A id \in Ids : \A a, b : ~(Live(pages, a, id) /\ Kept(b, id))
      BY <1>3, GcFacts
    <2>2. \A id \in Ids : Single(pages', id) BY <1>5, <2>1 DEF Single
    <2>3. \A id \in Ids : \A a, b : Kept(a, id)' /\ Kept(b, id)' => a = b
      BY <1>5, <2>1
    <2>4. \A id \in Ids : \A a, b : ~(Live(pages', a, id) /\ Kept(b, id)')
      BY <1>5, <2>1 DEF Single
    <2> QED BY <2>2, <2>3, <2>4 DEF CopiesOK
  <1> QED BY <1>2, <1>3, <1>5, <1>13, <1>14, CollectFiles

\* The first file of a GC page fits, and when the GC page that fills takes
\* the place of the one being collected all of its files do.
LEMMA Overflows ==
  ASSUME FInv, Collecting, NEW i, Meets(i), ~GcRoom(gc[scan.g], scan.open, pages[scan.p].recs[i]),
         NEW k \in 0 .. NPages, Collects(k)
  PROVE  scan.open /\ k + scan.g < scan.p
  <1> DEFINE p == scan.p
             g == scan.g
             r == pages[p].recs[i]
  <1>1. /\ pc \in GcPcs /\ p \in 1 .. NPages /\ g \in 1 .. GPages /\ p \in Nat /\ g \in Nat
        /\ Good(gc[g]) /\ Good(pages[p]) /\ scan.i \in Nat /\ scan.i >= 1
        /\ pages[p].recs \in Seq(Record) /\ scan.open \in BOOLEAN
    BY Folder, CollectingFacts, GcFacts DEF GcPcs
  <1>2. i \in DOMAIN pages[p].recs /\ i >= scan.i /\ r \in Record /\ i \in Nat
    BY <1>1 DEF Meets
  <1>3. /\ r.off \in Nat /\ r.off >= 1 /\ RecLen(r) \in Nat /\ r.off + RecLen(r) < PageLen
        /\ PageLen \in Nat
    <2>1. r.off >= 1 /\ r.off + RecLen(r) < PageLen
      BY <1>1, <1>2 DEF Good, WellFormed, StaysInside
    <2>2. r.off \in Nat /\ RecLen(r) \in Nat
      <3> HIDE DEF r
      <3> QED BY <1>2, SizesAssumption DEF Record, RecLen
    <2> QED BY <2>1, <2>2, SizesAssumption
  <1>4. scan.open
    <2> SUFFICES ASSUME ~scan.open PROVE FALSE OBVIOUS
    <2>1. ~(0 + RecLen(r) < PageLen) BY DEF GcRoom
    <2> QED BY <1>3, <2>1
  <1>5. ~(Top(gc[g]) + RecLen(r) < PageLen) BY <1>4 DEF GcRoom
  <1>6. k + g <= p BY DEF Collects
  <1>7. k + g = p => Top(gc[g]) <= Ahead(pages[p], scan.i) BY <1>4 DEF Collects
  <1>8. Ahead(pages[p], scan.i) <= r.off /\ Ahead(pages[p], scan.i) \in Nat
    <2>1. \A j \in 1 .. i : Ahead(pages[p], j) <= r.off BY <1>1, <1>2, AheadGrows
    <2>2. \A j \in DOMAIN pages[p].recs : Ahead(pages[p], j) \in Nat BY <1>1, AheadGrows
    <2>3. Top(pages[p]) \in Nat BY <1>1, TopType
    <2>4. scan.i \in 1 .. i BY <1>1, <1>2
    <2> QED BY <2>1, <2>2, <2>3, <2>4 DEF Ahead
  <1>9. Top(gc[g]) \in Nat BY <1>1, TopType
  <1> HIDE DEF p, g, r
  <1>10. k + g # p BY <1>3, <1>5, <1>7, <1>8, <1>9
  <1>11. k \in Nat OBVIOUS
  <1> QED BY <1>1, <1>4, <1>6, <1>10, <1>11 DEF p, g

LEMMA GcNextPageFiles == ASSUME FInv, GcNextPage PROVE FilesOK'
  <1> DEFINE p == scan.p
             g == scan.g
  <1>1. PICK i \in 1 .. PageLen :
          /\ Meets(i)
          /\ ~GcRoom(gc[g], scan.open, pages[p].recs[i])
          /\ scan' = [scan EXCEPT !.i = i, !.g = @ + 1, !.open = FALSE]
    BY DEF GcNextPage
  <1>2. /\ Collecting /\ gc' = [gc EXCEPT ![g].end = TRUE, ![g].st = "OLD"]
        /\ UNCHANGED <<pages, lastWritten, pc, req, cur, tgt, old, xfer>>
    BY DEF GcNextPage, LooksIntoPage
  <1>3. /\ pc = "gc" /\ pc \in GcPcs /\ p \in 1 .. NPages /\ g \in 1 .. GPages
        /\ scan \in Scan /\ scan.i \in Nat /\ g \in Nat
        /\ p \in Nat /\ scan.open \in BOOLEAN /\ ~scan.stop /\ NPages \in Nat
        /\ DOMAIN gc = 1 .. GPages /\ GPages \in Nat /\ gc[g] \in Page
        /\ pages[p].recs \in Seq(Record)
    BY <1>2, Folder, CollectingFacts, GcFacts DEF GcPcs, Collecting
  <1>4. PICK k \in 0 .. NPages : Collects(k) BY <1>3, GcFacts DEF FilesOK, CollectOK
  <1>5. scan.open /\ k + g < p BY <1>1, <1>2, <1>4, Overflows
  <1>6. /\ scan'.p = p /\ scan'.i = i /\ scan'.g = g + 1 /\ scan'.open = FALSE
        /\ scan'.stop = scan.stop
    BY <1>1, <1>3 DEF Scan
  <1>7. /\ gc'[g].end /\ gc'[g].st = "OLD" /\ gc'[g].recs = gc[g].recs
        /\ DOMAIN gc' = 1 .. GPages
        /\ \A h \in 1 .. GPages : h # g => gc'[h] = gc[h]
    BY <1>2, <1>3 DEF Page
  <1>8. \A j \in DOMAIN pages[p].recs : j < i => pages[p].recs[j].st = "OLD"
    <2> SUFFICES ASSUME NEW j \in DOMAIN pages[p].recs, j < i
                 PROVE  pages[p].recs[j].st = "OLD"
      OBVIOUS
    <2>1. j \in Nat BY <1>3
    <2>2. CASE j < scan.i BY <1>3, <1>4, <2>2 DEF Collects, Refilled
    <2>3. CASE ~(j < scan.i) BY <1>1, <1>3, <2>1, <2>3 DEF Meets
    <2> QED BY <2>2, <2>3
  <1>9. Collects(k)'
    <2>1. Refilled(k)' BY <1>2, <1>3, <1>4, <1>6, <1>8 DEF Collects, Refilled
    <2>2. GcFilled(1)'
      <3>1. Packed(gc'[g]) BY <1>4, <1>5, <1>7 DEF Collects, GcFilled, Packed
      <3>2. \A h \in 1 .. GPages : h >= 1 /\ h < g =>
               gc'[h].st = "OLD" /\ gc'[h].end /\ Packed(gc'[h])
        BY <1>3, <1>4, <1>7 DEF Collects, GcFilled
      <3>3. \A h \in 1 .. GPages : h < g + 1 => h < g \/ h = g BY <1>3
      <3> QED BY <1>6, <1>7, <3>1, <3>2, <3>3 DEF GcFilled
    <2>3. k \in 1 .. NPages => pages'[k].end BY <1>2, <1>4 DEF Collects
    <2>4. k + (g + 1) <= p /\ p <= NPages BY <1>3, <1>5
    <2> QED BY <1>6, <2>1, <2>2, <2>3, <2>4, <1>3 DEF Collects
  <1>10. pc' = "gc" BY <1>2, <1>3
  <1>11. CollectOK' BY <1>9, <1>10 DEF CollectOK, GcPcs
  <1>12. CopiesOK'
    <2>1. \A a : InArea(a)' <=> a[1] < g + 1 BY <1>6, <1>10 DEF InArea
    <2>2. \A a : InArea(a) <=> a[1] < g \/ a[1] = g BY <1>3, <1>5 DEF InArea
    <2>3. \A a : IsRec(gc', a) <=> IsRec(gc, a) BY <1>3, <1>7 DEF IsRec
    <2>4. \A a : IsRec(gc, a) => At(gc', a) = At(gc, a) BY <1>3, <1>7 DEF IsRec, At
    <2>5. \A a : IsRec(gc, a) => (InArea(a)' <=> InArea(a))
      <3>1. \A a : IsRec(gc, a) => a[1] \in Nat BY DEF IsRec, Addr
      <3> QED BY <1>3, <2>1, <2>2, <3>1
    <2>6. \A a, id : Kept(a, id)' <=> Kept(a, id) BY <2>3, <2>4, <2>5 DEF Kept, Live
    <2> QED BY <1>2, <1>3, <2>6, GcFacts DEF CopiesOK
  <1> QED BY <1>2, <1>3, <1>10, <1>11, <1>12, CollectFiles, GcFacts

LEMMA GcCopyBackFiles == ASSUME FInv, GcCopyBack PROVE FilesOK'
  <1>1. /\ pc = "gc" /\ pc' = "back" /\ ~Collecting /\ pc \in GcPcs /\ pc' \in GcPcs
        /\ scan' = [scan EXCEPT !.bd = 1, !.bg = 1]
        /\ UNCHANGED <<pages, gc, lastWritten, req, cur, tgt, old, xfer>>
    BY DEF GcCopyBack, GcPcs
  <1>2. /\ scan \in Scan /\ scan.p \in Nat /\ scan.g \in Nat /\ scan.g >= 1
        /\ scan.open \in BOOLEAN /\ (scan.open => scan.g <= GPages)
        /\ GPages \in Nat /\ NPages \in Nat
    BY <1>1, GcFacts, Folder
  <1>3. /\ scan'.p = scan.p /\ scan'.i = scan.i /\ scan'.g = scan.g /\ scan'.open = scan.open
        /\ scan'.stop = scan.stop /\ scan'.bd = 1 /\ scan'.bg = 1
    BY <1>1, <1>2 DEF Scan
  <1>4. PICK k \in 0 .. NPages : Collects(k) BY <1>1, GcFacts DEF FilesOK, CollectOK
  <1>5. ~scan.stop /\ scan.p <= NPages + 1 BY <1>4 DEF Collects, Refilled
  <1>6. scan.p > NPages \/ scan.g > GPages BY <1>1, <1>2, <1>5 DEF Collecting
  <1>7. CopiesBack(k)'
    <2>1. Refilled(k)' BY <1>1, <1>3, <1>4 DEF Collects, Refilled
    <2>2. GcFilled(scan.bg)' BY <1>1, <1>3, <1>4 DEF Collects, GcFilled
    <2>3. k \in 1 .. NPages => pages'[k].end BY <1>1, <1>4 DEF Collects
    <2>4. k + scan.g <= scan.p /\ (scan.p > NPages => k + scan.g <= NPages)
      BY <1>4 DEF Collects
    <2>5. Behind' = Behind BY <1>3 DEF Behind
    <2>6. k < scan.p BY <1>2, <2>4
    <2>7. k + (Behind - 1) < scan.p
      <3>1. CASE scan.open BY <1>2, <1>5, <1>6, <2>4, <3>1 DEF Behind
      <3>2. CASE ~scan.open BY <1>2, <2>4, <3>2 DEF Behind
      <3> QED BY <3>1, <3>2
    <2>8. 1 <= k + 1 OBVIOUS
    <2> QED BY <1>3, <1>6, <2>1, <2>2, <2>3, <2>5, <2>6, <2>7, <2>8 DEF CopiesBack
  <1>8. CollectOK' BY <1>1, <1>7 DEF CollectOK, GcPcs
  <1>9. CopiesOK'
    <2>1. \A a, id : Kept(a, id)' => Kept(a, id) BY <1>1, <1>3 DEF Kept, InArea
    <2> QED BY <1>1, <2>1, GcFacts DEF CopiesOK
  <1> QED BY <1>1, <1>8, <1>9, CollectFiles, GcFacts

\* While there are files to copy back, the page behind those filled again is
\* blank, and takes the next GC page.
LEMMA NextCopy ==
  ASSUME FInv, pc = "back", NEW k \in 0 .. NPages, CopiesBack(k), scan.bg < Behind
  PROVE  /\ k + 1 \in 1 .. NPages /\ k + 1 < scan.p /\ GoesTo(k + 1)
         /\ \A d \in 1 .. NPages : GoesTo(d) => d = k + 1
         /\ scan.bg \in 1 .. GPages /\ Copies /\ Packed(gc[scan.bg])
         /\ \/ gc[scan.bg].st = "OLD" /\ gc[scan.bg].end /\ scan.bg < scan.g
            \/ gc[scan.bg].st = "ACTIVE" /\ scan.open /\ scan.bg = scan.g
         /\ k \in 1 .. NPages => pages[k].end
  <1>1. /\ pc \in GcPcs /\ scan.p \in Nat /\ scan.g \in Nat /\ scan.bd \in Nat /\ scan.bg \in Nat
        /\ scan.bg >= 1 /\ scan.bd >= 1 /\ scan.open \in BOOLEAN
        /\ scan.open => scan.g <= GPages /\ gc[scan.g].st = "ACTIVE"
        /\ GPages \in Nat /\ NPages \in Nat
    BY GcFacts, Folder DEF GcPcs
  <1>3. Behind \in Nat /\ (Behind = scan.g \/ (scan.open /\ Behind = scan.g + 1))
    BY <1>1 DEF Behind
  <1>0. ~(scan.bg >= Behind) BY <1>1, <1>3
  <1>2. /\ Refilled(k) /\ GcFilled(scan.bg)
        /\ k + (Behind - scan.bg) < scan.p /\ scan.bd <= k + 1
        /\ k \in 1 .. NPages => pages[k].end
    BY <1>0 DEF CopiesBack
  <1>4. scan.p <= NPages + 1 /\ scan.g <= GPages + 1 BY <1>2 DEF Refilled
  <1>5. k + 1 \in 1 .. NPages /\ k + 1 < scan.p BY <1>1, <1>2, <1>3, <1>4
  <1>6. scan.bg \in 1 .. GPages BY <1>1, <1>3, <1>4
  <1>7. pages[k + 1].st = "NEW"
    <2>1. pages[k + 1] = BlankPage BY <1>2, <1>5 DEF Refilled
    <2> QED BY <2>1 DEF BlankPage
  <1>8. \A q \in 1 .. NPages : q <= k => pages[q].st # "NEW" BY <1>2 DEF Refilled
  <1>9. GoesTo(k + 1)
    <2>1. \A q \in scan.bd .. k + 1 - 1 : q \in 1 .. NPages /\ q <= k BY <1>1, <1>5
    <2> QED BY <1>1, <1>2, <1>6, <1>7, <1>8, <2>1 DEF GoesTo
  <1>10. ASSUME NEW d \in 1 .. NPages, GoesTo(d) PROVE d = k + 1
    <2>1. ~(d <= k) BY <1>8, <1>10 DEF GoesTo
    <2>2. ~(k + 1 \in scan.bd .. d - 1) BY <1>7, <1>10 DEF GoesTo
    <2> QED BY <1>1, <1>2, <1>5, <2>1, <2>2
  <1>11. /\ Packed(gc[scan.bg])
         /\ \/ gc[scan.bg].st = "OLD" /\ gc[scan.bg].end /\ scan.bg < scan.g
            \/ gc[scan.bg].st = "ACTIVE" /\ scan.open /\ scan.bg = scan.g
    <2>1. CASE scan.bg < scan.g BY <1>1, <1>2, <1>6, <2>1 DEF GcFilled
    <2>2. CASE ~(scan.bg < scan.g)
      <3>1. scan.open /\ scan.bg = scan.g BY <1>1, <1>3, <2>2
      <3> QED BY <1>1, <1>2, <3>1 DEF GcFilled
    <2> QED BY <2>1, <2>2
  <1>12. Copies BY <1>1, <1>6, <1>11 DEF Copies, InUse, Beyond, Unopened
  <1> QED BY <1>2, <1>5, <1>6, <1>9, <1>10, <1>11, <1>12

\* A GC page copied back: its files are in the folder.
LEMMA CopyView ==
  ASSUME FInv, pc = "back", NEW k \in 0 .. NPages, CopiesBack(k), scan.bg < Behind,
         NEW d \in 1 .. NPages, GoesTo(d), pages' = [pages EXCEPT ![d] = gc[scan.bg]],
         UNCHANGED gc, pc' = "back", scan'.g = scan.g, scan'.open = scan.open,
         scan'.bg = scan.bg + 1
  PROVE  /\ \A a, id : Live(pages', a, id) <=>
                Live(pages, a, id) \/ (a[1] = d /\ Kept(<<scan.bg, a[2]>>, id) /\ a \in Addr)
         /\ \A a, id : Kept(a, id)' <=> Kept(a, id) /\ a[1] # scan.bg
         /\ \A a, id : Live(pages, a, id) => a[1] # d /\ At(pages', a) = At(pages, a)
         /\ \A a : a[1] = d => At(pages', a) = At(gc, <<scan.bg, a[2]>>)
         /\ NonePartial(pages') /\ Marks(pages', 0)
         /\ \A q \in 1 .. NPages : q # d => pages'[q] = pages[q]
         /\ pages'[d] = gc[scan.bg]
  <1> DEFINE b == scan.bg
  <1>1. /\ pc \in GcPcs /\ DOMAIN gc = 1 .. GPages /\ b \in Nat /\ scan.g \in Nat
        /\ Marks(pages, 0) /\ NonePartial(pages) /\ GPages \in Nat /\ scan.open \in BOOLEAN
        /\ \A h \in 1 .. GPages : gc[h].recs \in Seq(Record)
    BY GcFacts DEF GcPcs
  <1>2. /\ b \in 1 .. GPages /\ Packed(gc[b])
        /\ \/ gc[b].st = "OLD" /\ gc[b].end /\ b < scan.g
           \/ gc[b].st = "ACTIVE" /\ scan.open /\ b = scan.g
    BY NextCopy
  <1>3. pages[d].recs = <<>> BY Folder DEF GoesTo
  <1>4. /\ DOMAIN pages = 1 .. NPages /\ DOMAIN pages' = 1 .. NPages
        /\ \A q \in 1 .. NPages : q # d => pages'[q] = pages[q]
        /\ pages'[d] = gc[b] /\ NPages \in Nat
    BY Folder
  <1>5. ASSUME NEW a, a[1] = d
        PROVE  /\ ~IsRec(pages, a)
               /\ At(pages', a) = At(gc, <<b, a[2]>>)
               /\ IsRec(pages', a) <=> a \in Addr /\ IsRec(gc, <<b, a[2]>>)
               /\ a \in Addr => InArea(<<b, a[2]>>)
    <2>1. ~IsRec(pages, a) BY <1>3, <1>4, <1>5 DEF IsRec
    <2>2. At(pages', a) = At(gc, <<b, a[2]>>) BY <1>4, <1>5 DEF At
    <2>3. IsRec(pages', a) <=> a \in Addr /\ IsRec(gc, <<b, a[2]>>)
      BY <1>1, <1>2, <1>4, <1>5 DEF IsRec, Addr
    <2>4. InArea(<<b, a[2]>>) BY <1>1, <1>2 DEF InArea
    <2> QED BY <2>1, <2>2, <2>3, <2>4
  <1>6. ASSUME NEW a, a[1] # d
        PROVE  /\ IsRec(pages', a) <=> IsRec(pages, a)
               /\ IsRec(pages, a) => At(pages', a) = At(pages, a)
    BY <1>4, <1>6 DEF IsRec, At
  <1>7. ASSUME NEW a, NEW id
        PROVE  /\ Live(pages', a, id) <=>
                     Live(pages, a, id) \/ (a[1] = d /\ Kept(<<b, a[2]>>, id) /\ a \in Addr)
               /\ Live(pages, a, id) => a[1] # d /\ At(pages', a) = At(pages, a)
    <2>1. CASE a[1] = d
      BY <1>5, <2>1 DEF Live, Kept
    <2>2. CASE a[1] # d BY <1>6, <2>2 DEF Live
    <2> QED BY <2>1, <2>2
  <1>8. ASSUME NEW a, NEW id PROVE Kept(a, id)' <=> Kept(a, id) /\ a[1] # b
    <2>1. IsRec(gc, a) => a[1] \in Nat BY DEF IsRec, Addr
    <2>2. IsRec(gc, a) => (InArea(a)' <=> InArea(a) /\ a[1] # b) BY <1>1, <2>1 DEF InArea
    <2> QED BY <2>2 DEF Kept, Live
  <1>9. NonePartial(pages')
    <2> SUFFICES ASSUME NEW a, IsRec(pages', a), At(pages', a).st = "PARTIAL" PROVE FALSE
      BY DEF NonePartial, Partial
    <2>1. CASE a[1] = d
      BY <1>2, <1>4, <2>1 DEF IsRec, At, Packed
    <2>2. CASE a[1] # d BY <1>1, <1>6, <2>2 DEF NonePartial, Partial
    <2> QED BY <2>1, <2>2
  <1>10. Marks(pages', 0) BY <1>1, <1>2, <1>4 DEF Marks
  <1> QED BY <1>4, <1>5, <1>7, <1>8, <1>9, <1>10

LEMMA BackCopyFiles == ASSUME FInv, BackCopy, pc' # "stray" PROVE FilesOK'
  <1>1. PICK d \in 1 .. NPages :
          /\ GoesTo(d)
          /\ pages' = IF Copies THEN [pages EXCEPT ![d] = gc[scan.bg]] ELSE pages
          /\ scan' = [scan EXCEPT !.bd = d + 1, !.bg = @ + 1]
    BY DEF BackCopy, CopiedTo
  <1>2. /\ pc = "back" /\ pc' = "back" /\ pc \in GcPcs /\ pc' \in GcPcs
        /\ UNCHANGED <<gc, lastWritten, req, cur, tgt, old, xfer>>
    BY DEF BackCopy, GcPcs
  <1>3. /\ scan \in Scan /\ scan.p \in Nat /\ scan.g \in Nat /\ scan.bd \in Nat /\ scan.bg \in Nat
        /\ scan.bg >= 1 /\ scan.bd >= 1 /\ scan.open \in BOOLEAN
        /\ GPages \in Nat /\ NPages \in Nat
    BY <1>2, GcFacts, Folder
  <1>4. /\ scan'.p = scan.p /\ scan'.i = scan.i /\ scan'.g = scan.g /\ scan'.open = scan.open
        /\ scan'.stop = scan.stop /\ scan'.bd = d + 1 /\ scan'.bg = scan.bg + 1
    BY <1>1, <1>3 DEF Scan
  <1>5. PICK k \in 0 .. NPages : CopiesBack(k) BY <1>2, GcFacts DEF FilesOK, CollectOK
  <1>6. Behind' = Behind /\ Behind \in Nat BY <1>3, <1>4 DEF Behind
  <1>7. /\ \A id \in Ids : Single(pages, id)
        /\ \A id \in Ids : \A a, b : Kept(a, id) /\ Kept(b, id) => a = b
        /\ \A id \in Ids : \A a, b : ~(Live(pages, a, id) /\ Kept(b, id))
        /\ NonePartial(pages) /\ Marks(pages, 0)
    BY <1>2, GcFacts
  <1>8. CASE scan.bg < Behind
    <2>1. /\ k + 1 \in 1 .. NPages /\ k + 1 < scan.p /\ d = k + 1
          /\ scan.bg \in 1 .. GPages /\ Copies /\ Packed(gc[scan.bg])
          /\ \/ gc[scan.bg].st = "OLD" /\ gc[scan.bg].end /\ scan.bg < scan.g
             \/ gc[scan.bg].st = "ACTIVE" /\ scan.open /\ scan.bg = scan.g
          /\ k \in 1 .. NPages => pages[k].end
      BY <1>1, <1>2, <1>5, <1>8, NextCopy
    <2>2. pages' = [pages EXCEPT ![d] = gc[scan.bg]] BY <1>1, <2>1
    <2>3. /\ \A a, id : Live(pages', a, id) <=>
                Live(pages, a, id) \/ (a[1] = d /\ Kept(<<scan.bg, a[2]>>, id) /\ a \in Addr)
          /\ \A a, id : Kept(a, id)' <=> Kept(a, id) /\ a[1] # scan.bg
          /\ NonePartial(pages') /\ Marks(pages', 0)
          /\ \A q \in 1 .. NPages : q # d => pages'[q] = pages[q]
          /\ pages'[d] = gc[scan.bg]
      BY <1>1, <1>2, <1>4, <1>5, <1>8, <2>2, CopyView
    <2>4. CopiesBack(k + 1)'
      <3>1. Refilled(k + 1)'
        <4>1. HasActive(pages'[d]) /\ pages'[d].st # "NEW"
          <5>1. gc[scan.bg].recs \in Seq(Record) BY <1>2, <2>1, GcFacts
          <5>2. gc[scan.bg].recs # <<>> BY <2>1 DEF Packed
          <5>3. 1 \in DOMAIN gc[scan.bg].recs BY <5>1, <5>2
          <5>4. gc[scan.bg].recs[1].st = "ACTIVE" BY <2>1, <5>3 DEF Packed
          <5> QED BY <2>1, <2>3, <5>3, <5>4 DEF HasActive
        <4>2. ASSUME NEW q \in 1 .. NPages
              PROVE  /\ q <= k + 1 => HasActive(pages'[q]) /\ pages'[q].st # "NEW"
                     /\ q < k + 1 => pages'[q].end
                     /\ q > k + 1 /\ q < scan.p => pages'[q] = BlankPage
                     /\ q >= scan.p => pages'[q].end
          <5>1. CASE q = d BY <1>3, <2>1, <4>1, <5>1
          <5>2. CASE q # d
            <6>1. pages'[q] = pages[q] BY <2>3, <5>2
            <6>2. /\ q <= k => HasActive(pages[q]) /\ pages[q].st # "NEW"
                  /\ q < k => pages[q].end
                  /\ q > k /\ q < scan.p => pages[q] = BlankPage
                  /\ q >= scan.p => pages[q].end
              BY <1>5 DEF CopiesBack, Refilled
            <6>3. q = k => pages[q].end BY <2>1
            <6> QED BY <1>3, <2>1, <5>2, <6>1, <6>2, <6>3
          <5> QED BY <5>1, <5>2
        <4>3. /\ scan.p <= NPages + 1 /\ scan.g <= GPages + 1 /\ ~scan.stop
              /\ scan.p <= NPages => \A i \in DOMAIN pages[scan.p].recs :
                    i < scan.i => pages[scan.p].recs[i].st = "OLD"
          BY <1>5 DEF CopiesBack, Refilled
        <4>4. scan.p <= NPages => pages'[scan.p] = pages[scan.p]
          BY <1>3, <2>1, <2>3, GcFacts, <1>2
        <4> QED BY <1>4, <4>2, <4>3, <4>4 DEF Refilled
      <3>2. GcFilled(scan.bg)' BY <1>2, <1>3, <1>4, <1>5 DEF CopiesBack, GcFilled
      <3>3. pages'[k + 1].end \/ (scan.open /\ scan.bg + 1 >= Behind)
        BY <1>3, <2>1, <2>3 DEF Behind
      <3>4. scan.bg + 1 < Behind => (k + 1) + (Behind - (scan.bg + 1)) < scan.p
        BY <1>3, <1>5, <1>6, <1>8 DEF CopiesBack
      <3>5. d + 1 <= (k + 1) + 1 BY <2>1
      <3>6. scan.p > NPages \/ scan.g > GPages BY <1>5 DEF CopiesBack
      <3> QED BY <1>4, <1>6, <2>1, <3>1, <3>2, <3>3, <3>4, <3>5, <3>6 DEF CopiesBack
    <2>5. CollectOK' BY <1>2, <2>1, <2>4 DEF CollectOK, GcPcs
    <2>6. ASSUME NEW id \in Ids PROVE Single(pages', id)
      <3> SUFFICES ASSUME NEW a, NEW b, Live(pages', a, id), Live(pages', b, id) PROVE a = b
        BY DEF Single
      <3>1. CASE Live(pages, a, id) /\ Live(pages, b, id) BY <1>7, <3>1 DEF Single
      <3>2. CASE ~(Live(pages, a, id) /\ Live(pages, b, id))
        <4>1. /\ a[1] = d /\ Kept(<<scan.bg, a[2]>>, id) /\ a \in Addr
              /\ b[1] = d /\ Kept(<<scan.bg, b[2]>>, id) /\ b \in Addr
          BY <1>7, <2>3, <3>2
        <4>2. <<scan.bg, a[2]>> = <<scan.bg, b[2]>> BY <1>7, <4>1
        <4> QED BY <4>1, <4>2 DEF Addr
      <3> QED BY <3>1, <3>2
    <2>7. CopiesOK'
      <3> SUFFICES ASSUME NEW id \in Ids, NEW a, NEW b
                   PROVE  /\ Kept(a, id)' /\ Kept(b, id)' => a = b
                          /\ ~(Live(pages', a, id) /\ Kept(b, id)')
        BY DEF CopiesOK
      <3>1. Kept(a, id)' /\ Kept(b, id)' => a = b BY <1>7, <2>3
      <3>2. ASSUME Live(pages', a, id), Kept(b, id)' PROVE FALSE
        <4>1. Kept(b, id) /\ b[1] # scan.bg BY <2>3, <3>2
        <4>2. Kept(<<scan.bg, a[2]>>, id) BY <1>7, <2>3, <3>2, <4>1
        <4>3. b = <<scan.bg, a[2]>> BY <1>7, <4>1, <4>2
        <4> QED BY <4>1, <4>3
      <3> QED BY <3>1, <3>2
    <2> QED BY <1>2, <2>3, <2>5, <2>6, <2>7, CollectFiles
  <1>9. CASE ~(scan.bg < Behind)
    <2>1. ~Copies
      <3> SUFFICES ASSUME Copies PROVE FALSE OBVIOUS
      <3>1. ~(scan.bg > scan.g) /\ ~(scan.bg = scan.g /\ ~scan.open)
        BY DEF Copies, Beyond, Unopened
      <3> QED BY <1>3, <1>9, <3>1 DEF Behind
    <2>2. pages' = pages BY <1>1, <2>1
    <2>3. CopiesBack(k)'
      <3>1. Refilled(k)' BY <1>4, <1>5, <2>2 DEF CopiesBack, Refilled
      <3>2. GcFilled(scan.bg)' BY <1>2, <1>3, <1>4, <1>5 DEF CopiesBack, GcFilled
      <3>3. k \in 1 .. NPages => pages[k].end \/ (scan.open /\ scan.bg + 1 >= Behind)
        BY <1>3, <1>5, <1>6 DEF CopiesBack
      <3>4. ~(scan.bg + 1 < Behind) BY <1>3, <1>6, <1>9
      <3> QED BY <1>4, <1>5, <1>6, <2>2, <3>1, <3>2, <3>3, <3>4 DEF CopiesBack
    <2>4. CollectOK' BY <1>2, <2>3 DEF CollectOK, GcPcs
    <2>5. CopiesOK'
      <3>1. \A a, id : Kept(a, id)' => Kept(a, id)
        <4> SUFFICES ASSUME NEW a, NEW id, Kept(a, id)' PROVE Kept(a, id)
          OBVIOUS
        <4>1. a[1] \in Nat BY DEF Kept, Live, IsRec, Addr
        <4> QED BY <1>2, <1>3, <1>4, <4>1 DEF Kept, InArea
      <3> QED BY <1>7, <2>2, <3>1 DEF CopiesOK
    <2> QED BY <1>2, <1>7, <2>2, <2>4, <2>5, CollectFiles
  <1> QED BY <1>8, <1>9

-----------------------------------------------------------------------------
(***************************************************************************)
(* The end of the collection.                                              *)
(***************************************************************************)
\* When the copying back ends every file of the GC area is in the folder.
LEMMA BackDone ==
  ASSUME FInv, CopiedBack, NEW k \in 0 .. NPages, CopiesBack(k)
  PROVE  /\ ~(scan.bg < Behind) /\ \A a, id : ~Kept(a, id)
         /\ k \in 1 .. NPages => pages[k].end \/ scan.open
  <1>1. pc = "back" /\ pc \in GcPcs BY DEF CopiedBack, GcPcs
  <1>2. /\ scan.g \in Nat /\ scan.bg \in Nat /\ scan.open \in BOOLEAN
    BY <1>1, GcFacts
  <1>3. ~(scan.bg < Behind)
    <2> SUFFICES ASSUME scan.bg < Behind PROVE FALSE OBVIOUS
    <2>1. k + 1 \in 1 .. NPages /\ GoesTo(k + 1) BY <1>1, NextCopy
    <2> QED BY <2>1 DEF CopiedBack
  <1>4. ASSUME NEW a, NEW id, Kept(a, id) PROVE FALSE
    <2>1. InArea(a) /\ a[1] \in Nat BY <1>4 DEF Kept, Live, IsRec, Addr
    <2> QED BY <1>1, <1>2, <1>3, <2>1 DEF InArea, Behind
  <1> QED BY <1>3, <1>4 DEF CopiesBack

LEMMA GcResumeFiles == ASSUME FInv, GcResume PROVE FilesOK'
  <1>1. /\ pc = "back" /\ pc' = "gc" /\ CopiedBack /\ ~Collected
        /\ scan' = [NoScan EXCEPT !.p = scan.p, !.i = scan.i]
        /\ UNCHANGED <<pages, lastWritten, req, cur, tgt, old, xfer>>
    BY DEF GcResume, CopiedBack
  <1>2. /\ pc \in GcPcs /\ pc' \in GcPcs BY <1>1 DEF GcPcs
  <1>3. /\ scan \in Scan /\ scan.p \in Nat /\ scan.g \in Nat /\ scan.i \in Nat
        /\ scan.open \in BOOLEAN /\ (scan.open => scan.g <= GPages)
        /\ GPages \in Nat /\ NPages \in Nat /\ GPages >= 1
    BY <1>2, GcFacts, Folder
  <1>4. /\ scan'.p = scan.p /\ scan'.i = scan.i /\ scan'.g = 1 /\ scan'.open = FALSE
        /\ scan'.stop = FALSE /\ scan'.bg = 1
    BY <1>1 DEF NoScan
  <1>5. PICK k \in 0 .. NPages : CopiesBack(k) BY <1>1, <1>2, GcFacts DEF FilesOK, CollectOK
  <1>6. /\ ~(scan.bg < Behind) /\ \A a, id : ~Kept(a, id)
        /\ k \in 1 .. NPages => pages[k].end \/ scan.open
    BY <1>1, <1>5, BackDone
  <1>7. ~(scan.p > NPages) BY <1>1 DEF Collected
  <1>8. scan.g > GPages /\ k < scan.p BY <1>5, <1>7 DEF CopiesBack
  <1>9. ~scan.open BY <1>3, <1>8
  <1>10. Collects(k)'
    <2>1. Refilled(k)'
      <3>1. /\ scan.p <= NPages + 1
            /\ \A q \in 1 .. NPages :
                  /\ q <= k => HasActive(pages[q]) /\ pages[q].st # "NEW"
                  /\ q < k => pages[q].end
                  /\ q > k /\ q < scan.p => pages[q] = BlankPage
                  /\ q >= scan.p => pages[q].end
            /\ scan.p <= NPages => \A i \in DOMAIN pages[scan.p].recs :
                    i < scan.i => pages[scan.p].recs[i].st = "OLD"
        BY <1>5 DEF CopiesBack, Refilled
      <3>2. 1 <= GPages + 1 BY <1>3
      <3> QED BY <1>1, <1>4, <3>1, <3>2 DEF Refilled
    <2>2. GcFilled(1)'
      <3>1. \A h \in 1 .. GPages : ~(h < 1) BY <1>3
      <3> QED BY <1>4, <3>1 DEF GcFilled
    <2>3. k \in 1 .. NPages => pages'[k].end BY <1>1, <1>6, <1>9
    <2>4. k + 1 <= scan.p BY <1>3, <1>8
    <2> QED BY <1>4, <1>7, <2>1, <2>2, <2>3, <2>4 DEF Collects
  <1>11. CollectOK' BY <1>1, <1>10 DEF CollectOK, GcPcs
  <1>12. CopiesOK'
    <2>1. \A a, id : ~Kept(a, id)'
      <3> SUFFICES ASSUME NEW a, NEW id, Kept(a, id)' PROVE FALSE OBVIOUS
      <3>1. a[1] < 1 BY <1>1, <1>4 DEF Kept, InArea
      <3>2. a[1] \in 1 .. GPages
        BY DEF Kept, Live, IsRec, GcResume, Spent
      <3> QED BY <1>3, <3>1, <3>2
    <2> QED BY <2>1 DEF CopiesOK
  <1> QED BY <1>1, <1>2, <1>11, <1>12, CollectFiles, GcFacts

\* The host's books after a part that was refused.
LEMMA RefusedHost ==
  ASSUME FInv, pc = "back", Return("no_space"), Advance(TRUE)
  PROVE  HostOK'
  <1> DEFINE tail == SubSeq(req.file, req.sent + req.n + 1, Len(req.file))
             new == [id |-> req.id, all |-> Meant, sent |-> 0, file |-> tail]
  <1>1. /\ HostOK /\ Calling /\ IInv BY Folder DEF FInv, FilesOK, Calling, AtRest
  <1>2. /\ req.op \in {"write", "part"} /\ req.n <= Remaining(req) /\ Remaining(req) \in Nat
        /\ req.sent \in Nat /\ req.n \in Nat /\ Len(req.file) \in Nat
        /\ req.n >= 1 /\ req.file \in Files
    BY <1>1, RequestType
  <1>3. {t \in xfer : t.id # req.id} = {} BY <1>1, <1>2 DEF HostOK
  <1>4. xfer' = {} \/ (xfer' = {new} /\ req.n # Remaining(req)) BY <1>3 DEF Advance
  <1>5. new.sent = 0 /\ new.file = tail OBVIOUS
  <1>6. req.n # Remaining(req) => 0 < Len(tail)
    <2> SUFFICES ASSUME req.n # Remaining(req) PROVE Len(tail) > 0
      BY <1>2
    <2> DEFINE k == req.sent + req.n
    <2>1. k \in 1 .. Len(req.file) - 1 BY <1>2 DEF Remaining
    <2> HIDE DEF k
    <2>2. SubSeq(req.file, k + 1, Len(req.file)) \in Files BY <1>2, <2>1, FilesAssumption
    <2>3. tail \in Seq(Vals) /\ tail # <<>> BY <2>2, FilesAssumption DEF k
    <2> HIDE DEF tail
    <2> QED BY <2>3, EmptySeq, LenProperties
  <1>7. pc' = "idle" BY DEF Return
  <1> HIDE DEF new, tail
  <1>8. \A t \in xfer' : t = new /\ req.n # Remaining(req) BY <1>4
  <1> QED BY <1>5, <1>6, <1>7, <1>8 DEF HostOK, Calling, AtRest

\* The folder when the collection is over.
LEMMA FolderCollected ==
  ASSUME FInv, GcDone
  PROVE  \E k \in 0 .. NPages :
           /\ \A q \in 1 .. NPages :
                /\ q <= k => HasActive(pages[q]) /\ pages[q].st # "NEW"
                /\ q < k => pages[q].end
                /\ q > k => pages[q] = BlankPage
           /\ pc = "back" /\ Lined(pages) /\ Marks(pages, 0) /\ NonePartial(pages)
           /\ \A id \in Ids : Single(pages, id)
           /\ tgt = NoAddr
  <1>1. CopiedBack /\ Collected /\ pc = "back" /\ pc \in GcPcs
    BY DEF GcDone, CopiedBack, GcPcs
  <1>2. scan.p \in Nat /\ NPages \in Nat BY <1>1, GcFacts, Folder
  <1>3. PICK k \in 0 .. NPages : CopiesBack(k) BY <1>1, GcFacts DEF FilesOK, CollectOK
  <1>4. /\ ~scan.stop
        /\ \A q \in 1 .. NPages :
             /\ q <= k => HasActive(pages[q]) /\ pages[q].st # "NEW"
             /\ q < k => pages[q].end
             /\ q > k /\ q < scan.p => pages[q] = BlankPage
    BY <1>3 DEF CopiesBack, Refilled
  <1>5. scan.p > NPages BY <1>1, <1>4 DEF Collected
  <1>6. \A q \in 1 .. NPages : q > k => pages[q] = BlankPage BY <1>2, <1>4, <1>5
  <1>7. Lined(pages)
    <2> SUFFICES ASSUME NEW p \in 1 .. NPages, NEW q \in 1 .. NPages,
                        p < q, pages[q].st # "NEW"
                 PROVE  pages[p].end
      BY DEF Lined
    <2>1. ~(q > k) BY <1>6 DEF BlankPage
    <2>2. p < k BY <1>2, <2>1
    <2> QED BY <1>4, <2>2
  <1> QED BY <1>1, <1>4, <1>6, <1>7, GcFacts

LEMMA GcDoneFiles == ASSUME FInv, GcDone PROVE FilesOK'
  <1>1. /\ pc = "back" /\ Lined(pages) /\ Marks(pages, 0) /\ NonePartial(pages)
        /\ \A id \in Ids : Single(pages, id)
        /\ tgt = NoAddr /\ pages' = Sweep(pages, NoAddr)
        /\ lastWritten' = LastAddr(pages)
    BY FolderCollected DEF GcDone
  <1>2. /\ IsFolder(pages')
        /\ \A p \in 1 .. NPages :
              /\ pages'[p].recs = pages[p].recs /\ pages'[p].end = pages[p].end
              /\ ~pages[p].end => pages'[p] = pages[p]
              /\ pages[p].st # "NEW" <=> pages'[p].st # "NEW"
        /\ \A x : Marks(pages, x) => Marks(pages', x)
        /\ Lined(pages) => Lined(pages')
    BY <1>1, Folder, SweepView
  <1>3. /\ \A a, i : Live(pages', a, i) <=> Live(pages, a, i)
        /\ \A a : Partial(pages', a) <=> Partial(pages, a)
    BY <1>2, Folder, SameRecords
  <1>4. lastWritten' = NoAddr \/ (lastWritten'[1] \in 1 .. NPages
                                       /\ pages[lastWritten'[1]].st # "NEW")
    BY <1>1, LastAddrPage, Folder
  <1>5. NonePartial(pages') /\ \A id \in Ids : Single(pages', id)
    BY <1>1, <1>3 DEF NonePartial, Single
  <1>6. FilesOK BY <1>1 DEF FInv
  <1>7. CASE /\ pc' = "find" /\ cur' = FirstPage(LastAddr(pages)) /\ scan' = NoScan
             /\ UNCHANGED <<req, tgt, old, xfer, reply>>
    <2>1. \A q \in 1 .. NPages : q < cur' => pages'[q].end
      <3>1. CASE lastWritten' = NoAddr
        <4>1. cur' = 1 BY <1>1, <1>7, <3>1 DEF FirstPage
        <4> QED BY <4>1, Folder
      <3>2. CASE lastWritten' # NoAddr
        <4>1. cur' = lastWritten'[1] BY <1>1, <1>7, <3>2 DEF FirstPage
        <4> QED BY <1>1, <1>2, <1>4, <3>2, <4>1 DEF Lined
      <3> QED BY <3>1, <3>2
    <2>2. FolderOK' BY <1>1, <1>2, <1>7 DEF FolderOK, Unmarked
    <2>3. CursorOK' BY <1>2, <1>4, <1>7, <2>1 DEF CursorOK
    <2>4. VersionsOK' BY <1>5, <1>7 DEF VersionsOK, Swapping
    <2>5. HostOK' BY <1>1, <1>6, <1>7 DEF FilesOK, HostOK, Calling, AtRest
    <2>6. PartsOK' BY <1>5, <1>7 DEF PartsOK, Calling, AtRest
    <2>7. CopiesOK' /\ CollectOK' BY <1>7 DEF CopiesOK, CollectOK, GcPcs
    <2> QED BY <2>2, <2>3, <2>4, <2>5, <2>6, <2>7 DEF FilesOK
  <1>8. CASE /\ req.op = "write" /\ pc' = "retire" /\ scan' = NoScan
             /\ UNCHANGED <<req, cur, tgt, old, xfer, reply>>
    <2>2. FolderOK' BY <1>1, <1>2, <1>8 DEF FolderOK, Unmarked
    <2>3. CursorOK' BY <1>1, <1>2, <1>4, <1>8 DEF CursorOK
    <2>4. VersionsOK' BY <1>1, <1>5, <1>8 DEF VersionsOK, Swapping
    <2>5. HostOK' BY <1>1, <1>6, <1>8 DEF FilesOK, HostOK, Calling, AtRest
    <2>6. PartsOK' BY <1>5, <1>8 DEF PartsOK, Calling, AtRest, NonePartial
    <2>7. CopiesOK' /\ CollectOK' BY <1>8 DEF CopiesOK, CollectOK, GcPcs
    <2> QED BY <2>2, <2>3, <2>4, <2>5, <2>6, <2>7 DEF FilesOK
  <1>9. CASE Return("no_space") /\ Advance(TRUE)
    <2>1. pc' = "idle" /\ scan' = NoScan BY <1>9 DEF Return
    <2>2. FolderOK' BY <1>1, <1>2, <2>1 DEF FolderOK, Unmarked
    <2>3. CursorOK' BY <1>2, <1>4, <2>1 DEF CursorOK
    <2>4. VersionsOK' BY <1>5, <2>1 DEF VersionsOK, Swapping
    <2>5. HostOK' BY <1>1, <1>9, RefusedHost
    <2>6. PartsOK' BY <1>5, <2>1 DEF PartsOK, Calling, AtRest, NonePartial
    <2>7. CopiesOK' /\ CollectOK' BY <2>1 DEF CopiesOK, CollectOK, GcPcs
    <2> QED BY <2>2, <2>3, <2>4, <2>5, <2>6, <2>7 DEF FilesOK
  <1> QED BY <1>7, <1>8, <1>9 DEF GcDone

-----------------------------------------------------------------------------
(***************************************************************************)
(* The invariant.                                                          *)
(***************************************************************************)
LEMMA IdleFiles == ASSUME FInv, UNCHANGED vars PROVE FInv'
  <1>1. UNCHANGED <<pages, stale, gc, lastWritten, pc, req, cur, tgt, old, scan, xfer, reply, suspect>>
    BY DEF vars
  <1>2. PInv' BY NextKeeps, PartialKeeps DEF FInv, PInv
  <1>3. (pc # "stray" => FilesOK) /\ Unspoiled' BY <1>1 DEF FInv, Unspoiled
  <1>4. FolderOK => FolderOK' BY <1>1 DEF FolderOK, Unmarked
  <1>5. CursorOK => CursorOK' BY <1>1 DEF CursorOK
  <1>6. VersionsOK => VersionsOK' BY <1>1 DEF VersionsOK, Swapping
  <1>7. CopiesOK => CopiesOK' BY <1>1 DEF CopiesOK, Kept, InArea
  <1>8. HostOK => HostOK' BY <1>1 DEF HostOK, Calling, AtRest
  <1>9. PartsOK => PartsOK' BY <1>1 DEF PartsOK, Calling, AtRest, Remaining
  <1>10. CollectOK => CollectOK'
    BY <1>1 DEF CollectOK, Collects, CopiesBack, Refilled, GcFilled, Behind
  <1> QED BY <1>1, <1>2, <1>3, <1>4, <1>5, <1>6, <1>7, <1>8, <1>9, <1>10 DEF FInv, FilesOK

LEMMA InitFiles == Init => FInv
  <1> SUFFICES ASSUME Init PROVE FInv OBVIOUS
  <1>1. PInv BY InitIInv DEF PInv, PartialOK, Init
  <1>2. \A p \in 1 .. NPages : pages[p].st = "NEW" /\ pages[p].recs = <<>> /\ ~pages[p].end
    BY DEF Init, BlankFolder, BlankPage
  <1>3. \A a : ~IsRec(pages, a) BY <1>2 DEF Init, BlankFolder, IsRec
  <1>4. /\ pc = "idle" /\ lastWritten = NoAddr /\ scan = NoScan /\ xfer = {} /\ suspect = {}
    BY DEF Init
  <1>5. FolderOK BY <1>2, <1>4 DEF FolderOK, Marks, Lined, Unmarked
  <1>6. CursorOK BY <1>4 DEF CursorOK
  <1>7. VersionsOK BY <1>3, <1>4 DEF VersionsOK, Swapping, Single, Live
  <1>8. HostOK /\ CopiesOK BY <1>4 DEF HostOK, CopiesOK, Calling, AtRest, GcPcs
  <1>9. PartsOK BY <1>3, <1>4 DEF PartsOK, Calling, AtRest, Partial
  <1>10. CollectOK BY <1>4 DEF CollectOK
  <1>11. Unspoiled BY DEF Init, Unspoiled
  <1> QED BY <1>1, <1>4, <1>5, <1>6, <1>7, <1>8, <1>9, <1>10, <1>11 DEF FInv, FilesOK

LEMMA CommandFiles == ASSUME FInv, CleanUse, Command PROVE FilesOK' /\ suspect' = {}
  <1>1. suspect' = {} BY DEF FInv, Command, CallWrite, CallPart, ReadFile, EraseChip
  <1>2. CASE \E id \in WriteIds, file \in Files : CallWrite(id, file)
    <2>1. PICK id \in Ids, file \in Files : CallWrite(id, file) BY <1>2, HostAssumption
    <2> QED BY <1>1, <2>1, CallWriteFiles
  <1>3. CASE \E id \in PartIds, file \in Files : CallPart(id, file)
    <2>1. PICK id \in Ids, file \in Files : CallPart(id, file) BY <1>3, HostAssumption
    <2> QED BY <1>1, <2>1, CallPartFiles
  <1>4. CASE \E id \in Ids : ReadFile(id)
    <2>1. PICK id \in Ids : ReadFile(id) BY <1>4
    <2> QED BY <1>1, <2>1, ReadFileFiles
  <1>5. CASE EraseChip BY <1>1, <1>5, EraseChipFiles
  <1> QED BY <1>2, <1>3, <1>4, <1>5 DEF Command

LEMMA CollectionFiles ==
  ASSUME FInv, Collect, IsFolder(pages'), pc' # "stray"
  PROVE  FilesOK' /\ suspect' = {}
  <1>1. suspect = {} BY DEF FInv
  <1>2. suspect' = suspect
    BY DEF Collect, GcObsolete, GcErase, GcMove, GcNextPage, GcCopyBack, BackCopy, GcResume,
           GcDone
  <1>3. CASE GcObsolete \/ GcErase BY <1>1, <1>2, <1>3, GcObsoleteFiles, GcEraseFiles
  <1>4. CASE GcMove \/ GcNextPage BY <1>1, <1>2, <1>4, GcMoveFiles, GcNextPageFiles
  <1>5. CASE GcCopyBack \/ BackCopy BY <1>1, <1>2, <1>5, GcCopyBackFiles, BackCopyFiles
  <1>6. CASE GcResume \/ GcDone BY <1>1, <1>2, <1>6, GcResumeFiles, GcDoneFiles
  <1> QED BY <1>1, <1>2, <1>3, <1>4, <1>5, <1>6 DEF Collect

\* Nothing is programmed over what an erase has left, for nothing is.
LEMMA NoOverprogram == ASSUME FInv PROVE ~Overprogram
  <1>1. IInv /\ DOMAIN pages = 1 .. NPages BY Folder
  <1>2. \A p \in 1 .. NPages : stale[p] = {} BY DEF FInv, Unspoiled, NoneStale
  <1>3. ASSUME pc = "header" PROVE BlankAhead(HeaderAdded, stale)
    BY <1>1, <1>2, <1>3, HeaderFolder, PageOf DEF BlankAhead
  <1>4. ASSUME NEW d \in 1 .. NPages PROVE BlankAhead(CopiedTo(d), stale)
    BY <1>1, <1>2 DEF BlankAhead, CopiedTo
  <1> QED BY <1>3, <1>4 DEF Overprogram

LEMMA WorkFiles ==
  ASSUME FInv, Work, IsFolder(pages'), pc' # "stray"
  PROVE  FilesOK' /\ suspect' = {}
  <1>1. suspect = {} BY DEF FInv
  <1>2. CASE FindRoom \/ FindFull \/ EndMark \/ FindNone
    <2>1. suspect' = suspect BY <1>2 DEF FindRoom, FindFull, EndMark, FindNone
    <2> QED BY <1>1, <1>2, <2>1, FindRoomFiles, FindFullFiles, EndMarkFiles, FindNoneFiles
  <1>3. CASE WriteHeader \/ WriteData
    <2>1. suspect' = suspect BY <1>3 DEF WriteHeader, WriteData
    <2> QED BY <1>1, <1>3, <2>1, WriteHeaderFiles, WriteDataFiles
  <1>4. CASE RetireReplaced \/ RetireForParts \/ Activate
    <2>1. suspect' = suspect BY <1>4 DEF RetireReplaced, RetireForParts, Activate
    <2> QED BY <1>1, <1>4, <2>1, RetireReplacedFiles, RetireForPartsFiles, ActivateFiles
  <1>5. CASE Collect BY <1>5, CollectionFiles
  <1> QED BY <1>2, <1>3, <1>4, <1>5, NoOverprogram DEF Work

LEMMA StaysUnspoiled == ASSUME FInv, CleanUse, [Next]_vars PROVE Unspoiled'
  <1>1. Unspoiled /\ pc # "spoiled" BY DEF FInv, Unspoiled
  <1>2. CASE Command
    BY <1>1, <1>2 DEF Unspoiled, Command, CallWrite, CallPart, Begin, ReadFile, EraseChip
  <1>3. CASE FindRoom \/ FindFull \/ EndMark \/ FindNone
    BY <1>1, <1>3 DEF Unspoiled, FindRoom, FindFull, EndMark, FindNone
  <1>4. CASE WriteHeader \/ WriteData \/ RetireReplaced \/ RetireForParts \/ Activate
    BY <1>1, <1>4
       DEF Unspoiled, WriteHeader, WriteData, RetireReplaced, RetireForParts, Activate, Return
  <1>5. CASE Collect
    <2>1. pc' # "spoiled"
      BY <1>1, <1>5 DEF Collect, GcObsolete, GcErase, GcMove, GcNextPage, GcCopyBack, BackCopy,
                        GcResume, GcDone, Return
    <2>2. stale' = stale \/ \E p : stale' = [stale EXCEPT ![p] = {}]
      BY <1>5 DEF Collect, GcObsolete, GcErase, GcMove, GcNextPage, GcCopyBack, BackCopy,
                  GcResume, GcDone
    <2> QED BY <1>1, <2>1, <2>2 DEF Unspoiled, NoneStale
  <1>6. CASE DriverFails BY <1>6 DEF DriverFails, CleanUse
  <1>7. CASE Crash BY <1>1, <1>7 DEF Crash, CleanUse, EraseCut, ErasesPage, Unspoiled
  <1>8. CASE Restart BY <1>1, <1>8 DEF Restart, Unspoiled
  <1>9. CASE UNCHANGED vars BY <1>1, <1>9 DEF vars, Unspoiled
  <1> QED BY <1>2, <1>3, <1>4, <1>5, <1>6, <1>7, <1>8, <1>9, NoOverprogram DEF Next, Work

\* Nothing goes on after a stray write.
LEMMA FInvStep == ASSUME FInv, CleanUse, [Next]_vars PROVE FInv'
  <1>1. PInv' /\ IsFolder(pages') /\ Unspoiled'
    BY NextKeeps, PartialKeeps, StaysUnspoiled DEF FInv, PInv, IInv
  <1>2. CASE Command BY <1>1, <1>2, CommandFiles DEF FInv
  <1>3. CASE Work
    <2>1. suspect' = {}
      BY <1>3, NoOverprogram DEF FInv, Work, FindRoom, FindFull, EndMark, FindNone, WriteHeader, WriteData,
                  RetireReplaced, RetireForParts, Activate, Collect, GcObsolete, GcErase,
                  GcMove, GcNextPage, GcCopyBack, BackCopy, GcResume, GcDone
    <2> QED BY <1>1, <1>3, <2>1, WorkFiles DEF FInv
  <1>4. CASE DriverFails BY <1>4 DEF DriverFails, CleanUse
  <1>5. CASE Crash BY <1>1, <1>5, CrashFiles DEF FInv
  <1>6. CASE Restart
    <2>1. suspect' = suspect BY <1>6 DEF Restart
    <2> QED BY <1>1, <1>6, <2>1, RestartFiles DEF FInv
  <1>7. CASE UNCHANGED vars BY <1>7, IdleFiles
  <1> QED BY <1>2, <1>3, <1>4, <1>5, <1>6, <1>7 DEF Next

\* The folder is filled from its first page, each file has one version, the
\* parts of a file go into one record, and a collection never needs more
\* pages than it has erased.
THEOREM FilesInvariance == CleanUse => (Spec => []FInv)
  <1> SUFFICES ASSUME CleanUse PROVE Spec => []FInv OBVIOUS
  <1>1. Init => FInv BY InitFiles
  <1>2. FInv /\ [Next]_vars => FInv' BY FInvStep
  <1> QED BY <1>1, <1>2, PTL DEF Spec

-----------------------------------------------------------------------------
(***************************************************************************)
(* What the invariant says of the files.                                   *)
(***************************************************************************)
\* Between calls no file has two ACTIVE versions: the call that replaces a
\* file retires the version it found, which is the only one, and a collection
\* leaves no copy behind.
THEOREM OneVersionHolds == CleanUse => (Spec => []OneVersion)
  <1> SUFFICES ASSUME CleanUse PROVE Spec => []OneVersion OBVIOUS
  <1>1. FInv => OneVersion
    <2> SUFFICES ASSUME FInv, pc = "idle", NEW id \in Ids
                 PROVE  Cardinality(ActiveOf(id)) <= 1
      BY DEF OneVersion
    <2> DEFINE S == ActiveOf(id)
    <2>1. Single(pages, id) BY DEF FInv, FilesOK, VersionsOK, Swapping
    <2>2. \A a \in S : Live(pages, a, id) BY Records, Folder DEF ActiveOf, Live
    <2> HIDE DEF S
    <2>3. CASE S = {}
      <3>1. Cardinality(S) = 0 BY <2>3, FS_EmptySet
      <3> QED BY <3>1 DEF S
    <2>4. CASE S # {}
      <3>1. PICK a : a \in S BY <2>4
      <3>2. S = {a} BY <2>1, <2>2, <3>1 DEF Single
      <3>3. Cardinality(S) = 1 BY <3>2, FS_Singleton
      <3> QED BY <3>3 DEF S
    <2> QED BY <2>3, <2>4
  <1> QED BY <1>1, FilesInvariance, PTL

\* Between calls a search comes by every ACTIVE file: none is in a page
\* marked OBSOLETE or behind a page whose walk ends at a blank header.
THEOREM NoHiddenFileHolds == CleanUse => (Spec => []NoHiddenFile)
  <1> SUFFICES ASSUME CleanUse PROVE Spec => []NoHiddenFile OBVIOUS
  <1>1. FInv => NoHiddenFile
    <2> SUFFICES ASSUME FInv, pc = "idle", NEW id \in Ids, NEW a \in ActiveOf(id)
                 PROVE  a \in Visible(pages)
      BY DEF NoHiddenFile
    <2>1. Live(pages, a, id) BY Records, Folder DEF ActiveOf, Live
    <2>2. Marks(pages, 0) /\ Lined(pages)
      BY DEF FInv, FilesOK, FolderOK, Unmarked, GcPcs
    <2> QED BY <2>1, <2>2, LiveVisible, Folder
  <1> QED BY <1>1, FilesInvariance, PTL

\* With a GC area of one page nothing of an earlier collection is copied back.
LEMMA NoStrayStep ==
  ASSUME FInv, NoStrayWrite, CleanUse, GPages = 1, [Next]_vars
  PROVE  FInv' /\ NoStrayWrite'
  <1>1. FInv' BY FInvStep
  <1>2. CASE WriteData BY <1>1, <1>2, WriteDataFiles DEF NoStrayWrite
  <1>3. CASE BackCopy
    <2>1. pc = "back" /\ pc' = IF Beyond THEN "stray" ELSE "back" BY <1>3 DEF BackCopy
    <2>2. scan.g \in Nat /\ scan.g >= 1 /\ scan.bg \in Nat
      BY <2>1, GcFacts DEF GcPcs
    <2>3. ~Beyond BY <2>2 DEF Beyond, InUse
    <2> QED BY <1>1, <2>1, <2>3 DEF NoStrayWrite
  <1>4. CASE Command
    BY <1>1, <1>4 DEF NoStrayWrite, Command, CallWrite, CallPart, Begin, ReadFile, EraseChip
  <1>5. CASE FindRoom \/ FindFull \/ EndMark \/ FindNone
    BY <1>1, <1>5 DEF NoStrayWrite, FindRoom, FindFull, EndMark, FindNone
  <1>6. CASE WriteHeader \/ RetireReplaced \/ RetireForParts \/ Activate
    BY <1>1, <1>6 DEF NoStrayWrite, WriteHeader, RetireReplaced, RetireForParts, Activate, Return
  <1>7. CASE GcObsolete \/ GcErase \/ GcMove \/ GcNextPage \/ GcCopyBack
    BY <1>1, <1>7
       DEF NoStrayWrite, GcObsolete, GcErase, GcMove, GcNextPage, GcCopyBack
  <1>8. CASE GcResume \/ GcDone BY <1>1, <1>8 DEF NoStrayWrite, GcResume, GcDone, Return
  <1>9. CASE DriverFails \/ Crash \/ Restart
    BY <1>1, <1>9 DEF NoStrayWrite, DriverFails, Crash, Restart, Return
  <1>10. CASE UNCHANGED vars BY <1>1, <1>10 DEF NoStrayWrite, vars
  <1> QED BY <1>2, <1>3, <1>4, <1>5, <1>6, <1>7, <1>8, <1>9, <1>10, NoOverprogram
          DEF Next, Work, Collect

\* With a GC area of one page no program goes astray: a part fits the record
\* it is added to, and nothing of an earlier collection is copied back.
THEOREM NoStrayWriteHolds == CleanUse /\ GPages = 1 => (Spec => []NoStrayWrite)
  <1> SUFFICES ASSUME CleanUse, GPages = 1 PROVE Spec => []NoStrayWrite OBVIOUS
  <1>1. Init => FInv /\ NoStrayWrite BY InitFiles DEF Init, NoStrayWrite
  <1>2. FInv /\ NoStrayWrite /\ [Next]_vars => FInv' /\ NoStrayWrite' BY NoStrayStep
  <1> QED BY <1>1, <1>2, PTL DEF Spec

\* The search finds the file's one version.
LEMMA LiveIsFound ==
  ASSUME NEW f, IsFolder(f), Lined(f), Marks(f, 0), NEW id, Single(f, id),
         NEW a, Live(f, a, id)
  PROVE  Search(f, id, "ACTIVE") = a
  BY SearchOne

\* The version the call that replaces a file leaves.
LEMMA RetiredLive ==
  ASSUME FInv, RetireReplaced, tgt # NoAddr PROVE Live(pages', tgt, req.id)
  <1>1. /\ pc = "retire" /\ req.op = "write" /\ pages' = RetireAt(pages, old) BY DEF RetireReplaced
  <1>2. req.id \in Ids BY <1>1, RequestType, Folder DEF Calling, AtRest
  <1>3. Swapping(req.id) BY <1>1 DEF Swapping
  <1>4. /\ Live(pages, tgt, req.id)
        /\ old # NoAddr => Live(pages, old, req.id) /\ old # tgt
    BY <1>1, <1>2, <1>3 DEF FInv, FilesOK, VersionsOK
  <1>5. Retired(pages, pages', old)
    <2>1. old = NoAddr \/ IsRec(pages, old) BY <1>4 DEF Live
    <2> QED BY <1>1, <2>1, RetireAtView, Folder
  <1>6. tgt # old BY <1>4, AddrNotNone, Folder DEF Live
  <1> QED BY <1>4, <1>5, <1>6 DEF Retired

LEMMA ActivatedLive == ASSUME FInv, Activate PROVE Live(pages', tgt, req.id)
  <1>1. pc = "activate" /\ pages' = SetStatus(pages, tgt, "ACTIVE") BY DEF Activate
  <1>2. Partial(pages, tgt)
    BY <1>1, Records, Folder DEF FInv, PInv, PartialOK, Partial
  <1>3. At(pages, tgt).id = req.id BY <1>1 DEF FInv, FilesOK, PartsOK
  <1>4. "ACTIVE" \in FileStatus /\ IsRec(pages, tgt) BY <1>2 DEF FileStatus, Partial
  <1>5. /\ \A b : IsRec(pages', b) <=> IsRec(pages, b)
        /\ At(pages', tgt).st = "ACTIVE" /\ At(pages', tgt).id = At(pages, tgt).id
    BY <1>1, <1>4, StatusView, Folder
  <1> QED BY <1>3, <1>4, <1>5 DEF Live

\* The address a completed write leaves in last_written_address is the one
\* the next search for the file finds.
THEOREM LastWrittenIsFoundHolds == CleanUse => (Spec => LastWrittenIsFound)
  <1> SUFFICES ASSUME CleanUse PROVE Spec => LastWrittenIsFound OBVIOUS
  <1> DEFINE Ends == /\ pc \notin AtRest /\ pc' = "idle"
                     /\ ~MoreParts /\ reply' \in {"success", "not_found"}
                     /\ req.id \notin suspect
             Found == lastWritten' = Search(pages', req.id, "ACTIVE")
  <1>1. ASSUME FInv, FInv', [Next]_vars, Ends PROVE Found
    <2>1. /\ pc \notin AtRest /\ pc' = "idle" /\ ~MoreParts
          /\ reply' \in {"success", "not_found"}
      BY <1>1
    <2>7. pc \notin {"idle", "down", "spoiled"} BY <2>1 DEF AtRest
    <2>8. ~Overprogram BY <1>1, NoOverprogram
    <2>2. \/ RetireReplaced /\ tgt # NoAddr
          \/ Activate
      <3>1. ~Command BY <2>7 DEF Command, CallWrite, CallPart, ReadFile, EraseChip
      <3>2. ~(FindRoom \/ FindFull \/ EndMark \/ FindNone \/ WriteHeader \/ RetireForParts)
        BY <2>1 DEF FindRoom, FindFull, EndMark, FindNone, WriteHeader, RetireForParts
      <3>3. ~WriteData BY <2>1 DEF WriteData, Return
      <3>4. ~(GcObsolete \/ GcErase \/ GcMove \/ GcNextPage \/ GcCopyBack \/ BackCopy \/ GcResume)
        BY <2>1 DEF GcObsolete, GcErase, GcMove, GcNextPage, GcCopyBack, BackCopy, GcResume,
                    LooksIntoPage, Collecting
      <3>5. ~GcDone BY <2>1 DEF GcDone, Return
      <3>6. ~(DriverFails \/ Crash \/ Restart)
        BY <2>1, <2>7 DEF DriverFails, CleanUse, Crash, Restart
      <3>7. ~(UNCHANGED vars) BY <2>1, <2>7 DEF vars
      <3>8. RetireReplaced => tgt # NoAddr BY <2>1 DEF RetireReplaced, Return
      <3> QED BY <1>1, <3>1, <3>2, <3>3, <3>4, <3>5, <3>6, <3>7, <3>8, <2>8
           DEF Next, Work, Collect
    <2>3. Live(pages', tgt, req.id) BY <1>1, <2>2, RetiredLive, ActivatedLive
    <2>4. lastWritten' = tgt
      <3>1. CASE RetireReplaced /\ tgt # NoAddr
        <4>1. /\ pc = "retire" /\ req.op = "write" /\ lastWritten' = lastWritten
          BY <3>1 DEF RetireReplaced
        <4>2. req.id \in Ids BY <1>1, <4>1, RequestType, Folder DEF Calling, AtRest
        <4> QED BY <1>1, <3>1, <4>1, <4>2 DEF FInv, FilesOK, VersionsOK, Swapping
      <3>2. CASE Activate BY <3>2 DEF Activate
      <3> QED BY <2>2, <3>1, <3>2
    <2>5. req.id \in Ids
      <3>1. Calling BY <2>1 DEF Calling
      <3> QED BY <1>1, <3>1, RequestType, Folder
    <2>6. /\ IsFolder(pages') /\ Marks(pages', 0) /\ Lined(pages') /\ Single(pages', req.id)
      BY <1>1, <2>1, <2>5
         DEF FInv, PInv, IInv, FilesOK, FolderOK, Unmarked, GcPcs, VersionsOK, Swapping
    <2> QED BY <2>3, <2>4, <2>6, LiveIsFound
  <1>2. FInv /\ FInv' /\ [Next]_vars => [Ends => Found]_vars BY <1>1
  <1> QED BY <1>2, FilesInvariance, PTL DEF Spec, LastWrittenIsFound

\* NO_SPACE is answered only when every page holds a file that is in use: a
\* collection never loses the space it has made.
THEOREM RefusedOnlyWhenFullHolds == CleanUse => (Spec => RefusedOnlyWhenFull)
  <1> SUFFICES ASSUME CleanUse PROVE Spec => RefusedOnlyWhenFull OBVIOUS
  <1> DEFINE Refuses == pc = "back" /\ pc' \in {"retire", "idle"}
             Full == \A p \in 1 .. NPages : HoldsLive(pages[p])
  <1>1. ASSUME FInv, [Next]_vars, Refuses PROVE Full
    <2>1. GcDone
      <3>1. ~Command BY <1>1 DEF Command, CallWrite, CallPart, ReadFile, EraseChip
      <3>2. ~(FindRoom \/ FindFull \/ EndMark \/ FindNone \/ WriteHeader \/ WriteData
                \/ RetireReplaced \/ RetireForParts \/ Activate)
        BY <1>1 DEF FindRoom, FindFull, EndMark, FindNone, WriteHeader, WriteData,
                    RetireReplaced, RetireForParts, Activate
      <3>3. ~(GcObsolete \/ GcErase \/ GcMove \/ GcNextPage \/ GcCopyBack \/ BackCopy \/ GcResume)
        BY <1>1 DEF GcObsolete, GcErase, GcMove, GcNextPage, GcCopyBack, BackCopy, GcResume,
                    LooksIntoPage, Collecting
      <3>4. ~(DriverFails \/ Crash \/ Restart)
        BY <1>1 DEF DriverFails, CleanUse, Crash, Restart
      <3>5. ~(UNCHANGED vars) BY <1>1 DEF vars
      <3> QED BY <1>1, <3>1, <3>2, <3>3, <3>4, <3>5, NoOverprogram DEF Next, Work, Collect
    <2>2. FreshPages(pages) = {} BY <1>1, <2>1 DEF GcDone
    <2>3. PICK k \in 0 .. NPages : \A q \in 1 .. NPages :
              /\ q <= k => HasActive(pages[q])
              /\ q > k => pages[q] = BlankPage
      BY <1>1, <2>1, FolderCollected
    <2>4. ASSUME NEW p \in 1 .. NPages PROVE HoldsLive(pages[p])
      <3>1. pages[p].st # "NEW" BY <1>1, <2>2, Folder DEF FreshPages
      <3>2. ~(p > k) BY <2>3, <3>1 DEF BlankPage
      <3>3. p <= k BY <3>2, Folder, <1>1
      <3>4. HasActive(pages[p]) BY <2>3, <3>3
      <3> QED BY <3>4 DEF HasActive, HoldsLive
    <2> QED BY <2>4
  <1>2. FInv /\ [Next]_vars => [Refuses => Full]_vars BY <1>1
  <1> QED BY <1>2, FilesInvariance, PTL DEF Spec, RefusedOnlyWhenFull
=============================================================================
