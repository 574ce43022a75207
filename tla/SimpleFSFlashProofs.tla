------------------------ MODULE SimpleFSFlashProofs ------------------------
(***************************************************************************)
(* That every step of SimpleFS is one the flash can do: without an erase   *)
(* bits are only cleared.                                                  *)
(***************************************************************************)
EXTENDS SimpleFSProofs

(***************************************************************************)
(* Programs that move a page forward.                                      *)
(***************************************************************************)
LEMMA FileRanks ==
  /\ \A st \in FileStatus : FileRank(st) \in {1, 2, 3}
  /\ FileRank("PARTIAL") = 1 /\ FileRank("ACTIVE") = 2 /\ FileRank("OLD") = 3
  BY DEF FileStatus, FileRank

LEMMA PageRanks ==
  /\ \A st \in PageStatus : PageRank(st) \in {0, 1, 2, 3}
  /\ PageRank("NEW") = 0 /\ PageRank("ACTIVE") = 1
  /\ PageRank("OLD") = 2 /\ PageRank("OBSOLETE") = 3
  BY DEF PageStatus, PageRank

LEMMA GoodParts ==
  ASSUME NEW pg, Good(pg)
  PROVE  /\ pg.st \in PageStatus /\ pg.end \in BOOLEAN /\ pg.recs \in Seq(Record)
         /\ Len(pg.recs) \in Nat /\ DOMAIN pg.recs = 1 .. Len(pg.recs)
         /\ \A i \in DOMAIN pg.recs : pg.recs[i] \in Record
  BY DEF Good, Page

LEMMA OnlyClearsSame == \A r \in Record : OnlyClears(r, r)
  BY FileRanks DEF OnlyClears, Record

LEMMA OnlyClearsTransitive ==
  ASSUME NEW r \in Record, NEW s \in Record, NEW t \in Record,
         OnlyClears(r, s), OnlyClears(s, t)
  PROVE  OnlyClears(r, t)
  <1>1. FileRank(r.st) <= FileRank(t.st)
    <2>1. r.st \in FileStatus /\ s.st \in FileStatus /\ t.st \in FileStatus BY DEF Record
    <2>2. FileRank(r.st) <= FileRank(s.st) /\ FileRank(s.st) <= FileRank(t.st)
      BY DEF OnlyClears
    <2>3. FileRank(r.st) \in Int /\ FileRank(s.st) \in Int /\ FileRank(t.st) \in Int
      BY <2>1, FileRanks
    <2> QED BY <2>2, <2>3
  <1>2. r.id = t.id /\ r.off = t.off /\ r.crc = t.crc /\ Len(r.data) = Len(t.data)
    BY DEF OnlyClears
  <1>3. DOMAIN r.data = DOMAIN s.data
    <2>1. r.data \in Seq(Cells) /\ s.data \in Seq(Cells) /\ Len(r.data) = Len(s.data)
      BY DEF Record, OnlyClears
    <2> QED BY <2>1
  <1>4. ASSUME NEW k \in DOMAIN r.data
        PROVE  r.data[k] \in {Blank, t.data[k]} \/ t.data[k] = Mixed
    <2>1. r.data[k] \in {Blank, s.data[k]} \/ s.data[k] = Mixed BY DEF OnlyClears
    <2>2. s.data[k] \in {Blank, t.data[k]} \/ t.data[k] = Mixed BY <1>3 DEF OnlyClears
    <2> QED BY <2>1, <2>2, CellsAssumption
  <1> QED BY <1>1, <1>2, <1>4 DEF OnlyClears

LEMMA ForwardSame == \A pg : Good(pg) => Forward(pg, pg)
  <1> SUFFICES ASSUME NEW pg, Good(pg) PROVE Forward(pg, pg) OBVIOUS
  <1>1. PageRank(pg.st) <= PageRank(pg.st) BY GoodParts, PageRanks
  <1> QED BY <1>1, GoodParts, OnlyClearsSame DEF Forward

LEMMA ForwardTransitive ==
  ASSUME NEW f, NEW g, NEW h, Good(f), Good(g), Good(h), Forward(f, g), Forward(g, h)
  PROVE  Forward(f, h)
  <1>1. PageRank(f.st) <= PageRank(h.st)
    <2>1. PageRank(f.st) \in Int /\ PageRank(g.st) \in Int /\ PageRank(h.st) \in Int
      BY GoodParts, PageRanks
    <2>2. PageRank(f.st) <= PageRank(g.st) /\ PageRank(g.st) <= PageRank(h.st) BY DEF Forward
    <2> QED BY <2>1, <2>2
  <1>2. /\ Len(f.recs) \in Nat /\ Len(g.recs) \in Nat /\ Len(h.recs) \in Nat
        /\ Len(f.recs) <= Len(g.recs) /\ Len(g.recs) <= Len(h.recs)
    BY GoodParts DEF Forward
  <1>3. ASSUME NEW i \in DOMAIN f.recs PROVE OnlyClears(f.recs[i], h.recs[i])
    <2>1. i \in DOMAIN g.recs /\ i \in DOMAIN h.recs BY <1>2, GoodParts
    <2>2. f.recs[i] \in Record /\ g.recs[i] \in Record /\ h.recs[i] \in Record
      BY <2>1, GoodParts
    <2>3. OnlyClears(f.recs[i], g.recs[i]) /\ OnlyClears(g.recs[i], h.recs[i])
      BY <2>1 DEF Forward
    <2> QED BY <2>2, <2>3, OnlyClearsTransitive
  <1>4. f.end => h.end /\ Len(f.recs) = Len(h.recs) BY DEF Forward
  <1> QED BY <1>1, <1>2, <1>3, <1>4 DEF Forward

LEMMA StatusForward ==
  ASSUME NEW pg, Good(pg), NEW st, PageRank(pg.st) <= PageRank(st)
  PROVE  Forward(pg, [pg EXCEPT !.st = st])
  <1> DEFINE new == [pg EXCEPT !.st = st]
  <1>1. new.st = st /\ new.recs = pg.recs /\ new.end = pg.end BY DEF Good, Page
  <1> HIDE DEF new
  <1> QED BY <1>1, GoodParts, OnlyClearsSame DEF Forward

LEMMA EndForward ==
  ASSUME NEW pg, Good(pg) PROVE Forward(pg, [pg EXCEPT !.end = TRUE])
  <1> DEFINE new == [pg EXCEPT !.end = TRUE]
  <1>1. new.st = pg.st /\ new.recs = pg.recs /\ new.end = TRUE BY DEF Good, Page
  <1>2. PageRank(pg.st) <= PageRank(pg.st) BY GoodParts, PageRanks
  <1> HIDE DEF new
  <1> QED BY <1>1, <1>2, GoodParts, OnlyClearsSame DEF Forward

LEMMA AppendForward ==
  ASSUME NEW pg, Good(pg), ~pg.end, NEW r \in Record
  PROVE  Forward(pg, [pg EXCEPT !.recs = Append(@, r)])
  <1> DEFINE new == [pg EXCEPT !.recs = Append(@, r)]
  <1>1. new.st = pg.st /\ new.recs = Append(pg.recs, r) BY DEF Good, Page
  <1>2. /\ Len(new.recs) = Len(pg.recs) + 1
        /\ \A i \in DOMAIN pg.recs : new.recs[i] = pg.recs[i]
    BY <1>1, GoodParts
  <1>3. PageRank(pg.st) <= PageRank(pg.st) BY GoodParts, PageRanks
  <1> HIDE DEF new
  <1> QED BY <1>1, <1>2, <1>3, GoodParts, OnlyClearsSame DEF Forward

LEMMA ReplaceForward ==
  ASSUME NEW pg, Good(pg), NEW i \in DOMAIN pg.recs, NEW r, OnlyClears(pg.recs[i], r)
  PROVE  Forward(pg, [pg EXCEPT !.recs = [@ EXCEPT ![i] = r]])
  <1> DEFINE new == [pg EXCEPT !.recs = [@ EXCEPT ![i] = r]]
  <1>1. new.st = pg.st /\ new.end = pg.end /\ new.recs = [pg.recs EXCEPT ![i] = r]
    BY DEF Good, Page
  <1>2. /\ Len(new.recs) = Len(pg.recs)
        /\ \A j \in DOMAIN pg.recs : new.recs[j] = IF j = i THEN r ELSE pg.recs[j]
    BY <1>1, GoodParts
  <1>3. PageRank(pg.st) <= PageRank(pg.st) BY GoodParts, PageRanks
  <1> HIDE DEF new
  <1> QED BY <1>1, <1>2, <1>3, GoodParts, OnlyClearsSame DEF Forward

\* A blank page may become anything.
LEMMA BlankForward ==
  ASSUME NEW pg, Good(pg), pg.st = "NEW", NEW new, Good(new) PROVE Forward(pg, new)
  <1>1. pg.recs = <<>> /\ ~pg.end BY DEF Good, WellFormed, MarksAgree
  <1>2. Len(pg.recs) = 0 /\ DOMAIN pg.recs = {} BY <1>1, GoodParts
  <1>3. PageRank(pg.st) <= PageRank(new.st) BY GoodParts, PageRanks
  <1> QED BY <1>1, <1>2, <1>3, GoodParts DEF Forward

-----------------------------------------------------------------------------
(***************************************************************************)
(* The same of a folder.                                                   *)
(***************************************************************************)
AllForward(f, g) == \A p \in 1 .. NPages : Forward(f[p], g[p])

LEMMA FolderSame == \A f : IsFolder(f) => AllForward(f, f)
  BY PageOf, ForwardSame DEF AllForward

LEMMA FolderTransitive ==
  ASSUME NEW f, NEW g, NEW h, IsFolder(f), IsFolder(g), IsFolder(h),
         AllForward(f, g), AllForward(g, h)
  PROVE  AllForward(f, h)
  <1> SUFFICES ASSUME NEW p \in 1 .. NPages PROVE Forward(f[p], h[p]) BY DEF AllForward
  <1>1. Good(f[p]) /\ Good(g[p]) /\ Good(h[p]) BY PageOf
  <1>2. Forward(f[p], g[p]) /\ Forward(g[p], h[p]) BY DEF AllForward
  <1> QED BY <1>1, <1>2, ForwardTransitive

LEMMA PutForward ==
  ASSUME NEW f, IsFolder(f), NEW p \in 1 .. NPages, NEW pg, Forward(f[p], pg)
  PROVE  AllForward(f, [f EXCEPT ![p] = pg])
  <1> SUFFICES ASSUME NEW q \in 1 .. NPages PROVE Forward(f[q], [f EXCEPT ![p] = pg][q])
    BY DEF AllForward
  <1>1. DOMAIN f = 1 .. NPages /\ Good(f[q]) BY PageOf
  <1>2. CASE q = p BY <1>1, <1>2
  <1>3. CASE q # p BY <1>1, <1>3, ForwardSame
  <1> QED BY <1>2, <1>3

LEMMA SweepForward == ASSUME NEW f, IsFolder(f), NEW a PROVE AllForward(f, Sweep(f, a))
  <1> SUFFICES ASSUME NEW p \in 1 .. NPages PROVE Forward(f[p], Sweep(f, a)[p])
    BY DEF AllForward
  <1>1. Good(f[p]) BY PageOf
  <1>2. Sweep(f, a)[p] = f[p] \/ Sweep(f, a)[p] = [f[p] EXCEPT !.st = "OBSOLETE"]
    BY PageOf DEF Sweep
  <1>3. PageRank(f[p].st) <= PageRank("OBSOLETE") BY <1>1, GoodParts, PageRanks
  <1> QED BY <1>1, <1>2, <1>3, ForwardSame, StatusForward

LEMMA RecordType ==
  ASSUME NEW f, IsFolder(f), NEW a, IsRecord(f, a)
  PROVE  /\ a[1] \in 1 .. NPages /\ Good(f[a[1]])
         /\ a[2] \in DOMAIN f[a[1]].recs /\ At(f, a) \in Record
         /\ At(f, a) = f[a[1]].recs[a[2]]
  BY PageOf, GoodParts DEF IsRecord, At

LEMMA SetStatusForward ==
  ASSUME NEW f, IsFolder(f), NEW a, IsRecord(f, a), NEW st \in FileStatus,
         FileRank(At(f, a).st) <= FileRank(st)
  PROVE  AllForward(f, SetStatus(f, a, st))
  <1> DEFINE pg == f[a[1]]
             r  == [At(f, a) EXCEPT !.st = st]
             q  == [pg EXCEPT !.recs = [@ EXCEPT ![a[2]] = r]]
  <1>1. a[1] \in 1 .. NPages /\ Good(pg) /\ a[2] \in DOMAIN pg.recs /\ At(f, a) \in Record
    BY RecordType
  <1>2. /\ r.st = st /\ r.id = At(f, a).id /\ r.off = At(f, a).off
        /\ r.crc = At(f, a).crc /\ r.data = At(f, a).data
    BY <1>1 DEF Record
  <1>3. OnlyClears(pg.recs[a[2]], r)
    BY <1>1, <1>2, RecordType DEF OnlyClears
  <1>4. Forward(pg, q)
    <2> HIDE DEF r
    <2> QED BY <1>1, <1>3, ReplaceForward
  <1>5. SetStatus(f, a, st) = [f EXCEPT ![a[1]] = q] BY DEF SetStatus, At
  <1>6. \A g : Forward(pg, g) => AllForward(f, [f EXCEPT ![a[1]] = g]) BY <1>1, PutForward
  <1> HIDE DEF q
  <1> QED BY <1>4, <1>5, <1>6

LEMMA RetireForward ==
  ASSUME NEW f, IsFolder(f), NEW a, a = NoAddr \/ IsRecord(f, a)
  PROVE  AllForward(f, RetireAt(f, a))
  <1>1. CASE a = NoAddr BY <1>1, FolderSame DEF RetireAt
  <1>2. CASE a # NoAddr
    <2>1. At(f, a).st \in FileStatus BY <1>2, RecordType DEF Record
    <2>2. FileRank(At(f, a).st) <= FileRank("OLD") /\ "OLD" \in FileStatus
      BY <2>1, FileRanks DEF FileStatus
    <2> QED BY <1>2, <2>2, SetStatusForward DEF RetireAt
  <1> QED BY <1>1, <1>2

LEMMA SweptRetired ==
  ASSUME NEW f, IsFolder(f), NEW id, NEW st
  PROVE  LET v == Search(f, id, st) IN AllForward(f, RetireAt(Sweep(f, v), v))
  <1> DEFINE v == Search(f, id, st)
             g == Sweep(f, v)
  <1>1. IsFolder(g) /\ (v = NoAddr \/ IsRecord(g, v)) BY SweepSearch
  <1>2. AllForward(f, g) BY SweepForward
  <1>3. IsFolder(RetireAt(g, v)) BY <1>1, RetireAtFolder
  <1>4. AllForward(g, RetireAt(g, v))
    <2> HIDE DEF g, v
    <2> QED BY <1>1, RetireForward
  <1> HIDE DEF g, v
  <1>5. AllForward(f, RetireAt(g, v)) BY <1>1, <1>2, <1>3, <1>4, FolderTransitive
  <1> QED BY <1>5 DEF g, v

LEMMA RetireOldForward ==
  ASSUME NEW f, IsFolder(f) PROVE AllForward(f, RetireOld(f))
  BY SweptRetired DEF RetireOld

\* Cells programmed twice are Mixed.
LEMMA ProgramClears ==
  ASSUME NEW data \in Seq(Cells), NEW s \in Nat, NEW d \in Seq(Vals), NEW k \in DOMAIN data
  PROVE  LET new == ProgramAt(data, s, d)
         IN  data[k] \in {Blank, new[k]} \/ new[k] = Mixed
  BY DEF ProgramAt, Program

LEMMA PayloadForward ==
  ASSUME IInv, pc = "data", PayloadStart >= 0, NEW k \in 0 .. req.n
  PROVE  AllForward(pages, WithPayload(k))
  <1> DEFINE data == At(pages, tgt).data
             part == SubSeq(Payload, 1, k)
             new  == ProgramAt(data, PayloadStart, part)
             r    == [At(pages, tgt) EXCEPT !.data = new]
             q    == [pages[tgt[1]] EXCEPT !.recs = [@ EXCEPT ![tgt[2]] = r]]
  <1>1. IsFolder(pages) /\ IsRecord(pages, tgt) BY DEF IInv, CallOK, TargetOK
  <1>2. /\ tgt[1] \in 1 .. NPages /\ Good(pages[tgt[1]])
        /\ tgt[2] \in DOMAIN pages[tgt[1]].recs /\ At(pages, tgt) \in Record
        /\ At(pages, tgt) = pages[tgt[1]].recs[tgt[2]]
    BY <1>1, RecordType
  <1>3. data \in Seq(Cells) BY <1>2 DEF Record
  <1>4. part \in Seq(Vals) /\ PayloadStart \in Nat BY <1>3, PayloadType
  <1>5. Len(new) = Len(data) BY <1>3, <1>4, ProgramAtType
  <1>6. \A c \in DOMAIN data : data[c] \in {Blank, new[c]} \/ new[c] = Mixed
    <2> SUFFICES ASSUME NEW c \in DOMAIN data
                 PROVE  data[c] \in {Blank, new[c]} \/ new[c] = Mixed
      OBVIOUS
    <2> HIDE DEF data, part
    <2> QED BY <1>3, <1>4, ProgramClears
  <1> HIDE DEF new
  <1>7. /\ r.st = At(pages, tgt).st /\ r.id = At(pages, tgt).id /\ r.off = At(pages, tgt).off
        /\ r.crc = At(pages, tgt).crc /\ r.data = new
    BY <1>2 DEF Record
  <1>8. At(pages, tgt).st \in FileStatus BY <1>2 DEF Record
  <1>9. FileRank(At(pages, tgt).st) <= FileRank(At(pages, tgt).st) BY <1>8, FileRanks
  <1>10. OnlyClears(pages[tgt[1]].recs[tgt[2]], r)
    BY <1>2, <1>5, <1>6, <1>7, <1>9 DEF OnlyClears
  <1>11. WithPayload(k) = [pages EXCEPT ![tgt[1]] = q]
    BY DEF WithPayload, At, new
  <1>12. Forward(pages[tgt[1]], q)
    <2> HIDE DEF r
    <2> QED BY <1>2, <1>10, ReplaceForward
  <1>13. \A g : Forward(pages[tgt[1]], g) => AllForward(pages, [pages EXCEPT ![tgt[1]] = g])
    BY <1>1, <1>2, PutForward
  <1> HIDE DEF q
  <1> QED BY <1>11, <1>12, <1>13

LEMMA HeaderForward == ASSUME IInv, pc = "header" PROVE AllForward(pages, HeaderAdded)
  <1> DEFINE swept == IF Whole THEN Sweep(pages, Version) ELSE pages
             p     == tgt[1]
             q     == [swept[p] EXCEPT !.recs = Append(@, NewRecord)]
  <1>1. IsFolder(pages) /\ p \in 1 .. NPages /\ pages[p].st = "ACTIVE"
    BY DEF IInv, CallOK, RoomOK
  <1>2. Good(pages[p]) /\ ~pages[p].end
    BY <1>1, PageOf DEF Good, WellFormed, MarksAgree
  <1>3. IsFolder(swept) /\ swept[p] = pages[p] BY <1>1, <1>2, SweepFolder
  <1>4. AllForward(pages, swept) BY <1>1, FolderSame, SweepForward
  <1>5. HeaderAdded = [swept EXCEPT ![p] = q] BY DEF HeaderAdded
  <1>6. NewRecord \in Record BY NewRecordType
  <1>7. Forward(swept[p], q) BY <1>2, <1>3, <1>6, AppendForward
  <1>8. IsFolder(HeaderAdded) BY HeaderFolder
  <1> HIDE DEF swept, q
  <1>9. AllForward(swept, HeaderAdded) BY <1>1, <1>3, <1>5, <1>7, PutForward
  <1> QED BY <1>1, <1>3, <1>4, <1>8, <1>9, FolderTransitive

-----------------------------------------------------------------------------
(***************************************************************************)
(* The record of a file in parts is PARTIAL until it is activated.  This   *)
(* is what one needs beyond IInv: the step that makes it ACTIVE clears a   *)
(* bit only because the version marked OLD just before is another one.     *)
(***************************************************************************)
PartialOK ==
    (pc \in {"data", "retire"} /\ req.op = "part") \/ pc = "activate"
        => IsRecord(pages, tgt) /\ At(pages, tgt).st = "PARTIAL"

PInv == IInv /\ PartialOK

LEMMA SearchStatus ==
  ASSUME NEW f, NEW id, NEW st, Search(f, id, st) # NoAddr
  PROVE  At(f, Search(f, id, st)).st = st
  <1> DEFINE hits == {a \in Visible(f) : At(f, a).id = id /\ At(f, a).st = st}
  <1>1. \A S : FirstOf(S) = NoAddr \/ FirstOf(S) \in S BY DEF FirstOf, IsFirst
  <1>2. Search(f, id, st) = FirstOf(hits) BY DEF Search
  <1>3. Search(f, id, st) \in hits
    <2> HIDE DEF hits
    <2> QED BY <1>1, <1>2
  <1> QED BY <1>3

LEMMA SweepKeepsRecords ==
  ASSUME NEW f, IsFolder(f), NEW b, NEW a, IsRecord(f, a)
  PROVE  IsRecord(Sweep(f, b), a) /\ At(Sweep(f, b), a) = At(f, a)
  BY SweepFolder DEF IsRecord, At

LEMMA CallPartPartial ==
  ASSUME PInv, NEW id \in Ids, NEW file \in Files, CallPart(id, file)
  PROVE  PartialOK'
  <1> DEFINE part == Search(pages, id, "PARTIAL")
  <1>1. /\ pc' = IF part = NoAddr THEN "find" ELSE "data"
        /\ tgt' = part /\ pages' = Sweep(pages, part)
    BY DEF CallPart, Begin
  <1>2. CASE part = NoAddr BY <1>1, <1>2 DEF PartialOK
  <1>3. CASE part # NoAddr
    <2>1. IsFolder(pages) BY DEF PInv, IInv
    <2>2. IsRecord(pages, part) BY <1>3, <2>1, SearchAddr
    <2>3. At(pages, part).st = "PARTIAL" BY <1>3, SearchStatus
    <2> HIDE DEF part
    <2>4. IsRecord(pages', part) /\ At(pages', part) = At(pages, part)
      BY <1>1, <2>1, <2>2, SweepKeepsRecords
    <2> QED BY <1>1, <2>3, <2>4 DEF PartialOK
  <1> QED BY <1>2, <1>3

LEMMA HeaderPartial == ASSUME PInv, WriteHeader PROVE PartialOK'
  <1>1. /\ pc = "header" /\ pc' = "data" /\ pages' = HeaderAdded
        /\ UNCHANGED <<req, tgt>>
    BY DEF WriteHeader
  <1>2. IsRecord(pages', tgt) BY <1>1, HeaderFolder DEF PInv
  <1>3. SUFFICES ASSUME req.op = "part" PROVE At(pages', tgt).st = "PARTIAL"
    BY <1>1, <1>2 DEF PartialOK
  <1>4. HeaderAdded = [pages EXCEPT ![tgt[1]].recs = Append(@, NewRecord)]
    BY <1>3 DEF HeaderAdded, Whole
  <1>5. /\ tgt[1] \in 1 .. NPages /\ tgt[2] = Len(pages[tgt[1]].recs) + 1 /\ IsFolder(pages)
    BY <1>1 DEF PInv, IInv, CallOK, RoomOK
  <1>6. Good(pages[tgt[1]]) /\ pages[tgt[1]].recs \in Seq(Record) BY <1>5, PageOf
  <1>7. pages'[tgt[1]].recs = Append(pages[tgt[1]].recs, NewRecord)
    BY <1>1, <1>4, <1>5, <1>6, PageOf DEF Good, Page
  <1>8. NewRecord \in Record BY <1>1, NewRecordType DEF PInv
  <1>9. pages'[tgt[1]].recs[tgt[2]] = NewRecord BY <1>5, <1>6, <1>7, <1>8
  <1> QED BY <1>3, <1>9 DEF At, NewRecord, Whole

LEMMA DataPartial == ASSUME PInv, WriteData PROVE PartialOK'
  <1>1. pc = "data" BY DEF WriteData
  <1>2. CASE pc' # "retire" BY <1>2 DEF WriteData, Return, PartialOK
  <1>3. CASE pc' = "retire"
    <2>1. /\ ~(PayloadStart < 0) /\ pages' = WithPayload(req.n) /\ UNCHANGED <<req, tgt>>
      BY <1>3 DEF WriteData, Return, call
    <2>2. SUFFICES ASSUME req.op = "part"
                   PROVE  IsRecord(pages', tgt) /\ At(pages', tgt).st = "PARTIAL"
      BY <1>3, <2>1 DEF PartialOK
    <2>3. IsFolder(pages) /\ IsRecord(pages, tgt) /\ At(pages, tgt).st = "PARTIAL"
      BY <1>1, <2>2 DEF PInv, IInv, PartialOK
    <2>4. /\ tgt[1] \in 1 .. NPages /\ Good(pages[tgt[1]]) /\ pages[tgt[1]].recs \in Seq(Record)
          /\ tgt[2] \in DOMAIN pages[tgt[1]].recs /\ At(pages, tgt) \in Record
          /\ At(pages, tgt) = pages[tgt[1]].recs[tgt[2]]
      BY <2>3, RecordType, PageOf
    <2> DEFINE new == ProgramAt(At(pages, tgt).data, PayloadStart, SubSeq(Payload, 1, req.n))
    <2>5. pages' = [pages EXCEPT ![tgt[1]].recs[tgt[2]].data = new]
      BY <2>1 DEF WithPayload, At
    <2> HIDE DEF new
    <2>6. /\ pages'[tgt[1]].recs = [pages[tgt[1]].recs EXCEPT ![tgt[2]].data = new]
      BY <2>3, <2>4, <2>5, PageOf DEF Good, Page
    <2>7. pages'[tgt[1]].recs[tgt[2]] = [pages[tgt[1]].recs[tgt[2]] EXCEPT !.data = new]
      BY <2>4, <2>6
    <2>8. pages'[tgt[1]].recs[tgt[2]].st = pages[tgt[1]].recs[tgt[2]].st
      BY <2>4, <2>7 DEF Record
    <2>9. DOMAIN pages'[tgt[1]].recs = DOMAIN pages[tgt[1]].recs BY <2>4, <2>6
    <2> QED BY <2>3, <2>4, <2>8, <2>9 DEF At, IsRecord
  <1> QED BY <1>2, <1>3

LEMMA RetirePartial == ASSUME PInv, RetireForParts PROVE PartialOK'
  <1> DEFINE version == Search(pages, req.id, "ACTIVE")
             swept   == Sweep(pages, version)
  <1>1. /\ pc = "retire" /\ req.op = "part" /\ pages' = RetireAt(swept, version)
        /\ UNCHANGED <<req, tgt>>
    BY DEF RetireForParts
  <1>2. IsFolder(pages) /\ IsRecord(pages, tgt) /\ At(pages, tgt).st = "PARTIAL"
    BY <1>1 DEF PInv, IInv, PartialOK
  <1>3. IsFolder(swept) /\ IsRecord(swept, tgt) /\ At(swept, tgt).st = "PARTIAL"
    BY <1>2, SweepFolder, SweepKeepsRecords
  <1>4. CASE version = NoAddr
    <2> HIDE DEF version, swept
    <2> QED BY <1>1, <1>3, <1>4 DEF PartialOK, RetireAt
  <1>5. CASE version # NoAddr
    <2>1. IsRecord(pages, version) /\ At(pages, version).st = "ACTIVE"
      BY <1>2, <1>5, SearchAddr, SearchStatus
    <2>2. version # tgt BY <1>2, <2>1
    <2>3. IsRecord(swept, version) BY <1>2, <2>1, SweepKeepsRecords
    <2> HIDE DEF version, swept
    <2>4. pages' = SetStatus(swept, version, "OLD") BY <1>1, <1>5 DEF RetireAt
    <2>5. At(pages', tgt) = At(swept, tgt)
      <3>1. /\ DOMAIN swept = 1 .. NPages
            /\ tgt[1] \in 1 .. NPages /\ version[1] \in 1 .. NPages
            /\ tgt[2] \in DOMAIN swept[tgt[1]].recs
            /\ version[2] \in DOMAIN swept[version[1]].recs
            /\ tgt \in Addr /\ version \in Addr
        BY <1>3, <2>3, PageOf DEF IsRecord
      <3>2. tgt[1] # version[1] \/ tgt[2] # version[2] BY <2>2, <3>1 DEF Addr
      <3>3. Good(swept[tgt[1]]) /\ Good(swept[version[1]]) BY <1>3, <3>1, PageOf
      <3> QED BY <2>4, <3>1, <3>2, <3>3 DEF SetStatus, At, Good, Page
    <2>6. IsRecord(pages', tgt) BY <1>3, <2>3, <2>4, SetStatusFolder DEF FileStatus
    <2> QED BY <1>1, <1>3, <2>5, <2>6 DEF PartialOK
  <1> QED BY <1>4, <1>5

\* Every other step ends elsewhere or is one of a file written whole.
LEMMA PartialKeeps == ASSUME PInv, [Next]_vars PROVE PartialOK'
  <1>1. CASE \E id \in PartIds, file \in Files : CallPart(id, file)
    BY <1>1, CallPartPartial, HostAssumption
  <1>2. CASE WriteHeader BY <1>2, HeaderPartial
  <1>3. CASE WriteData BY <1>3, DataPartial
  <1>4. CASE RetireForParts BY <1>4, RetirePartial
  <1>5. CASE \/ \E id \in WriteIds, file \in Files : CallWrite(id, file)
             \/ \E id \in Ids : ReadFile(id)
             \/ EraseChip \/ Crash \/ Restart \/ DriverFails
    BY <1>5 DEF PartialOK, CallWrite, Begin, ReadFile, EraseChip, Crash, Restart, DriverFails, Return, PInv, IInv
  <1>6. CASE Collect
    BY <1>6 DEF Collect, GcObsolete, GcErase, GcMove, GcNextPage, GcCopyBack, BackCopy,
                GcResume, GcDone, Collecting, LooksIntoPage, CopiedBack, Return, PartialOK
  <1>7. CASE FindRoom \/ FindFull \/ EndMark \/ FindNone \/ RetireReplaced \/ Activate
    BY <1>7 DEF FindRoom, FindFull, EndMark, FindNone, RetireReplaced, Activate, Return, PartialOK
  <1>8. CASE UNCHANGED vars
    BY <1>8 DEF vars, PInv, PartialOK, IsRecord, At
  <1>9. CASE Overprogram BY <1>9 DEF Overprogram, PartialOK
  <1> QED BY <1>1, <1>2, <1>3, <1>4, <1>5, <1>6, <1>7, <1>8, <1>9 DEF Next, Command, Work

THEOREM PartialInvariance == Spec => []PInv
  <1>1. Init => PInv BY InitIInv DEF PInv, PartialOK, Init
  <1>2. PInv /\ [Next]_vars => PInv' BY NextKeeps, PartialKeeps DEF PInv
  <1> QED BY <1>1, <1>2, PTL DEF Spec

-----------------------------------------------------------------------------
(***************************************************************************)
(* Each step clears bits or erases pages.                                  *)
(***************************************************************************)
FlashStep == \A p \in 1 .. NPages : pages'[p] = BlankPage \/ Forward(pages[p], pages'[p])

LEMMA ForwardStep == ASSUME NEW f, pages' = f, AllForward(pages, f) PROVE FlashStep
  BY DEF AllForward, FlashStep

LEMMA EraseStep ==
  ASSUME IsFolder(pages), NEW p \in 1 .. NPages, pages' = [pages EXCEPT ![p] = BlankPage]
  PROVE  FlashStep
  <1> SUFFICES ASSUME NEW q \in 1 .. NPages
               PROVE  pages'[q] = BlankPage \/ Forward(pages[q], pages'[q])
    BY DEF FlashStep
  <1>1. Good(pages[q]) /\ DOMAIN pages = 1 .. NPages BY PageOf
  <1>2. CASE q = p BY <1>1, <1>2
  <1>3. CASE q # p BY <1>1, <1>3, ForwardSame
  <1> QED BY <1>2, <1>3

LEMMA NoStep == ASSUME IsFolder(pages), pages' = pages PROVE FlashStep
  BY FolderSame, ForwardStep

LEMMA BlankStep == ASSUME pages' = BlankFolder PROVE FlashStep
  BY DEF FlashStep, BlankFolder

\* A page's status moves forward.
LEMMA PageStatusForward ==
  ASSUME NEW f, IsFolder(f), NEW p \in 1 .. NPages, NEW st \in PageStatus,
         PageRank(f[p].st) <= PageRank(st)
  PROVE  AllForward(f, [f EXCEPT ![p].st = st])
  <1> DEFINE q == [f[p] EXCEPT !.st = st]
  <1>1. Forward(f[p], q) BY PageOf, StatusForward
  <1>2. \A g : Forward(f[p], g) => AllForward(f, [f EXCEPT ![p] = g]) BY PutForward
  <1>3. [f EXCEPT ![p].st = st] = [f EXCEPT ![p] = q] OBVIOUS
  <1> HIDE DEF q
  <1> QED BY <1>1, <1>2, <1>3

LEMMA EndMarkForward ==
  ASSUME IInv, pc = "endmark" PROVE AllForward(pages, [pages EXCEPT ![cur].end = TRUE])
  <1> DEFINE q == [pages[cur] EXCEPT !.end = TRUE]
  <1>1. IsFolder(pages) /\ cur \in 1 .. NPages BY DEF IInv, CallOK, FullOK
  <1>2. Forward(pages[cur], q) BY <1>1, PageOf, EndForward
  <1>3. \A g : Forward(pages[cur], g) => AllForward(pages, [pages EXCEPT ![cur] = g])
    BY <1>1, PutForward
  <1>4. [pages EXCEPT ![cur].end = TRUE] = [pages EXCEPT ![cur] = q] OBVIOUS
  <1> HIDE DEF q
  <1> QED BY <1>2, <1>3, <1>4

LEMMA OpenForward ==
  ASSUME IsFolder(pages), NEW p \in 1 .. NPages, Looks(p)
  PROVE  /\ AllForward(pages, [pages EXCEPT ![p].st = "ACTIVE"])
         /\ AllForward(pages, [pages EXCEPT ![p].st = "OLD"])
  <1>1. /\ PageRank(pages[p].st) <= PageRank("ACTIVE") /\ PageRank(pages[p].st) <= PageRank("OLD")
        /\ "ACTIVE" \in PageStatus /\ "OLD" \in PageStatus
    BY PageRanks DEF Looks, Open, PageStatus
  <1> QED BY <1>1, PageStatusForward

LEMMA ActivateForward ==
  ASSUME PInv, pc = "activate" PROVE AllForward(pages, SetStatus(pages, tgt, "ACTIVE"))
  <1>1. IsFolder(pages) /\ IsRecord(pages, tgt) BY DEF PInv, IInv, CallOK, TargetOK
  <1>2. At(pages, tgt).st = "PARTIAL" BY DEF PInv, PartialOK
  <1> QED BY <1>1, <1>2, FileRanks, SetStatusForward DEF FileStatus

\* A page of the GC area goes over a blank page of the folder, whole or cut.
LEMMA CopyForward ==
  ASSUME IsFolder(pages), NEW d \in 1 .. NPages, GoesTo(d), NEW pg, Good(pg)
  PROVE  AllForward(pages, [pages EXCEPT ![d] = pg])
  <1>1. Good(pages[d]) /\ pages[d].st = "NEW" BY PageOf DEF GoesTo
  <1> QED BY <1>1, BlankForward, PutForward

LEMMA GcPageGood == ASSUME IInv, Copies PROVE Good(gc[scan.bg])
  <1>1. scan.bg \in 1 .. GPages
    BY SizesAssumption DEF Copies, InUse, IInv, Registers, Scan, CallOK, ScanOK
  <1> QED BY <1>1, GoodPageIn DEF IInv, GcGood

LEMMA TornForward == ASSUME IInv, NEW new \in Torn PROVE AllForward(pages, new)
  <1>1. CASE pc = "data" /\ PayloadStart >= 0
    BY <1>1, PayloadForward DEF Torn
  <1>2. CASE pc = "back" /\ Copies
    <2>1. Good(gc[scan.bg]) /\ IsFolder(pages) BY <1>2, GcPageGood DEF IInv
    <2>2. \A d \in 1 .. NPages, pg \in CutShort(gc[scan.bg]) :
              GoesTo(d) => AllForward(pages, [pages EXCEPT ![d] = pg])
      BY <2>1, CutShortGood, CopyForward
    <2>3. \/ new = pages
          \/ \E d \in 1 .. NPages, pg \in CutShort(gc[scan.bg]) :
                GoesTo(d) /\ new = [pages EXCEPT ![d] = pg]
      BY <1>2 DEF Torn
    <2> QED BY <2>1, <2>2, <2>3, FolderSame
  <1>3. CASE ~(pc = "data" /\ PayloadStart >= 0) /\ ~(pc = "back" /\ Copies)
    BY <1>3, FolderSame DEF Torn, IInv
  <1> QED BY <1>1, <1>2, <1>3

LEMMA ProgrammedForward ==
  ASSUME PInv, pc \in FaultPcs, pc = "data" => PayloadStart >= 0, NEW new \in Programmed
  PROVE  AllForward(pages, new)
  <1>1. IInv /\ IsFolder(pages) BY DEF PInv, IInv
  <1>2. CASE pc = "find"
    <2>1. PICK p \in 1 .. NPages : new = [pages EXCEPT ![p].st = "ACTIVE"] /\ Looks(p)
      BY <1>2 DEF Programmed
    <2> QED BY <1>1, <2>1, OpenForward
  <1>3. CASE pc = "endmark" BY <1>1, <1>3, EndMarkForward DEF Programmed
  <1>4. CASE pc = "header" BY <1>1, <1>4, HeaderForward DEF Programmed
  <1>5. CASE pc = "data"
    <2>1. PICK k \in 1 .. req.n : new = WithPayload(k) BY <1>5 DEF Programmed
    <2>2. k \in 0 .. req.n BY <2>1
    <2> QED BY <1>1, <1>5, <2>1, <2>2, PayloadForward
  <1>6. CASE pc = "retire"
    <2>1. new = IF Whole /\ tgt # NoAddr THEN RetireAt(pages, old) ELSE RetireOld(pages)
      BY <1>6 DEF Programmed
    <2>2. old = NoAddr \/ IsRecord(pages, old) BY <1>1, <1>6 DEF IInv, CallOK, OldOK
    <2> QED BY <1>1, <2>1, <2>2, RetireForward, RetireOldForward
  <1>7. CASE pc = "activate" BY <1>7, ActivateForward DEF Programmed
  <1> QED BY <1>2, <1>3, <1>4, <1>5, <1>6, <1>7, HostAssumption

LEMMA FailureStep == ASSUME PInv, DriverFails PROVE FlashStep
  <1>1. /\ pc \in FaultPcs /\ pages' \in AfterFailure
        /\ pc = "data" => PayloadStart >= 0
    BY DEF DriverFails
  <1>2. pc = "retire" => Replaced # NoAddr BY DEF DriverFails
  <1> DEFINE left == {pages} \cup Programmed
  <1>3. IInv /\ IsFolder(pages) BY DEF PInv, IInv
  <1>4. \A pgs \in left : IsFolder(pgs) /\ AllForward(pages, pgs)
    BY <1>1, <1>2, <1>3, ProgrammedFolder, ProgrammedForward, FolderSame
  <1>5. pages' \in left \/ \E pgs \in left : pages' = RetireOld(pgs)
    BY <1>1 DEF AfterFailure
  <1> HIDE DEF left
  <1>6. AllForward(pages, pages')
    <2>1. ASSUME NEW pgs \in left, pages' = RetireOld(pgs) PROVE AllForward(pages, pages')
      <3>1. IsFolder(pgs) /\ AllForward(pages, pgs) BY <1>4
      <3>2. IsFolder(RetireOld(pgs)) /\ AllForward(pgs, RetireOld(pgs))
        BY <3>1, RetireOldFolder, RetireOldForward
      <3> QED BY <1>3, <2>1, <3>1, <3>2, FolderTransitive
    <2> QED BY <1>4, <1>5, <2>1
  <1> QED BY <1>6, ForwardStep

LEMMA CommandStep == ASSUME PInv, Command PROVE FlashStep
  <1>1. IsFolder(pages) BY DEF PInv, IInv
  <1>2. ASSUME NEW id \in WriteIds, NEW file \in Files, CallWrite(id, file) PROVE FlashStep
    BY <1>1, <1>2, NoStep DEF CallWrite
  <1>3. ASSUME NEW id \in PartIds, NEW file \in Files, CallPart(id, file) PROVE FlashStep
    <2>1. pages' = Sweep(pages, Search(pages, id, "PARTIAL")) BY <1>3 DEF CallPart
    <2> QED BY <1>1, <2>1, SweepForward, ForwardStep
  <1>4. ASSUME NEW id \in Ids, ReadFile(id) PROVE FlashStep
    BY <1>1, <1>4, SweepForward, ForwardStep DEF ReadFile
  <1>5. CASE EraseChip BY <1>5, BlankStep DEF EraseChip
  <1> QED BY <1>2, <1>3, <1>4, <1>5 DEF Command

LEMMA WriteStep ==
  ASSUME PInv,
         \/ FindRoom \/ FindFull \/ EndMark \/ FindNone
         \/ WriteHeader \/ WriteData \/ RetireReplaced \/ RetireForParts \/ Activate
  PROVE  FlashStep
  <1>1. IInv /\ IsFolder(pages) BY DEF PInv, IInv
  <1>2. CASE FindRoom
    <2>1. PICK p \in 1 .. NPages : Looks(p) /\ pages' = [pages EXCEPT ![p].st = "ACTIVE"]
      BY <1>2 DEF FindRoom
    <2> QED BY <1>1, <2>1, OpenForward, ForwardStep
  <1>3. CASE FindFull
    <2>1. PICK p \in 1 .. NPages : Looks(p) /\ pages' = [pages EXCEPT ![p].st = "OLD"]
      BY <1>3 DEF FindFull
    <2> QED BY <1>1, <2>1, OpenForward, ForwardStep
  <1>4. CASE EndMark BY <1>1, <1>4, EndMarkForward, ForwardStep DEF EndMark
  <1>5. CASE FindNone BY <1>1, <1>5, NoStep DEF FindNone
  <1>6. CASE WriteHeader BY <1>1, <1>6, HeaderForward, ForwardStep DEF WriteHeader
  <1>7. CASE WriteData
    <2>1. CASE pages' = pages BY <1>1, <2>1, NoStep
    <2>2. CASE pages' # pages
      <3>1. pc = "data" /\ ~(PayloadStart < 0) /\ pages' = WithPayload(req.n)
        BY <1>7, <2>2 DEF WriteData
      <3>2. PayloadStart >= 0 BY <1>1, <3>1, StartType
      <3>3. req.n \in 0 .. req.n BY <1>1, <3>1, RequestType DEF Calling, AtRest
      <3> QED BY <1>1, <3>1, <3>2, <3>3, PayloadForward, ForwardStep
    <2> QED BY <2>1, <2>2
  <1>8. CASE RetireReplaced
    <2>1. pages' = IF tgt # NoAddr THEN RetireAt(pages, old) ELSE RetireOld(pages)
      BY <1>8 DEF RetireReplaced, RetireOld
    <2>2. old = NoAddr \/ IsRecord(pages, old)
      BY <1>1, <1>8 DEF RetireReplaced, IInv, CallOK, OldOK
    <2> QED BY <1>1, <2>1, <2>2, RetireForward, RetireOldForward, ForwardStep
  <1>9. CASE RetireForParts
    <2>1. pages' = RetireOld(pages) BY <1>9 DEF RetireForParts, RetireOld
    <2> QED BY <1>1, <2>1, RetireOldForward, ForwardStep
  <1>10. CASE Activate BY <1>10, ActivateForward, ForwardStep DEF Activate
  <1> QED BY <1>2, <1>3, <1>4, <1>5, <1>6, <1>7, <1>8, <1>9, <1>10

LEMMA CollectStep == ASSUME IInv, Collect PROVE FlashStep
  <1>1. IsFolder(pages) BY DEF IInv
  <1>2. CASE GcObsolete
    BY <1>1, <1>2, EraseStep, CollectingFacts DEF GcObsolete
  <1>3. CASE GcErase
    BY <1>1, <1>3, EraseStep, CollectingFacts DEF GcErase, LooksIntoPage
  <1>4. CASE GcMove
    <2>1. PICK i \in 1 .. PageLen : Meets(i) /\ pages' = SetStatus(pages, <<scan.p, i>>, "OLD")
      BY <1>4 DEF GcMove
    <2>2. scan.p \in 1 .. NPages BY <1>4, CollectingFacts DEF GcMove, LooksIntoPage
    <2>3. IsRecord(pages, <<scan.p, i>>) BY <2>1, <2>2 DEF Meets, IsRecord, Addr
    <2>4. <<scan.p, i>> # NoAddr BY <2>2 DEF NoAddr
    <2>5. RetireAt(pages, <<scan.p, i>>) = SetStatus(pages, <<scan.p, i>>, "OLD")
      BY <2>4 DEF RetireAt
    <2> QED BY <1>1, <2>1, <2>3, <2>5, RetireForward, ForwardStep
  <1>5. CASE GcNextPage \/ GcCopyBack \/ GcResume
    BY <1>1, <1>5, NoStep DEF GcNextPage, GcCopyBack, GcResume
  <1>6. CASE BackCopy
    <2>1. PICK d \in 1 .. NPages :
             GoesTo(d) /\ pages' = IF Copies THEN [pages EXCEPT ![d] = gc[scan.bg]] ELSE pages
      BY <1>6 DEF BackCopy, CopiedTo
    <2>2. CASE Copies BY <1>1, <2>1, <2>2, GcPageGood, CopyForward, ForwardStep
    <2>3. CASE ~Copies BY <1>1, <2>1, <2>3, NoStep
    <2> QED BY <2>2, <2>3
  <1>7. CASE GcDone BY <1>1, <1>7, SweepForward, ForwardStep DEF GcDone
  <1> QED BY <1>2, <1>3, <1>4, <1>5, <1>6, <1>7 DEF Collect

LEMMA StepsClear == ASSUME PInv, [Next]_vars PROVE FlashStep
  <1>1. IInv /\ IsFolder(pages) BY DEF PInv, IInv
  <1>2. CASE Command BY <1>2, CommandStep
  <1>3. CASE Work
    <2>1. CASE Overprogram BY <1>1, <2>1, NoStep DEF Overprogram
    <2> QED BY <1>1, <1>3, <2>1, WriteStep, CollectStep DEF Work
  <1>4. CASE DriverFails BY <1>4, FailureStep
  <1>5. CASE Crash
    <2>1. CASE EraseCut
      BY <1>1, <2>1, EraseStep, CollectingFacts DEF EraseCut, ErasesPage
    <2>2. CASE pages' \in Torn BY <1>1, <2>2, TornForward, ForwardStep
    <2> QED BY <1>5, <2>1, <2>2 DEF Crash
  <1>6. CASE Restart
    <2>1. pages' = IF KeyIntact THEN Sweep(pages, NoAddr) ELSE BlankFolder
      BY <1>6 DEF Restart
    <2> QED BY <1>1, <2>1, SweepForward, ForwardStep, BlankStep
  <1>7. CASE UNCHANGED vars BY <1>1, <1>7, NoStep DEF vars
  <1> QED BY <1>2, <1>3, <1>4, <1>5, <1>6, <1>7 DEF Next

\* No step sets a bit without an erase, whatever the sizes, the points at
\* which power or the driver fails, and the order of commands: programs,
\* copies cut short and the marks of searches only clear bits.
THEOREM OnlyClearing == Spec => FlashOnlyClears
  <1>1. PInv /\ [Next]_vars => [FlashStep]_vars BY StepsClear
  <1>2. Spec => [][FlashStep]_vars BY <1>1, PartialInvariance, PTL DEF Spec
  <1> QED BY <1>2 DEF FlashOnlyClears, FlashStep
=============================================================================
