--------------------------- MODULE SfsPagesProofs ---------------------------
(***************************************************************************)
(* Lemmas about the pages of SfsPages: what each kind of program does to a *)
(* well-formed page, and where the searches end.                           *)
(***************************************************************************)
EXTENDS SfsPages, SequenceTheorems, TLAPS

Good(pg) == pg \in Page /\ WellFormed(pg)

GoodPages == {pg \in Page : WellFormed(pg)}

IsFolder(pgs) == pgs \in [1 .. NPages -> GoodPages]

\* a is the address of a record of pgs.
IsRecord(pgs, a) ==
    a \in Addr /\ a[1] \in 1 .. NPages /\ a[2] \in DOMAIN pgs[a[1]].recs

LEMMA BlankPageGood == Good(BlankPage)
  BY SizesAssumption, EmptySeq
     DEF Good, BlankPage, Page, PageStatus, WellFormed, Contiguous, StaysInside, MarksAgree

\* A page's status may be changed as long as END_PAGE stays under OLD or
\* OBSOLETE, and NEW stays for pages without records.
LEMMA StatusGood ==
  ASSUME NEW pg, Good(pg), NEW st \in PageStatus,
         pg.end => st \in {"OLD", "OBSOLETE"},
         st = "NEW" => pg.recs = <<>>
  PROVE  Good([pg EXCEPT !.st = st])
  BY DEF Good, Page, WellFormed, Contiguous, StaysInside, MarksAgree

LEMMA EndGood ==
  ASSUME NEW pg, Good(pg), pg.st \in {"OLD", "OBSOLETE"}
  PROVE  Good([pg EXCEPT !.end = TRUE])
  BY DEF Good, Page, WellFormed, Contiguous, StaysInside, MarksAgree

LEMMA TopType ==
  ASSUME NEW pg, Good(pg)
  PROVE  Top(pg) \in Nat /\ Top(pg) >= 1 /\ Top(pg) < PageLen
  <1>1. CASE pg.recs = <<>>
    BY <1>1, SizesAssumption DEF Top
  <1>2. CASE pg.recs # <<>>
    <2>1. pg.recs \in Seq(Record) BY DEF Good, Page
    <2>2. Len(pg.recs) \in DOMAIN pg.recs BY <1>2, <2>1
    <2>3. pg.recs[Len(pg.recs)] \in Record BY <2>1, <2>2
    <2>4. RecLen(pg.recs[Len(pg.recs)]) \in Nat
      BY <2>3, SizesAssumption DEF Record, RecLen
    <2>5. pg.recs[Len(pg.recs)].off \in Nat BY <2>3 DEF Record
    <2> QED
      BY <1>2, <2>2, <2>4, <2>5, SizesAssumption
         DEF Top, Good, WellFormed, StaysInside
  <1> QED BY <1>1, <1>2

\* A record appended at the top of a page that has the room.
LEMMA AppendGood ==
  ASSUME NEW pg, Good(pg), pg.st # "NEW",
         NEW r \in Record, r.off = Top(pg), Top(pg) + RecLen(r) < PageLen
  PROVE  Good([pg EXCEPT !.recs = Append(@, r)])
  <1> DEFINE new == [pg EXCEPT !.recs = Append(@, r)]
  <1>1. pg.recs \in Seq(Record) BY DEF Good, Page
  <1>2. /\ new.recs = Append(pg.recs, r)
        /\ new.st = pg.st /\ new.end = pg.end
        /\ new \in Page
    BY <1>1 DEF Good, Page
  <1>3. /\ Len(new.recs) = Len(pg.recs) + 1
        /\ DOMAIN new.recs = 1 .. Len(pg.recs) + 1
        /\ \A i \in 1 .. Len(pg.recs) : new.recs[i] = pg.recs[i]
        /\ new.recs[Len(pg.recs) + 1] = r
    BY <1>1, <1>2
  <1>4. Top(pg) \in Nat /\ Top(pg) >= 1 BY TopType
  <1>5. StaysInside(new)
    <2> SUFFICES ASSUME NEW i \in DOMAIN new.recs
                 PROVE  1 <= new.recs[i].off /\ new.recs[i].off + RecLen(new.recs[i]) < PageLen
      BY DEF StaysInside
    <2>1. CASE i \in 1 .. Len(pg.recs)
      BY <2>1, <1>1, <1>3 DEF Good, WellFormed, StaysInside
    <2>2. CASE i = Len(pg.recs) + 1
      BY <2>2, <1>3, <1>4
    <2> QED BY <2>1, <2>2, <1>1, <1>3
  <1>6. Contiguous(new)
    <2> SUFFICES ASSUME NEW i \in DOMAIN new.recs
                 PROVE  new.recs[i].off = IF i = 1 THEN 1
                            ELSE new.recs[i - 1].off + RecLen(new.recs[i - 1])
      BY DEF Contiguous
    <2>1. CASE i \in 1 .. Len(pg.recs)
      BY <2>1, <1>1, <1>3 DEF Good, WellFormed, Contiguous
    <2>2. CASE i = Len(pg.recs) + 1
      BY <2>2, <1>1, <1>3 DEF Top
    <2> QED BY <2>1, <2>2, <1>1, <1>3
  <1>7. MarksAgree(new)
    BY <1>2 DEF Good, WellFormed, MarksAgree
  <1> QED BY <1>2, <1>5, <1>6, <1>7 DEF Good, WellFormed

\* One record replaced by another of the same place and length: a status byte
\* programmed, or cells of the data.
LEMMA ReplaceGood ==
  ASSUME NEW pg, Good(pg), NEW i \in DOMAIN pg.recs,
         NEW r \in Record, r.off = pg.recs[i].off, Len(r.data) = Len(pg.recs[i].data)
  PROVE  Good([pg EXCEPT !.recs = [@ EXCEPT ![i] = r]])
  <1> DEFINE recs == [pg.recs EXCEPT ![i] = r]
             new  == [pg EXCEPT !.recs = recs]
  <1>1. pg.recs \in Seq(Record) BY DEF Good, Page
  <1>2. i \in 1 .. Len(pg.recs) BY <1>1
  <1>3. /\ recs \in Seq(Record)
        /\ Len(recs) = Len(pg.recs)
        /\ \A j \in 1 .. Len(pg.recs) : recs[j] = IF j = i THEN r ELSE pg.recs[j]
    BY <1>1, <1>2, ExceptSeq
  <1>4. /\ new \in Page
        /\ new.recs = recs /\ new.st = pg.st /\ new.end = pg.end
    BY <1>3 DEF Good, Page
  <1>5. DOMAIN recs = 1 .. Len(pg.recs) /\ DOMAIN pg.recs = 1 .. Len(pg.recs)
    BY <1>1, <1>3
  <1>6. \A j \in DOMAIN recs :
           recs[j].off = pg.recs[j].off /\ RecLen(recs[j]) = RecLen(pg.recs[j])
    BY <1>3, <1>5 DEF RecLen
  <1>7. Contiguous(new)
    <2> SUFFICES ASSUME NEW j \in DOMAIN recs
                 PROVE  recs[j].off = IF j = 1 THEN 1
                                      ELSE recs[j - 1].off + RecLen(recs[j - 1])
      BY <1>4 DEF Contiguous
    <2>1. pg.recs[j].off = IF j = 1 THEN 1
                           ELSE pg.recs[j - 1].off + RecLen(pg.recs[j - 1])
      BY <1>5 DEF Good, WellFormed, Contiguous
    <2>2. j # 1 => j - 1 \in DOMAIN recs BY <1>1, <1>5
    <2> QED BY <2>1, <2>2, <1>6
  <1>8. StaysInside(new)
    BY <1>4, <1>5, <1>6 DEF Good, WellFormed, StaysInside
  <1>9. MarksAgree(new)
    <2>1. pg.st # "NEW" BY <1>2, <1>1, EmptySeq DEF Good, WellFormed, MarksAgree
    <2> QED BY <1>4, <2>1 DEF Good, WellFormed, MarksAgree
  <1> QED BY <1>4, <1>7, <1>8, <1>9 DEF Good, WellFormed

\* A page of which a prefix of the records is left, with END_PAGE blank.
LEMMA PrefixGood ==
  ASSUME NEW pg, Good(pg), NEW k \in 0 .. Len(pg.recs)
  PROVE  Good([pg EXCEPT !.recs = SubSeq(@, 1, k), !.end = FALSE])
  <1> DEFINE recs == SubSeq(pg.recs, 1, k)
             new  == [pg EXCEPT !.recs = recs, !.end = FALSE]
  <1>1. pg.recs \in Seq(Record) /\ Len(pg.recs) \in Nat BY DEF Good, Page
  <1>2. /\ recs \in Seq(Record) /\ Len(recs) = k
        /\ \A i \in 1 .. k : recs[i] = pg.recs[i]
    BY <1>1, SubSeqProperties
  <1>3. DOMAIN recs = 1 .. k BY <1>2
  <1>4. new \in Page /\ new.recs = recs /\ new.st = pg.st /\ new.end = FALSE
    BY <1>2 DEF Good, Page
  <1>5. Contiguous(new)
    <2> SUFFICES ASSUME NEW j \in DOMAIN recs
                 PROVE  recs[j].off = IF j = 1 THEN 1
                                      ELSE recs[j - 1].off + RecLen(recs[j - 1])
      BY <1>4 DEF Contiguous
    <2>1. j \in 1 .. k /\ j \in DOMAIN pg.recs BY <1>1, <1>3
    <2>2. pg.recs[j].off = IF j = 1 THEN 1
                           ELSE pg.recs[j - 1].off + RecLen(pg.recs[j - 1])
      BY <2>1 DEF Good, WellFormed, Contiguous
    <2>3. j # 1 => j - 1 \in 1 .. k BY <2>1
    <2> QED BY <2>1, <2>2, <2>3, <1>2
  <1>6. StaysInside(new)
    BY <1>1, <1>2, <1>3, <1>4 DEF Good, WellFormed, StaysInside
  <1>7. MarksAgree(new)
    <2>1. pg.recs = <<>> => recs = <<>>
      BY <1>1, <1>2, EmptySeq, SubSeqEmpty
    <2> QED BY <1>4, <2>1 DEF Good, WellFormed, MarksAgree
  <1> QED BY <1>4, <1>5, <1>6, <1>7 DEF Good, WellFormed

-----------------------------------------------------------------------------
(***************************************************************************)
(* Whole folders.                                                          *)
(***************************************************************************)
LEMMA GoodPageIn == \A pg : Good(pg) <=> pg \in GoodPages
  BY DEF Good, GoodPages

LEMMA PageOf ==
  ASSUME NEW pgs, IsFolder(pgs)
  PROVE  /\ DOMAIN pgs = 1 .. NPages
         /\ \A p \in 1 .. NPages : Good(pgs[p]) /\ pgs[p].recs \in Seq(Record)
  BY DEF IsFolder, Good, GoodPages, Page

LEMMA PutPage ==
  ASSUME NEW pgs, IsFolder(pgs), NEW p \in 1 .. NPages, NEW pg, Good(pg)
  PROVE  IsFolder([pgs EXCEPT ![p] = pg])
  BY GoodPageIn DEF IsFolder

LEMMA SweepFolder ==
  ASSUME NEW pgs, IsFolder(pgs), NEW a
  PROVE  /\ IsFolder(Sweep(pgs, a))
         /\ \A p \in 1 .. NPages :
               /\ Sweep(pgs, a)[p].recs = pgs[p].recs
               /\ Sweep(pgs, a)[p].end = pgs[p].end
               /\ ~pgs[p].end => Sweep(pgs, a)[p] = pgs[p]
  <1> DEFINE new(p) == Sweep(pgs, a)[p]
  <1>1. DOMAIN Sweep(pgs, a) = 1 .. NPages BY PageOf DEF Sweep
  <1>2. ASSUME NEW p \in 1 .. NPages
        PROVE  /\ Good(new(p))
               /\ new(p).recs = pgs[p].recs
               /\ new(p).end = pgs[p].end
               /\ ~pgs[p].end => new(p) = pgs[p]
    <2>1. Good(pgs[p]) BY PageOf
    <2>2. \/ new(p) = pgs[p]
          \/ pgs[p].end /\ new(p) = [pgs[p] EXCEPT !.st = "OBSOLETE"]
      BY PageOf DEF Sweep
    <2>3. Good([pgs[p] EXCEPT !.st = "OBSOLETE"])
      BY <2>1, StatusGood DEF PageStatus
    <2> QED BY <2>1, <2>2, <2>3 DEF Good, Page
  <1>3. IsFolder(Sweep(pgs, a))
    BY <1>1, <1>2, PageOf, GoodPageIn DEF IsFolder, Sweep
  <1> QED BY <1>2, <1>3

\* A search ends at a record or nowhere.
LEMMA SearchAddr ==
  ASSUME NEW pgs, IsFolder(pgs), NEW id, NEW st
  PROVE  Search(pgs, id, st) = NoAddr \/ IsRecord(pgs, Search(pgs, id, st))
  <1>1. \A a \in RecordsOf(pgs) : IsRecord(pgs, a)
    <2> SUFFICES ASSUME NEW p \in 1 .. NPages, NEW a \in {p} \X DOMAIN pgs[p].recs
                 PROVE  IsRecord(pgs, a)
      BY PageOf DEF RecordsOf
    <2>1. pgs[p].recs \in Seq(Record) BY PageOf
    <2>2. DOMAIN pgs[p].recs \subseteq Nat BY <2>1
    <2> QED BY <2>2, SizesAssumption DEF IsRecord, Addr
  <1>2. \A S : FirstOf(S) = NoAddr \/ FirstOf(S) \in S
    BY DEF FirstOf, IsFirst
  <1> DEFINE hits == {a \in Visible(pgs) : At(pgs, a).id = id /\ At(pgs, a).st = st}
  <1>3. hits \subseteq RecordsOf(pgs) BY DEF Visible
  <1> QED BY <1>1, <1>2, <1>3 DEF Search

LEMMA LastAddrType ==
  ASSUME NEW pgs, IsFolder(pgs)
  PROVE  LastAddr(pgs) \in Addr
  <1>1. \A a \in RecordsOf(pgs) : a \in Addr
    <2> SUFFICES ASSUME NEW p \in 1 .. NPages, NEW a \in {p} \X DOMAIN pgs[p].recs
                 PROVE  a \in Addr
      BY PageOf DEF RecordsOf
    <2>1. pgs[p].recs \in Seq(Record) BY PageOf
    <2> QED BY <2>1, SizesAssumption DEF Addr
  <1>2. \A S : LastOf(S) = NoAddr \/ LastOf(S) \in S
    BY DEF LastOf, IsLast
  <1>3. NoAddr \in Addr BY DEF NoAddr, Addr
  <1> QED BY <1>1, <1>2, <1>3 DEF LastAddr, Visible

\* Programming the status of a record.
LEMMA SetStatusFolder ==
  ASSUME NEW pgs, IsFolder(pgs), NEW a, IsRecord(pgs, a), NEW st \in FileStatus
  PROVE  /\ IsFolder(SetStatus(pgs, a, st))
         /\ \A b : IsRecord(pgs, b) => IsRecord(SetStatus(pgs, a, st), b)
  <1> DEFINE pg == pgs[a[1]]
             r  == [pg.recs[a[2]] EXCEPT !.st = st]
             q  == [pg EXCEPT !.recs = [@ EXCEPT ![a[2]] = r]]
  <1>1. Good(pg) /\ pg.recs \in Seq(Record) /\ pg.recs[a[2]] \in Record
    BY PageOf DEF IsRecord
  <1>2. r \in Record /\ r.off = pg.recs[a[2]].off /\ r.data = pg.recs[a[2]].data
    BY <1>1 DEF Record
  <1>3. Good(q) BY <1>1, <1>2, ReplaceGood DEF IsRecord
  <1>4. SetStatus(pgs, a, st) = [pgs EXCEPT ![a[1]] = q]
    BY DEF SetStatus
  <1>5. DOMAIN q.recs = DOMAIN pg.recs BY <1>1 DEF Good, Page
  <1>6. IsFolder(SetStatus(pgs, a, st))
    <2>1. a[1] \in 1 .. NPages BY DEF IsRecord
    <2>2. \A g : Good(g) => IsFolder([pgs EXCEPT ![a[1]] = g]) BY <2>1, PutPage
    <2> HIDE DEF q
    <2> QED BY <1>3, <1>4, <2>2
  <1> QED BY <1>4, <1>5, <1>6, PageOf DEF IsRecord

\* Programming cells of a page's record: their number and the marks stay.
LEMMA ProgramAtType ==
  ASSUME NEW data \in Seq(Cells), NEW s \in Nat, NEW d \in Seq(Vals)
  PROVE  ProgramAt(data, s, d) \in Seq(Cells) /\ Len(ProgramAt(data, s, d)) = Len(data)
  <1>1. \A c \in Cells, v \in Vals : Program(c, v) \in Cells
    BY DEF Program, Cells
  <1>2. ASSUME NEW k \in 1 .. Len(data)
        PROVE  ProgramAt(data, s, d)[k] \in Cells
    <2>1. data[k] \in Cells /\ k \in DOMAIN data BY <1>2
    <2>2. k > s /\ k <= s + Len(d) => d[k - s] \in Vals BY <1>2
    <2> QED BY <1>1, <2>1, <2>2 DEF ProgramAt
  <1>3. DOMAIN data = 1 .. Len(data) /\ Len(data) \in Nat BY LenProperties
  <1>4. ProgramAt(data, s, d) \in [1 .. Len(data) -> Cells]
    BY <1>2, <1>3 DEF ProgramAt
  <1> QED BY <1>3, <1>4, SeqDef, LenProperties

LEMMA PutRecord ==
  ASSUME NEW pgs, IsFolder(pgs), NEW a, IsRecord(pgs, a),
         NEW data \in Seq(Cells), Len(data) = Len(At(pgs, a).data)
  PROVE  /\ IsFolder([pgs EXCEPT ![a[1]].recs[a[2]].data = data])
         /\ \A b : IsRecord(pgs, b)
                    => IsRecord([pgs EXCEPT ![a[1]].recs[a[2]].data = data], b)
  <1> DEFINE pg  == pgs[a[1]]
             r   == [pg.recs[a[2]] EXCEPT !.data = data]
             q   == [pg EXCEPT !.recs = [@ EXCEPT ![a[2]] = r]]
             new == [pgs EXCEPT ![a[1]].recs[a[2]].data = data]
  <1>1. Good(pg) /\ pg.recs \in Seq(Record) /\ pg.recs[a[2]] \in Record
    BY PageOf DEF IsRecord
  <1>2. r \in Record /\ r.off = pg.recs[a[2]].off /\ r.data = data
    BY <1>1 DEF Record
  <1>3. Good(q) BY <1>1, <1>2, ReplaceGood DEF IsRecord, At
  <1>4. new = [pgs EXCEPT ![a[1]] = q]
    OBVIOUS
  <1>5. DOMAIN q.recs = DOMAIN pg.recs BY <1>1 DEF Good, Page
  <1>6. IsFolder(new)
    <2>1. a[1] \in 1 .. NPages BY DEF IsRecord
    <2>2. \A g : Good(g) => IsFolder([pgs EXCEPT ![a[1]] = g]) BY <2>1, PutPage
    <2> HIDE DEF q, new
    <2> QED BY <1>3, <1>4, <2>2
  <1> QED BY <1>4, <1>5, <1>6, PageOf DEF IsRecord

=============================================================================
