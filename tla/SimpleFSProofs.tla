--------------------------- MODULE SimpleFSProofs ---------------------------
(***************************************************************************)
(* Theorems about SimpleFS for every folder, page and file size: its types *)
(* and the layout of its pages.                                            *)
(***************************************************************************)
EXTENDS SimpleFSProps, SfsPagesProofs

(***************************************************************************)
(* The inductive invariant.  To see that a program keeps a page walkable,  *)
(* one needs of the call in progress: what it asks for, that the addresses *)
(* it holds are those of records, that the room it found is still there    *)
(* when the header is written, and that the GC page being filled has been  *)
(* erased.                                                                 *)
(***************************************************************************)
Calling == pc \notin AtRest

RequestOK ==
    Calling => req \in Request /\ req.n >= 1 /\ req.sent + req.n <= Len(req.file)

\* The page being declared full is OLD before it gets its END_PAGE.
FullOK == pc = "endmark" => cur \in 1 .. NPages /\ pages[cur].st = "OLD"

\* The room found for the header is still there.
RoomOK ==
    pc = "header" =>
        /\ tgt[1] \in 1 .. NPages
        /\ pages[tgt[1]].st = "ACTIVE"
        /\ Room(pages[tgt[1]], Remaining(req))
        /\ tgt[2] = Len(pages[tgt[1]].recs) + 1

\* No address is held while space is searched for; later the new record is
\* there, and so is the version it replaces.
SearchOK == pc \in {"find", "endmark", "gc", "back"} => tgt = NoAddr /\ old = NoAddr

TargetOK ==
    \/ pc \notin {"data", "retire", "activate"}
    \/ IsRecord(pages, tgt)
    \/ pc = "retire" /\ req.op = "write" /\ tgt = NoAddr

OldOK == pc \in {"data", "retire"} => old = NoAddr \/ IsRecord(pages, old)

RestOK == ~Calling => tgt = NoAddr /\ old = NoAddr

\* The GC page that is open has been erased and begun.
ScanOK ==
    /\ scan.p >= 1 /\ scan.i >= 1 /\ scan.g >= 1 /\ scan.bd >= 1 /\ scan.bg >= 1
    /\ scan.open => /\ pc \in GcPcs \cup {"stray"}
                    /\ scan.g <= GPages
                    /\ gc[scan.g].st = "ACTIVE"

CallOK ==
    /\ RequestOK /\ FullOK /\ RoomOK /\ SearchOK /\ TargetOK /\ OldOK
    /\ RestOK /\ ScanOK

Registers ==
    /\ lastWritten \in Addr
    /\ pc \in Pcs
    /\ req \in Request \cup {NoReq}
    /\ cur \in Nat
    /\ tgt \in Addr
    /\ old \in Addr
    /\ scan \in Scan
    /\ xfer \subseteq Transfer
    /\ reply \in Replies
    /\ suspect \subseteq Ids

GcGood == gc \in [1 .. GPages -> GoodPages]

IInv == IsFolder(pages) /\ GcGood /\ Registers /\ CallOK

-----------------------------------------------------------------------------
LEMMA KeyPageGood == KeyPage \in GoodPages /\ BlankPage \in GoodPages
  <1>1. Good(BlankPage) BY BlankPageGood
  <1>2. BlankPage.st = "NEW" /\ BlankPage.recs = <<>> /\ BlankPage.end = FALSE
    BY DEF BlankPage
  <1>3. Good([BlankPage EXCEPT !.st = "OLD"])
    BY <1>1, <1>2, StatusGood DEF PageStatus
  <1> QED BY <1>1, <1>3, GoodPageIn DEF KeyPage

LEMMA BlankChip == IsFolder(BlankFolder) /\ BlankGc \in [1 .. GPages -> GoodPages]
  BY KeyPageGood DEF BlankFolder, BlankGc, IsFolder

LEMMA NoScanType == NoScan \in Scan /\ ~NoScan.open /\ NoAddr \in Addr
  BY DEF NoScan, Scan, NoAddr, Addr

LEMMA InitIInv == Init => IInv
  <1> SUFFICES ASSUME Init PROVE IInv OBVIOUS
  <1>1. IsFolder(pages) /\ GcGood BY BlankChip DEF Init, GcGood
  <1>2. Registers
    BY NoScanType DEF Init, Registers, Pcs, Replies
  <1>3. CallOK
    BY DEF Init, CallOK, Calling, AtRest, RequestOK, FullOK, RoomOK, SearchOK, TargetOK, OldOK,
           RestOK, ScanOK, NoScan, AtRest
  <1> QED BY <1>1, <1>2, <1>3 DEF IInv

\* What a call in progress has to work with.
LEMMA RequestType ==
  ASSUME IInv, Calling
  PROVE  /\ req \in Request
         /\ req.file \in Files /\ req.file \in Seq(Vals) /\ req.id \in Ids
         /\ req.op \in {"write", "part"}
         /\ req.sent \in Nat /\ req.n \in Nat /\ Len(req.file) \in Nat
         /\ Remaining(req) \in Nat /\ req.n <= Remaining(req) /\ req.n >= 1
  <1>1. req \in Request /\ req.n >= 1 /\ req.sent + req.n <= Len(req.file)
    BY DEF IInv, CallOK, RequestOK
  <1>2. req.file \in Files /\ req.file \in Seq(Vals) /\ req.id \in Ids
    BY <1>1, FilesAssumption DEF Request
  <1> QED BY <1>1, <1>2 DEF Request, Remaining

-----------------------------------------------------------------------------
(***************************************************************************)
(* The commands.                                                           *)
(***************************************************************************)
LEMMA FirstPageType == \A a \in Addr : FirstPage(a) \in Nat
  BY DEF FirstPage, Addr

LEMMA CallWriteKeeps ==
  ASSUME IInv, NEW id \in Ids, NEW file \in Files, CallWrite(id, file)
  PROVE  IInv'
  <1> DEFINE request == [op |-> "write", id |-> id, file |-> file, sent |-> 0, n |-> Len(file)]
  <1>1. /\ pc = "idle" /\ pc' = "find" /\ req' = request
        /\ cur' = FirstPage(lastWritten) /\ reply' = "none"
        /\ UNCHANGED <<pages, gc, lastWritten, tgt, old, scan, xfer, suspect>>
    BY DEF CallWrite, Begin
  <1>2. request \in Request /\ request.n >= 1 /\ 0 + request.n <= Len(request.file)
    <2>1. file \in Seq(Vals) /\ file # <<>> BY FilesAssumption
    <2>2. Len(file) \in Nat /\ Len(file) # 0 BY <2>1, EmptySeq, LenProperties
    <2> QED BY <2>2 DEF Request
  <1>3. (IsFolder(pages) /\ GcGood)' BY <1>1 DEF IInv, GcGood, IsFolder
  <1>4. Registers'
    BY <1>1, <1>2, FirstPageType DEF IInv, Registers, Pcs, Replies
  <1>5. CallOK'
    BY <1>1, <1>2 DEF IInv, CallOK, Calling, AtRest, RequestOK, FullOK, RoomOK, SearchOK, TargetOK,
                      OldOK, RestOK, ScanOK, GcPcs
  <1> QED BY <1>3, <1>4, <1>5 DEF IInv

LEMMA CallPartKeeps ==
  ASSUME IInv, NEW id \in Ids, NEW file \in Files, CallPart(id, file)
  PROVE  IInv'
  <1>1. PICK sent \in 0 .. Len(file) - 1 :
          LET left == Len(file) - sent
              n    == IF left < PartLen THEN left ELSE PartLen
              part == Search(pages, id, "PARTIAL")
          IN  /\ Begin([op |-> "part", id |-> id, file |-> file, sent |-> sent, n |-> n],
                       IF part = NoAddr THEN "find" ELSE "data")
              /\ tgt' = part
              /\ pages' = Sweep(pages, part)
    BY DEF CallPart
  <1>2. pc = "idle" /\ UNCHANGED <<gc, lastWritten, old, scan, xfer, suspect>>
    BY DEF CallPart
  <1> DEFINE part == Search(pages, id, "PARTIAL")
             n == IF Len(file) - sent < PartLen THEN Len(file) - sent ELSE PartLen
             request == [op |-> "part", id |-> id, file |-> file, sent |-> sent, n |-> n]
  <1>3. /\ req' = request /\ tgt' = part /\ pages' = Sweep(pages, part)
        /\ pc' = IF part = NoAddr THEN "find" ELSE "data"
        /\ cur' = FirstPage(lastWritten) /\ reply' = "none"
    BY <1>1 DEF Begin
  <1>4. Len(file) \in Nat /\ PartLen \in Nat
    BY FilesAssumption, HostAssumption
  <1>5. n \in Nat /\ sent \in Nat /\ sent + n <= Len(file) /\ n >= 1
    BY <1>4, HostAssumption
  <1>6. request \in Request /\ request.n >= 1 /\ request.sent + request.n <= Len(request.file)
    BY <1>5 DEF Request
  <1>7. IsFolder(pages) BY DEF IInv
  <1>8. /\ IsFolder(Sweep(pages, part))
        /\ \A b : IsRecord(pages, b) => IsRecord(Sweep(pages, part), b)
    BY <1>7, SweepFolder DEF IsRecord
  <1>9. part = NoAddr \/ IsRecord(pages, part) BY <1>7, SearchAddr
  <1>10. (IsFolder(pages) /\ GcGood)' BY <1>2, <1>3, <1>8 DEF IInv, GcGood
  <1>11. part \in Addr BY <1>9, NoScanType DEF IsRecord
  <1> HIDE DEF part, n, request
  <1>12. Registers'
    BY <1>2, <1>3, <1>6, <1>11, FirstPageType DEF IInv, Registers, Pcs, Replies
  <1>13. CallOK'
    BY <1>2, <1>3, <1>6, <1>8, <1>9
       DEF IInv, CallOK, Calling, AtRest, RequestOK, FullOK, RoomOK, SearchOK, TargetOK,
           OldOK, RestOK, ScanOK, GcPcs
  <1> QED BY <1>10, <1>12, <1>13 DEF IInv

LEMMA ReadFileKeeps ==
  ASSUME IInv, NEW id \in Ids, ReadFile(id)
  PROVE  IInv'
  <1>1. IsFolder(pages') BY SweepFolder DEF IInv, ReadFile
  <1>2. (GcGood /\ Registers)' BY DEF IInv, ReadFile, GcGood, Registers, call
  <1>3. CallOK'
    BY DEF IInv, ReadFile, call, CallOK, Calling, AtRest, RequestOK, FullOK, RoomOK, SearchOK, TargetOK,
           OldOK, RestOK, ScanOK
  <1> QED BY <1>1, <1>2, <1>3 DEF IInv

LEMMA EraseChipKeeps == ASSUME IInv, EraseChip PROVE IInv'
  <1>1. (IsFolder(pages) /\ GcGood)' BY BlankChip DEF EraseChip, GcGood
  <1>2. Registers' BY NoScanType DEF IInv, EraseChip, Registers, Replies, call, Pcs
  <1>3. CallOK'
    BY DEF IInv, EraseChip, call, CallOK, Calling, AtRest, RequestOK, FullOK, RoomOK, SearchOK, TargetOK,
           OldOK, RestOK, ScanOK, GcPcs, AtRest
  <1> QED BY <1>1, <1>2, <1>3 DEF IInv

-----------------------------------------------------------------------------
(***************************************************************************)
(* The search for free space.                                              *)
(***************************************************************************)
LEMMA FindRoomKeeps == ASSUME IInv, FindRoom PROVE IInv'
  <1>1. PICK p \in 1 .. NPages :
          /\ Looks(p)
          /\ Room(pages[p], Remaining(req))
          /\ pages' = [pages EXCEPT ![p].st = "ACTIVE"]
          /\ tgt' = <<p, Len(pages[p].recs) + 1>>
    BY DEF FindRoom
  <1>2. /\ pc = "find" /\ pc' = "header"
        /\ UNCHANGED <<gc, lastWritten, req, cur, old, scan, xfer, reply, suspect>>
    BY DEF FindRoom
  <1> DEFINE q == [pages[p] EXCEPT !.st = "ACTIVE"]
  <1>3. Good(pages[p]) /\ pages[p].recs \in Seq(Record) BY PageOf DEF IInv
  <1>4. ~pages[p].end BY <1>1, <1>3 DEF Looks, Open, Good, WellFormed, MarksAgree
  <1>5. Good(q) BY <1>3, <1>4, StatusGood DEF PageStatus
  <1>6. pages' = [pages EXCEPT ![p] = q] BY <1>1
  <1>7. q.recs = pages[p].recs /\ q.st = "ACTIVE" BY <1>3 DEF Good, Page
  <1>8. pages'[p] = q BY <1>6, PageOf DEF IInv
  <1> HIDE DEF q
  <1>9. IsFolder(pages') BY <1>5, <1>6, PutPage DEF IInv
  <1>10. GcGood' BY <1>2 DEF IInv, GcGood
  <1>11. tgt' \in Addr BY <1>1, <1>3, LenProperties, SizesAssumption DEF Addr
  <1>12. Registers' BY <1>2, <1>11 DEF IInv, Registers, Pcs
  <1>13. RoomOK'
    BY <1>1, <1>2, <1>7, <1>8 DEF RoomOK, Room, Remaining, Top
  <1>14. CallOK'
    BY <1>2, <1>13 DEF IInv, CallOK, Calling, AtRest, RequestOK, FullOK, SearchOK, TargetOK,
           OldOK, RestOK, ScanOK, GcPcs
  <1> QED BY <1>9, <1>10, <1>12, <1>14 DEF IInv

LEMMA FindFullKeeps == ASSUME IInv, FindFull PROVE IInv'
  <1>1. PICK p \in 1 .. NPages :
          /\ Looks(p)
          /\ pages' = [pages EXCEPT ![p].st = "OLD"]
          /\ cur' = p
    BY DEF FindFull
  <1>2. /\ pc = "find" /\ pc' = "endmark"
        /\ UNCHANGED <<gc, lastWritten, req, tgt, old, scan, xfer, reply, suspect>>
    BY DEF FindFull
  <1> DEFINE q == [pages[p] EXCEPT !.st = "OLD"]
  <1>3. Good(pages[p]) BY PageOf DEF IInv
  <1>4. Good(q) BY <1>3, StatusGood DEF PageStatus
  <1>5. pages' = [pages EXCEPT ![p] = q] BY <1>1
  <1>6. q.st = "OLD" BY <1>3 DEF Good, Page
  <1>7. pages'[p] = q BY <1>5, PageOf DEF IInv
  <1> HIDE DEF q
  <1>8. IsFolder(pages') BY <1>4, <1>5, PutPage DEF IInv
  <1>9. GcGood' BY <1>2 DEF IInv, GcGood
  <1>10. Registers' BY <1>1, <1>2 DEF IInv, Registers, Pcs
  <1>11. CallOK'
    BY <1>1, <1>2, <1>6, <1>7 DEF IInv, CallOK, Calling, AtRest, RequestOK, FullOK, RoomOK, SearchOK,
           TargetOK, OldOK, RestOK, ScanOK, GcPcs
  <1> QED BY <1>8, <1>9, <1>10, <1>11 DEF IInv

LEMMA EndMarkKeeps == ASSUME IInv, EndMark PROVE IInv'
  <1>1. /\ pc = "endmark" /\ pc' = "find" /\ cur' = cur + 1
        /\ pages' = [pages EXCEPT ![cur].end = TRUE]
        /\ UNCHANGED <<gc, lastWritten, req, tgt, old, scan, xfer, reply, suspect>>
    BY DEF EndMark
  <1>2. cur \in 1 .. NPages /\ pages[cur].st = "OLD"
    BY <1>1 DEF IInv, CallOK, FullOK
  <1> DEFINE q == [pages[cur] EXCEPT !.end = TRUE]
  <1>3. Good(pages[cur]) BY <1>2, PageOf DEF IInv
  <1>4. Good(q) BY <1>2, <1>3, EndGood
  <1>5. pages' = [pages EXCEPT ![cur] = q] BY <1>1
  <1> HIDE DEF q
  <1>6. IsFolder(pages') BY <1>2, <1>4, <1>5, PutPage DEF IInv
  <1>7. GcGood' BY <1>1 DEF IInv, GcGood
  <1>8. Registers' BY <1>1, <1>2 DEF IInv, Registers, Pcs
  <1>9. CallOK'
    BY <1>1 DEF IInv, CallOK, Calling, AtRest, RequestOK, FullOK, RoomOK, SearchOK,
           TargetOK, OldOK, RestOK, ScanOK, GcPcs
  <1> QED BY <1>6, <1>7, <1>8, <1>9 DEF IInv

LEMMA FindNoneKeeps == ASSUME IInv, FindNone PROVE IInv'
  <1>1. (IsFolder(pages) /\ GcGood)' BY DEF IInv, FindNone, IsFolder, GcGood
  <1>2. Registers' BY NoScanType DEF IInv, FindNone, Registers, Pcs
  <1>3. CallOK'
    BY DEF IInv, FindNone, CallOK, Calling, AtRest, RequestOK, FullOK, RoomOK, SearchOK,
           TargetOK, OldOK, RestOK, ScanOK, GcPcs, NoScan
  <1> QED BY <1>1, <1>2, <1>3 DEF IInv

-----------------------------------------------------------------------------
(***************************************************************************)
(* The programs of a write.                                                *)
(***************************************************************************)
LEMMA BlanksType == \A n \in Nat : Blanks(n) \in Seq(Cells) /\ Len(Blanks(n)) = n
  <1> TAKE n \in Nat
  <1>1. Blanks(n) \in [1 .. n -> Cells] BY DEF Blanks, Cells
  <1> QED BY <1>1, SeqDef, LenProperties

LEMMA NewRecordType ==
  ASSUME IInv, pc = "header"
  PROVE  /\ NewRecord \in Record
         /\ NewRecord.off = Top(pages[tgt[1]])
         /\ RecLen(NewRecord) = HdrLen + Remaining(req)
  <1>1. tgt[1] \in 1 .. NPages BY DEF IInv, CallOK, RoomOK
  <1>2. Top(pages[tgt[1]]) \in Nat BY <1>1, PageOf, TopType DEF IInv
  <1>3. req.file \in Seq(Vals) /\ req.id \in Ids /\ Remaining(req) \in Nat
    BY RequestType DEF Calling, AtRest
  <1>4. <<>> \in Seq(Vals) BY EmptySeq
  <1> DEFINE data == Blanks(Remaining(req))
  <1>5. data \in Seq(Cells) /\ Len(data) = Remaining(req) BY <1>3, BlanksType
  <1> HIDE DEF data
  <1>6. NewRecord = [st   |-> IF Whole THEN "ACTIVE" ELSE "PARTIAL",
                     id   |-> req.id,
                     off  |-> Top(pages[tgt[1]]),
                     data |-> data,
                     crc  |-> IF Whole THEN req.file ELSE <<>>]
    BY DEF NewRecord, data
  <1> QED BY <1>2, <1>3, <1>4, <1>5, <1>6 DEF Record, FileStatus, RecLen

\* The header goes behind the last record of a page that has room for it.
LEMMA HeaderFolder ==
  ASSUME IInv, pc = "header"
  PROVE  /\ IsFolder(HeaderAdded)
         /\ IsRecord(HeaderAdded, tgt)
         /\ Version \in Addr
         /\ Version = NoAddr \/ IsRecord(HeaderAdded, Version)
  <1> DEFINE swept == IF Whole THEN Sweep(pages, Version) ELSE pages
             p     == tgt[1]
             q     == [swept[p] EXCEPT !.recs = Append(@, NewRecord)]
             added == [swept EXCEPT ![p] = q]
  <1>1. HeaderAdded = added BY DEF HeaderAdded
  <1>2. /\ p \in 1 .. NPages /\ pages[p].st = "ACTIVE"
        /\ Room(pages[p], Remaining(req))
        /\ tgt[2] = Len(pages[p].recs) + 1
    BY DEF IInv, CallOK, RoomOK
  <1>3. IsFolder(pages) /\ Good(pages[p]) /\ pages[p].recs \in Seq(Record)
    BY <1>2, PageOf DEF IInv
  <1>4. ~pages[p].end BY <1>2, <1>3 DEF Good, WellFormed, MarksAgree
  <1>6. Version = NoAddr \/ IsRecord(pages, Version) BY <1>3, SearchAddr DEF Version
  <1>5. /\ IsFolder(swept)
        /\ swept[p] = pages[p]
        /\ \A b : IsRecord(pages, b) => IsRecord(swept, b)
    BY <1>2, <1>3, <1>4, <1>6, SweepFolder DEF IsRecord, Version
  <1>7. Top(pages[p]) \in Nat BY <1>3, TopType
  <1>8. /\ NewRecord \in Record /\ NewRecord.off = Top(pages[p])
        /\ RecLen(NewRecord) = HdrLen + Remaining(req)
    BY NewRecordType
  <1>9. Remaining(req) \in Nat BY RequestType DEF Calling, AtRest
  <1>10. Top(pages[p]) + RecLen(NewRecord) < PageLen
    BY <1>2, <1>7, <1>8, <1>9, SizesAssumption DEF Room
  <1>11. Good(q)
    <2>1. Good([pages[p] EXCEPT !.recs = Append(@, NewRecord)])
      BY <1>2, <1>3, <1>8, <1>10, AppendGood
    <2> QED BY <2>1, <1>5
  <1>13. q.recs = Append(pages[p].recs, NewRecord) BY <1>3, <1>5 DEF Good, Page
  <1> HIDE DEF swept, q
  <1>14. IsFolder(added) BY <1>2, <1>5, <1>11, PutPage
  <1>15. added[p] = q /\ \A r \in 1 .. NPages : r # p => added[r] = swept[r]
    BY <1>2, <1>5, PageOf
  <1>16. \A b : IsRecord(swept, b) => IsRecord(added, b)
    BY <1>3, <1>5, <1>8, <1>13, <1>15 DEF IsRecord
  <1>17. IsRecord(added, tgt)
    BY <1>2, <1>3, <1>8, <1>13, <1>15 DEF IsRecord, IInv, Registers
  <1>18. Version \in Addr BY <1>6, NoScanType DEF IsRecord
  <1> HIDE DEF added
  <1> QED BY <1>1, <1>5, <1>6, <1>14, <1>16, <1>17, <1>18

LEMMA WriteHeaderKeeps == ASSUME IInv, WriteHeader PROVE IInv'
  <1>1. /\ pc = "header" /\ pc' = "data" /\ old' = Version /\ pages' = HeaderAdded
        /\ lastWritten' = IF Whole THEN tgt ELSE lastWritten
        /\ UNCHANGED <<gc, req, cur, tgt, scan, xfer, reply, suspect>>
    BY DEF WriteHeader
  <1>2. /\ IsFolder(pages') /\ IsRecord(pages', tgt) /\ Version \in Addr
        /\ Version = NoAddr \/ IsRecord(pages', Version)
    BY <1>1, HeaderFolder
  <1>3. GcGood' BY <1>1 DEF IInv, GcGood
  <1>4. Registers' BY <1>1, <1>2 DEF IInv, Registers, Pcs
  <1>5. CallOK'
    BY <1>1, <1>2
       DEF IInv, CallOK, Calling, AtRest, RequestOK, FullOK, RoomOK, SearchOK,
           TargetOK, OldOK, RestOK, ScanOK, GcPcs
  <1> QED BY <1>2, <1>3, <1>4, <1>5 DEF IInv

LEMMA StartType == ASSUME IInv, pc = "data" PROVE PayloadStart \in Int
  <1>1. IsFolder(pages) /\ IsRecord(pages, tgt) BY DEF IInv, CallOK, TargetOK
  <1>2. pages[tgt[1]].recs \in Seq(Record) BY <1>1, PageOf DEF IsRecord
  <1>3. At(pages, tgt) \in Record BY <1>1, <1>2 DEF IsRecord, At
  <1>4. Len(At(pages, tgt).data) \in Nat BY <1>3, LenProperties DEF Record
  <1> QED BY <1>4, RequestType DEF PayloadStart, Calling, AtRest

\* The first cells of the payload, and where they go.
LEMMA PayloadType ==
  ASSUME IInv, pc = "data", PayloadStart >= 0, NEW k \in 0 .. req.n
  PROVE  SubSeq(Payload, 1, k) \in Seq(Vals) /\ PayloadStart \in Nat
  <1>2. /\ req.file \in Seq(Vals) /\ req.sent \in Nat /\ req.n \in Nat
        /\ Remaining(req) \in Nat /\ req.n <= Remaining(req) /\ Len(req.file) \in Nat
    BY RequestType DEF Calling, AtRest
  <1>3. Payload \in Seq(Vals) /\ Len(Payload) = req.n
    <2>1. /\ req.sent + 1 \in 1 .. Len(req.file) + 1
          /\ req.sent + req.n \in req.sent .. Len(req.file)
      BY <1>2 DEF Remaining
    <2>2. Len(SubSeq(req.file, req.sent + 1, req.sent + req.n)) = req.n
      BY <1>2, <2>1, SubSeqProperties
    <2>3. SubSeq(req.file, req.sent + 1, req.sent + req.n) \in Seq(Vals)
      BY <1>2, <2>1, SubSeqProperties
    <2> QED BY <2>2, <2>3 DEF Payload
  <1>4. SubSeq(Payload, 1, k) \in Seq(Vals) BY <1>2, <1>3, SubSeqProperties
  <1>5. PayloadStart \in Nat BY StartType
  <1> QED BY <1>4, <1>5

\* Any first cells of the payload keep the layout.
LEMMA WithPayloadFolder ==
  ASSUME IInv, pc = "data", PayloadStart >= 0, NEW k \in 0 .. req.n
  PROVE  /\ IsFolder(WithPayload(k))
         /\ \A b : IsRecord(pages, b) => IsRecord(WithPayload(k), b)
  <1>1. IsFolder(pages) /\ IsRecord(pages, tgt) BY DEF IInv, CallOK, TargetOK
  <1> DEFINE data == At(pages, tgt).data
             new  == ProgramAt(data, PayloadStart, SubSeq(Payload, 1, k))
  <1>5. data \in Seq(Cells)
    <2>1. pages[tgt[1]].recs \in Seq(Record) BY <1>1, PageOf DEF IsRecord
    <2>2. At(pages, tgt) \in Record BY <1>1, <2>1 DEF IsRecord, At
    <2> QED BY <2>2 DEF Record
  <1>6. SubSeq(Payload, 1, k) \in Seq(Vals) /\ PayloadStart \in Nat BY PayloadType
  <1>7. new \in Seq(Cells) /\ Len(new) = Len(data) BY <1>5, <1>6, ProgramAtType
  <1>8. WithPayload(k) = [pages EXCEPT ![tgt[1]].recs[tgt[2]].data = new]
    BY DEF WithPayload, At
  <1>9. \A d \in Seq(Cells) :
          Len(d) = Len(At(pages, tgt).data)
          => /\ IsFolder([pages EXCEPT ![tgt[1]].recs[tgt[2]].data = d])
             /\ \A b : IsRecord(pages, b)
                       => IsRecord([pages EXCEPT ![tgt[1]].recs[tgt[2]].data = d], b)
    BY <1>1, PutRecord
  <1> HIDE DEF new
  <1> QED BY <1>7, <1>8, <1>9

LEMMA AdvanceType ==
  ASSUME IInv, Calling, NEW refused \in BOOLEAN, Advance(refused)
  PROVE  xfer' \subseteq Transfer
  <1>1. /\ req.id \in Ids /\ req.file \in Files /\ req.sent \in Nat /\ req.n \in Nat
        /\ Len(req.file) \in Nat /\ req.n >= 1 /\ req.n <= Remaining(req)
    BY RequestType
  <1> DEFINE m == Meant
             n == req.sent + req.n
             tail == SubSeq(req.file, n + 1, Len(req.file))
             same == [id |-> req.id, all |-> m, sent |-> n, file |-> req.file]
             rest == [id |-> req.id, all |-> m, sent |-> 0, file |-> tail]
  <1>2. m \in Files
    BY <1>1 DEF Meant, IInv, Registers, Transfer
  <1>3. same \in Transfer BY <1>1, <1>2 DEF Transfer
  <1>4. req.n # Remaining(req) => rest \in Transfer
    <2> SUFFICES ASSUME req.n # Remaining(req) PROVE tail \in Files
      BY <1>1, <1>2 DEF Transfer
    <2>1. n \in 1 .. Len(req.file) - 1 BY <1>1 DEF Remaining
    <2> HIDE DEF n
    <2> QED BY <1>1, <2>1, FilesAssumption
  <1>5. /\ xfer \subseteq Transfer
        /\ xfer' = IF req.op # "part" \/ req.n = Remaining(req)
                   THEN {t \in xfer : t.id # req.id}
                   ELSE {t \in xfer : t.id # req.id} \cup {IF refused THEN rest ELSE same}
    BY DEF IInv, Registers, Advance
  <1> HIDE DEF same, rest
  <1> QED BY <1>3, <1>4, <1>5

\* The end of a call.
LEMMA EndKeeps ==
  ASSUME IInv, Calling, IsFolder(pages'), GcGood', lastWritten' \in Addr,
         NEW r \in Replies, Return(r), NEW refused \in BOOLEAN, Advance(refused),
         suspect' \subseteq Ids
  PROVE  IInv'
  <1>1. Registers'
    BY AdvanceType, NoScanType DEF IInv, Registers, Return, Pcs
  <1>2. CallOK'
    BY NoScanType
       DEF Return, CallOK, Calling, AtRest, RequestOK, FullOK, RoomOK, SearchOK,
           TargetOK, OldOK, RestOK, ScanOK, GcPcs, NoScan, AtRest
  <1> QED BY <1>1, <1>2 DEF IInv

LEMMA ReturnKeeps ==
  ASSUME IInv, Calling, IsFolder(pages'), GcGood', lastWritten' \in Addr,
         NEW r \in Replies, Return(r), NEW refused \in BOOLEAN, Advance(refused),
         suspect' = suspect
  PROVE  IInv'
  <1>1. suspect' \subseteq Ids BY DEF IInv, Registers
  <1> QED BY <1>1, EndKeeps

LEMMA WriteDataKeeps == ASSUME IInv, WriteData PROVE IInv'
  <1>1. pc = "data" /\ Calling /\ UNCHANGED <<gc, lastWritten, suspect>>
    BY DEF WriteData, Calling, AtRest
  <1>2. GcGood' /\ lastWritten' \in Addr BY <1>1 DEF IInv, GcGood, Registers
  <1>3. CASE PayloadStart < 0
    <2>1. pc' = "stray" /\ UNCHANGED <<pages, call, xfer, reply>>
      BY <1>3 DEF WriteData
    <2>2. Registers' BY <1>1, <2>1 DEF IInv, Registers, Pcs, call
    <2>3. CallOK'
      BY <1>1, <2>1 DEF IInv, call, CallOK, Calling, AtRest, RequestOK, FullOK, RoomOK, SearchOK,
             TargetOK, OldOK, RestOK, ScanOK, GcPcs
    <2> QED BY <1>2, <2>1, <2>2, <2>3 DEF IInv, IsFolder
  <1>4. CASE ~(PayloadStart < 0)
    <2>1. pages' = WithPayload(req.n) BY <1>4 DEF WriteData
    <2>2. PayloadStart >= 0 BY <1>1, <1>4, StartType
    <2>3. req.n \in 0 .. req.n BY <1>1, RequestType
    <2>4. /\ IsFolder(pages')
          /\ \A b : IsRecord(pages, b) => IsRecord(pages', b)
      BY <1>1, <2>1, <2>2, <2>3, WithPayloadFolder
    <2>5. CASE MoreParts
      <3>1. Return("success") /\ Advance(FALSE) BY <1>4, <2>5 DEF WriteData
      <3> QED BY <1>1, <1>2, <2>4, <3>1, ReturnKeeps DEF Replies
    <2>6. CASE ~MoreParts
      <3>1. pc' = "retire" /\ UNCHANGED <<call, xfer, reply>>
        BY <1>4, <2>6 DEF WriteData
      <3>2. Registers' BY <1>1, <3>1 DEF IInv, Registers, Pcs, call
      <3>3. CallOK'
        BY <1>1, <2>4, <3>1 DEF IInv, call, CallOK, Calling, AtRest, RequestOK, FullOK, RoomOK,
               SearchOK, TargetOK, OldOK, RestOK, ScanOK, GcPcs
      <3> QED BY <1>2, <2>4, <3>2, <3>3 DEF IInv
    <2> QED BY <2>5, <2>6
  <1> QED BY <1>3, <1>4

\* A retired version keeps its place.
LEMMA RetireAtFolder ==
  ASSUME NEW pgs, IsFolder(pgs), NEW a, a = NoAddr \/ IsRecord(pgs, a)
  PROVE  /\ IsFolder(RetireAt(pgs, a))
         /\ \A b : IsRecord(pgs, b) => IsRecord(RetireAt(pgs, a), b)
  <1>1. CASE a = NoAddr BY <1>1 DEF RetireAt
  <1>2. CASE a # NoAddr
    <2>1. IsRecord(pgs, a) /\ "OLD" \in FileStatus BY <1>2 DEF FileStatus
    <2> QED BY <1>2, <2>1, SetStatusFolder DEF RetireAt
  <1> QED BY <1>1, <1>2

LEMMA SweepSearch ==
  ASSUME NEW pgs, IsFolder(pgs), NEW id, NEW st
  PROVE  LET v == Search(pgs, id, st)
         IN  /\ v \in Addr
             /\ v = NoAddr \/ IsRecord(Sweep(pgs, v), v)
             /\ IsFolder(Sweep(pgs, v))
             /\ \A b : IsRecord(pgs, b) => IsRecord(Sweep(pgs, v), b)
  <1> DEFINE v == Search(pgs, id, st)
  <1>1. v = NoAddr \/ IsRecord(pgs, v) BY SearchAddr
  <1>2. /\ IsFolder(Sweep(pgs, v))
        /\ \A b : IsRecord(pgs, b) => IsRecord(Sweep(pgs, v), b)
    BY SweepFolder DEF IsRecord
  <1>3. v \in Addr BY <1>1, NoScanType DEF IsRecord
  <1> QED BY <1>1, <1>2, <1>3

LEMMA RetireReplacedKeeps == ASSUME IInv, RetireReplaced PROVE IInv'
  <1> DEFINE looked  == tgt # NoAddr
             version == IF looked THEN old ELSE Search(pages, req.id, "ACTIVE")
             swept   == IF looked THEN pages ELSE Sweep(pages, version)
  <1>1. /\ pc = "retire" /\ Calling
        /\ pages' = RetireAt(swept, version)
        /\ Return(IF looked THEN "success" ELSE "no_space")
        /\ Advance(FALSE)
        /\ UNCHANGED <<gc, lastWritten, suspect>>
    BY DEF RetireReplaced, Calling, AtRest
  <1>2. IsFolder(swept) /\ (version = NoAddr \/ IsRecord(swept, version))
    <2>1. CASE looked BY <1>1, <2>1 DEF IInv, CallOK, OldOK
    <2>2. CASE ~looked BY <2>2, SweepSearch DEF IInv
    <2> QED BY <2>1, <2>2
  <1>3. IsFolder(pages') BY <1>1, <1>2, RetireAtFolder
  <1>4. GcGood' /\ lastWritten' \in Addr BY <1>1 DEF IInv, GcGood, Registers
  <1>5. (IF looked THEN "success" ELSE "no_space") \in Replies BY DEF Replies
  <1> HIDE DEF looked
  <1> QED BY <1>1, <1>3, <1>4, <1>5, ReturnKeeps

LEMMA RetireForPartsKeeps == ASSUME IInv, RetireForParts PROVE IInv'
  <1> DEFINE version == Search(pages, req.id, "ACTIVE")
             swept   == Sweep(pages, version)
  <1>1. /\ pc = "retire" /\ pc' = "activate" /\ req.op = "part"
        /\ pages' = RetireAt(swept, version)
        /\ old' = version
        /\ UNCHANGED <<gc, lastWritten, req, cur, tgt, scan, xfer, reply, suspect>>
    BY DEF RetireForParts
  <1>2. IsFolder(pages) /\ IsRecord(pages, tgt)
    BY <1>1 DEF IInv, CallOK, TargetOK
  <1>3. /\ version \in Addr /\ (version = NoAddr \/ IsRecord(swept, version))
        /\ IsFolder(swept)
        /\ \A b : IsRecord(pages, b) => IsRecord(swept, b)
    BY <1>2, SweepSearch
  <1> HIDE DEF version, swept
  <1>4. IsFolder(pages') /\ IsRecord(pages', tgt)
    BY <1>1, <1>2, <1>3, RetireAtFolder
  <1>5. GcGood' BY <1>1 DEF IInv, GcGood
  <1>6. Registers' BY <1>1, <1>3 DEF IInv, Registers, Pcs
  <1>7. CallOK'
    BY <1>1, <1>4 DEF IInv, CallOK, Calling, AtRest, RequestOK, FullOK, RoomOK,
           SearchOK, TargetOK, OldOK, RestOK, ScanOK, GcPcs
  <1> QED BY <1>4, <1>5, <1>6, <1>7 DEF IInv

LEMMA ActivateKeeps == ASSUME IInv, Activate PROVE IInv'
  <1>1. /\ pc = "activate" /\ Calling
        /\ pages' = SetStatus(pages, tgt, "ACTIVE")
        /\ lastWritten' = tgt
        /\ Return(IF old = NoAddr THEN "not_found" ELSE "success")
        /\ Advance(FALSE)
        /\ UNCHANGED <<gc, suspect>>
    BY DEF Activate, Calling, AtRest
  <1>2. IsFolder(pages) /\ IsRecord(pages, tgt) BY <1>1 DEF IInv, CallOK, TargetOK
  <1>3. IsFolder(pages') BY <1>1, <1>2, SetStatusFolder DEF FileStatus
  <1>4. GcGood' /\ lastWritten' \in Addr BY <1>1, <1>2 DEF IInv, GcGood, IsRecord
  <1>5. (IF old = NoAddr THEN "not_found" ELSE "success") \in Replies BY DEF Replies
  <1> QED BY <1>1, <1>3, <1>4, <1>5, ReturnKeeps

-----------------------------------------------------------------------------
(***************************************************************************)
(* The cursors of the collection: setting some leaves the others.          *)
(***************************************************************************)
SameButIn(s, t, fields) ==
    /\ t \in Scan
    /\ "p" \notin fields => t.p = s.p
    /\ "i" \notin fields => t.i = s.i
    /\ "g" \notin fields => t.g = s.g
    /\ "open" \notin fields => t.open = s.open
    /\ "bd" \notin fields => t.bd = s.bd
    /\ "bg" \notin fields => t.bg = s.bg

LEMMA SetOne ==
  ASSUME NEW s \in Scan, NEW n \in Nat, NEW b \in BOOLEAN
  PROVE  /\ SameButIn(s, [s EXCEPT !.p = n], {"p"}) /\ [s EXCEPT !.p = n].p = n
         /\ SameButIn(s, [s EXCEPT !.i = n], {"i"}) /\ [s EXCEPT !.i = n].i = n
         /\ SameButIn(s, [s EXCEPT !.g = n], {"g"}) /\ [s EXCEPT !.g = n].g = n
         /\ SameButIn(s, [s EXCEPT !.bd = n], {"bd"}) /\ [s EXCEPT !.bd = n].bd = n
         /\ SameButIn(s, [s EXCEPT !.bg = n], {"bg"}) /\ [s EXCEPT !.bg = n].bg = n
         /\ SameButIn(s, [s EXCEPT !.open = b], {"open"}) /\ [s EXCEPT !.open = b].open = b
         /\ SameButIn(s, [s EXCEPT !.stop = b], {})
  BY DEF Scan, SameButIn

LEMMA SetResumed ==
  ASSUME NEW u \in Scan
  PROVE  LET t == [NoScan EXCEPT !.p = u.p, !.i = u.i]
         IN  SameButIn(NoScan, t, {"p", "i"}) /\ t.p = u.p /\ t.i = u.i
  <1> DEFINE m == [NoScan EXCEPT !.p = u.p]
             t == [m EXCEPT !.i = u.i]
  <1>1. NoScan \in Scan /\ u.p \in Nat /\ u.i \in Nat BY NoScanType DEF Scan
  <1>2. SameButIn(NoScan, m, {"p"}) /\ m.p = u.p BY <1>1, SetOne
  <1>3. SameButIn(m, t, {"i"}) /\ t.i = u.i
    <2>1. m \in Scan BY <1>2 DEF SameButIn
    <2> HIDE DEF m
    <2> QED BY <1>1, <2>1, SetOne
  <1>4. [NoScan EXCEPT !.p = u.p, !.i = u.i] = t BY Zenon
  <1> HIDE DEF m, t
  <1> QED BY <1>2, <1>3, <1>4 DEF SameButIn

LEMMA SetCopyStart ==
  ASSUME NEW s \in Scan
  PROVE  LET t == [s EXCEPT !.bd = 1, !.bg = 1]
         IN  SameButIn(s, t, {"bd", "bg"}) /\ t.bd = 1 /\ t.bg = 1
  <1> DEFINE m == [s EXCEPT !.bd = 1]
             t == [m EXCEPT !.bg = 1]
  <1>1. SameButIn(s, m, {"bd"}) /\ m.bd = 1 BY SetOne
  <1>2. SameButIn(m, t, {"bg"}) /\ t.bg = 1
    <2>1. m \in Scan BY <1>1 DEF SameButIn
    <2> HIDE DEF m
    <2> QED BY <2>1, SetOne
  <1>3. [s EXCEPT !.bd = 1, !.bg = 1] = t BY Zenon
  <1> HIDE DEF m, t
  <1> QED BY <1>1, <1>2, <1>3 DEF SameButIn

LEMMA SetNextCopied ==
  ASSUME NEW s \in Scan, NEW d \in Nat
  PROVE  LET t == [s EXCEPT !.bd = d, !.bg = @ + 1]
         IN  SameButIn(s, t, {"bd", "bg"}) /\ t.bd = d /\ t.bg = s.bg + 1
  <1> DEFINE m == [s EXCEPT !.bd = d]
             t == [m EXCEPT !.bg = s.bg + 1]
  <1>1. SameButIn(s, m, {"bd"}) /\ m.bd = d BY SetOne
  <1>2. SameButIn(m, t, {"bg"}) /\ t.bg = s.bg + 1
    <2>1. m \in Scan /\ s.bg + 1 \in Nat BY <1>1 DEF SameButIn, Scan
    <2> HIDE DEF m
    <2> QED BY <2>1, SetOne
  <1>3. [s EXCEPT !.bd = d, !.bg = @ + 1] = t BY DEF Scan
  <1> HIDE DEF m, t
  <1> QED BY <1>1, <1>2, <1>3 DEF SameButIn

LEMMA SetMoved ==
  ASSUME NEW s \in Scan, NEW i \in Nat, NEW b \in BOOLEAN
  PROVE  LET t == [s EXCEPT !.i = i, !.open = b]
         IN  SameButIn(s, t, {"i", "open"}) /\ t.i = i /\ t.open = b
  <1> DEFINE m == [s EXCEPT !.i = i]
             t == [m EXCEPT !.open = b]
  <1>1. SameButIn(s, m, {"i"}) /\ m.i = i BY SetOne
  <1>2. SameButIn(m, t, {"open"}) /\ t.open = b
    <2>1. m \in Scan BY <1>1 DEF SameButIn
    <2> HIDE DEF m
    <2> QED BY <2>1, SetOne
  <1>3. [s EXCEPT !.i = i, !.open = b] = t BY Zenon
  <1> HIDE DEF m, t
  <1> QED BY <1>1, <1>2, <1>3 DEF SameButIn

LEMMA SetNextGc ==
  ASSUME NEW s \in Scan, NEW i \in Nat
  PROVE  LET t == [s EXCEPT !.i = i, !.g = @ + 1, !.open = FALSE]
         IN  SameButIn(s, t, {"i", "g", "open"}) /\ t.i = i /\ t.g = s.g + 1 /\ ~t.open
  <1> DEFINE k == [s EXCEPT !.i = i]
             m == [k EXCEPT !.g = s.g + 1]
             t == [m EXCEPT !.open = FALSE]
  <1>1. SameButIn(s, k, {"i"}) /\ k.i = i BY SetOne
  <1>2. SameButIn(k, m, {"g"}) /\ m.g = s.g + 1
    <2>1. k \in Scan /\ s.g + 1 \in Nat BY <1>1 DEF SameButIn, Scan
    <2> HIDE DEF k
    <2> QED BY <2>1, SetOne
  <1>3. SameButIn(m, t, {"open"}) /\ t.open = FALSE
    <2>1. m \in Scan BY <1>2 DEF SameButIn
    <2> HIDE DEF m
    <2> QED BY <2>1, SetOne
  <1>4. [s EXCEPT !.i = i, !.g = @ + 1, !.open = FALSE] = t BY DEF Scan
  <1> HIDE DEF k, m, t
  <1> QED BY <1>1, <1>2, <1>3, <1>4 DEF SameButIn

LEMMA SetNextPage ==
  ASSUME NEW s \in Scan
  PROVE  LET t == [s EXCEPT !.p = @ + 1, !.i = 1]
         IN  SameButIn(s, t, {"p", "i"}) /\ t.p = s.p + 1 /\ t.i = 1
  <1> DEFINE m == [s EXCEPT !.p = s.p + 1]
             t == [m EXCEPT !.i = 1]
  <1>1. SameButIn(s, m, {"p"}) /\ m.p = s.p + 1
    <2>1. s.p + 1 \in Nat BY DEF Scan
    <2> QED BY <2>1, SetOne
  <1>2. SameButIn(m, t, {"i"}) /\ t.i = 1
    <2>1. m \in Scan BY <1>1 DEF SameButIn
    <2> HIDE DEF m
    <2> QED BY <2>1, SetOne
  <1>3. [s EXCEPT !.p = @ + 1, !.i = 1] = t BY Zenon
  <1> HIDE DEF m, t
  <1> QED BY <1>1, <1>2, <1>3 DEF SameButIn

-----------------------------------------------------------------------------
(***************************************************************************)
(* The garbage collection.                                                 *)
(***************************************************************************)
LEMMA CollectingFacts ==
  ASSUME IInv, Collecting
  PROVE  /\ pc = "gc" /\ scan \in Scan /\ scan.p \in 1 .. NPages /\ scan.g \in 1 .. GPages
         /\ scan.i \in Nat \ {0}
         /\ Good(pages[scan.p]) /\ pages[scan.p].recs \in Seq(Record)
         /\ Good(gc[scan.g])
         /\ tgt = NoAddr /\ old = NoAddr
  <1>1. scan \in Scan /\ scan.p >= 1 /\ scan.g >= 1 /\ scan.i >= 1
    BY DEF IInv, Registers, CallOK, ScanOK
  <1>2. scan.p \in 1 .. NPages /\ scan.g \in 1 .. GPages /\ scan.i \in Nat \ {0}
    BY <1>1, SizesAssumption DEF Collecting, Scan
  <1>3. Good(pages[scan.p]) /\ pages[scan.p].recs \in Seq(Record)
    BY <1>2, PageOf DEF IInv
  <1>4. Good(gc[scan.g]) BY <1>2, GoodPageIn DEF IInv, GcGood
  <1> QED BY <1>1, <1>2, <1>3, <1>4 DEF Collecting, IInv, CallOK, SearchOK

\* A step of the collection that leaves the call, and the places of the
\* records of the folder, to the garbage collection.
LEMMA CollectKeeps ==
  ASSUME IInv, pc \in GcPcs, pc' \in GcPcs, IsFolder(pages'), GcGood',
         scan' \in Scan, ScanOK',
         UNCHANGED <<lastWritten, req, cur, tgt, old, xfer, reply, suspect>>
  PROVE  IInv'
  <1>1. Registers' BY DEF IInv, Registers, Pcs, GcPcs
  <1>2. CallOK'
    BY DEF IInv, CallOK, Calling, AtRest, RequestOK, FullOK, RoomOK, SearchOK, TargetOK, OldOK,
           RestOK, GcPcs
  <1> QED BY <1>1, <1>2 DEF IInv

LEMMA EraseFolder ==
  ASSUME IInv, NEW p \in 1 .. NPages
  PROVE  IsFolder([pages EXCEPT ![p] = BlankPage])
  BY BlankPageGood, PutPage DEF IInv

LEMMA NextPageType ==
  ASSUME IInv, Collecting
  PROVE  /\ NextPage \in Scan
         /\ NextPage.p >= 1 /\ NextPage.i >= 1 /\ NextPage.g = scan.g
         /\ NextPage.bd = scan.bd /\ NextPage.bg = scan.bg /\ NextPage.open = scan.open
  <1>1. scan \in Scan /\ scan.p + 1 \in Nat /\ 1 \in Nat /\ scan.p + 1 >= 1
    BY CollectingFacts DEF Scan
  <1>2. /\ SameButIn(scan, NextPage, {"p", "i"})
        /\ NextPage.p = scan.p + 1 /\ NextPage.i = 1
    BY <1>1, SetNextPage, Zenon DEF NextPage
  <1> QED BY <1>1, <1>2 DEF SameButIn

LEMMA GcObsoleteKeeps == ASSUME IInv, GcObsolete PROVE IInv'
  <1>1. /\ Collecting
        /\ pages' = [pages EXCEPT ![scan.p] = BlankPage]
        /\ scan' = NextPage
        /\ UNCHANGED <<gc, lastWritten, pc, req, cur, tgt, old, xfer, reply, suspect>>
    BY DEF GcObsolete
  <1>2. IsFolder(pages') BY <1>1, CollectingFacts, EraseFolder
  <1>3. GcGood' BY <1>1 DEF IInv, GcGood
  <1>4. pc = "gc" BY <1>1, CollectingFacts
  <1>5. scan' \in Scan /\ ScanOK'
    BY <1>1, <1>4, NextPageType DEF IInv, CallOK, ScanOK, GcPcs
  <1> QED BY <1>1, <1>2, <1>3, <1>4, <1>5, CollectKeeps DEF GcPcs

LEMMA GcEraseKeeps == ASSUME IInv, GcErase PROVE IInv'
  <1>1. /\ Collecting
        /\ pages' = [pages EXCEPT ![scan.p] = BlankPage]
        /\ scan' = [NextPage EXCEPT !.stop = ~pages[scan.p].end]
        /\ UNCHANGED <<gc, lastWritten, pc, req, cur, tgt, old, xfer, reply, suspect>>
    BY DEF GcErase, LooksIntoPage
  <1>2. IsFolder(pages') BY <1>1, CollectingFacts, EraseFolder
  <1>3. GcGood' BY <1>1 DEF IInv, GcGood
  <1>4. pc = "gc" BY <1>1, CollectingFacts
  <1>5. scan' \in Scan /\ ScanOK'
    <2>1. (~pages[scan.p].end) \in BOOLEAN OBVIOUS
    <2> DEFINE b == ~pages[scan.p].end
               n == NextPage
    <2>2. n \in Scan /\ b \in BOOLEAN BY <1>1, <2>1, NextPageType
    <2> HIDE DEF b, n
    <2>3. /\ [n EXCEPT !.stop = b] \in Scan
          /\ [n EXCEPT !.stop = b].p = n.p /\ [n EXCEPT !.stop = b].i = n.i
          /\ [n EXCEPT !.stop = b].g = n.g /\ [n EXCEPT !.stop = b].open = n.open
          /\ [n EXCEPT !.stop = b].bd = n.bd /\ [n EXCEPT !.stop = b].bg = n.bg
      BY <2>2 DEF Scan
    <2>4. scan' = [n EXCEPT !.stop = b] BY <1>1 DEF n, b
    <2>5. /\ n.p >= 1 /\ n.i >= 1 /\ n.g = scan.g /\ n.open = scan.open
          /\ n.bd = scan.bd /\ n.bg = scan.bg
      BY <1>1, NextPageType DEF n
    <2> QED BY <1>1, <1>4, <2>3, <2>4, <2>5 DEF IInv, CallOK, ScanOK, GcPcs
  <1> QED BY <1>1, <1>2, <1>3, <1>4, <1>5, CollectKeeps DEF GcPcs

\* The record goes after those of the GC page, or into a page just begun,
\* where there is room because the record had it in its own page.
MovedTo(g, open, r) ==
    LET pg == IF open THEN g ELSE [BlankPage EXCEPT !.st = "ACTIVE"]
    IN  [pg EXCEPT !.recs = Append(@, [r EXCEPT !.off = Top(pg)])]

LEMMA MovedPageGood ==
  ASSUME NEW g, Good(g), NEW open \in BOOLEAN, open => g.st = "ACTIVE",
         NEW own, Good(own), NEW i \in DOMAIN own.recs,
         GcRoom(g, open, own.recs[i])
  PROVE  /\ Good(MovedTo(g, open, own.recs[i]))
         /\ MovedTo(g, open, own.recs[i]).st = "ACTIVE"
  <1> DEFINE r  == own.recs[i]
             pg == IF open THEN g ELSE [BlankPage EXCEPT !.st = "ACTIVE"]
             s  == [r EXCEPT !.off = Top(pg)]
             to == [pg EXCEPT !.recs = Append(@, s)]
  <1>1. Good([BlankPage EXCEPT !.st = "ACTIVE"])
    BY BlankPageGood, StatusGood DEF PageStatus, BlankPage
  <1>2. Good(pg) /\ pg.st = "ACTIVE" BY <1>1 DEF BlankPage
  <1>3. r \in Record
    <2>1. own.recs \in Seq(Record) BY DEF Good, Page
    <2> QED BY <2>1
  <1>4. RecLen(r) \in Nat BY <1>3, SizesAssumption, LenProperties DEF Record, RecLen
  <1>5. Top(pg) \in Nat BY <1>2, TopType
  <1>6. Top(pg) + RecLen(r) < PageLen
    <2>1. CASE open BY <2>1 DEF GcRoom
    <2>2. CASE ~open
      <3>1. Top(pg) = 1 BY <2>2 DEF BlankPage, Top
      <3>2. 1 <= r.off /\ r.off + RecLen(r) < PageLen
        BY DEF Good, WellFormed, StaysInside
      <3>3. r.off \in Nat BY <1>3 DEF Record
      <3> QED BY <1>4, <3>1, <3>2, <3>3, SizesAssumption
    <2> QED BY <2>1, <2>2
  <1> HIDE DEF r, pg
  <1>7. s \in Record /\ s.off = Top(pg) /\ RecLen(s) = RecLen(r)
    BY <1>3, <1>5 DEF Record, RecLen
  <1> HIDE DEF s
  <1>8. Good(to) BY <1>2, <1>6, <1>7, AppendGood
  <1>9. to.st = "ACTIVE" BY <1>2 DEF Good, Page
  <1> QED BY <1>8, <1>9 DEF MovedTo, r, pg, s

LEMMA GcMoveKeeps == ASSUME IInv, GcMove PROVE IInv'
  <1> DEFINE to(i) == MovedTo(gc[scan.g], scan.open, pages[scan.p].recs[i])
  <1>1. PICK i \in 1 .. PageLen :
          /\ Meets(i)
          /\ GcRoom(gc[scan.g], scan.open, pages[scan.p].recs[i])
          /\ gc' = [gc EXCEPT ![scan.g] = to(i)]
          /\ pages' = SetStatus(pages, <<scan.p, i>>, "OLD")
          /\ scan' = [scan EXCEPT !.i = i + 1, !.open = TRUE]
    BY DEF GcMove, MovedTo
  <1>2. /\ Collecting
        /\ UNCHANGED <<lastWritten, pc, req, cur, tgt, old, xfer, reply, suspect>>
    BY DEF GcMove, LooksIntoPage
  <1>3. /\ pc = "gc" /\ scan \in Scan /\ scan.p \in 1 .. NPages /\ scan.g \in 1 .. GPages
        /\ Good(pages[scan.p]) /\ pages[scan.p].recs \in Seq(Record)
        /\ Good(gc[scan.g])
    BY <1>2, CollectingFacts
  <1>4. i \in DOMAIN pages[scan.p].recs BY <1>1 DEF Meets
  <1>5. scan.open \in BOOLEAN /\ (scan.open => gc[scan.g].st = "ACTIVE")
    BY <1>3 DEF Scan, IInv, CallOK, ScanOK
  <1>6. Good(to(i)) /\ to(i).st = "ACTIVE"
    BY <1>1, <1>3, <1>4, <1>5, MovedPageGood
  <1> HIDE DEF to
  <1>7. GcGood' /\ gc'[scan.g].st = "ACTIVE"
    BY <1>1, <1>3, <1>6, GoodPageIn DEF IInv, GcGood
  <1>8. IsRecord(pages, <<scan.p, i>>)
    BY <1>3, <1>4, SizesAssumption DEF IsRecord, Addr
  <1>9. IsFolder(pages') BY <1>1, <1>8, SetStatusFolder DEF IInv, FileStatus
  <1>10. /\ scan' \in Scan /\ scan'.g = scan.g /\ scan'.p = scan.p /\ scan'.i = i + 1
         /\ scan'.bd = scan.bd /\ scan'.bg = scan.bg
    <2>1. i + 1 \in Nat OBVIOUS
    <2>2. /\ SameButIn(scan, scan', {"i", "open"})
          /\ scan'.i = i + 1 /\ scan'.open = TRUE
      BY <1>1, <1>3, <2>1, SetMoved, Zenon
    <2> QED BY <1>3, <2>2 DEF SameButIn
  <1>11. ScanOK'
    BY <1>2, <1>3, <1>7, <1>10 DEF IInv, CallOK, ScanOK, GcPcs
  <1> QED BY <1>2, <1>3, <1>7, <1>9, <1>10, <1>11, CollectKeeps DEF GcPcs

LEMMA GcNextPageKeeps == ASSUME IInv, GcNextPage PROVE IInv'
  <1>1. PICK i \in 1 .. PageLen : scan' = [scan EXCEPT !.i = i, !.g = @ + 1, !.open = FALSE]
    BY DEF GcNextPage
  <1>2. /\ Collecting
        /\ gc' = [gc EXCEPT ![scan.g].end = TRUE, ![scan.g].st = "OLD"]
        /\ UNCHANGED <<pages, lastWritten, pc, req, cur, tgt, old, xfer, reply, suspect>>
    BY DEF GcNextPage, LooksIntoPage
  <1>3. pc = "gc" /\ scan \in Scan /\ scan.g \in 1 .. GPages /\ Good(gc[scan.g])
    BY <1>2, CollectingFacts
  <1> DEFINE a == [gc[scan.g] EXCEPT !.st = "OLD"]
             q == [a EXCEPT !.end = TRUE]
  <1>4. Good(q)
    <2>1. Good(a) BY <1>3, StatusGood DEF PageStatus
    <2>2. a.st = "OLD" BY <1>3 DEF Good, Page
    <2> HIDE DEF a
    <2> QED BY <2>1, <2>2, EndGood
  <1>5. gc' = [gc EXCEPT ![scan.g] = q]
    <2>1. q = [gc[scan.g] EXCEPT !.end = TRUE, !.st = "OLD"]
      BY <1>3 DEF Good, Page
    <2> QED BY <1>2, <1>3, <2>1 DEF IInv, GcGood
  <1> HIDE DEF q
  <1>6. GcGood' BY <1>3, <1>4, <1>5, GoodPageIn DEF IInv, GcGood
  <1>7. IsFolder(pages') BY <1>2 DEF IInv
  <1>8. /\ scan' \in Scan /\ scan'.g = scan.g + 1 /\ scan'.p = scan.p /\ scan'.i = i
        /\ scan'.bd = scan.bd /\ scan'.bg = scan.bg /\ ~scan'.open
    <2>1. i \in Nat OBVIOUS
    <2>2. /\ SameButIn(scan, scan', {"i", "g", "open"})
          /\ scan'.i = i /\ scan'.g = scan.g + 1 /\ ~scan'.open
      BY <1>1, <1>3, <2>1, SetNextGc, Zenon
    <2> QED BY <1>3, <2>2 DEF SameButIn
  <1>9. ScanOK' BY <1>3, <1>8 DEF IInv, CallOK, ScanOK
  <1> QED BY <1>2, <1>3, <1>6, <1>7, <1>8, <1>9, CollectKeeps DEF GcPcs

LEMMA GcCopyBackKeeps == ASSUME IInv, GcCopyBack PROVE IInv'
  <1>1. /\ pc = "gc" /\ pc' = "back"
        /\ scan' = [scan EXCEPT !.bd = 1, !.bg = 1]
        /\ UNCHANGED <<pages, gc, lastWritten, req, cur, tgt, old, xfer, reply, suspect>>
    BY DEF GcCopyBack
  <1>2. scan \in Scan /\ 1 \in Nat BY DEF IInv, Registers
  <1>3. SameButIn(scan, scan', {"bd", "bg"}) /\ scan'.bd = 1 /\ scan'.bg = 1
    <2>1. scan' = [scan EXCEPT !.bd = 1, !.bg = 1] BY <1>1
    <2> QED BY <1>2, <2>1, SetCopyStart, Zenon
  <1>4. scan' \in Scan /\ ScanOK'
    BY <1>1, <1>3 DEF SameButIn, IInv, CallOK, ScanOK, GcPcs
  <1>5. (IsFolder(pages) /\ GcGood)' BY <1>1 DEF IInv, GcGood
  <1> QED BY <1>1, <1>4, <1>5, CollectKeeps DEF GcPcs

LEMMA BackCopyKeeps == ASSUME IInv, BackCopy PROVE IInv'
  <1>1. PICK d \in 1 .. NPages :
          /\ GoesTo(d)
          /\ pages' = IF Copies THEN [pages EXCEPT ![d] = gc[scan.bg]] ELSE pages
          /\ scan' = [scan EXCEPT !.bd = d + 1, !.bg = @ + 1]
    BY DEF BackCopy, CopiedTo
  <1>2. /\ pc = "back" /\ pc' \in {"stray", "back"}
        /\ UNCHANGED <<gc, lastWritten, req, cur, tgt, old, xfer, reply, suspect>>
    BY DEF BackCopy
  <1>3. scan \in Scan /\ d + 1 \in Nat BY DEF IInv, Registers
  <1>4. SameButIn(scan, scan', {"bd", "bg"}) /\ scan'.bd = d + 1 /\ scan'.bg = scan.bg + 1
    BY <1>1, <1>3, SetNextCopied, Zenon
  <1>5. scan.bg \in Nat /\ scan.bg >= 1
    BY <1>3 DEF Scan, IInv, CallOK, ScanOK
  <1>6. scan' \in Scan /\ ScanOK'
    BY <1>2, <1>4, <1>5 DEF SameButIn, IInv, CallOK, ScanOK, GcPcs
  <1>7. IsFolder(pages')
    <2>1. CASE Copies
      <3>1. scan.bg \in 1 .. GPages
        BY <1>5, <2>1, SizesAssumption DEF Copies, InUse
      <3>2. Good(gc[scan.bg]) BY <3>1, GoodPageIn DEF IInv, GcGood
      <3> QED BY <1>1, <2>1, <3>2, PutPage DEF IInv
    <2>2. CASE ~Copies BY <1>1, <2>2 DEF IInv
    <2> QED BY <2>1, <2>2
  <1>8. GcGood' BY <1>2 DEF IInv, GcGood
  <1>9. Registers' BY <1>2, <1>6 DEF IInv, Registers, Pcs
  <1>10. CallOK'
    BY <1>2, <1>6 DEF IInv, CallOK, Calling, AtRest, RequestOK, FullOK, RoomOK, SearchOK, TargetOK,
           OldOK, RestOK
  <1> QED BY <1>7, <1>8, <1>9, <1>10 DEF IInv

LEMMA SpentGood == ASSUME IInv PROVE Spent \in [1 .. GPages -> GoodPages]
  <1> SUFFICES ASSUME NEW g \in 1 .. GPages
               PROVE  [gc[g] EXCEPT !.recs = <<>>] \in GoodPages
    BY DEF Spent
  <1> DEFINE new == [gc[g] EXCEPT !.recs = <<>>]
  <1>1. Good(gc[g]) BY GoodPageIn DEF IInv, GcGood
  <1>2. <<>> \in Seq(Record) BY EmptySeq
  <1>3. new \in Page /\ new.recs = <<>> /\ new.st = gc[g].st /\ new.end = gc[g].end
    BY <1>1, <1>2 DEF Good, Page
  <1> HIDE DEF new
  <1>4. DOMAIN new.recs = {} BY <1>3
  <1>5. Contiguous(new) /\ StaysInside(new) BY <1>4 DEF Contiguous, StaysInside
  <1>6. MarksAgree(new) BY <1>1, <1>3 DEF Good, WellFormed, MarksAgree
  <1> QED BY <1>3, <1>5, <1>6 DEF GoodPages, WellFormed, new

LEMMA GcResumeKeeps == ASSUME IInv, GcResume PROVE IInv'
  <1>1. /\ pc = "back" /\ pc' = "gc" /\ gc' = Spent
        /\ scan' = [NoScan EXCEPT !.p = scan.p, !.i = scan.i]
        /\ UNCHANGED <<pages, lastWritten, req, cur, tgt, old, xfer, reply, suspect>>
    BY DEF GcResume, CopiedBack
  <1>2. /\ scan \in Scan /\ NoScan \in Scan /\ scan.p \in Nat /\ scan.i \in Nat
        /\ scan.p >= 1 /\ scan.i >= 1
    BY NoScanType DEF IInv, Registers, Scan, CallOK, ScanOK
  <1>3. SameButIn(NoScan, scan', {"p", "i"}) /\ scan'.p = scan.p /\ scan'.i = scan.i
    <2>1. scan' = [NoScan EXCEPT !.p = scan.p, !.i = scan.i] BY <1>1
    <2> QED BY <1>2, <2>1, SetResumed, Zenon
  <1>4. scan' \in Scan /\ ScanOK'
    BY <1>1, <1>2, <1>3 DEF SameButIn, ScanOK, NoScan
  <1>5. GcGood' BY <1>1, SpentGood DEF GcGood
  <1>6. IsFolder(pages') BY <1>1 DEF IInv
  <1> QED BY <1>1, <1>4, <1>5, <1>6, CollectKeeps DEF GcPcs

LEMMA GcDoneKeeps == ASSUME IInv, GcDone PROVE IInv'
  <1>1. /\ pc = "back" /\ Calling /\ gc' = Spent
        /\ pages' = Sweep(pages, NoAddr)
        /\ lastWritten' = LastAddr(pages)
        /\ suspect' = suspect
    BY DEF GcDone, CopiedBack, Calling, AtRest
  <1>2. IsFolder(pages') /\ GcGood' /\ lastWritten' \in Addr
    BY <1>1, SweepFolder, SpentGood, LastAddrType DEF IInv, GcGood
  <1>3. tgt = NoAddr /\ old = NoAddr /\ RequestOK
    BY <1>1 DEF IInv, CallOK, SearchOK
  <1>4. FirstPage(lastWritten') \in Nat BY <1>2, FirstPageType
  <1>5. CASE /\ pc' = "find" /\ cur' = FirstPage(LastAddr(pages)) /\ scan' = NoScan
             /\ UNCHANGED <<req, tgt, old, xfer, reply>>
    <2>1. Registers'
      BY <1>1, <1>2, <1>4, <1>5, NoScanType DEF IInv, Registers, Pcs
    <2>2. CallOK'
      BY <1>1, <1>3, <1>5 DEF CallOK, Calling, AtRest, RequestOK, FullOK, RoomOK, SearchOK, TargetOK,
             OldOK, RestOK, ScanOK, NoScan
    <2> QED BY <1>2, <2>1, <2>2 DEF IInv
  <1>6. CASE /\ req.op = "write" /\ pc' = "retire" /\ scan' = NoScan
             /\ UNCHANGED <<req, cur, tgt, old, xfer, reply>>
    <2>1. Registers' BY <1>1, <1>2, <1>6, NoScanType DEF IInv, Registers, Pcs
    <2>2. CallOK'
      BY <1>1, <1>3, <1>6 DEF CallOK, Calling, AtRest, RequestOK, FullOK, RoomOK, SearchOK, TargetOK,
             OldOK, RestOK, ScanOK, NoScan
    <2> QED BY <1>2, <2>1, <2>2 DEF IInv
  <1>7. CASE Return("no_space") /\ Advance(TRUE)
    BY <1>1, <1>2, <1>7, ReturnKeeps DEF Replies
  <1> QED BY <1>5, <1>6, <1>7 DEF GcDone

-----------------------------------------------------------------------------
(***************************************************************************)
(* Power failure and restart.                                              *)
(***************************************************************************)
LEMMA FirstCellsType ==
  ASSUME NEW r \in Record, NEW m \in Nat
  PROVE  /\ FirstCells(r, m) \in Record
         /\ FirstCells(r, m).off = r.off
         /\ Len(FirstCells(r, m).data) = Len(r.data)
  <1> DEFINE data == [c \in DOMAIN r.data |-> IF c <= m THEN r.data[c] ELSE Blank]
  <1>1. r.data \in Seq(Cells) BY DEF Record
  <1>2. DOMAIN r.data = 1 .. Len(r.data) /\ Len(r.data) \in Nat
    BY <1>1, LenProperties
  <1>3. data \in [1 .. Len(r.data) -> Cells] BY <1>1, <1>2 DEF Cells
  <1>4. FirstCells(r, m) = [r EXCEPT !.data = data] BY DEF FirstCells
  <1> HIDE DEF data
  <1>5. data \in Seq(Cells) /\ Len(data) = Len(r.data)
    BY <1>2, <1>3, SeqDef, LenProperties
  <1> QED BY <1>4, <1>5 DEF Record

LEMMA CutShortGood ==
  ASSUME NEW pg, Good(pg), NEW q \in CutShort(pg)
  PROVE  Good(q)
  <1>1. pg.recs \in Seq(Record) /\ Len(pg.recs) \in Nat
    BY LenProperties DEF Good, Page
  <1>2. \A k \in 0 .. Len(pg.recs) : Good(FirstRecords(pg, k))
    BY PrefixGood DEF FirstRecords
  <1>3. ASSUME NEW k \in 1 .. Len(pg.recs), NEW m \in 0 .. PageLen,
               q = [FirstRecords(pg, k) EXCEPT !.recs =
                        [@ EXCEPT ![k] = FirstCells(pg.recs[k], m)]]
        PROVE  Good(q)
    <2> DEFINE recs == SubSeq(pg.recs, 1, k)
    <2>1. /\ Len(recs) = k /\ recs \in Seq(Record) /\ recs[k] = pg.recs[k]
          /\ k \in DOMAIN recs /\ pg.recs[k] \in Record
      BY <1>1, SubSeqProperties
    <2>2. FirstRecords(pg, k).recs = recs BY DEF FirstRecords, Good, Page
    <2>3. Good(FirstRecords(pg, k)) BY <1>1, <1>2
    <2>4. /\ FirstCells(pg.recs[k], m) \in Record
          /\ FirstCells(pg.recs[k], m).off = pg.recs[k].off
          /\ Len(FirstCells(pg.recs[k], m).data) = Len(pg.recs[k].data)
      BY <2>1, FirstCellsType, SizesAssumption
    <2> QED
      <3> HIDE DEF recs
      <3> QED BY <1>3, <2>1, <2>2, <2>3, <2>4, ReplaceGood
  <1> QED BY <1>2, <1>3 DEF CutShort

LEMMA TornFolder == ASSUME IInv, NEW new \in Torn PROVE IsFolder(new)
  <1>1. CASE pc = "data" /\ PayloadStart >= 0
    BY <1>1, WithPayloadFolder DEF Torn
  <1>2. CASE pc = "back" /\ Copies
    <2>1. scan.bg \in 1 .. GPages
      BY <1>2, SizesAssumption DEF Copies, InUse, IInv, Registers, Scan, CallOK, ScanOK
    <2>2. Good(gc[scan.bg]) BY <2>1, GoodPageIn DEF IInv, GcGood
    <2>3. \A d \in 1 .. NPages, pg \in CutShort(gc[scan.bg]) : IsFolder([pages EXCEPT ![d] = pg])
      BY <2>2, CutShortGood, PutPage DEF IInv
    <2>4. \/ new = pages
          \/ \E d \in 1 .. NPages, pg \in CutShort(gc[scan.bg]) : new = [pages EXCEPT ![d] = pg]
      BY <1>2 DEF Torn
    <2> QED BY <2>3, <2>4 DEF IInv
  <1>3. CASE ~(pc = "data" /\ PayloadStart >= 0) /\ ~(pc = "back" /\ Copies)
    BY <1>3 DEF Torn, IInv
  <1> QED BY <1>1, <1>2, <1>3

LEMMA AtRiskType == ASSUME IInv, pc \notin {"down", "spoiled"} PROVE AtRisk \subseteq Ids
  <1>1. CASE pc = "idle" BY <1>1 DEF AtRisk, GcPcs
  <1>2. CASE pc # "idle" BY <1>2, RequestType DEF AtRisk, Calling, AtRest
  <1> QED BY <1>1, <1>2

\* What the failure leaves of the call in RAM: nothing.
LEMMA ResetKeeps ==
  ASSUME IInv, Reset, pc' \in {"down", "spoiled"}, IsFolder(pages'), suspect' \subseteq Ids
  PROVE  IInv'
  <1>1. /\ xfer' \subseteq xfer
        /\ lastWritten' = NoAddr /\ req' = NoReq /\ cur' = 1 /\ tgt' = NoAddr
        /\ old' = NoAddr /\ scan' = NoScan /\ reply' = "none" /\ gc' = Spent
    BY DEF Reset
  <1>2. GcGood' BY <1>1, SpentGood DEF GcGood
  <1>3. Registers'
    BY <1>1, NoScanType DEF IInv, Registers, Pcs, Replies
  <1>4. CallOK'
    BY <1>1 DEF CallOK, Calling, AtRest, RequestOK, FullOK, RoomOK, SearchOK, TargetOK,
             OldOK, RestOK, ScanOK, NoScan
  <1> QED BY <1>2, <1>3, <1>4 DEF IInv

LEMMA OverprogramKeeps == ASSUME IInv, Overprogram PROVE IInv'
  BY ResetKeeps DEF Overprogram, IInv

\* A page the erase of which is cut short is one of the folder's.
LEMMA EraseCutFolder == ASSUME IInv, EraseCut PROVE IsFolder(pages')
  BY CollectingFacts, EraseFolder DEF EraseCut, ErasesPage

LEMMA CrashKeeps == ASSUME IInv, Crash PROVE IInv'
  <1>1. /\ pc \notin {"down", "spoiled"} /\ pc' = "down"
        /\ EraseCut \/ pages' \in Torn
        /\ suspect' = suspect \cup AtRisk
        /\ Reset
    BY DEF Crash
  <1>2. IsFolder(pages') BY <1>1, TornFolder, EraseCutFolder
  <1>3. suspect' \subseteq Ids BY <1>1, AtRiskType DEF IInv, Registers
  <1> QED BY <1>1, <1>2, <1>3, ResetKeeps

LEMMA RetireOldFolder ==
  ASSUME NEW pgs, IsFolder(pgs) PROVE IsFolder(RetireOld(pgs))
  <1> DEFINE version == Search(pgs, req.id, "ACTIVE")
             swept   == Sweep(pgs, version)
  <1>1. IsFolder(swept) /\ (version = NoAddr \/ IsRecord(swept, version)) BY SweepSearch
  <1>2. RetireOld(pgs) = RetireAt(swept, version) BY DEF RetireOld
  <1> HIDE DEF version, swept
  <1> QED BY <1>1, <1>2, RetireAtFolder

\* The program reported as failed leaves a folder whose pages can be walked,
\* made or not.
LEMMA ProgrammedFolder ==
  ASSUME IInv, pc \in FaultPcs, pc = "data" => PayloadStart >= 0,
         pc = "retire" => Replaced # NoAddr, NEW new \in Programmed
  PROVE  IsFolder(new)
  <1>1. IsFolder(pages) BY DEF IInv
  <1>2. CASE pc = "find"
    <2>1. PICK p \in 1 .. NPages : new = [pages EXCEPT ![p].st = "ACTIVE"]
               /\ Looks(p) /\ Room(pages[p], Remaining(req))
      BY <1>2 DEF Programmed
    <2> DEFINE q == [pages[p] EXCEPT !.st = "ACTIVE"]
    <2>2. Good(pages[p]) BY <1>1, PageOf
    <2>3. ~pages[p].end BY <2>1, <2>2 DEF Looks, Open, Good, WellFormed, MarksAgree
    <2>4. Good(q) BY <2>2, <2>3, StatusGood DEF PageStatus
    <2>5. new = [pages EXCEPT ![p] = q] BY <2>1
    <2> HIDE DEF q
    <2> QED BY <1>1, <2>4, <2>5, PutPage
  <1>3. CASE pc = "endmark"
    <2>1. cur \in 1 .. NPages /\ pages[cur].st = "OLD" BY <1>3 DEF IInv, CallOK, FullOK
    <2> DEFINE q == [pages[cur] EXCEPT !.end = TRUE]
    <2>2. Good(q) BY <1>1, <2>1, PageOf, EndGood
    <2>3. new = [pages EXCEPT ![cur] = q] BY <1>3 DEF Programmed
    <2> HIDE DEF q
    <2> QED BY <1>1, <2>1, <2>2, <2>3, PutPage
  <1>4. CASE pc = "header" BY <1>4, HeaderFolder DEF Programmed
  <1>5. CASE pc = "data"
    <2>1. PICK k \in 1 .. req.n : new = WithPayload(k) BY <1>5 DEF Programmed
    <2>2. k \in 0 .. req.n BY <2>1
    <2> QED BY <1>5, <2>1, <2>2, WithPayloadFolder
  <1>6. CASE pc = "retire"
    <2>1. CASE Whole /\ tgt # NoAddr
      <3>1. new = RetireAt(pages, old) /\ (old = NoAddr \/ IsRecord(pages, old))
        BY <1>6, <2>1 DEF Programmed, IInv, CallOK, OldOK
      <3> QED BY <1>1, <3>1, RetireAtFolder
    <2>2. CASE ~(Whole /\ tgt # NoAddr)
      BY <1>1, <1>6, <2>2, RetireOldFolder DEF Programmed
    <2> QED BY <2>1, <2>2
  <1>7. CASE pc = "activate"
    <2>1. new = SetStatus(pages, tgt, "ACTIVE") /\ IsRecord(pages, tgt)
      BY <1>7 DEF Programmed, IInv, CallOK, TargetOK
    <2> QED BY <1>1, <2>1, SetStatusFolder DEF FileStatus
  <1> QED BY <1>2, <1>3, <1>4, <1>5, <1>6, <1>7, HostAssumption

LEMMA DriverFailsKeeps == ASSUME IInv, DriverFails PROVE IInv'
  <1>1. /\ pc \in FaultPcs
        /\ pc = "data" => PayloadStart >= 0
        /\ pc = "retire" => Replaced # NoAddr
        /\ pages' \in AfterFailure
        /\ lastWritten' = IF pc = "header" /\ Whole THEN tgt ELSE lastWritten
        /\ Return("driver_error") /\ Advance(TRUE)
        /\ suspect' = suspect \cup AtRisk
        /\ gc' = gc
    BY DEF DriverFails
  <1>2. Calling BY <1>1, HostAssumption DEF Calling, AtRest
  <1> DEFINE left == {pages} \cup Programmed
  <1>3. \A pgs \in left : IsFolder(pgs) BY <1>1, ProgrammedFolder DEF IInv
  <1>4. pages' \in left \/ \E pgs \in left : pages' = RetireOld(pgs)
    BY <1>1 DEF AfterFailure
  <1> HIDE DEF left
  <1>5. IsFolder(pages') BY <1>3, <1>4, RetireOldFolder
  <1>6. GcGood' /\ lastWritten' \in Addr BY <1>1 DEF IInv, GcGood, Registers
  <1>7. suspect' \subseteq Ids BY <1>1, <1>2, AtRiskType DEF IInv, Registers, Calling, AtRest
  <1> QED BY <1>1, <1>2, <1>5, <1>6, <1>7, EndKeeps DEF Replies

LEMMA RestartKeeps == ASSUME IInv, Restart PROVE IInv'
  <1>1. /\ pc = "down" /\ pc' = "idle"
        /\ pages' = IF KeyIntact THEN Sweep(pages, NoAddr) ELSE BlankFolder
        /\ gc' = IF KeyIntact THEN gc ELSE BlankGc
        /\ lastWritten' = IF KeyIntact THEN LastAddr(pages) ELSE NoAddr
        /\ UNCHANGED <<call, xfer, reply, suspect>>
    BY DEF Restart
  <1>2. IsFolder(pages') BY <1>1, SweepFolder, BlankChip DEF IInv
  <1>3. GcGood' BY <1>1, BlankChip DEF IInv, GcGood
  <1>4. lastWritten' \in Addr BY <1>1, LastAddrType, NoScanType DEF IInv
  <1>5. Registers' BY <1>1, <1>4 DEF IInv, Registers, Pcs, call
  <1>6. CallOK'
    BY <1>1 DEF call, IInv, CallOK, Calling, AtRest, RequestOK, FullOK, RoomOK, SearchOK, TargetOK,
             OldOK, RestOK, ScanOK, GcPcs
  <1> QED BY <1>2, <1>3, <1>5, <1>6 DEF IInv

-----------------------------------------------------------------------------
LEMMA StutterKeeps == ASSUME IInv, UNCHANGED vars PROVE IInv'
  <1>1. (IsFolder(pages) /\ GcGood /\ Registers)'
    BY DEF vars, IInv, GcGood, Registers
  <1>2. CallOK'
    BY DEF vars, IInv, CallOK, Calling, AtRest, RequestOK, FullOK, RoomOK, SearchOK, TargetOK, OldOK,
           RestOK, ScanOK, Room, Top, Remaining
  <1> QED BY <1>1, <1>2 DEF IInv

LEMMA NextKeeps == ASSUME IInv, [Next]_vars PROVE IInv'
  <1>1. CASE Command
    BY <1>1, CallWriteKeeps, CallPartKeeps, ReadFileKeeps, EraseChipKeeps, HostAssumption
       DEF Command
  <1>2. CASE Collect
    BY <1>2, GcObsoleteKeeps, GcEraseKeeps, GcMoveKeeps, GcNextPageKeeps, GcCopyBackKeeps,
       BackCopyKeeps, GcResumeKeeps, GcDoneKeeps
       DEF Collect
  <1>3. CASE Work
    BY <1>2, <1>3, FindRoomKeeps, FindFullKeeps, EndMarkKeeps, FindNoneKeeps, WriteHeaderKeeps,
       WriteDataKeeps, RetireReplacedKeeps, RetireForPartsKeeps, ActivateKeeps, OverprogramKeeps
       DEF Work
  <1>4. CASE Crash BY <1>4, CrashKeeps
  <1>5. CASE Restart BY <1>5, RestartKeeps
  <1>6. CASE UNCHANGED vars BY <1>6, StutterKeeps
  <1>7. CASE DriverFails BY <1>7, DriverFailsKeeps
  <1> QED BY <1>1, <1>3, <1>4, <1>5, <1>6, <1>7 DEF Next

-----------------------------------------------------------------------------
(***************************************************************************)
(* What erases cut short have left stays behind the cells in use.  Only a  *)
(* header, a copy of a GC page and a program cut short move the end of a   *)
(* page on, and each goes on only while it stays in front of what is left. *)
(***************************************************************************)
StaleOK ==
    /\ stale \in [1 .. NPages -> SUBSET (0 .. PageLen)]
    /\ BlankAhead(pages, stale)

SameTops(f, new) == DOMAIN new = DOMAIN f /\ \A p \in DOMAIN f : Top(new[p]) = Top(f[p])

LEMMA TopsSame ==
  ASSUME StaleOK, stale' = stale, SameTops(pages, pages')
  PROVE  StaleOK'
  BY DEF StaleOK, BlankAhead, SameTops

\* The end of a page is that of its records.
LEMMA TopOfRecs ==
  ASSUME NEW pg, NEW new, new.recs = pg.recs PROVE Top(new) = Top(pg)
  BY DEF Top

LEMMA SweepTops ==
  ASSUME NEW f, IsFolder(f), NEW a PROVE SameTops(f, Sweep(f, a))
  <1>1. DOMAIN Sweep(f, a) = DOMAIN f BY PageOf, SweepFolder
  <1>2. \A p \in DOMAIN f : Sweep(f, a)[p].recs = f[p].recs
    <2>1. DOMAIN f = 1 .. NPages BY PageOf
    <2>2. \A p \in 1 .. NPages : Sweep(f, a)[p].recs = f[p].recs BY SweepFolder
    <2> QED BY <2>1, <2>2, Zenon
  <1> QED BY <1>1, <1>2, TopOfRecs DEF SameTops

\* A record replaced by one of the same place and length.
LEMMA RecordTops ==
  ASSUME NEW f, IsFolder(f), NEW a, IsRecord(f, a), NEW r,
         r.off = At(f, a).off, Len(r.data) = Len(At(f, a).data)
  PROVE  SameTops(f, [f EXCEPT ![a[1]].recs[a[2]] = r])
  <1> DEFINE new == [f EXCEPT ![a[1]].recs[a[2]] = r]
             pg  == f[a[1]]
             q   == [pg EXCEPT !.recs[a[2]] = r]
  <1>1. a[1] \in 1 .. NPages /\ DOMAIN f = 1 .. NPages /\ Good(pg) BY PageOf DEF IsRecord
  <1>2. new = [f EXCEPT ![a[1]] = q] OBVIOUS
  <1>3. pg.recs \in Seq(Record) /\ a[2] \in DOMAIN pg.recs BY <1>1, PageOf DEF IsRecord
  <1>4. q.recs = [pg.recs EXCEPT ![a[2]] = r] BY <1>1 DEF Good, Page
  <1>5. Top(q) = Top(pg)
    <2>1. Len(pg.recs) \in DOMAIN pg.recs BY <1>3
    <2>2. q.recs # <<>> /\ pg.recs # <<>> /\ DOMAIN q.recs = DOMAIN pg.recs BY <1>3, <1>4
    <2>3. Len(q.recs) = Len(pg.recs) BY <1>3, <1>4
    <2>4. /\ q.recs[Len(pg.recs)].off = pg.recs[Len(pg.recs)].off
          /\ RecLen(q.recs[Len(pg.recs)]) = RecLen(pg.recs[Len(pg.recs)])
      <3>1. q.recs[Len(pg.recs)] = IF Len(pg.recs) = a[2] THEN r ELSE pg.recs[Len(pg.recs)]
        BY <1>3, <1>4, <2>1
      <3> QED BY <3>1 DEF RecLen, At
    <2> QED BY <2>2, <2>3, <2>4 DEF Top
  <1> HIDE DEF q
  <1>6. DOMAIN new = DOMAIN f /\ \A p \in DOMAIN f : new[p] = IF p = a[1] THEN q ELSE f[p]
    BY <1>1, <1>2
  <1> HIDE DEF new
  <1>7. SameTops(f, new) BY <1>5, <1>6 DEF SameTops
  <1> QED BY <1>7 DEF new

LEMMA StatusTops ==
  ASSUME NEW f, IsFolder(f), NEW a, IsRecord(f, a), NEW st
  PROVE  SameTops(f, SetStatus(f, a, st))
  <1> DEFINE r == [At(f, a) EXCEPT !.st = st]
  <1>1. At(f, a) \in Record
    <2>1. f[a[1]].recs \in Seq(Record) BY PageOf DEF IsRecord
    <2> QED BY <2>1 DEF IsRecord, At
  <1>2. r.off = At(f, a).off /\ Len(r.data) = Len(At(f, a).data) BY <1>1 DEF Record
  <1>3. SetStatus(f, a, st) = [f EXCEPT ![a[1]].recs[a[2]] = r] BY DEF SetStatus, At
  <1>4. \A s : s.off = At(f, a).off /\ Len(s.data) = Len(At(f, a).data)
              => SameTops(f, [f EXCEPT ![a[1]].recs[a[2]] = s])
    BY RecordTops
  <1> HIDE DEF r
  <1> QED BY <1>2, <1>3, <1>4

LEMMA RetireTops ==
  ASSUME NEW f, IsFolder(f), NEW a, a = NoAddr \/ IsRecord(f, a)
  PROVE  SameTops(f, RetireAt(f, a))
  BY StatusTops DEF RetireAt, SameTops

LEMMA TopsChain ==
  ASSUME NEW f, NEW g, NEW h, SameTops(f, g), SameTops(g, h) PROVE SameTops(f, h)
  BY DEF SameTops

LEMMA PageTops ==
  ASSUME NEW f, IsFolder(f), NEW p \in 1 .. NPages, NEW pg, pg.recs = f[p].recs
  PROVE  SameTops(f, [f EXCEPT ![p] = pg])
  <1>1. DOMAIN f = 1 .. NPages BY PageOf
  <1>2. Top(pg) = Top(f[p]) BY TopOfRecs
  <1> QED BY <1>1, <1>2 DEF SameTops

LEMMA PayloadTops ==
  ASSUME IInv, pc = "data", PayloadStart >= 0, NEW k \in 0 .. req.n
  PROVE  SameTops(pages, WithPayload(k))
  <1>1. IsFolder(pages) /\ IsRecord(pages, tgt) BY DEF IInv, CallOK, TargetOK
  <1> DEFINE rec  == At(pages, tgt)
             new  == ProgramAt(rec.data, PayloadStart, SubSeq(Payload, 1, k))
             r    == [rec EXCEPT !.data = new]
  <1>2. rec \in Record
    <2>1. pages[tgt[1]].recs \in Seq(Record) BY <1>1, PageOf DEF IsRecord
    <2> QED BY <1>1, <2>1 DEF IsRecord, At
  <1>3. rec.data \in Seq(Cells) BY <1>2 DEF Record
  <1>4. SubSeq(Payload, 1, k) \in Seq(Vals) /\ PayloadStart \in Nat BY PayloadType
  <1>5. Len(new) = Len(rec.data) BY <1>3, <1>4, ProgramAtType
  <1>6. r.off = rec.off /\ Len(r.data) = Len(rec.data) BY <1>2, <1>5 DEF Record
  <1>7. WithPayload(k) = [pages EXCEPT ![tgt[1]].recs[tgt[2]] = r] BY DEF WithPayload, At
  <1>8. \A s : s.off = rec.off /\ Len(s.data) = Len(rec.data)
              => SameTops(pages, [pages EXCEPT ![tgt[1]].recs[tgt[2]] = s])
    BY <1>1, RecordTops
  <1> HIDE DEF r, rec
  <1> QED BY <1>6, <1>7, <1>8

LEMMA NoTops == ASSUME StaleOK, UNCHANGED <<pages, stale>> PROVE StaleOK'
  BY DEF StaleOK, BlankAhead

LEMMA NoneStaleOK ==
  ASSUME IsFolder(pages'), stale' = NoneStale PROVE StaleOK'
  BY PageOf DEF StaleOK, BlankAhead, NoneStale

\* The steps of the firmware that neither add a record nor erase a page.
LEMMA WriteStale ==
  ASSUME IInv, StaleOK,
         \/ FindRoom \/ FindFull \/ EndMark \/ FindNone
         \/ WriteHeader \/ WriteData \/ RetireReplaced \/ RetireForParts \/ Activate
  PROVE  StaleOK'
  <1>1. IsFolder(pages) BY DEF IInv
  <1>2. CASE FindRoom
    <2>1. PICK p \in 1 .. NPages : pages' = [pages EXCEPT ![p].st = "ACTIVE"]
      BY <1>2 DEF FindRoom
    <2> DEFINE q == [pages[p] EXCEPT !.st = "ACTIVE"]
    <2>2. q.recs = pages[p].recs BY <1>1, PageOf DEF Good, Page
    <2>3. pages' = [pages EXCEPT ![p] = q] BY <2>1
    <2> HIDE DEF q
    <2>4. SameTops(pages, pages') BY <1>1, <2>2, <2>3, PageTops
    <2> QED BY <1>2, <2>4, TopsSame DEF FindRoom
  <1>3. CASE FindFull
    <2>1. PICK p \in 1 .. NPages : pages' = [pages EXCEPT ![p].st = "OLD"]
      BY <1>3 DEF FindFull
    <2> DEFINE q == [pages[p] EXCEPT !.st = "OLD"]
    <2>2. q.recs = pages[p].recs BY <1>1, PageOf DEF Good, Page
    <2>3. pages' = [pages EXCEPT ![p] = q] BY <2>1
    <2> HIDE DEF q
    <2>4. SameTops(pages, pages') BY <1>1, <2>2, <2>3, PageTops
    <2> QED BY <1>3, <2>4, TopsSame DEF FindFull
  <1>4. CASE EndMark
    <2>1. cur \in 1 .. NPages BY <1>4 DEF EndMark, IInv, CallOK, FullOK
    <2> DEFINE q == [pages[cur] EXCEPT !.end = TRUE]
    <2>2. q.recs = pages[cur].recs BY <1>1, <2>1, PageOf DEF Good, Page
    <2>3. pages' = [pages EXCEPT ![cur] = q] BY <1>4 DEF EndMark
    <2> HIDE DEF q
    <2>4. SameTops(pages, pages') BY <1>1, <2>1, <2>2, <2>3, PageTops
    <2> QED BY <1>4, <2>4, TopsSame DEF EndMark
  <1>5. CASE FindNone BY <1>5, NoTops DEF FindNone
  <1>6. CASE WriteHeader BY <1>6 DEF WriteHeader, StaleOK
  <1>7. CASE WriteData
    <2>1. pc = "data" BY <1>7 DEF WriteData
    <2>2. CASE PayloadStart < 0 BY <1>7, <2>2, NoTops DEF WriteData
    <2>3. CASE ~(PayloadStart < 0)
      <3>1. pages' = WithPayload(req.n) /\ stale' = stale BY <1>7, <2>3 DEF WriteData
      <3>2. PayloadStart >= 0 BY <2>1, <2>3, StartType
      <3>3. req.n \in 0 .. req.n BY <2>1, RequestType DEF Calling, AtRest
      <3>4. SameTops(pages, pages') BY <2>1, <3>1, <3>2, <3>3, PayloadTops
      <3> QED BY <3>1, <3>4, TopsSame
    <2> QED BY <2>2, <2>3
  <1>8. CASE RetireReplaced
    <2> DEFINE looked  == tgt # NoAddr
               version == IF looked THEN old ELSE Search(pages, req.id, "ACTIVE")
               swept   == IF looked THEN pages ELSE Sweep(pages, version)
    <2>1. pc = "retire" /\ pages' = RetireAt(swept, version) /\ stale' = stale
      BY <1>8 DEF RetireReplaced
    <2>2. IsFolder(swept) /\ (version = NoAddr \/ IsRecord(swept, version))
      <3>1. CASE looked BY <1>1, <2>1, <3>1 DEF IInv, CallOK, OldOK
      <3>2. CASE ~looked BY <1>1, <3>2, SweepSearch
      <3> QED BY <3>1, <3>2
    <2>3. SameTops(pages, swept)
      <3>1. CASE looked BY <3>1 DEF SameTops
      <3>2. CASE ~looked BY <1>1, <3>2, SweepTops
      <3> QED BY <3>1, <3>2
    <2> HIDE DEF version, swept
    <2>4. SameTops(swept, pages') BY <2>1, <2>2, RetireTops
    <2>5. SameTops(pages, pages') BY <2>3, <2>4, TopsChain
    <2> QED BY <2>1, <2>5, TopsSame
  <1>9. CASE RetireForParts
    <2> DEFINE version == Search(pages, req.id, "ACTIVE")
               swept   == Sweep(pages, version)
    <2>1. pages' = RetireAt(swept, version) /\ stale' = stale BY <1>9 DEF RetireForParts
    <2>2. IsFolder(swept) /\ (version = NoAddr \/ IsRecord(swept, version))
      BY <1>1, SweepSearch
    <2>3. SameTops(pages, swept) BY <1>1, SweepTops
    <2> HIDE DEF version, swept
    <2>4. SameTops(swept, pages') BY <2>1, <2>2, RetireTops
    <2>5. SameTops(pages, pages') BY <2>3, <2>4, TopsChain
    <2> QED BY <2>1, <2>5, TopsSame
  <1>10. CASE Activate
    <2>1. IsRecord(pages, tgt) BY <1>10 DEF Activate, IInv, CallOK, TargetOK
    <2>2. SameTops(pages, pages') BY <1>1, <1>10, <2>1, StatusTops DEF Activate
    <2> QED BY <1>10, <2>2, TopsSame DEF Activate
  <1> QED BY <1>2, <1>3, <1>4, <1>5, <1>6, <1>7, <1>8, <1>9, <1>10

\* A page erased to its end has nothing left in it.
LEMMA ErasedStale ==
  ASSUME IInv, StaleOK, NEW p \in 1 .. NPages,
         pages' = [pages EXCEPT ![p] = BlankPage],
         \/ stale' = [stale EXCEPT ![p] = {}]
         \/ stale' = stale /\ pages[p].st = "NEW"
  PROVE  StaleOK'
  <1>1. DOMAIN pages = 1 .. NPages /\ DOMAIN pages' = 1 .. NPages BY PageOf DEF IInv
  <1>2. pages[p].st = "NEW" => Top(pages[p]) = Top(BlankPage)
    <2>1. pages[p].st = "NEW" => pages[p].recs = <<>>
      BY PageOf DEF IInv, Good, WellFormed, MarksAgree
    <2> QED BY <2>1 DEF Top, BlankPage
  <1>3. \A q \in 1 .. NPages : pages'[q] = IF q = p THEN BlankPage ELSE pages[q] BY <1>1
  <1>4. CASE stale' = [stale EXCEPT ![p] = {}]
    <2>1. \A q \in 1 .. NPages : stale'[q] = IF q = p THEN {} ELSE stale[q] BY <1>4 DEF StaleOK
    <2>2. stale' \in [1 .. NPages -> SUBSET (0 .. PageLen)] BY <1>4 DEF StaleOK
    <2> QED BY <1>1, <1>3, <2>1, <2>2 DEF StaleOK, BlankAhead
  <1>5. CASE stale' = stale /\ pages[p].st = "NEW"
    BY <1>1, <1>2, <1>3, <1>5 DEF StaleOK, BlankAhead
  <1> QED BY <1>4, <1>5

LEMMA CollectStale == ASSUME IInv, StaleOK, Collect PROVE StaleOK'
  <1>1. IsFolder(pages) BY DEF IInv
  <1>2. CASE GcObsolete
    <2>1. Collecting BY <1>2 DEF GcObsolete
    <2> QED BY <1>2, <2>1, CollectingFacts, ErasedStale DEF GcObsolete
  <1>3. CASE GcErase
    <2>1. Collecting BY <1>3 DEF GcErase, LooksIntoPage
    <2>2. \/ stale' = [stale EXCEPT ![scan.p] = {}]
          \/ stale' = stale /\ pages[scan.p].st = "NEW"
      BY <1>3 DEF GcErase
    <2> QED BY <1>3, <2>1, <2>2, CollectingFacts, ErasedStale DEF GcErase
  <1>4. CASE GcMove
    <2>1. PICK i \in 1 .. PageLen : Meets(i) /\ pages' = SetStatus(pages, <<scan.p, i>>, "OLD")
      BY <1>4 DEF GcMove
    <2>2. scan.p \in 1 .. NPages /\ pages[scan.p].recs \in Seq(Record)
      BY <1>4, CollectingFacts DEF GcMove, LooksIntoPage
    <2>3. IsRecord(pages, <<scan.p, i>>)
      BY <2>1, <2>2, SizesAssumption DEF IsRecord, Addr, Meets
    <2>4. SameTops(pages, pages') BY <1>1, <2>1, <2>3, StatusTops
    <2> QED BY <1>4, <2>4, TopsSame DEF GcMove
  <1>5. CASE GcNextPage \/ GcCopyBack \/ GcResume
    BY <1>5, NoTops DEF GcNextPage, GcCopyBack, GcResume
  <1>6. CASE BackCopy BY <1>6 DEF BackCopy, StaleOK
  <1>7. CASE GcDone
    <2>1. pages' = Sweep(pages, NoAddr) /\ stale' = stale BY <1>7 DEF GcDone
    <2> QED BY <1>1, <2>1, SweepTops, TopsSame
  <1> QED BY <1>2, <1>3, <1>4, <1>5, <1>6, <1>7 DEF Collect

LEMMA CommandStale == ASSUME IInv, StaleOK, Command PROVE StaleOK'
  <1>1. IsFolder(pages) BY DEF IInv
  <1>2. ASSUME NEW id, NEW file, CallWrite(id, file) PROVE StaleOK'
    BY <1>2, NoTops DEF CallWrite
  <1>3. ASSUME NEW id, NEW file, CallPart(id, file) PROVE StaleOK'
    <2>1. (\E part : pages' = Sweep(pages, part)) /\ stale' = stale BY <1>3 DEF CallPart
    <2> QED BY <1>1, <2>1, SweepTops, TopsSame
  <1>4. ASSUME NEW id, ReadFile(id) PROVE StaleOK'
    <2>1. (\E part : pages' = Sweep(pages, part)) /\ stale' = stale BY <1>4 DEF ReadFile
    <2> QED BY <1>1, <2>1, SweepTops, TopsSame
  <1>5. CASE EraseChip BY <1>5, BlankChip, NoneStaleOK DEF EraseChip
  <1> QED BY <1>2, <1>3, <1>4, <1>5 DEF Command

LEMMA CrashStale == ASSUME IInv, StaleOK, Crash PROVE StaleOK'
  <1>1. BlankAhead(pages', stale') BY DEF Crash
  <1>2. stale' \in [1 .. NPages -> SUBSET (0 .. PageLen)]
    <2>1. CASE EraseCut
      <3>1. PICK k \in 1 .. PageLen : stale' = [stale EXCEPT ![scan.p] = LeftBehind(k)]
        BY <2>1 DEF EraseCut
      <3>2. scan.p \in 1 .. NPages /\ Good(pages[scan.p])
        BY <2>1, CollectingFacts DEF EraseCut, ErasesPage
      <3>3. Top(pages[scan.p]) \in 1 .. PageLen - 1 BY <3>2, TopType, SizesAssumption
      <3>4. LeftBehind(k) \subseteq 0 .. PageLen
        BY <3>2, <3>3, SizesAssumption DEF LeftBehind, StaleOK
      <3> QED BY <3>1, <3>4 DEF StaleOK
    <2>2. CASE stale' = stale BY <2>2 DEF StaleOK
    <2> QED BY <2>1, <2>2 DEF Crash
  <1> QED BY <1>1, <1>2 DEF StaleOK

LEMMA StaleStep == ASSUME IInv, StaleOK, [Next]_vars PROVE StaleOK'
  <1>1. CASE Command BY <1>1, CommandStale
  <1>2. CASE Work
    <2>1. CASE Overprogram BY <2>1, NoTops DEF Overprogram
    <2> QED BY <1>2, <2>1, WriteStale, CollectStale DEF Work
  <1>3. CASE DriverFails BY <1>3 DEF DriverFails, StaleOK
  <1>4. CASE Crash BY <1>4, CrashStale
  <1>5. CASE Restart
    <2>1. CASE KeyIntact
      <3>1. pages' = Sweep(pages, NoAddr) /\ stale' = stale BY <1>5, <2>1 DEF Restart
      <3> QED BY <3>1, SweepTops, TopsSame DEF IInv
    <2>2. CASE ~KeyIntact
      <3>1. pages' = BlankFolder /\ stale' = NoneStale BY <1>5, <2>2 DEF Restart
      <3> QED BY <3>1, BlankChip, NoneStaleOK
    <2> QED BY <2>1, <2>2
  <1>6. CASE UNCHANGED vars BY <1>6, NoTops DEF vars
  <1> QED BY <1>1, <1>2, <1>3, <1>4, <1>5, <1>6 DEF Next

LEMMA InitStale == Init => StaleOK
  <1> SUFFICES ASSUME Init PROVE StaleOK OBVIOUS
  <1>1. \A p \in 1 .. NPages : stale[p] = {} BY DEF Init, NoneStale
  <1>2. DOMAIN pages = 1 .. NPages BY BlankChip, PageOf DEF Init
  <1> QED BY <1>1, <1>2 DEF Init, NoneStale, StaleOK, BlankAhead

\* The invariant of the folder: its types, well-formed pages, what the call in
\* progress holds, and nothing left by an erase at or before the end of a walk.
\* It holds whatever program or erase command the power fails in.
THEOREM LayoutInvariance == Spec => [](IInv /\ StaleOK)
  <1>1. Init => IInv /\ StaleOK BY InitIInv, InitStale
  <1>2. IInv /\ StaleOK /\ [Next]_vars => (IInv /\ StaleOK)'
    BY NextKeeps, StaleStep
  <1> QED BY <1>1, <1>2, PTL DEF Spec

LEMMA IInvImplies == IInv /\ StaleOK => TypeOK /\ PageLayout
  BY DEF IInv, StaleOK, TypeOK, PageLayout, IsFolder, GcGood, GoodPages, Registers

\* Every variable keeps its type, whatever the sizes of pages and files, the
\* moments at which power fails and the order in which the host sends parts.
THEOREM TypesHold == Spec => []TypeOK
  <1>1. IInv /\ StaleOK => TypeOK BY IInvImplies
  <1> QED BY <1>1, LayoutInvariance, PTL

\* The pages of the folder can be walked at every moment: no program of a
\* write, no collection and no power failure in them or between the commands
\* of an erase leaves a record that overlaps another, the end of its page or
\* what an erase has left - up to a program made over such leftovers.
THEOREM LayoutHolds == Spec => []PageLayout
  <1>1. IInv /\ StaleOK => PageLayout BY IInvImplies
  <1> QED BY <1>1, LayoutInvariance, PTL
=============================================================================
