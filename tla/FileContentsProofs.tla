------------------------- MODULE FileContentsProofs -------------------------
(***************************************************************************)
(* Theorems about what the files of SimpleFS hold, for every folder, page  *)
(* and file size: that it implements the store of FileStore.               *)
(***************************************************************************)
EXTENDS FileStoreProofs

\* The memory key is not where the collection erases, and the GC area is one
\* page.
CarefulUse == CleanUse /\ ~KeyInGc /\ GPages = 1

-----------------------------------------------------------------------------
(***************************************************************************)
(* The invariant.                                                          *)
(***************************************************************************)
\* Cells with the first k of the file in them.
Written(file, k) == [j \in DOMAIN file |-> IF j <= k THEN file[j] ELSE Blank]

\* A read returns the data of the record.
Sound(r) == r.data \in Files /\ r.crc \in {<<>>, r.data}

\* Every ACTIVE record is sound, but for the new one before its data.
SoundOK ==
    /\ \A id \in Ids : \A a : Live(pages, a, id) /\ ~(pc = "data" /\ a = tgt) => Sound(At(pages, a))
    /\ pc \in GcPcs => \A id \in Ids : \A a : Kept(a, id) => Sound(At(gc, a))
    /\ pc = "activate" /\ old # NoAddr => IsRec(pages, old) /\ Sound(At(pages, old))

\* A file written whole is one part; space is searched for with the first part.
AskedOK ==
    /\ req = NoReq <=> ~Calling
    /\ Calling /\ req.op = "write" => req.sent = 0 /\ req.n = Len(req.file)
    /\ pc \in {"retire", "activate"} => ~MoreParts
    /\ pc \in {"find", "endmark", "header", "gc", "back"} => req.sent = 0

\* The record being written has the file up to this part, then all of it.
HoldsFile(r, k) ==
    r.data = Written(req.file, k) /\ r.crc = IF Whole THEN req.file ELSE <<>>

TargetHolds ==
    /\ pc = "data" => HoldsFile(At(pages, tgt), req.sent)
    /\ pc \in {"retire", "activate"} /\ tgt # NoAddr => HoldsFile(At(pages, tgt), Len(req.file))

\* Record a has the parts of transfer t sent so far.
Has(pgs, a, t) ==
    /\ Partial(pgs, a) /\ At(pgs, a).id = t.id
    /\ At(pgs, a).data = Written(t.file, t.sent) /\ At(pgs, a).crc = <<>>

\* Between calls the parts of a file sent so far are there; nothing is there
\* when the last part was refused.
SentIsThere ==
    ~Calling =>
        \A t \in xfer :
            /\ t.sent # 0 => \E a : Has(pages, a, t)
            /\ t.sent = 0 => NonePartial(pages)

ContentsOK == SoundOK /\ AskedOK /\ TargetHolds /\ SentIsThere

CInv == FInv /\ NoStrayWrite /\ ContentsOK

(***************************************************************************)
(* What is stored.  x is the contents of file id, as FileStore sees it.    *)
(***************************************************************************)
Replaces(id) == req # NoReq /\ Replacing(id)

Holds(id, x) ==
    \/ /\ pc \in GcPcs
       /\ \/ \E a : Live(pages, a, id) /\ x = At(pages, a).data
          \/ \E a : Kept(a, id) /\ x = At(gc, a).data
    \/ /\ pc \notin GcPcs
       /\ IF Replaces(id) THEN old # NoAddr /\ x = At(pages, old).data
          ELSE \E a : Live(pages, a, id) /\ x = At(pages, a).data

Contents == [id \in Ids |-> Stored(id)]

LEMMA SoundReads ==
  ASSUME NEW r, Sound(r)
  PROVE  ReadRecord(r) = r.data /\ r.data \in Files
  BY DEF Sound, ReadRecord

\* A search finds the file's one version and a read returns its data.
LEMMA LookupIs ==
  ASSUME NEW f, IsFolder(f), Lined(f), NEW x, Marks(f, x), NEW id, Single(f, id),
         \A a : Live(f, a, id) => Sound(At(f, a))
  PROVE  /\ \A a : Live(f, a, id) => Lookup(f, id) = At(f, a).data
         /\ (\A a : ~Live(f, a, id)) => Lookup(f, id) = None
  <1> DEFINE v == Search(f, id, "ACTIVE")
  <1>1. /\ \A a : Live(f, a, id) => a = v
        /\ v # NoAddr => Live(f, v, id)
    BY SearchOne
  <1>2. \A a : Live(f, a, id) => a # NoAddr BY AddrNotNone DEF Live
  <1>3. Lookup(f, id) = IF v = NoAddr THEN None ELSE ReadRecord(At(f, v)) BY DEF Lookup
  <1> HIDE DEF v
  <1>4. v # NoAddr => ReadRecord(At(f, v)) = At(f, v).data BY <1>1, SoundReads
  <1> QED BY <1>1, <1>2, <1>3, <1>4

\* During a collection the file's one record is in the folder or in the GC area.
LEMMA CollectedIs ==
  ASSUME CInv, pc \in GcPcs, NEW id \in Ids
  PROVE  /\ \A a : Live(pages, a, id) => Collected1(id) = At(pages, a).data
         /\ \A a : Kept(a, id) => Collected1(id) = At(gc, a).data
         /\ (\A a : ~Live(pages, a, id) /\ ~Kept(a, id)) => Collected1(id) = None
  <1> DEFINE found == {At(pages, a) : a \in RecordsOf(pages)} \cup {At(gc, a) : a \in InGcArea}
             live  == {r \in found : r.id = id /\ r.st = "ACTIVE"}
  <1>1. FInv /\ SoundOK BY DEF CInv, ContentsOK
  <1>2. /\ \A a : Live(pages, a, id) => Sound(At(pages, a))
        /\ \A a : Kept(a, id) => Sound(At(gc, a))
    BY <1>1 DEF SoundOK, GcPcs
  <1>3. \A a : a \in RecordsOf(pages) <=> IsRec(pages, a) BY <1>1, Records, Folder
  <1>4. \A a : a \in InGcArea <=> IsRec(gc, a) /\ InArea(a)
    <2>1. \A a : a \in RecordsOf(gc) <=> IsRec(gc, a)
      <3>1. \A h \in DOMAIN gc : h \in Nat /\ DOMAIN gc[h].recs \subseteq Nat
        BY <1>1, GcFacts
      <3> QED BY <3>1 DEF RecordsOf, IsRec, Addr
    <2> QED BY <2>1 DEF InGcArea, InArea
  <1>5. \A r : r \in live <=> \/ \E a : Live(pages, a, id) /\ r = At(pages, a)
                              \/ \E a : Kept(a, id) /\ r = At(gc, a)
    BY <1>3, <1>4 DEF Live, Kept
  <1>6. Collected1(id) = IF live = {} THEN None
                         ELSE IF Cardinality(live) = 1 THEN ReadRecord(CHOOSE r \in live : TRUE)
                         ELSE Corrupt
    BY DEF Collected1
  <1> HIDE DEF live
  <1>7. \A r \in live, s \in live : r = s
    <2>1. /\ Single(pages, id)
          /\ \A a, b : Kept(a, id) /\ Kept(b, id) => a = b
          /\ \A a, b : ~(Live(pages, a, id) /\ Kept(b, id))
      BY <1>1, GcFacts
    <2> QED BY <1>5, <2>1 DEF Single
  <1>8. ASSUME NEW r \in live, Sound(r) PROVE Collected1(id) = r.data
    <2>1. live = {r} BY <1>7
    <2>2. Cardinality(live) = 1 BY <2>1, FS_Singleton
    <2>3. (CHOOSE s \in live : TRUE) = r BY <2>1
    <2> QED BY <1>6, <1>8, <2>1, <2>2, <2>3, SoundReads
  <1>9. \A a : Live(pages, a, id) => Collected1(id) = At(pages, a).data BY <1>2, <1>5, <1>8
  <1>10. \A a : Kept(a, id) => Collected1(id) = At(gc, a).data BY <1>2, <1>5, <1>8
  <1>11. (\A a : ~Live(pages, a, id) /\ ~Kept(a, id)) => Collected1(id) = None
    BY <1>5, <1>6
  <1> QED BY <1>9, <1>10, <1>11

\* Stored is what the record in use holds.
AsHeld ==
    \A id \in Ids :
        /\ \A x : Holds(id, x) => Stored(id) = x /\ x \in Files
        /\ (\A x : ~Holds(id, x)) => Stored(id) = None

LEMMA StoredIs == CInv => AsHeld
  <1> SUFFICES ASSUME CInv, NEW id \in Ids
               PROVE  /\ \A x : Holds(id, x) => Stored(id) = x /\ x \in Files
                      /\ (\A x : ~Holds(id, x)) => Stored(id) = None
    BY DEF AsHeld
  <1>1. /\ FInv /\ SoundOK /\ AskedOK /\ FilesOK /\ suspect = {} /\ pc # "stray"
    BY DEF CInv, ContentsOK, FInv, NoStrayWrite
  <1>2. Stored(id) = IF pc \in GcPcs THEN Collected1(id)
                     ELSE IF Replaces(id)
                     THEN IF old = NoAddr THEN None ELSE ReadRecord(At(pages, old))
                     ELSE Lookup(pages, id)
    BY <1>1 DEF Stored, Replaces
  <1>3. CASE pc \in GcPcs
    <2>1. /\ \A a : Live(pages, a, id) => At(pages, a).data \in Files
          /\ \A a : Kept(a, id) => At(gc, a).data \in Files
      BY <1>1, <1>3 DEF SoundOK, Sound, GcPcs
    <2> QED BY <1>2, <1>3, <2>1, CollectedIs DEF Holds
  <1>4. CASE pc \notin GcPcs /\ ~Replaces(id)
    <2>1. ~Swapping(id)
      <3> SUFFICES ASSUME Swapping(id) PROVE FALSE OBVIOUS
      <3>1. /\ pc \in {"data", "retire"} /\ tgt # NoAddr /\ req.op = "write" /\ id = req.id
        BY DEF Swapping
      <3>2. req # NoReq BY <1>1, <3>1 DEF AskedOK, Calling, AtRest
      <3> QED BY <1>4, <3>1, <3>2 DEF Replaces, Replacing
    <2>2. Single(pages, id) BY <1>1, <2>1 DEF FilesOK, VersionsOK
    <2>3. \A a : Live(pages, a, id) => Sound(At(pages, a))
      <3> SUFFICES ASSUME NEW a, Live(pages, a, id), pc = "data", a = tgt PROVE FALSE
        BY <1>1 DEF SoundOK
      <3>1. req.op \in {"write", "part"} /\ req.id \in Ids
        BY <1>1, RequestType, Folder DEF Calling, AtRest
      <3>2. CASE req.op = "part"
        BY <1>1, <3>2 DEF FInv, PInv, PartialOK, Live
      <3>3. CASE req.op = "write"
        <4>1. tgt # NoAddr BY <1>1, StartInside
        <4>2. Swapping(req.id) BY <3>3, <4>1 DEF Swapping
        <4>3. Live(pages, tgt, req.id) BY <1>1, <3>1, <4>2 DEF FilesOK, VersionsOK
        <4>4. id = req.id BY <4>3 DEF Live
        <4> QED BY <2>1, <4>2, <4>4
      <3> QED BY <3>1, <3>2, <3>3
    <2>4. Marks(pages, Unmarked) /\ Lined(pages) /\ IsFolder(pages)
      BY <1>1, <1>4, Folder DEF FilesOK, FolderOK
    <2>5. /\ \A a : Live(pages, a, id) => Lookup(pages, id) = At(pages, a).data
          /\ (\A a : ~Live(pages, a, id)) => Lookup(pages, id) = None
      BY <2>2, <2>3, <2>4, LookupIs
    <2>6. \A a : Live(pages, a, id) => At(pages, a).data \in Files BY <2>3 DEF Sound
    <2> QED BY <1>2, <1>4, <2>5, <2>6 DEF Holds
  <1>5. CASE pc \notin GcPcs /\ Replaces(id)
    <2>1. old # NoAddr => Sound(At(pages, old))
      <3> SUFFICES ASSUME old # NoAddr PROVE Sound(At(pages, old)) OBVIOUS
      <3>1. CASE pc = "activate" BY <1>1, <3>1 DEF SoundOK
      <3>2. CASE pc # "activate"
        <4>1. Swapping(id) BY <1>5, <3>2 DEF Replaces, Replacing, Swapping
        <4>2. Live(pages, old, id) /\ old # tgt BY <1>1, <4>1 DEF FilesOK, VersionsOK
        <4> QED BY <1>1, <4>2 DEF SoundOK
      <3> QED BY <3>1, <3>2
    <2>2. old # NoAddr =>
            ReadRecord(At(pages, old)) = At(pages, old).data /\ At(pages, old).data \in Files
      BY <2>1, SoundReads
    <2> QED BY <1>2, <1>5, <2>2 DEF Holds
  <1> QED BY <1>3, <1>4, <1>5

LEMMA StoredNext == CInv' => AsHeld'
  BY StoredIs, PTL

LEMMA SameContents ==
  ASSUME CInv, CInv', \A id \in Ids : \A x : Holds(id, x)' <=> Holds(id, x)
  PROVE  Contents' = Contents
  <1> SUFFICES ASSUME NEW id \in Ids PROVE Stored(id)' = Stored(id)
    BY DEF Contents
  <1>1. /\ \A x : Holds(id, x) => Stored(id) = x
        /\ (\A x : ~Holds(id, x)) => Stored(id) = None
    BY StoredIs DEF AsHeld
  <1>2. /\ \A x : Holds(id, x)' => Stored(id)' = x
        /\ (\A x : ~Holds(id, x)') => Stored(id)' = None
    BY StoredNext DEF AsHeld
  <1> QED BY <1>1, <1>2

\* Nothing is ever not promised.
LEMMA Promised ==
  ASSUME CInv, NEW id \in Ids
  PROVE  Stored(id) # Unknown
  <1>1. Stored(id) \in Files \cup {None} BY StoredIs DEF AsHeld
  <1>2. <<Blank>> \notin Seq(Vals) /\ <<Blank>> # <<>>
    <2>1. <<Blank>>[1] = Blank /\ Len(<<Blank>>) = 1 OBVIOUS
    <2> QED BY <2>1, CellsAssumption
  <1> QED BY <1>1, <1>2, FilesAssumption DEF Unknown, None

LEMMA PutContents ==
  ASSUME CInv, CInv', NEW id \in Ids, NEW file,
         \A i \in Ids : i # id => \A x : Holds(i, x)' <=> Holds(i, x),
         \/ \A x : Holds(id, x)' <=> x = file
         \/ file = None /\ \A x : ~Holds(id, x)'
  PROVE  Contents' = [Contents EXCEPT ![id] = IF @ = Unknown THEN Unknown ELSE file]
  <1>1. Contents[id] # Unknown BY Promised DEF Contents
  <1>2. ASSUME NEW i \in Ids, i # id PROVE Stored(i)' = Stored(i)
    <2>1. /\ \A x : Holds(i, x) => Stored(i) = x
          /\ (\A x : ~Holds(i, x)) => Stored(i) = None
      BY <1>2, StoredIs DEF AsHeld
    <2>2. /\ \A x : Holds(i, x)' => Stored(i)' = x
          /\ (\A x : ~Holds(i, x)') => Stored(i)' = None
      BY <1>2, StoredNext DEF AsHeld
    <2> QED BY <1>2, <2>1, <2>2
  <1>3. Stored(id)' = file
    <2>1. /\ \A x : Holds(id, x)' => Stored(id)' = x
          /\ (\A x : ~Holds(id, x)') => Stored(id)' = None
      BY StoredNext DEF AsHeld
    <2> QED BY <2>1
  <1> QED BY <1>1, <1>2, <1>3 DEF Contents

-----------------------------------------------------------------------------
(***************************************************************************)
(* Steps that leave the files alone.                                       *)
(***************************************************************************)
SameFiles == \A id \in Ids : \A x : Holds(id, x)' <=> Holds(id, x)

SameRecs ==
    /\ \A a : IsRec(pages', a) <=> IsRec(pages, a)
    /\ \A a : IsRec(pages, a) => At(pages', a) = At(pages, a)
    /\ \A a, id : Live(pages', a, id) <=> Live(pages, a, id)
    /\ \A a : Partial(pages', a) <=> Partial(pages, a)

LEMMA RecsKept ==
  ASSUME FInv, IsFolder(pages'), \A p \in 1 .. NPages : pages'[p].recs = pages[p].recs
  PROVE  SameRecs
  <1>1. IsFolder(pages) BY Folder
  <1>2. /\ \A a : IsRec(pages', a) <=> IsRec(pages, a)
        /\ \A a : IsRec(pages, a) => At(pages', a) = At(pages, a)
        /\ \A a, id : Live(pages', a, id) <=> Live(pages, a, id)
        /\ \A a : Partial(pages', a) <=> Partial(pages, a)
    BY <1>1, SameRecords
  <1> QED BY <1>2 DEF SameRecs

LEMMA SweptRecs == ASSUME FInv, NEW v, pages' = Sweep(pages, v) PROVE SameRecs
  <1>1. IsFolder(pages') /\ \A p \in 1 .. NPages : pages'[p].recs = pages[p].recs
    BY SweepView, Folder
  <1> QED BY <1>1, RecsKept

LEMMA FolderKept == ASSUME FInv, pages' = pages PROVE SameRecs
  BY DEF SameRecs

\* Outside of a collection, and with no version being replaced.
LEMMA FilesKept ==
  ASSUME SameRecs, pc \notin GcPcs, pc' \notin GcPcs,
         pc \notin {"data", "retire", "activate"} \/ (pc = "data" /\ req.op = "part"),
         pc' \notin {"data", "retire", "activate"} \/ (pc' = "data" /\ req'.op = "part")
  PROVE  SameFiles
  <1>1. \A id : ~Replaces(id) /\ ~Replaces(id)' BY DEF Replaces, Replacing
  <1>2. \A a, id : Live(pages, a, id) => IsRec(pages, a) BY DEF Live
  <1> QED BY <1>1, <1>2 DEF SameFiles, Holds, SameRecs

LEMMA SoundKept ==
  ASSUME CInv, SameRecs, pc' \notin GcPcs, pc' # "activate",
         pc # "data" \/ (pc' = "data" /\ tgt' = tgt)
  PROVE  SoundOK'
  <1>1. \A id \in Ids : \A a : Live(pages, a, id) /\ ~(pc = "data" /\ a = tgt) => Sound(At(pages, a))
    BY DEF CInv, ContentsOK, SoundOK
  <1>2. \A a, id : Live(pages, a, id) => IsRec(pages, a) BY DEF Live
  <1> QED BY <1>1, <1>2 DEF SameRecs, SoundOK

-----------------------------------------------------------------------------
(***************************************************************************)
(* The commands.                                                           *)
(***************************************************************************)
LEMMA InitContents == Init => ContentsOK
  <1> SUFFICES ASSUME Init PROVE ContentsOK OBVIOUS
  <1>1. \A a, id : ~Live(pages, a, id)
    BY DEF Init, Live, IsRec, BlankFolder, BlankPage
  <1> QED BY <1>1 DEF Init, ContentsOK, SoundOK, AskedOK, TargetHolds, SentIsThere, Calling, AtRest, GcPcs

LEMMA CallWriteContents ==
  ASSUME CInv, NEW id \in Ids, NEW file \in Files, CallWrite(id, file)
  PROVE  ContentsOK' /\ SameFiles
  <1> DEFINE request == [op |-> "write", id |-> id, file |-> file, sent |-> 0, n |-> Len(file)]
  <1>1. /\ pc = "idle" /\ pc' = "find" /\ req' = request /\ pages' = pages
    BY DEF CallWrite, Begin
  <1>2. SameRecs BY <1>1, FolderKept DEF CInv
  <1>3. SoundOK' BY <1>1, <1>2, SoundKept DEF GcPcs
  <1>4. request # NoReq /\ request.op = "write" /\ request.sent = 0
        /\ request.file = file /\ request.n = Len(file)
    <2>1. request.op # NoReq.op BY DEF NoReq
    <2> QED BY <2>1
  <1> HIDE DEF request
  <1>5. AskedOK' BY <1>1, <1>4 DEF AskedOK, Calling, AtRest
  <1>6. SameFiles BY <1>1, <1>2, FilesKept DEF GcPcs
  <1> QED BY <1>1, <1>3, <1>5, <1>6 DEF ContentsOK, TargetHolds, SentIsThere, Calling, AtRest

LEMMA CallPartContents ==
  ASSUME CInv, CleanUse, NEW id \in Ids, NEW file \in Files, CallPart(id, file)
  PROVE  ContentsOK' /\ SameFiles
  <1>1. PICK sent \in 0 .. Len(file) - 1 :
          /\ \/ sent = 0 /\ (\A t \in xfer : t.id # id) /\ (Interleave \/ xfer = {})
             \/ \E t \in xfer : t.id = id /\ t.file = file /\ t.sent = sent
          /\ LET left == Len(file) - sent
                 n    == IF left < PartLen THEN left ELSE PartLen
                 part == Search(pages, id, "PARTIAL")
             IN  /\ Begin([op |-> "part", id |-> id, file |-> file, sent |-> sent, n |-> n],
                          IF part = NoAddr THEN "find" ELSE "data")
                 /\ tgt' = part
                 /\ pages' = Sweep(pages, part)
    BY DEF CallPart
  <1> DEFINE part == Search(pages, id, "PARTIAL")
             n == IF Len(file) - sent < PartLen THEN Len(file) - sent ELSE PartLen
             request == [op |-> "part", id |-> id, file |-> file, sent |-> sent, n |-> n]
  <1>2. /\ req' = request /\ tgt' = part /\ pages' = Sweep(pages, part)
        /\ pc' = IF part = NoAddr THEN "find" ELSE "data"
    BY <1>1 DEF Begin
  <1>3. pc = "idle" /\ FInv /\ SentIsThere BY DEF CallPart, CInv, ContentsOK
  <1>4. xfer = {} \/ \E t \in xfer : t.id = id /\ t.file = file /\ t.sent = sent
    BY <1>1 DEF CleanUse
  <1>5. /\ \A a : Partial(pages, a) => a = part
        /\ part # NoAddr => Partial(pages, part) /\ At(pages, part).id = id
    BY <1>3, <1>4, PartialFound
  <1>6. xfer = {} => sent = 0 BY <1>1
  <1>7. /\ request # NoReq /\ request.op = "part" /\ request.file = file /\ request.sent = sent
    <2>1. request.op # NoReq.op BY DEF NoReq
    <2> QED BY <2>1
  <1>8. SameRecs BY <1>2, <1>3, SweptRecs
  <1> HIDE DEF part, request
  <1>9. CASE part = NoAddr
    <2>1. pc' = "find" BY <1>2, <1>9
    <2>2. sent = 0
      <3> SUFFICES ASSUME sent # 0 PROVE FALSE OBVIOUS
      <3>1. \E a : Partial(pages, a) BY <1>3, <1>4, <1>6 DEF SentIsThere, Calling, AtRest, Has
      <3>2. Partial(pages, NoAddr) BY <1>5, <1>9, <3>1
      <3> QED BY <1>3, <3>2, AddrNotNone, Folder DEF Partial
    <2>3. AskedOK' BY <1>2, <1>7, <2>1, <2>2 DEF AskedOK, Calling, AtRest
    <2>4. SoundOK' BY <1>3, <1>8, <2>1, SoundKept DEF GcPcs
    <2>5. SameFiles BY <1>3, <1>8, <2>1, FilesKept DEF GcPcs
    <2> QED BY <2>1, <2>3, <2>4, <2>5 DEF ContentsOK, TargetHolds, SentIsThere, Calling, AtRest
  <1>10. CASE part # NoAddr
    <2>1. pc' = "data" BY <1>2, <1>10
    <2>2. Partial(pages, part) BY <1>5, <1>10
    <2>3. PICK t \in xfer : t.id = id /\ t.file = file /\ t.sent = sent
      <3>1. xfer # {} BY <1>3, <2>2 DEF FInv, FilesOK, PartsOK, Calling, AtRest
      <3> QED BY <1>4, <3>1
    <2>4. At(pages, part).data = Written(file, sent) /\ At(pages, part).crc = <<>>
      <3>1. ~NonePartial(pages) BY <2>2 DEF NonePartial
      <3>2. PICK a : Has(pages, a, t) BY <1>3, <2>3, <3>1 DEF SentIsThere, Calling, AtRest
      <3> QED BY <1>5, <2>3, <3>2 DEF Has
    <2>5. TargetHolds'
      <3>1. At(pages', part) = At(pages, part) BY <1>8, <2>2 DEF SameRecs, Partial
      <3> QED BY <1>2, <1>7, <2>1, <2>4, <3>1 DEF TargetHolds, HoldsFile, Whole
    <2>6. AskedOK' BY <1>2, <1>7, <2>1 DEF AskedOK, Calling, AtRest
    <2>7. SoundOK'
      <3>1. \A i \in Ids : \A a : Live(pages, a, i) => Sound(At(pages, a))
        BY <1>3 DEF CInv, ContentsOK, SoundOK
      <3>2. \A a, i : Live(pages, a, i) => IsRec(pages, a) BY DEF Live
      <3> QED BY <1>8, <2>1, <3>1, <3>2 DEF SameRecs, SoundOK, GcPcs
    <2>8. SameFiles BY <1>2, <1>3, <1>7, <1>8, <2>1, FilesKept DEF GcPcs
    <2> QED BY <2>1, <2>5, <2>6, <2>7, <2>8 DEF ContentsOK, SentIsThere, Calling, AtRest
  <1> QED BY <1>9, <1>10

\* At rest, whatever a search or a restart marks.
LEMMA RestContents ==
  ASSUME CInv, ~Calling, ~Calling', SameRecs, UNCHANGED <<req, xfer>>
  PROVE  ContentsOK' /\ SameFiles
  <1>1. pc \in AtRest /\ pc' \in AtRest BY DEF Calling, AtRest
  <1>2. SoundOK' BY <1>1, SoundKept DEF GcPcs, AtRest
  <1>3. AskedOK' /\ TargetHolds' BY <1>1 DEF CInv, ContentsOK, AskedOK, TargetHolds, Calling, AtRest
  <1>4. SentIsThere'
    <2>1. ASSUME NEW t \in xfer, t.sent # 0 PROVE \E a : Has(pages', a, t)
      <3>1. PICK a : Has(pages, a, t) BY <2>1 DEF CInv, ContentsOK, SentIsThere
      <3>2. Partial(pages', a) /\ At(pages', a) = At(pages, a)
        BY <3>1 DEF SameRecs, Partial, Has
      <3> QED BY <3>1, <3>2 DEF Has
    <2>2. ASSUME NEW t \in xfer, t.sent = 0 PROVE NonePartial(pages')
      BY <2>2 DEF CInv, ContentsOK, SentIsThere, SameRecs, NonePartial
    <2> QED BY <2>1, <2>2 DEF SentIsThere
  <1>5. SameFiles BY <1>1, FilesKept DEF GcPcs, AtRest
  <1> QED BY <1>2, <1>3, <1>4, <1>5 DEF ContentsOK

LEMMA ReadFileContents ==
  ASSUME CInv, NEW id \in Ids, ReadFile(id)
  PROVE  ContentsOK' /\ SameFiles
  <1>1. SameRecs BY SweptRecs DEF ReadFile, CInv
  <1> QED BY <1>1, RestContents DEF ReadFile, call, Calling, AtRest

LEMMA EraseChipContents ==
  ASSUME CInv, EraseChip
  PROVE  ContentsOK' /\ \A id \in Ids : \A x : ~Holds(id, x)'
  <1>1. /\ pc = "idle" /\ pc' = "idle" /\ pages' = BlankFolder /\ xfer' = {} /\ req' = req
    BY DEF EraseChip, call, CInv, FInv, Unspoiled
  <1>2. \A a, id : ~Live(pages', a, id)
    BY <1>1 DEF Live, IsRec, BlankFolder, BlankPage
  <1>3. ContentsOK'
    BY <1>1, <1>2 DEF CInv, ContentsOK, SoundOK, AskedOK, TargetHolds, SentIsThere, Calling, AtRest, GcPcs
  <1>4. \A id : ~Replaces(id)' BY <1>1 DEF Replaces, Replacing
  <1> QED BY <1>1, <1>2, <1>3, <1>4 DEF Holds, GcPcs

LEMMA CrashContents ==
  ASSUME CInv, CleanUse, Crash
  PROVE  ContentsOK' /\ SameFiles /\ req' = NoReq /\ reply' = "none" /\ req = NoReq
  <1>1. pc = "idle" /\ pc' = "down" /\ xfer' = xfer /\ req' = NoReq /\ reply' = "none"
    BY DEF Crash, CleanUse, Reset
  <1>2. pages' = pages BY <1>1 DEF Crash, Torn, EraseCut, ErasesPage
  <1>3. SameRecs BY <1>2, FolderKept DEF CInv
  <1>4. req = NoReq BY <1>1 DEF CInv, ContentsOK, AskedOK, Calling, AtRest
  <1> QED BY <1>1, <1>3, <1>4, RestContents DEF Calling, AtRest

LEMMA RestartContents ==
  ASSUME CInv, ~KeyInGc, Restart
  PROVE  ContentsOK' /\ SameFiles
  <1>1. /\ pc = "down" /\ pc' = "idle" /\ pages' = Sweep(pages, NoAddr)
        /\ UNCHANGED <<call, xfer, reply>>
    BY DEF Restart, KeyIntact
  <1>2. SameRecs BY <1>1, SweptRecs DEF CInv
  <1> QED BY <1>1, <1>2, RestContents DEF call, Calling, AtRest

-----------------------------------------------------------------------------
(***************************************************************************)
(* The search for space.                                                   *)
(***************************************************************************)
LEMMA SearchContents ==
  ASSUME CInv, pc \in {"find", "endmark"}, pc' \in {"find", "endmark", "header"},
         SameRecs, UNCHANGED req
  PROVE  ContentsOK' /\ SameFiles
  <1>1. SoundOK' BY SoundKept DEF GcPcs
  <1>2. AskedOK' BY DEF CInv, ContentsOK, AskedOK, Calling, AtRest
  <1>3. SameFiles BY FilesKept DEF GcPcs
  <1> QED BY <1>1, <1>2, <1>3 DEF ContentsOK, TargetHolds, SentIsThere, Calling, AtRest

LEMMA FindContents ==
  ASSUME CInv, FInv', FindRoom \/ FindFull \/ EndMark
  PROVE  ContentsOK' /\ SameFiles
  <1>1. FInv /\ IsFolder(pages') BY DEF CInv, FInv, PInv, IInv
  <1>2. /\ pc \in {"find", "endmark"} /\ pc' \in {"find", "endmark", "header"}
        /\ UNCHANGED req
    BY DEF FindRoom, FindFull, EndMark
  <1>3. \A q \in 1 .. NPages : pages'[q].recs = pages[q].recs
    <2>1. CASE FindRoom \/ FindFull
      <3>1. PICK p \in 1 .. NPages, st \in {"ACTIVE", "OLD"} : pages' = [pages EXCEPT ![p].st = st]
        BY <2>1 DEF FindRoom, FindFull
      <3> QED BY <1>1, <3>1, PageStatusView
    <2>2. CASE EndMark
      <3>1. pc = "endmark" /\ pages' = [pages EXCEPT ![cur].end = TRUE] BY <2>2 DEF EndMark
      <3>2. cur \in 1 .. NPages BY <1>1, <3>1, Folder DEF IInv, CallOK, FullOK
      <3> QED BY <1>1, <3>1, <3>2, Folder DEF Page
    <2> QED BY <2>1, <2>2
  <1>4. SameRecs BY <1>1, <1>3, RecsKept
  <1> QED BY <1>2, <1>4, SearchContents

\* A collection begins with an empty GC area.
LEMMA NoneKept ==
  ASSUME scan'.g = 1, ~scan'.open, DOMAIN gc' \subseteq Nat \ {0}
  PROVE  \A a, id : ~Kept(a, id)'
  <1> SUFFICES ASSUME NEW a, NEW id, Kept(a, id)' PROVE FALSE OBVIOUS
  <1>1. a[1] \in DOMAIN gc' /\ a[1] < 1 BY DEF Kept, InArea, Live, IsRec
  <1> QED BY <1>1

LEMMA GcDomain == FInv => DOMAIN gc \subseteq Nat \ {0}
  <1> SUFFICES ASSUME FInv PROVE DOMAIN gc \subseteq Nat \ {0} OBVIOUS
  <1>1. gc \in [1 .. GPages -> GoodPages] BY Folder DEF IInv, GcGood
  <1> QED BY <1>1, SizesAssumption

LEMMA FindNoneContents ==
  ASSUME CInv, FindNone
  PROVE  ContentsOK' /\ SameFiles
  <1>1. /\ pc = "find" /\ pc' = "gc" /\ scan' = NoScan /\ UNCHANGED <<pages, gc, req>>
    BY DEF FindNone
  <1>2. \A a, id : ~Kept(a, id)'
    <2>1. scan'.g = 1 /\ ~scan'.open BY <1>1 DEF NoScan
    <2>2. DOMAIN gc' \subseteq Nat \ {0} BY <1>1, GcDomain DEF CInv
    <2> QED BY <2>1, <2>2, NoneKept
  <1>3. SoundOK' BY <1>1, <1>2 DEF CInv, ContentsOK, SoundOK
  <1>4. AskedOK' BY <1>1 DEF CInv, ContentsOK, AskedOK, Calling, AtRest
  <1>5. SameFiles BY <1>1, <1>2 DEF SameFiles, Holds, GcPcs, Replaces, Replacing
  <1> QED BY <1>1, <1>3, <1>4, <1>5 DEF ContentsOK, TargetHolds, SentIsThere, Calling, AtRest

-----------------------------------------------------------------------------
(***************************************************************************)
(* The file in its cells.                                                  *)
(***************************************************************************)
LEMMA WrittenNone ==
  ASSUME NEW file \in Seq(Vals)
  PROVE  Blanks(Len(file)) = Written(file, 0)
  <1>1. DOMAIN file = 1 .. Len(file) /\ Len(file) \in Nat OBVIOUS
  <1>2. \A j \in 1 .. Len(file) : ~(j <= 0) BY <1>1
  <1> QED BY <1>1, <1>2 DEF Blanks, Written

LEMMA WrittenAll ==
  ASSUME NEW file \in Seq(Vals)
  PROVE  Written(file, Len(file)) = file
  <1>1. DOMAIN file = 1 .. Len(file) /\ Len(file) \in Nat OBVIOUS
  <1>2. file = [j \in DOMAIN file |-> file[j]] OBVIOUS
  <1> QED BY <1>1, <1>2 DEF Written

LEMMA WrittenLen ==
  ASSUME NEW file \in Seq(Vals), NEW k
  PROVE  Len(Written(file, k)) = Len(file)
  <1>1. DOMAIN file = 1 .. Len(file) /\ Len(file) \in Nat OBVIOUS
  <1>2. \A j \in 1 .. Len(file) : file[j] \in Vals OBVIOUS
  <1>3. Written(file, k) \in [1 .. Len(file) -> Cells] BY <1>1, <1>2 DEF Written, Cells
  <1> QED BY <1>1, <1>3

\* A part fills the cells behind the parts before it.
LEMMA WrittenOn ==
  ASSUME NEW file \in Seq(Vals), NEW sent \in Nat, NEW n \in Nat, sent + n <= Len(file)
  PROVE  ProgramAt(Written(file, sent), sent, SubSeq(SubSeq(file, sent + 1, sent + n), 1, n))
            = Written(file, sent + n)
  <1> DEFINE payload == SubSeq(file, sent + 1, sent + n)
             part    == SubSeq(payload, 1, n)
             data    == Written(file, sent)
  <1>1. DOMAIN file = 1 .. Len(file) /\ Len(file) \in Nat OBVIOUS
  <1>2. /\ payload \in Seq(Vals) /\ Len(payload) = n
        /\ \A k \in 1 .. n : payload[k] = file[sent + k]
    <2> DEFINE from == sent + 1
               to   == sent + n
    <2>1. /\ from \in 1 .. Len(file) + 1 /\ to \in from - 1 .. Len(file)
          /\ to - from + 1 = n
          /\ \A k \in 1 .. n : from + k - 1 = sent + k
      BY <1>1
    <2>2. payload = SubSeq(file, from, to) OBVIOUS
    <2> HIDE DEF payload, from, to
    <2>3. /\ payload \in Seq(Vals) /\ Len(payload) = to - from + 1
          /\ \A k \in 1 .. (to - from + 1) : payload[k] = file[from + k - 1]
      BY <2>1, <2>2, SubSeqProperties
    <2> QED BY <2>1, <2>3
  <1> HIDE DEF payload
  <1>3. /\ Len(part) = n /\ \A k \in 1 .. n : part[k] = file[sent + k]
    BY <1>2, SubSeqProperties
  <1> HIDE DEF part
  <1>4. DOMAIN data = DOMAIN file BY DEF Written
  <1>5. ASSUME NEW k \in DOMAIN file
        PROVE  (IF k > sent /\ k <= sent + Len(part) THEN Program(data[k], part[k - sent]) ELSE data[k])
                 = (IF k <= sent + n THEN file[k] ELSE Blank)
    <2>1. data[k] = IF k <= sent THEN file[k] ELSE Blank BY <1>5 DEF Written
    <2>2. k \in 1 .. Len(file) BY <1>1, <1>5
    <2> HIDE DEF data
    <2>3. CASE k > sent /\ k <= sent + n
      <3>1. data[k] = Blank BY <2>1, <2>2, <2>3
      <3>2. k - sent \in 1 .. n /\ sent + (k - sent) = k BY <2>2, <2>3
      <3>3. part[k - sent] = file[k] BY <1>3, <3>2
      <3> QED BY <1>3, <2>3, <3>1, <3>3 DEF Program
    <2>4. CASE k <= sent BY <1>3, <2>1, <2>2, <2>4
    <2>5. CASE k > sent + n BY <1>3, <2>1, <2>2, <2>5
    <2> QED BY <2>2, <2>3, <2>4, <2>5
  <1>6. ProgramAt(data, sent, part) = Written(file, sent + n)
    BY <1>4, <1>5 DEF ProgramAt, Written
  <1> QED BY <1>6 DEF data, part, payload

-----------------------------------------------------------------------------
(***************************************************************************)
(* The programs of a write.                                                *)
(***************************************************************************)
LEMMA WriteHeaderContents ==
  ASSUME CInv, FInv', WriteHeader
  PROVE  ContentsOK' /\ SameFiles
  <1>1. /\ pc = "header" /\ pc' = "data" /\ old' = Version /\ pages' = HeaderAdded
        /\ UNCHANGED <<gc, req, tgt, scan, xfer>>
    BY DEF WriteHeader
  <1>2. /\ FInv /\ FilesOK /\ SoundOK /\ AskedOK /\ Calling
    BY <1>1 DEF CInv, FInv, ContentsOK, Calling, AtRest
  <1>3. /\ ~IsRec(pages, tgt)
        /\ \A b : IsRec(pages', b) <=> IsRec(pages, b) \/ b = tgt
        /\ \A b : IsRec(pages, b) => At(pages', b) = At(pages, b)
        /\ At(pages', tgt) = NewRecord
    BY <1>1, <1>2, HeaderView
  <1>4. /\ NewRecord.id = req.id /\ NewRecord.data = Blanks(Remaining(req))
        /\ req.op = "write" => NewRecord.st = "ACTIVE" /\ NewRecord.crc = req.file
        /\ req.op = "part" => NewRecord.st = "PARTIAL" /\ NewRecord.crc = <<>>
        /\ req.op \in {"write", "part"}
    BY <1>1, <1>2, NewRecordFacts
  <1>5. /\ req.sent = 0 /\ req.file \in Seq(Vals) /\ req.id \in Ids /\ Len(req.file) \in Nat
    BY <1>1, <1>2, RequestType, Folder DEF AskedOK
  <1>6. \A b, i : Live(pages', b, i) <=>
                     Live(pages, b, i) \/ (b = tgt /\ i = req.id /\ req.op = "write")
    BY <1>3, <1>4 DEF Live
  <1>7. \A b, i : Live(pages, b, i) => b # tgt /\ At(pages', b) = At(pages, b)
    BY <1>3 DEF Live
  <1>8. SoundOK' BY <1>1, <1>2, <1>6, <1>7 DEF SoundOK, GcPcs
  <1>9. AskedOK' BY <1>1, <1>2 DEF AskedOK, Calling, AtRest
  <1>10. TargetHolds'
    <2>1. NewRecord.data = Written(req.file, 0)
      <3>1. Remaining(req) = Len(req.file) BY <1>5 DEF Remaining
      <3> QED BY <1>4, <1>5, <3>1, WrittenNone
    <2> QED BY <1>1, <1>3, <1>4, <1>5, <2>1 DEF TargetHolds, HoldsFile, Whole
  <1>11. SameFiles
    <2> SUFFICES ASSUME NEW id \in Ids, NEW x PROVE Holds(id, x)' <=> Holds(id, x)
      BY DEF SameFiles
    <2>1. Holds(id, x) <=> \E a : Live(pages, a, id) /\ x = At(pages, a).data
      BY <1>1 DEF Holds, Replaces, Replacing, GcPcs
    <2>2. CASE req.op = "write" /\ id = req.id
      <3>1. tgt # NoAddr BY <1>1, <1>2, HeaderView, AddrNotNone
      <3>2. Replaces(id)' BY <1>1, <1>2, <2>2, <3>1 DEF Replaces, Replacing, AskedOK
      <3>3. Holds(id, x)' <=> old' # NoAddr /\ x = At(pages', old').data
        BY <1>1, <3>2 DEF Holds, GcPcs
      <3>4. /\ \A a : Live(pages, a, id) => a = old'
            /\ old' # NoAddr => Live(pages, old', id)
        <4>1. old' = Search(pages, id, "ACTIVE") BY <1>1, <2>2 DEF Version, Whole
        <4>2. /\ Marks(pages, 0) /\ Lined(pages) /\ Single(pages, id)
          BY <1>1, <1>2 DEF FilesOK, FolderOK, Unmarked, GcPcs, VersionsOK, Swapping
        <4> QED BY <1>2, <4>1, <4>2, SearchOne, Folder
      <3>5. \A a : Live(pages, a, id) => a # NoAddr BY <1>2, AddrNotNone, Folder DEF Live
      <3> QED BY <1>7, <2>1, <3>3, <3>4, <3>5
    <2>3. CASE ~(req.op = "write" /\ id = req.id)
      <3>1. ~Replaces(id)' BY <1>1, <2>3 DEF Replaces, Replacing
      <3>2. Holds(id, x)' <=> \E a : Live(pages', a, id) /\ x = At(pages', a).data
        BY <1>1, <3>1 DEF Holds, GcPcs
      <3>3. \A a : Live(pages', a, id) <=> Live(pages, a, id) BY <1>6, <2>3
      <3> QED BY <1>7, <2>1, <3>2, <3>3
    <2> QED BY <2>2, <2>3
  <1> QED BY <1>1, <1>8, <1>9, <1>10, <1>11 DEF ContentsOK, SentIsThere, Calling, AtRest

\* The data of the part goes behind that of the parts before it.
LEMMA PartWritten ==
  ASSUME CInv, pc = "data"
  PROVE  At(WithPayload(req.n), tgt).data = Written(req.file, req.sent + req.n)
  <1>1. FInv /\ Calling BY DEF CInv, Calling, AtRest
  <1>2. /\ req.file \in Seq(Vals) /\ req.sent \in Nat /\ req.n \in Nat /\ Len(req.file) \in Nat
        /\ req.sent + req.n <= Len(req.file)
    BY <1>1, RequestType, Folder DEF IInv, CallOK, RequestOK
  <1>3. At(pages, tgt).data = Written(req.file, req.sent)
    BY DEF CInv, ContentsOK, TargetHolds, HoldsFile
  <1>4. PayloadStart = req.sent
    <2>1. Len(At(pages, tgt).data) = Len(req.file) BY <1>2, <1>3, WrittenLen
    <2> QED BY <1>2, <2>1 DEF PayloadStart, Remaining
  <1>5. At(WithPayload(req.n), tgt).data
          = ProgramAt(At(pages, tgt).data, PayloadStart, SubSeq(Payload, 1, req.n))
    BY <1>1, PayloadView
  <1> QED BY <1>2, <1>3, <1>4, <1>5, WrittenOn DEF Payload

LEMMA WriteDataContents ==
  ASSUME CInv, WriteData
  PROVE  /\ ContentsOK' /\ SameFiles
         /\ \/ MoreParts /\ req' = NoReq /\ reply' = "success"
            \/ UNCHANGED <<req, reply>>
  <1>1. pc = "data" /\ FInv /\ FilesOK /\ SoundOK /\ AskedOK /\ Calling /\ gc' = gc
    BY DEF WriteData, CInv, FInv, ContentsOK, Calling, AtRest
  <1>2. PayloadStart >= 0 /\ tgt # NoAddr BY <1>1, StartInside
  <1>3. /\ pages' = WithPayload(req.n)
        /\ \/ MoreParts /\ Return("success") /\ Advance(FALSE)
           \/ ~MoreParts /\ pc' = "retire" /\ UNCHANGED <<call, xfer, reply>>
    <2>1. ~(PayloadStart < 0)
      <3>1. PayloadStart \in Int BY <1>1, Folder, StartType
      <3> QED BY <1>2, <3>1
    <2> QED BY <2>1 DEF WriteData
  <1>4. /\ IsRec(pages, tgt)
        /\ \A b : IsRec(pages', b) <=> IsRec(pages, b)
        /\ \A b : IsRec(pages, b) /\ b # tgt => At(pages', b) = At(pages, b)
        /\ At(pages', tgt).st = At(pages, tgt).st /\ At(pages', tgt).id = At(pages, tgt).id
        /\ At(pages', tgt).crc = At(pages, tgt).crc
    BY <1>1, <1>3, PayloadView
  <1>5. HoldsFile(At(pages', tgt), req.sent + req.n)
    BY <1>1, <1>3, <1>4, PartWritten DEF CInv, ContentsOK, TargetHolds, HoldsFile
  <1>6. /\ \A b, i : Live(pages', b, i) <=> Live(pages, b, i)
        /\ \A b : Partial(pages', b) <=> Partial(pages, b)
    <2>1. \A b : IsRec(pages, b) => /\ At(pages', b).st = At(pages, b).st
                                    /\ At(pages', b).id = At(pages, b).id
      BY <1>4
    <2> QED BY <1>4, <2>1 DEF Live, Partial
  <1>7. \A b, i : Live(pages, b, i) /\ b # tgt => At(pages', b) = At(pages, b)
    BY <1>4 DEF Live
  <1>8. /\ req.op \in {"write", "part"} /\ req.id \in Ids /\ req.file \in Files
        /\ req.file \in Seq(Vals) /\ req.sent \in Nat /\ req.n \in Nat /\ Len(req.file) \in Nat
    BY <1>1, RequestType, Folder
  <1>9. req.op = "part" => Partial(pages, tgt) /\ \A i : ~Live(pages, tgt, i)
    BY <1>1, <1>4 DEF FInv, PInv, PartialOK, Partial, Live
  <1>10. CASE MoreParts /\ Return("success") /\ Advance(FALSE)
    <2>1. pc' = "idle" /\ req' = NoReq /\ reply' = "success" /\ req.op = "part"
      BY <1>10 DEF Return, MoreParts
    <2>2. SoundOK'
      <3>1. \A b, i : Live(pages', b, i) => Live(pages, b, i) /\ b # tgt BY <1>6, <1>9, <2>1
      <3> QED BY <1>1, <1>7, <2>1, <3>1 DEF SoundOK, GcPcs
    <2>3. AskedOK' /\ TargetHolds' BY <2>1 DEF AskedOK, TargetHolds, Calling, AtRest
    <2>4. SentIsThere'
      <3> SUFFICES ASSUME NEW t \in xfer' PROVE t.sent # 0 /\ Has(pages', tgt, t)
        BY DEF SentIsThere
      <3>1. t.id = req.id /\ t.file = req.file /\ t.sent = req.sent + req.n
        BY <1>1, <1>10, <2>1, AdvanceHost
      <3>4. t.sent # 0 BY <1>1, <1>8, <3>1, RequestType, Folder
      <3>2. Partial(pages', tgt) BY <1>6, <1>9, <2>1
      <3>3. At(pages, tgt).id = req.id BY <1>1, <1>9, <2>1 DEF FilesOK, PartsOK
      <3> QED BY <1>4, <1>5, <2>1, <3>1, <3>2, <3>3, <3>4 DEF HoldsFile, Whole, Has
    <2>5. SameFiles
      <3>1. \A id : ~Replaces(id) /\ ~Replaces(id)'
        BY <1>1, <2>1 DEF Replaces, Replacing
      <3>2. \A b, i : Live(pages, b, i) => b # tgt BY <1>9, <2>1
      <3> QED BY <1>1, <1>6, <1>7, <2>1, <3>1, <3>2 DEF SameFiles, Holds, GcPcs
    <2> QED BY <1>10, <2>1, <2>2, <2>3, <2>4, <2>5 DEF ContentsOK
  <1>11. CASE ~MoreParts /\ pc' = "retire" /\ UNCHANGED <<call, xfer, reply>>
    <2>1. UNCHANGED <<req, tgt, old, scan, xfer, reply>> BY <1>11 DEF call
    <2>2. req.n = Remaining(req) BY <1>1, <1>8, <1>11 DEF MoreParts, AskedOK, Remaining
    <2>3. HoldsFile(At(pages', tgt), Len(req.file))
      <3>1. req.sent + req.n = Len(req.file) BY <1>8, <2>2 DEF Remaining
      <3> QED BY <1>5, <3>1
    <2>4. Sound(At(pages', tgt)) BY <1>8, <2>3, WrittenAll DEF HoldsFile, Sound
    <2>5. SoundOK'
      <3>1. \A id \in Ids : \A a : Live(pages', a, id) => Sound(At(pages', a))
        BY <1>1, <1>6, <1>7, <2>4 DEF SoundOK
      <3> QED BY <1>11, <3>1 DEF SoundOK, GcPcs
    <2>6. AskedOK'
      <3>1. ~MoreParts' BY <1>11, <2>1 DEF MoreParts, Remaining
      <3> QED BY <1>1, <1>11, <2>1, <3>1 DEF AskedOK, Calling, AtRest
    <2>7. TargetHolds' BY <1>11, <2>1, <2>3 DEF TargetHolds, HoldsFile, Whole
    <2>8. SameFiles
      <3> SUFFICES ASSUME NEW id \in Ids, NEW x PROVE Holds(id, x)' <=> Holds(id, x)
        BY DEF SameFiles
      <3>1. Replaces(id) <=> Replaces(id)'
        BY <1>1, <1>11, <2>1 DEF Replaces, Replacing
      <3>2. CASE Replaces(id)
        <4>1. Swapping(id) BY <1>1, <3>2 DEF Replaces, Replacing, Swapping
        <4>2. old # NoAddr => Live(pages, old, id) /\ old # tgt
          BY <1>1, <4>1 DEF FilesOK, VersionsOK
        <4>3. old # NoAddr => At(pages', old) = At(pages, old) BY <1>7, <4>2
        <4> QED BY <1>1, <1>11, <2>1, <3>1, <3>2, <4>3 DEF Holds, GcPcs
      <3>3. CASE ~Replaces(id)
        <4>1. ASSUME NEW a, Live(pages, a, id) PROVE a # tgt
          <5> SUFFICES ASSUME a = tgt PROVE FALSE OBVIOUS
          <5>1. req.op = "write" BY <1>8, <1>9, <4>1
          <5>2. Swapping(req.id) BY <1>1, <1>2, <5>1 DEF Swapping
          <5>3. id = req.id BY <1>1, <1>8, <4>1, <5>2 DEF FilesOK, VersionsOK, Live
          <5> QED BY <1>1, <3>3, <5>2, <5>3 DEF Replaces, Replacing, Swapping, AskedOK
        <4> QED BY <1>1, <1>6, <1>7, <1>11, <3>1, <3>3, <4>1 DEF Holds, GcPcs
      <3> QED BY <3>2, <3>3
    <2> QED BY <1>11, <2>1, <2>5, <2>6, <2>7, <2>8 DEF ContentsOK, SentIsThere, Calling, AtRest
  <1> QED BY <1>3, <1>10, <1>11

\* The end of a call that replaces a file whole: it holds what was sent, or
\* nothing when there was no space.
LEMMA RetireReplacedContents ==
  ASSUME CInv, RetireReplaced
  PROVE  /\ ContentsOK' /\ req.op = "write" /\ req' = NoReq
         /\ \A i \in Ids : i # req.id => \A x : Holds(i, x)' <=> Holds(i, x)
         /\ \/ /\ tgt # NoAddr /\ reply' = "success"
               /\ \A i \in Ids : i = req.id => \A x : Holds(i, x)' <=> x = req.file
            \/ /\ tgt = NoAddr /\ reply' = "no_space"
               /\ \A i \in Ids : i = req.id => \A x : ~Holds(i, x)'
  <1> DEFINE version == IF tgt # NoAddr THEN old ELSE Search(pages, req.id, "ACTIVE")
  <1>1. /\ pc = "retire" /\ req.op = "write" /\ Advance(FALSE) /\ gc' = gc
        /\ Return(IF tgt # NoAddr THEN "success" ELSE "no_space")
        /\ pages' = RetireAt(IF tgt # NoAddr THEN pages ELSE Sweep(pages, version), version)
    BY DEF RetireReplaced
  <1>2. /\ FInv /\ FilesOK /\ SoundOK /\ AskedOK /\ Calling
    BY <1>1 DEF CInv, FInv, ContentsOK, Calling, AtRest
  <1>3. /\ pc' = "idle" /\ req' = NoReq /\ Return(reply')
        /\ reply' = IF tgt # NoAddr THEN "success" ELSE "no_space"
    BY <1>1 DEF Return
  <1>4. req.id \in Ids /\ req.file \in Files /\ req.file \in Seq(Vals)
    BY <1>2, RequestType, Folder
  <1>5. /\ \A a : Live(pages, a, req.id) => a \in {version, tgt}
        /\ \A i \in Ids : i # req.id => ~Live(pages, version, i)
        /\ tgt # NoAddr => Live(pages, tgt, req.id) /\ tgt # version
        /\ Retired(pages, pages', version)
    <2>1. CASE tgt # NoAddr
      <3>1. Swapping(req.id) BY <1>1, <2>1 DEF Swapping
      <3>2. /\ \A a : Live(pages, a, req.id) => a \in {old, tgt}
            /\ Live(pages, tgt, req.id)
            /\ old # NoAddr => Live(pages, old, req.id) /\ old # tgt
        BY <1>2, <1>4, <3>1 DEF FilesOK, VersionsOK
      <3>3. Retired(pages, pages', old)
        <4>1. old = NoAddr \/ IsRec(pages, old) BY <3>2 DEF Live
        <4> QED BY <1>1, <1>2, <2>1, <4>1, RetireAtView, Folder
      <3>4. \A i \in Ids : i # req.id => ~Live(pages, old, i)
        <4>1. old = NoAddr \/ At(pages, old).id = req.id BY <3>2 DEF Live
        <4>2. ~IsRec(pages, NoAddr) BY <1>2, AddrNotNone, Folder
        <4> QED BY <4>1, <4>2 DEF Live
      <3> QED BY <2>1, <3>2, <3>3, <3>4
    <2>2. CASE tgt = NoAddr
      <3>1. version = Search(pages, req.id, "ACTIVE") BY <2>2
      <3>2. /\ Marks(pages, 0) /\ Lined(pages) /\ Single(pages, req.id)
        BY <1>1, <1>2, <1>4, <2>2
           DEF FilesOK, FolderOK, Unmarked, GcPcs, VersionsOK, Swapping
      <3>3. /\ \A a : Live(pages, a, req.id) => a = version
            /\ version # NoAddr => Live(pages, version, req.id)
        BY <1>2, <3>1, <3>2, SearchOne, Folder
      <3>4. Retired(pages, pages', version)
        BY <1>1, <1>2, <2>2, <3>1, SweptRetiredView, Folder
      <3>5. \A i \in Ids : i # req.id => ~Live(pages, version, i)
        <4>1. version = NoAddr \/ At(pages, version).id = req.id BY <3>3 DEF Live
        <4>2. ~IsRec(pages, NoAddr) BY <1>2, AddrNotNone, Folder
        <4> QED BY <4>1, <4>2 DEF Live
      <3> QED BY <2>2, <3>3, <3>4, <3>5
    <2> QED BY <2>1, <2>2
  <1> HIDE DEF version
  <1>6. /\ \A b, i : Live(pages', b, i) <=> Live(pages, b, i) /\ b # version
        /\ \A b : IsRec(pages, b) /\ b # version => At(pages', b) = At(pages, b)
    BY <1>5 DEF Retired
  <1>7. \A b, i : Live(pages', b, i) => At(pages', b) = At(pages, b)
    BY <1>6 DEF Live
  <1>8. SoundOK' BY <1>1, <1>2, <1>3, <1>6, <1>7 DEF SoundOK, GcPcs
  <1>9. AskedOK' /\ TargetHolds' BY <1>3 DEF AskedOK, TargetHolds, Calling, AtRest
  <1>10. SentIsThere'
    <2>1. \A t \in xfer' : MoreParts BY <1>1, <1>2, <1>3, AdvanceHost
    <2> QED BY <1>1, <2>1 DEF SentIsThere, MoreParts
  <1>11. \A i, x : Holds(i, x)' <=> \E a : Live(pages', a, i) /\ x = At(pages', a).data
    <2>1. \A i : ~Replaces(i)' BY <1>3 DEF Replaces, Replacing
    <2> QED BY <1>3, <2>1 DEF Holds, GcPcs
  <1>12. ASSUME NEW i \in Ids, i # req.id, NEW x PROVE Holds(i, x)' <=> Holds(i, x)
    <2>1. ~Replaces(i) BY <1>12 DEF Replaces, Replacing
    <2>2. Holds(i, x) <=> \E a : Live(pages, a, i) /\ x = At(pages, a).data
      BY <1>1, <2>1 DEF Holds, GcPcs
    <2>3. \A a : Live(pages', a, i) <=> Live(pages, a, i) BY <1>5, <1>6, <1>12
    <2> QED BY <1>7, <1>11, <2>2, <2>3
  <1>13. CASE tgt # NoAddr
    <2>1. \A a : Live(pages', a, req.id) <=> a = tgt BY <1>5, <1>6, <1>13
    <2>2. At(pages', tgt).data = req.file
      <3>1. HoldsFile(At(pages, tgt), Len(req.file))
        BY <1>1, <1>13 DEF CInv, ContentsOK, TargetHolds
      <3>2. At(pages', tgt) = At(pages, tgt) BY <1>7, <2>1
      <3> QED BY <1>4, <3>1, <3>2, WrittenAll DEF HoldsFile
    <2>3. \A i \in Ids : i = req.id => \A x : Holds(i, x)' <=> x = req.file
      BY <1>11, <2>1, <2>2
    <2> QED BY <1>1, <1>3, <1>8, <1>9, <1>10, <1>12, <1>13, <2>3 DEF ContentsOK
  <1>14. CASE tgt = NoAddr
    <2>1. \A a : ~Live(pages', a, req.id)
      <3>1. ~IsRec(pages, NoAddr) BY <1>2, AddrNotNone, Folder
      <3> QED BY <1>5, <1>6, <1>14, <3>1 DEF Live
    <2>2. \A i \in Ids : i = req.id => \A x : ~Holds(i, x)' BY <1>11, <2>1
    <2> QED BY <1>1, <1>3, <1>8, <1>9, <1>10, <1>12, <1>14, <2>2 DEF ContentsOK
  <1> QED BY <1>13, <1>14

\* Between the OLD mark on the old version and the ACTIVE mark on the new one
\* neither is found; the caller has not been answered yet.
LEMMA RetireForPartsContents ==
  ASSUME CInv, RetireForParts
  PROVE  ContentsOK' /\ SameFiles
  <1> DEFINE version == Search(pages, req.id, "ACTIVE")
  <1>1. /\ pc = "retire" /\ req.op = "part" /\ pc' = "activate" /\ old' = version
        /\ pages' = RetireAt(Sweep(pages, version), version)
        /\ UNCHANGED <<gc, req, tgt, scan, xfer>>
    BY DEF RetireForParts
  <1>2. /\ FInv /\ FilesOK /\ SoundOK /\ AskedOK /\ Calling
    BY <1>1 DEF CInv, FInv, ContentsOK, Calling, AtRest
  <1>3. req.id \in Ids BY <1>2, RequestType, Folder
  <1>4. /\ \A a : Live(pages, a, req.id) => a = version
        /\ version # NoAddr => Live(pages, version, req.id)
    <2>1. /\ Marks(pages, 0) /\ Lined(pages) /\ Single(pages, req.id)
      BY <1>1, <1>2, <1>3 DEF FilesOK, FolderOK, Unmarked, GcPcs, VersionsOK, Swapping
    <2> QED BY <1>2, <2>1, SearchOne, Folder
  <1>5. Retired(pages, pages', version) BY <1>1, <1>2, SweptRetiredView, Folder
  <1>6. Partial(pages, tgt)
    BY <1>1, <1>2, Records, Folder DEF FInv, PInv, PartialOK, Partial
  <1>7. version # NoAddr =>
          /\ IsRec(pages', version)
          /\ At(pages', version).data = At(pages, version).data
          /\ At(pages', version).crc = At(pages, version).crc
    <2> SUFFICES ASSUME version # NoAddr
                 PROVE  /\ IsRec(pages', version)
                        /\ At(pages', version).data = At(pages, version).data
                        /\ At(pages', version).crc = At(pages, version).crc
      OBVIOUS
    <2> DEFINE swept == Sweep(pages, version)
    <2>1. IsFolder(swept) /\ \A p \in 1 .. NPages : swept[p].recs = pages[p].recs
      BY <1>2, SweepView, Folder
    <2>2. IsRec(pages, version) /\ "OLD" \in FileStatus BY <1>4 DEF Live, FileStatus
    <2>3. IsFolder(pages) BY <1>2, Folder
    <2> HIDE DEF swept, version
    <2>4. IsRec(swept, version) /\ At(swept, version) = At(pages, version)
      BY <2>1, <2>2, <2>3, SameRecords
    <2>5. pages' = SetStatus(swept, version, "OLD")
      BY <1>1 DEF RetireAt, swept
    <2>6. /\ IsRec(pages', version)
          /\ At(pages', version).data = At(swept, version).data
          /\ At(pages', version).crc = At(swept, version).crc
      BY <2>1, <2>2, <2>4, <2>5, StatusView
    <2> QED BY <2>4, <2>6
  <1> HIDE DEF version
  <1>8. /\ \A b, i : Live(pages', b, i) <=> Live(pages, b, i) /\ b # version
        /\ \A b : IsRec(pages, b) /\ b # version => At(pages', b) = At(pages, b)
    BY <1>5 DEF Retired
  <1>9. \A b, i : Live(pages', b, i) => At(pages', b) = At(pages, b)
    BY <1>8 DEF Live
  <1>10. version # NoAddr => Sound(At(pages, version))
    BY <1>1, <1>2, <1>3, <1>4 DEF SoundOK
  <1>11. SoundOK'
    BY <1>1, <1>2, <1>7, <1>8, <1>9, <1>10 DEF SoundOK, Sound, GcPcs
  <1>12. AskedOK'
    <2>1. MoreParts' = MoreParts BY <1>1 DEF MoreParts, Remaining
    <2> QED BY <1>1, <1>2, <2>1 DEF AskedOK, Calling, AtRest
  <1>13. TargetHolds'
    <2>1. tgt # version
      <3>1. tgt # NoAddr BY <1>2, <1>6, AddrNotNone, Folder DEF Partial
      <3> QED BY <1>4, <1>6, <3>1 DEF Partial, Live
    <2>2. At(pages', tgt) = At(pages, tgt) BY <1>6, <1>8, <2>1 DEF Partial
    <2> QED BY <1>1, <2>2 DEF CInv, ContentsOK, TargetHolds, HoldsFile, Whole
  <1>14. SameFiles
    <2> SUFFICES ASSUME NEW id \in Ids, NEW x PROVE Holds(id, x)' <=> Holds(id, x)
      BY DEF SameFiles
    <2>1. Holds(id, x) <=> \E a : Live(pages, a, id) /\ x = At(pages, a).data
      BY <1>1 DEF Holds, Replaces, Replacing, GcPcs
    <2>2. CASE id = req.id
      <3>1. Replaces(id)' BY <1>1, <1>2, <2>2 DEF Replaces, Replacing, AskedOK
      <3>2. Holds(id, x)' <=> version # NoAddr /\ x = At(pages', version).data
        BY <1>1, <3>1 DEF Holds, GcPcs
      <3>3. \A a : Live(pages, a, id) => a # NoAddr BY <1>2, AddrNotNone, Folder DEF Live
      <3> QED BY <1>4, <1>7, <2>1, <2>2, <3>2, <3>3
    <2>3. CASE id # req.id
      <3>1. ~Replaces(id)' BY <1>1, <2>3 DEF Replaces, Replacing
      <3>2. Holds(id, x)' <=> \E a : Live(pages', a, id) /\ x = At(pages', a).data
        BY <1>1, <3>1 DEF Holds, GcPcs
      <3>3. ~Live(pages, version, id)
        <4>1. version = NoAddr \/ At(pages, version).id = req.id BY <1>4 DEF Live
        <4>2. ~IsRec(pages, NoAddr) BY <1>2, AddrNotNone, Folder
        <4> QED BY <2>3, <4>1, <4>2 DEF Live
      <3>4. \A a : Live(pages', a, id) <=> Live(pages, a, id) BY <1>8, <3>3
      <3> QED BY <1>9, <2>1, <3>2, <3>4
    <2> QED BY <2>2, <2>3
  <1> QED BY <1>1, <1>11, <1>12, <1>13, <1>14 DEF ContentsOK, SentIsThere, Calling, AtRest

\* After the last part the file holds all that was sent.
LEMMA ActivateContents ==
  ASSUME CInv, Activate
  PROVE  /\ ContentsOK' /\ req.op = "part" /\ ~MoreParts /\ req' = NoReq
         /\ reply' \in {"success", "not_found"}
         /\ \A i \in Ids : i # req.id => \A x : Holds(i, x)' <=> Holds(i, x)
         /\ \A i \in Ids : i = req.id => \A x : Holds(i, x)' <=> x = req.file
  <1>1. /\ pc = "activate" /\ pages' = SetStatus(pages, tgt, "ACTIVE") /\ gc' = gc
        /\ Return(IF old = NoAddr THEN "not_found" ELSE "success") /\ Advance(FALSE)
    BY DEF Activate
  <1>2. /\ FInv /\ FilesOK /\ SoundOK /\ AskedOK /\ Calling
    BY <1>1 DEF CInv, FInv, ContentsOK, Calling, AtRest
  <1>3. /\ pc' = "idle" /\ req' = NoReq /\ Return(reply') /\ reply' \in {"success", "not_found"}
    BY <1>1 DEF Return
  <1>4. req.id \in Ids /\ req.file \in Files /\ req.file \in Seq(Vals)
    BY <1>2, RequestType, Folder
  <1>5. /\ Partial(pages, tgt) /\ IsRec(pages, tgt) /\ "ACTIVE" \in FileStatus
    BY <1>1, <1>2, Records, Folder DEF FInv, PInv, PartialOK, Partial, FileStatus
  <1>6. /\ req.op = "part" /\ At(pages, tgt).id = req.id /\ \A a : ~Live(pages, a, req.id)
    BY <1>1, <1>2 DEF FilesOK, PartsOK, VersionsOK
  <1>7. /\ \A b : IsRec(pages', b) <=> IsRec(pages, b)
        /\ \A b : IsRec(pages, b) /\ b # tgt => At(pages', b) = At(pages, b)
        /\ At(pages', tgt).st = "ACTIVE" /\ At(pages', tgt).id = At(pages, tgt).id
        /\ At(pages', tgt).data = At(pages, tgt).data /\ At(pages', tgt).crc = At(pages, tgt).crc
    <2>1. LET g == SetStatus(pages, tgt, "ACTIVE")
          IN  /\ \A b : IsRec(g, b) <=> IsRec(pages, b)
              /\ \A b : IsRec(pages, b) =>
                   At(g, b) = IF b = tgt THEN [At(pages, b) EXCEPT !.st = "ACTIVE"] ELSE At(pages, b)
              /\ At(g, tgt).st = "ACTIVE" /\ At(g, tgt).id = At(pages, tgt).id
              /\ At(g, tgt).data = At(pages, tgt).data /\ At(g, tgt).crc = At(pages, tgt).crc
      BY <1>2, <1>5, StatusView, Folder
    <2> QED BY <1>1, <2>1
  <1>8. \A b, i : Live(pages', b, i) <=> Live(pages, b, i) \/ (b = tgt /\ i = req.id)
    <2>1. At(pages, tgt).st = "PARTIAL" BY <1>5 DEF Partial
    <2> QED BY <1>5, <1>6, <1>7, <2>1 DEF Live
  <1>9. \A b, i : Live(pages, b, i) => b # tgt /\ At(pages', b) = At(pages, b)
    <2>1. At(pages, tgt).st = "PARTIAL" BY <1>5 DEF Partial
    <2> QED BY <1>7, <2>1 DEF Live
  <1>10. tgt # NoAddr BY <1>2, <1>5, AddrNotNone, Folder
  <1>11. At(pages', tgt).data = req.file /\ At(pages', tgt).crc = <<>>
    <2>1. HoldsFile(At(pages, tgt), Len(req.file))
      BY <1>1, <1>10 DEF CInv, ContentsOK, TargetHolds
    <2> QED BY <1>4, <1>6, <1>7, <2>1, WrittenAll DEF HoldsFile, Whole
  <1>12. SoundOK' BY <1>1, <1>2, <1>3, <1>4, <1>8, <1>9, <1>11 DEF SoundOK, Sound, GcPcs
  <1>13. ~MoreParts BY <1>1, <1>2 DEF AskedOK
  <1>14. AskedOK' /\ TargetHolds' BY <1>3 DEF AskedOK, TargetHolds, Calling, AtRest
  <1>15. SentIsThere'
    <2>1. \A t \in xfer' : MoreParts BY <1>1, <1>2, <1>3, AdvanceHost
    <2> QED BY <1>13, <2>1 DEF SentIsThere
  <1>16. \A i, x : Holds(i, x)' <=> \E a : Live(pages', a, i) /\ x = At(pages', a).data
    <2>1. \A i : ~Replaces(i)' BY <1>3 DEF Replaces, Replacing
    <2> QED BY <1>3, <2>1 DEF Holds, GcPcs
  <1>17. ASSUME NEW i \in Ids, i # req.id, NEW x PROVE Holds(i, x)' <=> Holds(i, x)
    <2>1. ~Replaces(i) BY <1>17 DEF Replaces, Replacing
    <2>2. Holds(i, x) <=> \E a : Live(pages, a, i) /\ x = At(pages, a).data
      BY <1>1, <2>1 DEF Holds, GcPcs
    <2>3. \A a : Live(pages', a, i) <=> Live(pages, a, i) BY <1>8, <1>17
    <2> QED BY <1>9, <1>16, <2>2, <2>3
  <1>18. \A i \in Ids : i = req.id => \A x : Holds(i, x)' <=> x = req.file
    BY <1>6, <1>8, <1>11, <1>16
  <1> QED BY <1>3, <1>6, <1>12, <1>13, <1>14, <1>15, <1>17, <1>18 DEF ContentsOK

-----------------------------------------------------------------------------
(***************************************************************************)
(* The collection.                                                         *)
(***************************************************************************)
\* A file may change its place in a collection, not its data.
LEMMA CollectContents ==
  ASSUME CInv, pc \in GcPcs, pc' \in GcPcs, UNCHANGED req,
         \A id \in Ids : \A x :
            (\/ \E a : Live(pages', a, id) /\ x = At(pages', a).data
             \/ \E a : Kept(a, id)' /\ x = At(gc', a).data)
            <=>
            (\/ \E a : Live(pages, a, id) /\ x = At(pages, a).data
             \/ \E a : Kept(a, id) /\ x = At(gc, a).data),
         \A id \in Ids : \A a : Live(pages', a, id) => Sound(At(pages', a)),
         \A id \in Ids : \A a : Kept(a, id)' => Sound(At(gc', a))
  PROVE  ContentsOK' /\ SameFiles
  <1>1. SoundOK' BY DEF SoundOK, GcPcs
  <1>2. AskedOK' BY DEF CInv, ContentsOK, AskedOK, Calling, AtRest, GcPcs
  <1>3. SameFiles BY DEF SameFiles, Holds
  <1> QED BY <1>1, <1>2, <1>3 DEF ContentsOK, TargetHolds, SentIsThere, Calling, AtRest, GcPcs

LEMMA CollectedSound ==
  ASSUME CInv, pc \in GcPcs
  PROVE  /\ \A id \in Ids : \A a : Live(pages, a, id) => Sound(At(pages, a))
         /\ \A id \in Ids : \A a : Kept(a, id) => Sound(At(gc, a))
  BY DEF CInv, ContentsOK, SoundOK, GcPcs

\* A page without a file in use is erased, the GC area stays as it is.
LEMMA ErasedContents ==
  ASSUME CInv, pc \in GcPcs, NEW p \in 1 .. NPages, ~HasActive(pages[p]),
         pages' = [pages EXCEPT ![p] = BlankPage],
         scan'.g = scan.g, scan'.open = scan.open, scan'.bg = scan.bg,
         UNCHANGED <<gc, pc, req>>
  PROVE  ContentsOK' /\ SameFiles
  <1>1. FInv BY DEF CInv
  <1>2. /\ \A a, id : Live(pages', a, id) <=> Live(pages, a, id)
        /\ \A a : Live(pages', a, At(pages', a).id) => At(pages', a) = At(pages, a)
    BY <1>1, EraseView
  <1>3. \A a, id : Live(pages', a, id) => At(pages', a) = At(pages, a) BY <1>2 DEF Live
  <1>4. \A a, id : Kept(a, id)' <=> Kept(a, id) BY DEF Kept, InArea
  <1> QED BY <1>2, <1>3, <1>4, CollectedSound, CollectContents

LEMMA ScanFields ==
  ASSUME FInv, pc \in GcPcs
  PROVE  scan \in Scan /\ DOMAIN scan = {"p", "i", "g", "open", "stop", "bd", "bg"}
  <1>1. scan \in Scan BY GcFacts
  <1> QED BY <1>1 DEF Scan

LEMMA GcObsoleteContents ==
  ASSUME CInv, GcObsolete
  PROVE  ContentsOK' /\ SameFiles
  <1>1. /\ Collecting /\ pages[scan.p].st = "OBSOLETE" /\ FInv
        /\ pages' = [pages EXCEPT ![scan.p] = BlankPage] /\ scan' = NextPage
        /\ UNCHANGED <<gc, pc, req>>
    BY DEF GcObsolete, CInv
  <1>2. pc \in GcPcs /\ scan.p \in 1 .. NPages /\ scan \in Scan
    BY <1>1, Folder, CollectingFacts DEF GcPcs, Collecting
  <1>3. ~HasActive(pages[scan.p]) BY <1>1, <1>2, GcFacts DEF Marks
  <1>4. scan'.g = scan.g /\ scan'.open = scan.open /\ scan'.bg = scan.bg
    BY <1>1, <1>2, SetNextPage DEF SameButIn, NextPage
  <1> QED BY <1>1, <1>2, <1>3, <1>4, ErasedContents

LEMMA GcEraseContents ==
  ASSUME CInv, GcErase
  PROVE  ContentsOK' /\ SameFiles
  <1>1. /\ Collecting /\ NoneLeft /\ FInv
        /\ pages' = [pages EXCEPT ![scan.p] = BlankPage]
        /\ scan' = [NextPage EXCEPT !.stop = ~pages[scan.p].end]
        /\ UNCHANGED <<gc, pc, req>>
    BY DEF GcErase, LooksIntoPage, CInv
  <1>2. /\ pc = "gc" /\ pc \in GcPcs /\ scan.p \in 1 .. NPages /\ scan \in Scan
        /\ scan.i \in Nat /\ pages[scan.p].recs \in Seq(Record)
    BY <1>1, Folder, CollectingFacts DEF GcPcs
  <1>3. PICK k \in 0 .. NPages : Collects(k) BY <1>1, <1>2, GcFacts DEF FilesOK, CollectOK
  <1>4. \A i \in DOMAIN pages[scan.p].recs : i < scan.i => pages[scan.p].recs[i].st = "OLD"
    BY <1>2, <1>3 DEF Collects, Refilled
  <1>5. ~HasActive(pages[scan.p])
    <2> SUFFICES ASSUME NEW i \in DOMAIN pages[scan.p].recs PROVE pages[scan.p].recs[i].st = "OLD"
      BY DEF HasActive
    <2>1. i \in Nat BY <1>2
    <2>2. i < scan.i \/ i >= scan.i BY <1>2, <2>1
    <2> QED BY <1>1, <1>4, <2>2 DEF NoneLeft
  <1>6. scan'.g = scan.g /\ scan'.open = scan.open /\ scan'.bg = scan.bg
    <2> DEFINE next == NextPage
    <2>1. next \in Scan /\ next.g = scan.g /\ next.open = scan.open /\ next.bg = scan.bg
      BY <1>2, SetNextPage DEF SameButIn, NextPage
    <2>2. scan' = [next EXCEPT !.stop = ~pages[scan.p].end] BY <1>1
    <2> HIDE DEF next
    <2> QED BY <2>1, <2>2 DEF Scan
  <1> QED BY <1>1, <1>2, <1>5, <1>6, ErasedContents

LEMMA GcMoveContents ==
  ASSUME CInv, GcMove
  PROVE  ContentsOK' /\ SameFiles
  <1>1. PICK i \in 1 .. PageLen :
          /\ Meets(i)
          /\ gc' = [gc EXCEPT ![scan.g] = MovedTo(gc[scan.g], scan.open, pages[scan.p].recs[i])]
          /\ pages' = SetStatus(pages, <<scan.p, i>>, "OLD")
          /\ scan' = [scan EXCEPT !.i = i + 1, !.open = TRUE]
    BY DEF GcMove, MovedTo
  <1>2. /\ Collecting /\ pc = "gc" /\ pc' = "gc" /\ pc \in GcPcs /\ pc' \in GcPcs
        /\ FInv /\ UNCHANGED req
    BY DEF GcMove, LooksIntoPage, Collecting, GcPcs, CInv
  <1>3. scan'.g = scan.g /\ scan'.open = TRUE BY <1>1, <1>2, GcFacts DEF Scan
  <1> DEFINE m == IF scan.open THEN Len(gc[scan.g].recs) ELSE 0
             n == <<scan.g, m + 1>>
             c == <<scan.p, i>>
             r == pages[scan.p].recs[i]
  <1>4. /\ \A a, id : Live(pages', a, id) <=> Live(pages, a, id) /\ a # c
        /\ \A a, id : Kept(a, id)' <=> Kept(a, id) \/ (a = n /\ id = r.id)
        /\ \A a, id : Kept(a, id) => a # n /\ At(gc', a) = At(gc, a)
        /\ Live(pages, c, r.id) /\ At(pages, c) = r /\ r.id \in Ids
        /\ At(gc', n).data = r.data /\ At(gc', n).crc = r.crc
        /\ \A a : IsRec(pages, a) /\ a # c => At(pages', a) = At(pages, a)
    BY <1>1, <1>2, <1>3, MoveView
  <1> HIDE DEF n, c, r, m
  <1>5. /\ \A id \in Ids : \A a : Live(pages, a, id) => Sound(At(pages, a))
        /\ \A id \in Ids : \A a : Kept(a, id) => Sound(At(gc, a))
    BY <1>2, CollectedSound
  <1>6. \A a, id : Live(pages', a, id) => Live(pages, a, id) /\ At(pages', a) = At(pages, a)
    BY <1>4 DEF Live
  <1>7. \A id \in Ids : \A a : Live(pages', a, id) => Sound(At(pages', a)) BY <1>5, <1>6
  <1>8. Sound(At(gc', n))
    <2>1. Sound(r) BY <1>4, <1>5
    <2> QED BY <1>4, <2>1 DEF Sound
  <1>9. \A id \in Ids : \A a : Kept(a, id)' => Sound(At(gc', a)) BY <1>4, <1>5, <1>8
  <1>10. ASSUME NEW id \in Ids, NEW x
         PROVE  (\/ \E a : Live(pages', a, id) /\ x = At(pages', a).data
                 \/ \E a : Kept(a, id)' /\ x = At(gc', a).data)
                <=>
                (\/ \E a : Live(pages, a, id) /\ x = At(pages, a).data
                 \/ \E a : Kept(a, id) /\ x = At(gc, a).data)
    <2>1. ASSUME NEW a, Live(pages', a, id), x = At(pages', a).data
          PROVE  \E b : Live(pages, b, id) /\ x = At(pages, b).data
      BY <1>6, <2>1
    <2>2. ASSUME NEW a, Kept(a, id)', x = At(gc', a).data
          PROVE  \/ \E b : Live(pages, b, id) /\ x = At(pages, b).data
                 \/ \E b : Kept(b, id) /\ x = At(gc, b).data
      <3>1. CASE a = n /\ id = r.id BY <1>4, <2>2, <3>1
      <3>2. CASE ~(a = n /\ id = r.id) BY <1>4, <2>2, <3>2
      <3> QED BY <3>1, <3>2
    <2>3. ASSUME NEW a, Live(pages, a, id), x = At(pages, a).data
          PROVE  \/ \E b : Live(pages', b, id) /\ x = At(pages', b).data
                 \/ \E b : Kept(b, id)' /\ x = At(gc', b).data
      <3>1. CASE a = c
        <4>1. id = r.id BY <1>4, <2>3, <3>1 DEF Live
        <4> QED BY <1>4, <2>3, <3>1, <4>1
      <3>2. CASE a # c
        <4>1. Live(pages', a, id) BY <1>4, <2>3, <3>2
        <4> QED BY <1>6, <2>3, <4>1
      <3> QED BY <3>1, <3>2
    <2>4. ASSUME NEW a, Kept(a, id), x = At(gc, a).data
          PROVE  \E b : Kept(b, id)' /\ x = At(gc', b).data
      BY <1>4, <2>4
    <2> QED BY <2>1, <2>2, <2>3, <2>4
  <1> QED BY <1>2, <1>7, <1>9, <1>10, CollectContents

LEMMA GcNextPageContents ==
  ASSUME CInv, GcNextPage
  PROVE  ContentsOK' /\ SameFiles
  <1>1. /\ FInv /\ Collecting /\ pc = "gc" /\ pc' = "gc" /\ pc \in GcPcs /\ pc' \in GcPcs
        /\ gc' = [gc EXCEPT ![scan.g].end = TRUE, ![scan.g].st = "OLD"]
        /\ UNCHANGED <<pages, req>>
    BY DEF CInv, GcNextPage, LooksIntoPage, Collecting, GcPcs
  <1>2. PICK i \in 1 .. PageLen :
          /\ Meets(i) /\ ~GcRoom(gc[scan.g], scan.open, pages[scan.p].recs[i])
          /\ scan' = [scan EXCEPT !.i = i, !.g = @ + 1, !.open = FALSE]
    BY DEF GcNextPage
  <1>3. /\ scan \in Scan /\ scan.g \in Nat /\ DOMAIN gc = 1 .. GPages
        /\ \A h \in 1 .. GPages : gc[h] \in Page
    BY <1>1, GcFacts
  <1>4. scan'.g = scan.g + 1 /\ scan'.open = FALSE BY <1>2, <1>3 DEF Scan
  <1>5. scan.open
    <2>1. PICK k \in 0 .. NPages : Collects(k) BY <1>1, GcFacts DEF FilesOK, CollectOK
    <2> QED BY <1>1, <1>2, <2>1, Overflows
  <1>6. DOMAIN gc' = DOMAIN gc /\ \A h \in 1 .. GPages : gc'[h].recs = gc[h].recs
    BY <1>1, <1>3 DEF Page
  <1>7. \A a, id : Live(gc', a, id) <=> Live(gc, a, id)
    BY <1>3, <1>6 DEF Live, IsRec, At
  <1>8. \A a, id : Live(gc, a, id) => At(gc', a) = At(gc, a)
    BY <1>3, <1>6 DEF Live, IsRec, At
  <1>9. \A a, id : Kept(a, id)' <=> Kept(a, id)
    <2> SUFFICES ASSUME NEW a, NEW id, Live(gc, a, id) PROVE InArea(a)' <=> InArea(a)
      BY <1>7 DEF Kept
    <2>1. a[1] \in Nat BY DEF Live, IsRec, Addr
    <2>2. a[1] < scan.g + 1 <=> a[1] < scan.g \/ a[1] = scan.g BY <1>3, <2>1
    <2> QED BY <1>1, <1>4, <1>5, <2>2 DEF InArea
  <1>10. \A a, id : Kept(a, id) => At(gc', a) = At(gc, a) BY <1>8 DEF Kept
  <1> QED BY <1>1, <1>9, <1>10, CollectedSound, CollectContents

LEMMA GcCopyBackContents ==
  ASSUME CInv, GcCopyBack
  PROVE  ContentsOK' /\ SameFiles
  <1>1. /\ FInv /\ pc = "gc" /\ pc' = "back" /\ pc \in GcPcs /\ pc' \in GcPcs
        /\ scan' = [scan EXCEPT !.bd = 1, !.bg = 1]
        /\ UNCHANGED <<pages, gc, req>>
    BY DEF CInv, GcCopyBack, GcPcs
  <1>2. scan \in Scan /\ DOMAIN gc = 1 .. GPages /\ GPages \in Nat BY <1>1, GcFacts
  <1>3. scan'.g = scan.g /\ scan'.open = scan.open /\ scan'.bg = 1
    BY <1>1, <1>2, SetCopyStart DEF SameButIn
  <1>4. \A a, id : Kept(a, id)' <=> Kept(a, id)
    <2> SUFFICES ASSUME NEW a, NEW id, Live(gc, a, id) PROVE InArea(a)' <=> InArea(a)
      BY <1>1 DEF Kept
    <2>1. a[1] >= 1 BY <1>2 DEF Live, IsRec
    <2> QED BY <1>1, <1>3, <2>1 DEF InArea
  <1> QED BY <1>1, <1>4, CollectedSound, CollectContents

LEMMA BackCopyContents ==
  ASSUME CInv, BackCopy, pc' # "stray"
  PROVE  ContentsOK' /\ SameFiles
  <1>1. PICK d \in 1 .. NPages :
          /\ GoesTo(d)
          /\ pages' = IF Copies THEN [pages EXCEPT ![d] = gc[scan.bg]] ELSE pages
          /\ scan' = [scan EXCEPT !.bd = d + 1, !.bg = @ + 1]
    BY DEF BackCopy, CopiedTo
  <1>2. /\ FInv /\ pc = "back" /\ pc' = "back" /\ pc \in GcPcs /\ pc' \in GcPcs
        /\ UNCHANGED <<gc, req>>
    BY DEF CInv, BackCopy, GcPcs
  <1>3. /\ scan \in Scan /\ scan.g \in Nat /\ scan.bg \in Nat /\ scan.open \in BOOLEAN
        /\ DOMAIN gc = 1 .. GPages
    BY <1>2, GcFacts
  <1>4. scan'.g = scan.g /\ scan'.open = scan.open /\ scan'.bg = scan.bg + 1
    BY <1>1, <1>3 DEF Scan
  <1>5. PICK k \in 0 .. NPages : CopiesBack(k) BY <1>2, GcFacts DEF FilesOK, CollectOK
  <1>6. /\ \A id \in Ids : \A a : Live(pages, a, id) => Sound(At(pages, a))
        /\ \A id \in Ids : \A a : Kept(a, id) => Sound(At(gc, a))
    BY <1>2, CollectedSound
  <1>7. CASE scan.bg < Behind
    <2>1. Copies BY <1>2, <1>5, <1>7, NextCopy
    <2>2. pages' = [pages EXCEPT ![d] = gc[scan.bg]] BY <1>1, <2>1
    <2>3. /\ \A a, id : Live(pages', a, id) <=>
                Live(pages, a, id) \/ (a[1] = d /\ Kept(<<scan.bg, a[2]>>, id) /\ a \in Addr)
          /\ \A a, id : Kept(a, id)' <=> Kept(a, id) /\ a[1] # scan.bg
          /\ \A a, id : Live(pages, a, id) => a[1] # d /\ At(pages', a) = At(pages, a)
          /\ \A a : a[1] = d => At(pages', a) = At(gc, <<scan.bg, a[2]>>)
      BY <1>1, <1>2, <1>4, <1>5, <1>7, <2>2, CopyView
    <2>4. \A id \in Ids : \A a : Live(pages', a, id) => Sound(At(pages', a))
      <3> SUFFICES ASSUME NEW id \in Ids, NEW a, Live(pages', a, id)
                   PROVE  Sound(At(pages', a))
        OBVIOUS
      <3>1. CASE Live(pages, a, id)
        <4>1. Sound(At(pages, a)) BY <1>6, <3>1
        <4> QED BY <2>3, <3>1, <4>1
      <3>2. CASE a[1] = d /\ Kept(<<scan.bg, a[2]>>, id)
        <4>1. Sound(At(gc, <<scan.bg, a[2]>>)) BY <1>6, <3>2
        <4>2. At(pages', a) = At(gc, <<scan.bg, a[2]>>) BY <2>3, <3>2
        <4> QED BY <4>1, <4>2
      <3> QED BY <2>3, <3>1, <3>2
    <2>5. \A id \in Ids : \A a : Kept(a, id)' => Sound(At(gc', a)) BY <1>2, <1>6, <2>3
    <2>6. ASSUME NEW id \in Ids, NEW x
          PROVE  (\/ \E a : Live(pages', a, id) /\ x = At(pages', a).data
                  \/ \E a : Kept(a, id)' /\ x = At(gc', a).data)
                 <=>
                 (\/ \E a : Live(pages, a, id) /\ x = At(pages, a).data
                  \/ \E a : Kept(a, id) /\ x = At(gc, a).data)
      <3>1. ASSUME NEW a, Live(pages', a, id), x = At(pages', a).data
            PROVE  \/ \E b : Live(pages, b, id) /\ x = At(pages, b).data
                   \/ \E b : Kept(b, id) /\ x = At(gc, b).data
        <4>1. CASE Live(pages, a, id) BY <2>3, <3>1, <4>1
        <4>2. CASE a[1] = d /\ Kept(<<scan.bg, a[2]>>, id) BY <2>3, <3>1, <4>2
        <4> QED BY <2>3, <3>1, <4>1, <4>2
      <3>2. ASSUME NEW a, Live(pages, a, id), x = At(pages, a).data
            PROVE  \E b : Live(pages', b, id) /\ x = At(pages', b).data
        BY <2>3, <3>2
      <3>3. ASSUME NEW a, Kept(a, id), x = At(gc, a).data
            PROVE  \/ \E b : Live(pages', b, id) /\ x = At(pages', b).data
                   \/ \E b : Kept(b, id)' /\ x = At(gc', b).data
        <4>1. CASE a[1] # scan.bg BY <1>2, <2>3, <3>3, <4>1
        <4>2. CASE a[1] = scan.bg
          <5> DEFINE b == <<d, a[2]>>
          <5>1. a = <<scan.bg, a[2]>> /\ a[2] \in Nat /\ d \in Nat
            BY <3>3, <4>2 DEF Kept, Live, IsRec, Addr
          <5>2. b[1] = d /\ b[2] = a[2] /\ b \in Addr BY <5>1 DEF Addr
          <5> HIDE DEF b
          <5>3. Live(pages', b, id) /\ At(pages', b) = At(gc, a)
            BY <2>3, <3>3, <5>1, <5>2
          <5> QED BY <3>3, <5>3
        <4> QED BY <4>1, <4>2
      <3>4. ASSUME NEW a, Kept(a, id)', x = At(gc', a).data
            PROVE  \E b : Kept(b, id) /\ x = At(gc, b).data
        BY <1>2, <2>3, <3>4
      <3> QED BY <3>1, <3>2, <3>3, <3>4
    <2> QED BY <1>2, <2>4, <2>5, <2>6, CollectContents
  <1>8. CASE ~(scan.bg < Behind)
    <2>1. ~Copies
      <3> SUFFICES ASSUME Copies PROVE FALSE OBVIOUS
      <3>1. ~(scan.bg > scan.g) /\ ~(scan.bg = scan.g /\ ~scan.open)
        BY DEF Copies, Beyond, Unopened
      <3> QED BY <1>3, <1>8, <3>1 DEF Behind
    <2>2. pages' = pages BY <1>1, <2>1
    <2>3. \A a, id : Kept(a, id)' <=> Kept(a, id)
      <3> SUFFICES ASSUME NEW a, NEW id, Live(gc, a, id) PROVE InArea(a)' <=> InArea(a)
        BY <1>2 DEF Kept
      <3>1. a[1] \in Nat BY DEF Live, IsRec, Addr
      <3>2. ~(a[1] >= scan.bg /\ (a[1] < scan.g \/ (a[1] = scan.g /\ scan.open)))
        BY <1>3, <1>8, <3>1 DEF Behind
      <3>3. a[1] >= scan.bg + 1 => a[1] >= scan.bg BY <1>3, <3>1
      <3> QED BY <1>2, <1>4, <3>2, <3>3 DEF InArea
    <2> QED BY <1>2, <1>6, <2>2, <2>3, CollectContents
  <1> QED BY <1>7, <1>8

\* Once all is copied back no file is in the GC area.
LEMMA CopiedBackFiles ==
  ASSUME CInv, CopiedBack
  PROVE  /\ pc \in GcPcs /\ SoundOK /\ AskedOK /\ Calling
         /\ \A id : ~Replaces(id)
         /\ \A id, x : Holds(id, x) <=> \E a : Live(pages, a, id) /\ x = At(pages, a).data
         /\ \A id \in Ids : \A a : Live(pages, a, id) => Sound(At(pages, a))
  <1>1. pc = "back" /\ pc \in GcPcs /\ FInv BY DEF CopiedBack, GcPcs, CInv
  <1>2. PICK k \in 0 .. NPages : CopiesBack(k) BY <1>1, GcFacts DEF FilesOK, CollectOK
  <1>3. \A a, id : ~Kept(a, id) BY <1>1, <1>2, BackDone
  <1>4. \A id : ~Replaces(id) BY <1>1 DEF Replaces, Replacing
  <1>5. \A id, x : Holds(id, x) <=> \E a : Live(pages, a, id) /\ x = At(pages, a).data
    BY <1>1, <1>3 DEF Holds
  <1> QED BY <1>1, <1>4, <1>5, CollectedSound DEF CInv, ContentsOK, Calling, AtRest

LEMMA GcResumeContents ==
  ASSUME CInv, GcResume
  PROVE  ContentsOK' /\ SameFiles
  <1>1. /\ pc = "back" /\ pc' = "gc" /\ CopiedBack /\ gc' = Spent
        /\ scan' = [NoScan EXCEPT !.p = scan.p, !.i = scan.i]
        /\ UNCHANGED <<pages, req>>
    BY DEF GcResume, CopiedBack
  <1>2. pc \in GcPcs /\ pc' \in GcPcs /\ FInv BY <1>1 DEF GcPcs, CInv
  <1>3. \A a, id : ~Kept(a, id)'
    <2>1. scan'.g = 1 /\ ~scan'.open BY <1>1 DEF NoScan
    <2>2. DOMAIN gc' \subseteq Nat \ {0} BY <1>1, SizesAssumption DEF Spent
    <2> QED BY <2>1, <2>2, NoneKept
  <1>4. \A a, id : ~Kept(a, id)
    <2>1. PICK k \in 0 .. NPages : CopiesBack(k) BY <1>1, <1>2, GcFacts DEF FilesOK, CollectOK
    <2> QED BY <1>1, <1>2, <2>1, BackDone
  <1>5. \A id \in Ids : \A a : Live(pages, a, id) => Sound(At(pages, a))
    BY <1>1, CopiedBackFiles
  <1> QED BY <1>1, <1>2, <1>3, <1>4, <1>5, CollectContents

\* After a part that is refused the host begins again, with what is left.
LEMMA RefusedPart ==
  ASSUME FInv, pc = "back", Advance(TRUE)
  PROVE  \A t \in xfer' : t.sent = 0
  <1>1. HostOK /\ Calling BY DEF FInv, FilesOK, Calling, AtRest
  <1>2. req.op \in {"write", "part"} BY <1>1, RequestType, Folder
  <1>3. {t \in xfer : t.id # req.id} = {} BY <1>1, <1>2 DEF HostOK
  <1> QED BY <1>3 DEF Advance

LEMMA GcDoneContents ==
  ASSUME CInv, GcDone
  PROVE  /\ ContentsOK' /\ SameFiles
         /\ \/ UNCHANGED <<req, reply>>
            \/ req.op = "part" /\ req' = NoReq /\ reply' = "no_space"
  <1>1. /\ CopiedBack /\ pc = "back" /\ pages' = Sweep(pages, NoAddr)
    BY DEF GcDone, CopiedBack
  <1>2. FInv /\ tgt = NoAddr BY FolderCollected DEF CInv
  <1>3. /\ pc \in GcPcs /\ SoundOK /\ AskedOK /\ Calling
        /\ \A id, x : Holds(id, x) <=> \E a : Live(pages, a, id) /\ x = At(pages, a).data
        /\ \A id \in Ids : \A a : Live(pages, a, id) => Sound(At(pages, a))
    BY <1>1, CopiedBackFiles
  <1>4. SameRecs BY <1>1, <1>2, SweptRecs
  <1>5. /\ \A a, id : Live(pages', a, id) <=> Live(pages, a, id)
        /\ \A a, id : Live(pages, a, id) => At(pages', a) = At(pages, a)
    BY <1>4 DEF SameRecs, Live
  <1>6. req.op \in {"write", "part"} BY <1>2, <1>3, RequestType, Folder
  <1>7. \/ pc' = "find" /\ UNCHANGED <<req, tgt, xfer, reply>>
        \/ pc' = "retire" /\ req.op = "write" /\ UNCHANGED <<req, tgt, xfer, reply>>
        \/ pc' = "idle" /\ req.op = "part" /\ req' = NoReq /\ reply' = "no_space" /\ Advance(TRUE)
    BY <1>6 DEF GcDone, Return
  <1>8. SoundOK' BY <1>3, <1>5, <1>7 DEF SoundOK, GcPcs
  <1>9. SameFiles
    <2>1. \A id : ~Replaces(id)'
      <3>1. pc' = "retire" => tgt' = NoAddr BY <1>2, <1>7
      <3>2. pc' # "data" /\ pc' # "activate" BY <1>7
      <3> QED BY <3>1, <3>2 DEF Replaces, Replacing
    <2>2. \A id, x : Holds(id, x)' <=> \E a : Live(pages', a, id) /\ x = At(pages', a).data
      BY <1>7, <2>1 DEF Holds, GcPcs
    <2> QED BY <1>3, <1>5, <2>2 DEF SameFiles
  <1>10. AskedOK'
    <2>1. req # NoReq /\ req.sent = 0 /\ (req.op = "write" => req.n = Len(req.file))
      BY <1>1, <1>3 DEF AskedOK
    <2>2. CASE pc' = "idle" BY <1>7, <2>2 DEF AskedOK, Calling, AtRest
    <2>3. CASE pc' = "find" BY <1>7, <2>1, <2>3 DEF AskedOK, Calling, AtRest
    <2>4. CASE pc' = "retire"
      <3>1. ~MoreParts' BY <1>7, <2>4 DEF MoreParts
      <3> QED BY <1>7, <2>1, <2>4, <3>1 DEF AskedOK, Calling, AtRest
    <2> QED BY <1>7, <2>2, <2>3, <2>4
  <1>11. TargetHolds' BY <1>2, <1>7 DEF TargetHolds
  <1>12. SentIsThere'
    <2>1. pc' = "idle" => \A t \in xfer' : t.sent = 0 BY <1>1, <1>2, <1>7, RefusedPart
    <2>2. NonePartial(pages')
      <3>1. NonePartial(pages) BY <1>1, <1>2 DEF FInv, FilesOK, PartsOK
      <3> QED BY <1>4, <3>1 DEF NonePartial, SameRecs
    <2> QED BY <1>7, <2>1, <2>2 DEF SentIsThere, Calling, AtRest
  <1> QED BY <1>7, <1>8, <1>9, <1>10, <1>11, <1>12 DEF ContentsOK

-----------------------------------------------------------------------------
(***************************************************************************)
(* The invariant.                                                          *)
(***************************************************************************)
LEMMA CommandContents ==
  ASSUME CInv, CarefulUse, Command
  PROVE  ContentsOK' /\ (SameFiles \/ EraseChip)
  <1>1. CASE \E id \in WriteIds, file \in Files : CallWrite(id, file)
    <2>1. PICK id \in Ids, file \in Files : CallWrite(id, file) BY <1>1, HostAssumption
    <2> QED BY <2>1, CallWriteContents
  <1>2. CASE \E id \in PartIds, file \in Files : CallPart(id, file)
    <2>1. PICK id \in Ids, file \in Files : CallPart(id, file) BY <1>2, HostAssumption
    <2> QED BY <2>1, CallPartContents DEF CarefulUse
  <1>3. CASE \E id \in Ids : ReadFile(id)
    <2>1. PICK id \in Ids : ReadFile(id) BY <1>3
    <2> QED BY <2>1, ReadFileContents
  <1>4. CASE EraseChip BY <1>4, EraseChipContents
  <1> QED BY <1>1, <1>2, <1>3, <1>4 DEF Command

LEMMA CollectionContents ==
  ASSUME CInv, Collect, pc' # "stray"
  PROVE  ContentsOK' /\ SameFiles
  <1>1. CASE GcObsolete \/ GcErase BY <1>1, GcObsoleteContents, GcEraseContents
  <1>2. CASE GcMove \/ GcNextPage BY <1>2, GcMoveContents, GcNextPageContents
  <1>3. CASE GcCopyBack \/ BackCopy BY <1>3, GcCopyBackContents, BackCopyContents
  <1>4. CASE GcResume \/ GcDone BY <1>4, GcResumeContents, GcDoneContents
  <1> QED BY <1>1, <1>2, <1>3, <1>4 DEF Collect

LEMMA WorkContents ==
  ASSUME CInv, FInv', CarefulUse, Work, pc' # "stray"
  PROVE  ContentsOK' /\ (SameFiles \/ RetireReplaced \/ Activate)
  <1>1. CASE FindRoom \/ FindFull \/ EndMark \/ FindNone
    BY <1>1, FindContents, FindNoneContents
  <1>2. CASE WriteHeader \/ WriteData BY <1>2, WriteHeaderContents, WriteDataContents
  <1>3. CASE RetireReplaced \/ RetireForParts \/ Activate
    BY <1>3, RetireReplacedContents, RetireForPartsContents, ActivateContents
  <1>4. CASE Collect BY <1>4, CollectionContents
  <1>5. ~Overprogram BY NoOverprogram DEF CInv
  <1> QED BY <1>1, <1>2, <1>3, <1>4, <1>5 DEF Work

LEMMA IdleContents == ASSUME CInv, UNCHANGED vars PROVE ContentsOK'
  <1>1. UNCHANGED <<pages, gc, lastWritten, pc, req, cur, tgt, old, scan, xfer, reply, suspect>>
    BY DEF vars
  <1>2. SoundOK' BY <1>1 DEF CInv, ContentsOK, SoundOK, Kept, InArea
  <1>3. AskedOK' BY <1>1 DEF CInv, ContentsOK, AskedOK, Calling, AtRest, MoreParts, Remaining
  <1>4. TargetHolds' BY <1>1 DEF CInv, ContentsOK, TargetHolds, HoldsFile, Whole
  <1>5. SentIsThere' BY <1>1 DEF CInv, ContentsOK, SentIsThere, Calling, AtRest
  <1> QED BY <1>2, <1>3, <1>4, <1>5 DEF ContentsOK

LEMMA CInvStep == ASSUME CInv, CarefulUse, [Next]_vars PROVE CInv'
  <1>1. FInv' /\ NoStrayWrite' BY NoStrayStep DEF CInv, CarefulUse
  <1>2. CASE Command BY <1>1, <1>2, CommandContents DEF CInv
  <1>3. CASE Work BY <1>1, <1>3, WorkContents DEF CInv, NoStrayWrite
  <1>4. CASE DriverFails BY <1>4 DEF DriverFails, CarefulUse, CleanUse
  <1>5. CASE Crash BY <1>1, <1>5, CrashContents DEF CInv, CarefulUse
  <1>6. CASE Restart BY <1>1, <1>6, RestartContents DEF CInv, CarefulUse
  <1>7. CASE UNCHANGED vars BY <1>1, <1>7, IdleContents DEF CInv
  <1> QED BY <1>2, <1>3, <1>4, <1>5, <1>6, <1>7 DEF Next

\* Every record in use yields its file, the parts sent so far are in the
\* record of their file, and the new version of a file is whole before the
\* one it replaces is retired.
THEOREM ContentsInvariance == CarefulUse => (Spec => []CInv)
  <1> SUFFICES ASSUME CarefulUse PROVE Spec => []CInv OBVIOUS
  <1>1. Init => CInv BY InitFiles, InitContents DEF CInv, Init, NoStrayWrite
  <1>2. CInv /\ [Next]_vars => CInv' BY CInvStep
  <1> QED BY <1>1, <1>2, PTL DEF Spec

\* After the answer to the last part of a file a read yields what was sent of it
\* since a part was last refused.
THEOREM SentIsReadHolds == CarefulUse => (Spec => SentIsRead)
  <1> SUFFICES ASSUME CarefulUse PROVE Spec => SentIsRead OBVIOUS
  <1> DEFINE Ends == pc = "activate" /\ pc' = "idle"
             Reads == Lookup(pages', req.id) = req.file
  <1>1. ASSUME CInv, CInv', [Next]_vars, Ends PROVE Reads
    <2>1. Activate
      <3>1. ~Command BY <1>1 DEF Command, CallWrite, CallPart, ReadFile, EraseChip
      <3>2. ~(FindRoom \/ FindFull \/ EndMark \/ FindNone \/ WriteHeader \/ WriteData
                \/ RetireReplaced \/ RetireForParts)
        BY <1>1 DEF FindRoom, FindFull, EndMark, FindNone, WriteHeader, WriteData,
                    RetireReplaced, RetireForParts
      <3>3. ~Collect
        BY <1>1 DEF Collect, GcObsolete, GcErase, GcMove, GcNextPage, GcCopyBack, BackCopy,
                    GcResume, GcDone, LooksIntoPage, Collecting, CopiedBack
      <3>4. ~(DriverFails \/ Crash \/ Restart)
        BY <1>1 DEF DriverFails, CarefulUse, CleanUse, Crash, Restart
      <3>5. ~(UNCHANGED vars) BY <1>1 DEF vars
      <3>6. ~Overprogram BY <1>1, NoOverprogram DEF CInv
      <3> QED BY <1>1, <3>1, <3>2, <3>3, <3>4, <3>5, <3>6 DEF Next, Work
    <2>2. req.id \in Ids BY <1>1, RequestType, Folder DEF CInv, Calling, AtRest
    <2>3. Live(pages', tgt, req.id) BY <1>1, <2>1, ActivatedLive DEF CInv
    <2>4. \A i \in Ids : i = req.id => \A x : Holds(i, x)' <=> x = req.file
      BY <1>1, <2>1, ActivateContents
    <2>5. \A i, x : Live(pages', tgt, i) /\ x = At(pages', tgt).data => Holds(i, x)'
      BY <1>1 DEF Holds, Replaces, Replacing, GcPcs
    <2>6. At(pages', tgt).data = req.file BY <2>2, <2>3, <2>4, <2>5
    <2>7. /\ IsFolder(pages') /\ Marks(pages', Unmarked') /\ Lined(pages') /\ Single(pages', req.id)
          /\ \A a : Live(pages', a, req.id) => Sound(At(pages', a))
      BY <1>1, <2>2
         DEF CInv, ContentsOK, SoundOK, FInv, PInv, IInv, FilesOK, FolderOK, GcPcs, VersionsOK,
             Swapping
    <2> QED BY <2>3, <2>6, <2>7, LookupIs
  <1>2. CInv /\ CInv' /\ [Next]_vars => [Ends => Reads]_vars BY <1>1
  <1> QED BY <1>2, ContentsInvariance, PTL DEF Spec, SentIsRead

\* A new space is searched for only with the first part of a file, or the first
\* since one was refused.
THEOREM PartsAreContinuedHolds == CarefulUse => (Spec => PartsAreContinued)
  <1> SUFFICES ASSUME CarefulUse PROVE Spec => PartsAreContinued OBVIOUS
  <1> DEFINE Begins == pc = "idle" /\ pc' = "find" /\ req'.op = "part"
             First == req'.sent = 0
  <1>1. CInv' => [Begins => First]_vars BY DEF CInv, ContentsOK, AskedOK
  <1> QED BY <1>1, ContentsInvariance, PTL DEF Spec, PartsAreContinued

-----------------------------------------------------------------------------
(***************************************************************************)
(* The store of files.                                                     *)
(***************************************************************************)
AbsCall ==
    IF req = NoReq THEN [op |-> "none"]
    ELSE [op |-> req.op, id |-> req.id, file |-> req.file, last |-> ~MoreParts]

AbsReply ==
    CASE reply = "none" -> "none"
      [] reply = "no_space" -> "refused"
      [] reply = "driver_error" -> "failed"
      [] OTHER -> "stored"

AbsStep == Abs!Next \/ UNCHANGED Abs!vars

\* The call FileStore sees is the one in progress.
CallIs ==
    /\ ~Calling => req = NoReq /\ AbsCall = [op |-> "none"]
    /\ Calling => /\ req # NoReq /\ AbsCall \in Abs!Calls /\ AbsCall # [op |-> "none"]
                  /\ AbsCall.op = req.op /\ AbsCall.id = req.id /\ AbsCall.file = req.file
                  /\ AbsCall.last = ~MoreParts

LEMMA CallsAre == CInv => CallIs
  <1> SUFFICES ASSUME CInv PROVE CallIs OBVIOUS
  <1>1. AskedOK /\ FInv BY DEF CInv, ContentsOK
  <1>2. CASE ~Calling BY <1>1, <1>2 DEF AskedOK, AbsCall, CallIs
  <1>3. CASE Calling
    <2> DEFINE c == [op |-> req.op, id |-> req.id, file |-> req.file, last |-> ~MoreParts]
    <2>1. req # NoReq BY <1>1, <1>3 DEF AskedOK
    <2>2. AbsCall = c BY <2>1 DEF AbsCall
    <2>3. req.op \in {"write", "part"} /\ req.id \in Ids /\ req.file \in Files
      BY <1>1, <1>3, RequestType, Folder
    <2>4. MoreParts \in BOOLEAN BY DEF MoreParts
    <2>5. c \in Abs!Calls BY <2>3, <2>4 DEF Abs!Calls
    <2>6. /\ c.op = req.op /\ c.id = req.id /\ c.file = req.file /\ c.last = ~MoreParts
      OBVIOUS
    <2> HIDE DEF c
    <2>7. c # [op |-> "none"]
      <3>1. [op |-> "none"].op = "none" OBVIOUS
      <3> QED BY <2>3, <2>6, <3>1
    <2> QED BY <1>3, <2>1, <2>2, <2>5, <2>6, <2>7 DEF CallIs
  <1> QED BY <1>2, <1>3

LEMMA CallsNext == CInv' => CallIs'
  BY CallsAre, PTL

\* A step within a call, and one that no caller sees.
LEMMA AbsStutter ==
  ASSUME CInv, CInv', SameFiles, UNCHANGED <<req, reply>>
  PROVE  AbsStep
  <1>1. Contents' = Contents BY SameContents DEF SameFiles
  <1>2. AbsCall' = AbsCall BY DEF AbsCall, MoreParts, Remaining
  <1>3. AbsReply' = AbsReply BY DEF AbsReply
  <1> QED BY <1>1, <1>2, <1>3 DEF AbsStep, Abs!vars, Contents, AbsCall, AbsReply

LEMMA AbsCalled ==
  ASSUME CInv, CInv', SameFiles, ~Calling, Calling', reply' = "none"
  PROVE  AbsStep
  <1>1. Contents' = Contents BY SameContents DEF SameFiles
  <1>2. AbsCall = [op |-> "none"] BY CallsAre DEF CallIs
  <1>3. AbsCall' \in Abs!Calls BY CallsNext DEF CallIs
  <1>4. AbsReply' = "none" BY DEF AbsReply
  <1>5. Abs!Call
    BY <1>1, <1>2, <1>3, <1>4 DEF Abs!Call, Abs!NoCall, Abs!Calls, Contents, AbsCall, AbsReply
  <1> QED BY <1>5 DEF AbsStep, Abs!Next

\* The end of a call.
LEMMA AbsAccepted ==
  ASSUME CInv, CInv', SameFiles, Calling, MoreParts, req' = NoReq, reply' = "success"
  PROVE  AbsStep
  <1>1. Contents' = Contents BY SameContents DEF SameFiles
  <1>2. AbsCall # [op |-> "none"] /\ AbsCall.last = FALSE BY CallsAre DEF CallIs
  <1>3. AbsCall' = [op |-> "none"] /\ AbsReply' = "stored" BY DEF AbsCall, AbsReply
  <1>4. Abs!Accept BY <1>1, <1>2, <1>3 DEF Abs!Accept, Abs!NoCall, Contents, AbsCall, AbsReply
  <1> QED BY <1>4 DEF AbsStep, Abs!Next

LEMMA AbsCommitted ==
  ASSUME CInv, CInv', Calling, ~MoreParts, req' = NoReq, reply' \in {"success", "not_found"},
         \A i \in Ids : i # req.id => \A x : Holds(i, x)' <=> Holds(i, x),
         \A i \in Ids : i = req.id => \A x : Holds(i, x)' <=> x = req.file
  PROVE  AbsStep
  <1>1. /\ AbsCall # [op |-> "none"] /\ AbsCall.last = TRUE
        /\ AbsCall.id = req.id /\ AbsCall.file = req.file
    BY CallsAre DEF CallIs
  <1>2. AbsCall' = [op |-> "none"] /\ AbsReply' = "stored" BY DEF AbsCall, AbsReply
  <1>3. req.id \in Ids BY RequestType, Folder DEF CInv
  <1>4. Contents' = [Contents EXCEPT ![req.id] = IF @ = Unknown THEN Unknown ELSE req.file]
    BY <1>3, PutContents
  <1>5. Abs!Commit
    BY <1>1, <1>2, <1>4 DEF Abs!Commit, Abs!NoCall, Abs!Put, Contents, AbsCall, AbsReply
  <1> QED BY <1>5 DEF AbsStep, Abs!Next

\* No space for a file written whole: its old version is retired all the same.
LEMMA AbsRefusedWhole ==
  ASSUME CInv, CInv', Calling, req.op = "write", req' = NoReq, reply' = "no_space",
         \A i \in Ids : i # req.id => \A x : Holds(i, x)' <=> Holds(i, x),
         \A i \in Ids : i = req.id => \A x : ~Holds(i, x)'
  PROVE  AbsStep
  <1>1. AbsCall # [op |-> "none"] /\ AbsCall.op = "write" /\ AbsCall.id = req.id
    BY CallsAre DEF CallIs
  <1>2. AbsCall' = [op |-> "none"] /\ AbsReply' = "refused" BY DEF AbsCall, AbsReply
  <1>3. req.id \in Ids BY RequestType, Folder DEF CInv
  <1>4. Contents' = [Contents EXCEPT ![req.id] = IF @ = Unknown THEN Unknown ELSE None]
    BY <1>3, PutContents
  <1>5. Abs!Refuse
    BY <1>1, <1>2, <1>4 DEF Abs!Refuse, Abs!NoCall, Abs!Put, Contents, AbsCall, AbsReply
  <1> QED BY <1>5 DEF AbsStep, Abs!Next

LEMMA AbsRefusedPart ==
  ASSUME CInv, CInv', SameFiles, Calling, req.op = "part", req' = NoReq, reply' = "no_space"
  PROVE  AbsStep
  <1>1. Contents' = Contents BY SameContents DEF SameFiles
  <1>2. AbsCall # [op |-> "none"] /\ AbsCall.op = "part" BY CallsAre DEF CallIs
  <1>3. AbsCall' = [op |-> "none"] /\ AbsReply' = "refused" BY DEF AbsCall, AbsReply
  <1>4. Abs!Refuse
    BY <1>1, <1>2, <1>3 DEF Abs!Refuse, Abs!NoCall, Contents, AbsCall, AbsReply
  <1> QED BY <1>4 DEF AbsStep, Abs!Next

\* Between calls.
LEMMA AbsRestarted == ASSUME CInv, CInv', CarefulUse, Crash PROVE AbsStep
  <1>1. SameFiles /\ req' = NoReq /\ reply' = "none" /\ req = NoReq
    BY CrashContents DEF CarefulUse
  <1>2. Contents' = Contents BY <1>1, SameContents DEF SameFiles
  <1>3. /\ AbsCall = [op |-> "none"] /\ AbsCall' = [op |-> "none"] /\ AbsReply' = "none"
    BY <1>1 DEF AbsCall, AbsReply
  <1>4. Abs!Restart BY <1>2, <1>3 DEF Abs!Restart, Abs!NoCall, Contents, AbsCall, AbsReply
  <1> QED BY <1>4 DEF AbsStep, Abs!Next

LEMMA AbsFormatted == ASSUME CInv, CInv', EraseChip PROVE AbsStep
  <1>1. pc = "idle" /\ req' = req /\ reply' = "none"
    BY DEF EraseChip, call, CInv, FInv, Unspoiled
  <1>2. \A id \in Ids : Stored(id)' = None BY EraseChipContents, StoredNext DEF AsHeld
  <1>3. Contents' = [id \in Ids |-> None] BY <1>2 DEF Contents
  <1>4. req = NoReq BY <1>1, CallsAre DEF CallIs, Calling, AtRest
  <1>5. /\ AbsCall = [op |-> "none"] /\ AbsCall' = AbsCall /\ AbsReply' = "none"
    BY <1>1, <1>4 DEF AbsCall, AbsReply
  <1>6. Abs!Format BY <1>3, <1>5 DEF Abs!Format, Abs!NoCall, Contents, AbsCall, AbsReply
  <1> QED BY <1>6 DEF AbsStep, Abs!Next

-----------------------------------------------------------------------------
(***************************************************************************)
(* Every step.                                                             *)
(***************************************************************************)
LEMMA CommandAbs == ASSUME CInv, CInv', CarefulUse, Command PROVE AbsStep
  <1>1. CASE EraseChip BY <1>1, AbsFormatted
  <1>2. CASE \E id \in Ids : ReadFile(id)
    <2>1. PICK id \in Ids : ReadFile(id) BY <1>2
    <2> QED BY <2>1, ReadFileContents, AbsStutter DEF ReadFile, call
  <1>3. CASE \E id \in WriteIds, file \in Files : CallWrite(id, file)
    <2>1. PICK id \in Ids, file \in Files : CallWrite(id, file) BY <1>3, HostAssumption
    <2>2. pc = "idle" /\ pc' = "find" /\ reply' = "none" BY <2>1 DEF CallWrite, Begin
    <2> QED BY <2>1, <2>2, CallWriteContents, AbsCalled DEF Calling, AtRest
  <1>4. CASE \E id \in PartIds, file \in Files : CallPart(id, file)
    <2>1. PICK id \in Ids, file \in Files : CallPart(id, file) BY <1>4, HostAssumption
    <2>2. pc = "idle" /\ pc' \in {"find", "data"} /\ reply' = "none"
      BY <2>1 DEF CallPart, Begin
    <2> QED BY <2>1, <2>2, CallPartContents, AbsCalled DEF Calling, AtRest, CarefulUse
  <1> QED BY <1>1, <1>2, <1>3, <1>4 DEF Command

LEMMA CollectionAbs == ASSUME CInv, CInv', CarefulUse, Collect PROVE AbsStep
  <1>1. pc' # "stray" BY DEF CInv, NoStrayWrite
  <1>2. CASE GcDone
    <2>1. /\ SameFiles
          /\ UNCHANGED <<req, reply>> \/ (req.op = "part" /\ req' = NoReq /\ reply' = "no_space")
      BY <1>2, GcDoneContents
    <2>2. Calling BY <1>2 DEF GcDone, CopiedBack, Calling, AtRest
    <2> QED BY <2>1, <2>2, AbsStutter, AbsRefusedPart
  <1>3. CASE ~GcDone
    <2>1. UNCHANGED <<req, reply>>
      BY <1>3 DEF Collect, GcObsolete, GcErase, GcMove, GcNextPage, GcCopyBack, BackCopy, GcResume
    <2> QED BY <1>1, <2>1, CollectionContents, AbsStutter
  <1> QED BY <1>2, <1>3

LEMMA WorkAbs == ASSUME CInv, CInv', CarefulUse, Work PROVE AbsStep
  <1>1. pc' # "stray" /\ FInv' BY DEF CInv, NoStrayWrite
  <1>2. CASE Collect BY <1>2, CollectionAbs
  <1>3. CASE WriteData
    <2>1. Calling BY <1>3 DEF WriteData, Calling, AtRest
    <2> QED BY <1>3, <2>1, WriteDataContents, AbsStutter, AbsAccepted
  <1>4. CASE RetireReplaced
    <2>1. Calling /\ pc = "retire" BY <1>4 DEF RetireReplaced, Calling, AtRest
    <2>2. ~MoreParts BY <2>1 DEF CInv, ContentsOK, AskedOK
    <2> QED BY <1>4, <2>1, <2>2, RetireReplacedContents, AbsCommitted, AbsRefusedWhole
  <1>5. CASE Activate
    <2>1. Calling BY <1>5 DEF Activate, Calling, AtRest
    <2> QED BY <1>5, <2>1, ActivateContents, AbsCommitted
  <1>6. CASE FindRoom \/ FindFull \/ EndMark \/ FindNone \/ WriteHeader \/ RetireForParts
    <2>1. UNCHANGED <<req, reply>>
      BY <1>6 DEF FindRoom, FindFull, EndMark, FindNone, WriteHeader, RetireForParts
    <2>2. SameFiles
      BY <1>1, <1>6, FindContents, FindNoneContents, WriteHeaderContents, RetireForPartsContents
    <2> QED BY <2>1, <2>2, AbsStutter
  <1>7. ~Overprogram BY NoOverprogram DEF CInv
  <1> QED BY <1>2, <1>3, <1>4, <1>5, <1>6, <1>7 DEF Work

LEMMA NextAbs == ASSUME CInv, CInv', CarefulUse, [Next]_vars PROVE AbsStep
  <1>1. CASE Command BY <1>1, CommandAbs
  <1>2. CASE Work BY <1>2, WorkAbs
  <1>3. CASE DriverFails BY <1>3 DEF DriverFails, CarefulUse, CleanUse
  <1>4. CASE Crash BY <1>4, AbsRestarted
  <1>5. CASE Restart
    <2>1. UNCHANGED <<req, reply>> BY <1>5 DEF Restart, call
    <2> QED BY <1>5, <2>1, RestartContents, AbsStutter DEF CarefulUse
  <1>6. CASE UNCHANGED vars
    <2>1. UNCHANGED <<pages, gc, pc, req, tgt, old, scan, reply>> BY <1>6 DEF vars
    <2>2. SameFiles BY <2>1 DEF SameFiles, Holds, Replaces, Replacing, Kept, InArea
    <2> QED BY <2>1, <2>2, AbsStutter
  <1> QED BY <1>1, <1>2, <1>3, <1>4, <1>5, <1>6 DEF Next

LEMMA InitAbs == ASSUME CInv, Init PROVE Abs!Init
  <1>1. pc = "idle" /\ req = NoReq /\ reply = "none" BY DEF Init
  <1>2. \A id, x : ~Holds(id, x)
    <2>1. \A a, id : ~Live(pages, a, id)
      BY DEF Init, Live, IsRec, BlankFolder, BlankPage
    <2> QED BY <1>1, <2>1 DEF Holds, GcPcs, Replaces
  <1>3. \A id \in Ids : Stored(id) = None BY <1>2, StoredIs DEF AsHeld
  <1>4. Contents = [id \in Ids |-> None] BY <1>3 DEF Contents
  <1>5. AbsCall = [op |-> "none"] /\ AbsReply = "none" BY <1>1 DEF AbsCall, AbsReply
  <1> QED BY <1>4, <1>5 DEF Abs!Init, Abs!NoCall, Contents, AbsCall, AbsReply

\* The file system implements the store of files: a call replaces its file
\* whole, when it is answered, or not at all, and no search, collection or
\* restart changes a file.
THEOREM Implementation == CarefulUse => (Spec => ImplementsFileStore)
  <1> SUFFICES ASSUME CarefulUse PROVE Spec => ImplementsFileStore OBVIOUS
  <1>1. CInv /\ Init => Abs!Init BY InitAbs
  <1>2. CInv /\ CInv' /\ [Next]_vars => [Abs!Next]_(Abs!vars) BY NextAbs DEF AbsStep
  <1> QED BY <1>1, <1>2, ContentsInvariance, PTL DEF Spec, ImplementsFileStore, Abs!Spec
=============================================================================
