------------------------------ MODULE SimpleFS ------------------------------
(***************************************************************************)
(* simple_fs.c: the operations of the file system on one folder, each cut  *)
(* into the flash programs it makes, with the power failing in between.    *)
(*                                                                         *)
(* The firmware is one loop that serves one command at a time, so a call   *)
(* runs from pc = "idle" back to "idle" before the next begins.  A step is *)
(* one flash program or erase, or several that a power failure between     *)
(* them cannot tell apart: the OBSOLETE marks a search leaves behind (the  *)
(* search of sfs_init after a restart makes the same marks), and what is   *)
(* done to a page of the GC area (nothing reads that area after a restart  *)
(* except for its NEW marks).  The erase of a page of the folder is one    *)
(* step that a power failure may cut short: memory_erase sends one command *)
(* for each 4K of a page that is not aligned to 64K.                       *)
(***************************************************************************)
EXTENDS SfsPages

CONSTANTS
    WriteIds,    \* the files the host writes with cmd_sfs_write
    PartIds,     \* the files the host writes with cmd_sfs_write_in_parts
    PartLen,     \* cells the host puts in one part, at most
    Interleave,  \* the host may leave a transfer in parts for another file
    BlockLen,    \* cells one erase command clears, in the folder
    CrashPcs,    \* the points at which the power may fail
    FaultPcs,    \* the points at which the flash driver may report an error
    FaultBound,  \* ... and with how many files suspect it no longer does
    KeyInGc      \* the GC area covers the memory key, as in storage_mngr.c

ASSUME HostAssumption ==
    /\ WriteIds \subseteq Ids
    /\ PartIds \subseteq Ids
    /\ PartLen \in Nat \ {0}
    /\ Interleave \in BOOLEAN
    /\ BlockLen \in Nat /\ BlockLen > 1
    /\ KeyInGc \in BOOLEAN
    /\ FaultPcs \subseteq {"find", "endmark", "header", "data", "retire", "activate"}

VARIABLES
    pages,        \* flash: the folder
    stale,        \* flash: cells of each page that an erase cut short left
    gc,           \* flash: the GC area, as pages of the folder's page_len
    lastWritten,  \* RAM: last_written_address of the folder
    pc,           \* where the call in progress stands
    req,          \* the arguments of the call in progress
    cur,          \* the page the search for free space looks at next
    tgt,          \* address of the new file (new_file_info.address)
    old,          \* address of the version it replaces (old_file_info.address)
    scan,         \* the cursors of the garbage collection
    xfer,         \* the host's transfers in parts that are under way
    reply,        \* the last answer to a write command
    suspect       \* history: files whose call was cut short by a power failure

vars == <<pages, stale, gc, lastWritten, pc, req, cur, tgt, old, scan, xfer, reply, suspect>>

call == <<req, cur, tgt, old, scan>>

NoReq == [op |-> "none"]

Request ==
    [op : {"write", "part"}, id : Ids, file : Files, sent : Nat, n : Nat]

\* file: what the device has been told of the file, sent: how much of that
\* has been sent, all: the file the host means to send.
Transfer == [id : Ids, file : Files, sent : Nat, all : Files]

\* p, i: record in the folder the collection looks at; g, open: GC page it
\* fills and whether the page is erased and begun; stop: all files are
\* collected; bd, bg: data page and GC page the copying back looks at.
Scan == [p : Nat, i : Nat, g : Nat, open : BOOLEAN, stop : BOOLEAN, bd : Nat, bg : Nat]

NoScan == [p |-> 1, i |-> 1, g |-> 1, open |-> FALSE, stop |-> FALSE, bd |-> 1, bg |-> 1]

Pcs == {"idle", "find", "endmark", "header", "data", "retire", "activate",
        "gc", "back", "stray", "down", "spoiled"}

\* No call is under way.
AtRest == {"idle", "down", "spoiled"}

GcPcs == {"gc", "back"}

Replies == {"none", "success", "not_found", "no_space", "driver_error"}

-----------------------------------------------------------------------------
\* An erased chip, with the memory key in place: in the first GC page when
\* the GC area starts at address 0.
KeyPage == [BlankPage EXCEPT !.st = "OLD"]

BlankGc == [g \in 1 .. GPages |-> IF KeyInGc /\ g = 1 THEN KeyPage ELSE BlankPage]

BlankFolder == [p \in 1 .. NPages |-> BlankPage]

NoneStale == [p \in 1 .. NPages |-> {}]

KeyIntact == KeyInGc => gc[1] = KeyPage

Init ==
    /\ pages = BlankFolder
    /\ stale = NoneStale
    /\ gc = BlankGc
    /\ lastWritten = NoAddr
    /\ pc = "idle"
    /\ req = NoReq
    /\ cur = 1
    /\ tgt = NoAddr
    /\ old = NoAddr
    /\ scan = NoScan
    /\ xfer = {}
    /\ reply = "none"
    /\ suspect = {}

\* The function returns r to the command handler.
Return(r) ==
    /\ pc' = "idle"
    /\ reply' = r
    /\ req' = NoReq
    /\ cur' = 1
    /\ tgt' = NoAddr
    /\ old' = NoAddr
    /\ scan' = NoScan

\* Where the search for free space begins: the page of the last written file.
FirstPage(a) == IF a = NoAddr THEN 1 ELSE a[1]

-----------------------------------------------------------------------------
(***************************************************************************)
(* The commands of the host.                                               *)
(***************************************************************************)
Begin(request, at) ==
    /\ pc' = at
    /\ req' = request
    /\ cur' = FirstPage(lastWritten)
    /\ reply' = "none"

\* sfs_write_file starts with the search for free space.
CallWrite(id, file) ==
    /\ pc = "idle"
    /\ Interleave \/ xfer = {}
    /\ \A t \in xfer : t.id # id
    /\ Begin([op |-> "write", id |-> id, file |-> file, sent |-> 0, n |-> Len(file)], "find")
    /\ UNCHANGED <<pages, stale, gc, lastWritten, tgt, old, scan, xfer, suspect>>

\* Cells of the file not yet sent, the rem_len argument, when the part starts.
Remaining(r) == Len(r.file) - r.sent

\* sfs_write_file_in_parts starts with the search for a partial file, and
\* adds to the one it finds.
CallPart(id, file) ==
    /\ pc = "idle"
    /\ \E sent \in 0 .. Len(file) - 1 :
          /\ \/ /\ sent = 0
                /\ \A t \in xfer : t.id # id
                /\ Interleave \/ xfer = {}
             \/ \E t \in xfer : t.id = id /\ t.file = file /\ t.sent = sent
          /\ LET left == Len(file) - sent
                 n    == IF left < PartLen THEN left ELSE PartLen
                 part == Search(pages, id, "PARTIAL")
             IN  /\ Begin([op |-> "part", id |-> id, file |-> file, sent |-> sent, n |-> n],
                          IF part = NoAddr THEN "find" ELSE "data")
                 /\ tgt' = part
                 /\ pages' = Sweep(pages, part)
    /\ UNCHANGED <<stale, gc, lastWritten, old, scan, xfer, suspect>>

\* The file the host means to send, of which req is a part.
Meant ==
    IF \E t \in xfer : t.id = req.id
    THEN (CHOOSE t \in xfer : t.id = req.id).all
    ELSE req.file

\* The tool sends all parts of a file, whatever the answers.  The device takes
\* the part after a refused one for the first of a file: of what is left.
Advance(refused) ==
    LET others == {t \in xfer : t.id # req.id}
        sent   == req.sent + req.n
        next   == IF refused
                  THEN [id |-> req.id, all |-> Meant, sent |-> 0,
                        file |-> SubSeq(req.file, sent + 1, Len(req.file))]
                  ELSE [id |-> req.id, all |-> Meant, sent |-> sent, file |-> req.file]
    IN  xfer' = IF req.op # "part" \/ req.n = Remaining(req)
                THEN others
                ELSE others \cup {next}

\* sfs_read_file and sfs_read_file_in_parts: what they return is Lookup, or
\* the data without its check; what they change is the pages' OBSOLETE marks.
ReadFile(id) ==
    /\ pc = "idle"
    /\ pages' = Sweep(pages, Search(pages, id, "ACTIVE"))
    /\ UNCHANGED <<stale, gc, lastWritten, pc, call, xfer, reply, suspect>>

\* cmd_ext_mem_chip_erase: erase everything, write the key, forget addresses.
EraseChip ==
    /\ pc \in {"idle", "spoiled"}
    /\ pages' = BlankFolder
    /\ stale' = NoneStale
    /\ gc' = BlankGc
    /\ lastWritten' = NoAddr
    /\ pc' = "idle"
    /\ xfer' = {}
    /\ reply' = "none"
    /\ suspect' = {}
    /\ UNCHANGED call

-----------------------------------------------------------------------------
(***************************************************************************)
(* SFS_SEARCH_FREE_SPACE: OLD and OBSOLETE pages are skipped, the others   *)
(* are tried in turn.                                                      *)
(***************************************************************************)
\* Mutant of Open: an OLD page is looked into again.
OpenOld(p) == pages[p].st # "OBSOLETE"

Open(p) == pages[p].st \in {"NEW", "ACTIVE"}

\* Page p is the next page the search looks into.
Looks(p) == p >= cur /\ Open(p) /\ \A q \in cur .. p - 1 : ~Open(q)

\* The file fits: the page becomes ACTIVE, the search returns its address.
FindRoom ==
    /\ pc = "find"
    /\ \E p \in 1 .. NPages :
          /\ Looks(p)
          /\ Room(pages[p], Remaining(req))
          /\ pages' = [pages EXCEPT ![p].st = "ACTIVE"]
          /\ tgt' = <<p, Len(pages[p].recs) + 1>>
    /\ pc' = "header"
    /\ UNCHANGED <<stale, gc, lastWritten, req, cur, old, scan, xfer, reply, suspect>>

\* It does not: the page is declared full, first in its status ...
FindFull ==
    /\ pc = "find"
    /\ \E p \in 1 .. NPages :
          /\ Looks(p)
          /\ ~Room(pages[p], Remaining(req))
          /\ pages' = [pages EXCEPT ![p].st = "OLD"]
          /\ cur' = p
    /\ pc' = "endmark"
    /\ UNCHANGED <<stale, gc, lastWritten, req, tgt, old, scan, xfer, reply, suspect>>

\* ... then by END_PAGE after its last file.
EndMark ==
    /\ pc = "endmark"
    /\ pages' = [pages EXCEPT ![cur].end = TRUE]
    /\ cur' = cur + 1
    /\ pc' = "find"
    /\ UNCHANGED <<stale, gc, lastWritten, req, tgt, old, scan, xfer, reply, suspect>>

\* No page left: sfs_perform_gc.
FindNone ==
    /\ pc = "find"
    /\ \A p \in cur .. NPages : ~Open(p)
    /\ pc' = "gc"
    /\ scan' = NoScan
    /\ UNCHANGED <<pages, stale, gc, lastWritten, req, cur, tgt, old, xfer, reply, suspect>>

-----------------------------------------------------------------------------
(***************************************************************************)
(* Writing the file into the space found.                                  *)
(***************************************************************************)
Whole == req.op = "write"

\* Mutants of NewRecord: a part is ACTIVE at once; its status is left as it was
\* found; data_len is the length of this part, not rem_len.
RecordAtOnce ==
    [st   |-> "ACTIVE",
     id   |-> req.id,
     off  |-> Top(pages[tgt[1]]),
     data |-> Blanks(Remaining(req)),
     crc  |-> IF Whole THEN req.file ELSE <<>>]

RecordUnmarked ==
    [st   |-> IF Whole THEN "ACTIVE" ELSE "NEW",
     id   |-> req.id,
     off  |-> Top(pages[tgt[1]]),
     data |-> Blanks(Remaining(req)),
     crc  |-> IF Whole THEN req.file ELSE <<>>]

RecordOfPart ==
    [st   |-> IF Whole THEN "ACTIVE" ELSE "PARTIAL",
     id   |-> req.id,
     off  |-> Top(pages[tgt[1]]),
     data |-> Blanks(req.n),
     crc  |-> IF Whole THEN req.file ELSE <<>>]

\* The header as it is programmed, with its data still blank.
NewRecord ==
    [st   |-> IF Whole THEN "ACTIVE" ELSE "PARTIAL",
     id   |-> req.id,
     off  |-> Top(pages[tgt[1]]),
     data |-> Blanks(Remaining(req)),
     crc  |-> IF Whole THEN req.file ELSE <<>>]

\* The version sfs_write_file replaces; for a file in parts it is looked for
\* with the last part.
Version == IF Whole THEN Search(pages, req.id, "ACTIVE") ELSE NoAddr

HeaderAdded ==
    LET swept == IF Whole THEN Sweep(pages, Version) ELSE pages
    IN  [swept EXCEPT ![tgt[1]].recs = Append(@, NewRecord)]

\* sfs_write_file looks for the version to replace before it writes, and
\* takes the new address for the last written one; a file in parts does both
\* with its last part.
WriteHeader ==
    /\ pc = "header"
    /\ BlankAhead(HeaderAdded, stale)
    /\ pages' = HeaderAdded
    /\ old' = Version
    /\ lastWritten' = IF Whole THEN tgt ELSE lastWritten
    /\ pc' = "data"
    /\ UNCHANGED <<stale, gc, req, cur, tgt, scan, xfer, reply, suspect>>

\* The payload of the command, and where its first cell goes in the file: as
\* far from the file's end as rem_len says.
Payload == SubSeq(req.file, req.sent + 1, req.sent + req.n)

\* Mutant of PayloadStart: data_len for rem_len.
PayloadStartOfPart == Len(At(pages, tgt).data) - req.n

PayloadStart == Len(At(pages, tgt).data) - Remaining(req)

WithPayload(k) ==
    [pages EXCEPT ![tgt[1]].recs[tgt[2]].data =
        ProgramAt(@, PayloadStart, SubSeq(Payload, 1, k))]

MoreParts == req.op = "part" /\ req.n # Remaining(req)

\* A negative start lands in front of the file's data: "stray".
WriteData ==
    /\ pc = "data"
    /\ IF PayloadStart < 0
       THEN /\ pc' = "stray"
            /\ UNCHANGED <<pages, call, xfer, reply>>
       ELSE /\ pages' = WithPayload(req.n)
            /\ IF MoreParts
               THEN Return("success") /\ Advance(FALSE)
               ELSE pc' = "retire" /\ UNCHANGED <<call, xfer, reply>>
    /\ UNCHANGED <<stale, gc, lastWritten, suspect>>

\* Mutant of RetireAt: the version replaced keeps its status.
RetireNone(pgs, a)   == pgs

RetireAt(pgs, a) == IF a = NoAddr THEN pgs ELSE SetStatus(pgs, a, "OLD")

\* sfs_write_file marks the replaced version OLD, and does so too when there
\* was no space for the new one (it has then not been looked for yet).
RetireReplaced ==
    LET looked  == tgt # NoAddr
        version == IF looked THEN old ELSE Search(pages, req.id, "ACTIVE")
        swept   == IF looked THEN pages ELSE Sweep(pages, version)
    IN  /\ pc = "retire"
        /\ req.op = "write"
        /\ pages' = RetireAt(swept, version)
        /\ Return(IF looked THEN "success" ELSE "no_space")
        /\ Advance(FALSE)
        /\ UNCHANGED <<stale, gc, lastWritten, suspect>>

\* The last part: mark the replaced version OLD, then the new one ACTIVE.
RetireForParts ==
    LET version == Search(pages, req.id, "ACTIVE")
    IN  /\ pc = "retire"
        /\ req.op = "part"
        /\ pages' = RetireAt(Sweep(pages, version), version)
        /\ old' = version
        /\ pc' = "activate"
        /\ UNCHANGED <<stale, gc, lastWritten, req, cur, tgt, scan, xfer, reply, suspect>>

\* Mutant of Activate: last_written_address is left as it was.
ActivateForgetful ==
    /\ pc = "activate"
    /\ pages' = SetStatus(pages, tgt, "ACTIVE")
    /\ Return(IF old = NoAddr THEN "not_found" ELSE "success")
    /\ Advance(FALSE)
    /\ UNCHANGED <<lastWritten, stale, gc, suspect>>

\* The answer is that of the search for a version to replace.
Activate ==
    /\ pc = "activate"
    /\ pages' = SetStatus(pages, tgt, "ACTIVE")
    /\ lastWritten' = tgt
    /\ Return(IF old = NoAddr THEN "not_found" ELSE "success")
    /\ Advance(FALSE)
    /\ UNCHANGED <<stale, gc, suspect>>

-----------------------------------------------------------------------------
(***************************************************************************)
(* sfs_move_active_files_to_gc_pages.                                      *)
(***************************************************************************)
Collecting == pc = "gc" /\ ~scan.stop /\ scan.p <= NPages /\ scan.g <= GPages

\* The record the collection meets next in page p, past the OLD ones.
Meets(i) ==
    /\ i \in DOMAIN pages[scan.p].recs
    /\ i >= scan.i
    /\ pages[scan.p].recs[i].st # "OLD"
    /\ \A j \in scan.i .. i - 1 : pages[scan.p].recs[j].st = "OLD"

NoneLeft == \A j \in DOMAIN pages[scan.p].recs : j >= scan.i => pages[scan.p].recs[j].st = "OLD"

AtPageStart == scan.i = 1

NextPage == [scan EXCEPT !.p = @ + 1, !.i = 1]

\* An OBSOLETE page is erased without a look at its files.
GcObsolete ==
    /\ Collecting
    /\ AtPageStart /\ pages[scan.p].st = "OBSOLETE"
    /\ pages' = [pages EXCEPT ![scan.p] = BlankPage]
    /\ stale' = [stale EXCEPT ![scan.p] = {}]
    /\ scan' = NextPage
    /\ UNCHANGED <<gc, lastWritten, pc, req, cur, tgt, old, xfer, reply, suspect>>

LooksIntoPage ==
    /\ Collecting
    /\ ~(AtPageStart /\ pages[scan.p].st = "OBSOLETE")

\* Mutant of GcErase: a page all of whose files are OLD is passed over.
GcPassOver ==
    /\ LooksIntoPage
    /\ NoneLeft
    /\ scan' = [NextPage EXCEPT !.stop = ~pages[scan.p].end]
    /\ UNCHANGED <<pages, stale, gc, lastWritten, pc, req, cur, tgt, old, xfer, reply, suspect>>

\* At END_PAGE the page is erased; so it is at a blank header, which ends the
\* collection as well.  A NEW page ends it too, and is left as it is.
GcErase ==
    /\ LooksIntoPage
    /\ NoneLeft
    /\ pages' = [pages EXCEPT ![scan.p] = BlankPage]
    /\ stale' = IF pages[scan.p].st = "NEW" THEN stale ELSE [stale EXCEPT ![scan.p] = {}]
    /\ scan' = [NextPage EXCEPT !.stop = ~pages[scan.p].end]
    /\ UNCHANGED <<gc, lastWritten, pc, req, cur, tgt, old, xfer, reply, suspect>>

\* An ACTIVE or PARTIAL file is copied to the GC page, which is erased and
\* made ACTIVE first if this is its first file, and marked OLD in the folder.
GcMove ==
    /\ LooksIntoPage
    /\ \E i \in 1 .. PageLen :
          LET r  == pages[scan.p].recs[i]
              pg == IF scan.open THEN gc[scan.g] ELSE [BlankPage EXCEPT !.st = "ACTIVE"]
          IN  /\ Meets(i)
              /\ GcRoom(gc[scan.g], scan.open, r)
              /\ gc' = [gc EXCEPT ![scan.g] =
                           [pg EXCEPT !.recs = Append(@, [r EXCEPT !.off = Top(pg)])]]
              /\ pages' = SetStatus(pages, <<scan.p, i>>, "OLD")
              /\ scan' = [scan EXCEPT !.i = i + 1, !.open = TRUE]
    /\ UNCHANGED <<stale, lastWritten, pc, req, cur, tgt, old, xfer, reply, suspect>>

\* It does not fit: END_PAGE and OLD on the GC page, and on to the next one.
GcNextPage ==
    /\ LooksIntoPage
    /\ \E i \in 1 .. PageLen :
          /\ Meets(i)
          /\ ~GcRoom(gc[scan.g], scan.open, pages[scan.p].recs[i])
          /\ scan' = [scan EXCEPT !.i = i, !.g = @ + 1, !.open = FALSE]
    /\ gc' = [gc EXCEPT ![scan.g].end = TRUE, ![scan.g].st = "OLD"]
    /\ UNCHANGED <<pages, stale, lastWritten, pc, req, cur, tgt, old, xfer, reply, suspect>>

\* The folder is collected or the GC area is full: copy back.
GcCopyBack ==
    /\ pc = "gc"
    /\ ~Collecting
    /\ scan' = [scan EXCEPT !.bd = 1, !.bg = 1]
    /\ pc' = "back"
    /\ UNCHANGED <<pages, stale, gc, lastWritten, req, cur, tgt, old, xfer, reply, suspect>>

-----------------------------------------------------------------------------
(***************************************************************************)
(* sfs_update_data_pages, and the end of sfs_perform_gc.                   *)
(***************************************************************************)
\* Mutant of GoesTo: the status of the data page is not looked at.
GoesToAny(d) == scan.bg <= GPages /\ d = scan.bd

\* d is the blank data page the next GC page goes to.
GoesTo(d) ==
    /\ scan.bg <= GPages
    /\ d >= scan.bd
    /\ pages[d].st = "NEW"
    /\ \A q \in scan.bd .. d - 1 : pages[q].st # "NEW"

\* A GC page with a status is copied up to gc_address: nothing of it when
\* the collection has not begun the page.  For a page beyond the one that
\* holds gc_address, left over from an earlier collection, the length
\* gc_address - gc_start_address is negative, as unsigned huge: "stray".
InUse    == scan.bg <= GPages /\ gc[scan.bg].st # "NEW"
Beyond   == InUse /\ scan.bg > scan.g
\* Mutant of Unopened: a GC page that is not full is not copied.
UnopenedOrPartial == scan.bg = scan.g
Unopened == scan.bg = scan.g /\ ~scan.open
Copies   == InUse /\ ~Beyond /\ ~Unopened

CopiedTo(d) == IF Copies THEN [pages EXCEPT ![d] = gc[scan.bg]] ELSE pages

BackCopy ==
    /\ pc = "back"
    /\ \E d \in 1 .. NPages :
          /\ GoesTo(d)
          /\ BlankAhead(CopiedTo(d), stale)
          /\ pages' = CopiedTo(d)
          /\ scan' = [scan EXCEPT !.bd = d + 1, !.bg = @ + 1]
    /\ pc' = IF Beyond THEN "stray" ELSE "back"
    /\ UNCHANGED <<stale, gc, lastWritten, req, cur, tgt, old, xfer, reply, suspect>>

CopiedBack == pc = "back" /\ \A d \in 1 .. NPages : ~GoesTo(d)

\* Mutant of Collected: the end of the folder is forgotten.
CollectedStop == scan.stop
Collected == scan.stop \/ scan.p > NPages

\* Once copied back, or after a restart, the files in the GC area are read no
\* more: of its pages only the status still counts, and the model forgets the
\* rest.
Spent == [g \in 1 .. GPages |-> [gc[g] EXCEPT !.recs = <<>>]]

\* The GC area was full: collect the rest of the folder.
GcResume ==
    /\ CopiedBack
    /\ ~Collected
    /\ gc' = Spent
    /\ scan' = [NoScan EXCEPT !.p = scan.p, !.i = scan.i]
    /\ pc' = "gc"
    /\ UNCHANGED <<pages, stale, lastWritten, req, cur, tgt, old, xfer, reply, suspect>>

\* The last written file is searched for and the blank pages are counted:
\* with one the search for space starts again, with none there is no space.
GcDone ==
    /\ CopiedBack
    /\ Collected
    /\ gc' = Spent
    /\ pages' = Sweep(pages, NoAddr)
    /\ lastWritten' = LastAddr(pages)
    /\ IF FreshPages(pages) # {}
       THEN /\ pc' = "find"
            /\ cur' = FirstPage(LastAddr(pages))
            /\ scan' = NoScan
            /\ UNCHANGED <<req, tgt, old, xfer, reply>>
       ELSE IF req.op = "write"
       THEN /\ pc' = "retire"
            /\ scan' = NoScan
            /\ UNCHANGED <<req, cur, tgt, old, xfer, reply>>
       ELSE Return("no_space") /\ Advance(TRUE)
    /\ UNCHANGED <<stale, suspect>>

-----------------------------------------------------------------------------
(***************************************************************************)
(* Power failure and restart.                                              *)
(***************************************************************************)
\* What a copy of the page may leave when it is cut short: some records, the
\* last of them perhaps with the first m cells of its data only.
FirstRecords(pg, k) == [pg EXCEPT !.recs = SubSeq(pg.recs, 1, k), !.end = FALSE]

FirstCells(r, m) ==
    [r EXCEPT !.data = [c \in DOMAIN r.data |-> IF c <= m THEN r.data[c] ELSE Blank]]

CutShort(pg) ==
    {FirstRecords(pg, k) : k \in 0 .. Len(pg.recs)}
    \cup
    {[FirstRecords(pg, k) EXCEPT !.recs = [@ EXCEPT ![k] = FirstCells(pg.recs[k], m)]] :
        k \in 1 .. Len(pg.recs), m \in 0 .. PageLen}

\* What the program under way at the failure may leave of its work.
Torn ==
    CASE pc = "data" /\ PayloadStart >= 0 -> {WithPayload(k) : k \in 0 .. req.n}
      [] pc = "back" /\ Copies ->
            {pages} \cup
            {[pages EXCEPT ![d] = pg] :
                d \in {q \in 1 .. NPages : GoesTo(q)}, pg \in CutShort(gc[scan.bg])}
      [] OTHER -> {pages}

\* Files that may be lost when a call is cut short: its own, and any file
\* while the folder is collected or a page stands declared full without its
\* END_PAGE (the walks then stop in front of the pages that follow).
AtRisk ==
    CASE pc = "idle"                  -> {}
      [] pc \in GcPcs \cup {"endmark"} -> Ids
      [] OTHER                        -> {req.id}

\* What is in RAM is lost, and the call with it.
Reset ==
    /\ xfer' = IF pc = "idle" THEN xfer ELSE {t \in xfer : t.id # req.id}
    /\ lastWritten' = NoAddr
    /\ req' = NoReq /\ cur' = 1 /\ tgt' = NoAddr /\ old' = NoAddr /\ scan' = NoScan
    /\ reply' = "none"
    /\ gc' = Spent

\* Programming over cells an erase cut short has left, or up to them, so that
\* the walks read a header there.  What comes of it is not followed further:
\* nothing is promised until the chip is erased.
Overprogram ==
    /\ \/ pc = "header" /\ ~BlankAhead(HeaderAdded, stale)
       \/ pc = "back" /\ \E d \in 1 .. NPages : GoesTo(d) /\ ~BlankAhead(CopiedTo(d), stale)
    /\ pc' = "spoiled"
    /\ suspect' = Ids
    /\ Reset
    /\ UNCHANGED <<pages, stale>>

\* A page is erased from its start, BlockLen cells by one command: what the
\* first k commands do not reach of the cells in use stays.
ErasesPage ==
    /\ pc = "gc" /\ Collecting
    /\ pages[scan.p].st # "NEW"
    /\ NoneLeft \/ (AtPageStart /\ pages[scan.p].st = "OBSOLETE")

LeftBehind(k) ==
    LET pg == pages[scan.p]
    IN  {c \in (0 .. IF pg.end THEN Top(pg) ELSE Top(pg) - 1) \cup stale[scan.p] :
            c >= k * BlockLen}

EraseCut ==
    /\ ErasesPage
    /\ \E k \in {j \in 1 .. PageLen : j * BlockLen < PageLen} :
          stale' = [stale EXCEPT ![scan.p] = LeftBehind(k)]
    /\ pages' = [pages EXCEPT ![scan.p] = BlankPage]

\* A copy cut short behind which the walks meet such cells is Overprogram.
Crash ==
    /\ pc \in CrashPcs \ {"stray", "down", "spoiled"}
    /\ EraseCut \/ (pages' \in Torn /\ UNCHANGED stale)
    /\ BlankAhead(pages', stale')
    /\ suspect' = suspect \cup AtRisk
    /\ pc' = "down"
    /\ Reset

\* ext_mem_init formats a chip without the key; sfs_init walks the folder for
\* the last written file.
Restart ==
    /\ pc = "down"
    /\ pc' = "idle"
    /\ pages' = IF KeyIntact THEN Sweep(pages, NoAddr) ELSE BlankFolder
    /\ gc' = IF KeyIntact THEN gc ELSE BlankGc
    /\ stale' = IF KeyIntact THEN stale ELSE NoneStale
    /\ lastWritten' = IF KeyIntact THEN LastAddr(pages) ELSE NoAddr
    /\ UNCHANGED <<call, xfer, reply, suspect>>

-----------------------------------------------------------------------------
(***************************************************************************)
(* The driver reports an error (a transfer timed out): the function stops  *)
(* where it stands and returns SFS_STATUS_DRIVER_ERROR.  The program it    *)
(* reports may have been made all the same.                                *)
(***************************************************************************)
\* The version being replaced, at the program that marks it OLD.
Replaced == IF Whole /\ tgt # NoAddr THEN old ELSE Search(pages, req.id, "ACTIVE")

RetireOld(pgs) ==
    LET version == Search(pgs, req.id, "ACTIVE")
    IN  RetireAt(Sweep(pgs, version), version)

\* What the program under way makes of the folder when it is made.
Programmed ==
    CASE pc = "find"     -> {[pages EXCEPT ![p].st = "ACTIVE"] :
                                p \in {q \in 1 .. NPages : Looks(q) /\ Room(pages[q], Remaining(req))}}
      [] pc = "endmark"  -> {[pages EXCEPT ![cur].end = TRUE]}
      [] pc = "header"   -> {HeaderAdded}
      [] pc = "data"     -> {WithPayload(k) : k \in 1 .. req.n}
      [] pc = "retire"   -> {IF Whole /\ tgt # NoAddr THEN RetireAt(pages, old) ELSE RetireOld(pages)}
      [] pc = "activate" -> {SetStatus(pages, tgt, "ACTIVE")}

\* sfs_write_file marks the old version OLD also when the search for space
\* has failed.
AfterFailure ==
    LET left == {pages} \cup Programmed
    IN  IF Whole /\ pc \in {"find", "endmark"}
        THEN left \cup {RetireOld(pgs) : pgs \in left}
        ELSE left

DriverFails ==
    /\ pc \in FaultPcs
    /\ Cardinality(suspect) < FaultBound
    /\ pc = "data" => PayloadStart >= 0
    /\ pc = "retire" => Replaced # NoAddr
    /\ pages' \in AfterFailure
    /\ BlankAhead(pages', stale)
    /\ lastWritten' = IF pc = "header" /\ Whole THEN tgt ELSE lastWritten
    /\ Return("driver_error")
    /\ Advance(TRUE)
    /\ suspect' = suspect \cup AtRisk
    /\ UNCHANGED <<stale, gc>>

-----------------------------------------------------------------------------
Command ==
    \/ \E id \in WriteIds, file \in Files : CallWrite(id, file)
    \/ \E id \in PartIds, file \in Files : CallPart(id, file)
    \/ \E id \in Ids : ReadFile(id)
    \/ EraseChip

Collect ==
    \/ GcObsolete \/ GcErase \/ GcMove \/ GcNextPage
    \/ GcCopyBack \/ BackCopy \/ GcResume \/ GcDone

\* The firmware at work on a call.
Work ==
    \/ FindRoom \/ FindFull \/ EndMark \/ FindNone
    \/ WriteHeader \/ Overprogram \/ WriteData \/ RetireReplaced \/ RetireForParts \/ Activate
    \/ Collect

Next == Command \/ Work \/ DriverFails \/ Crash \/ Restart

Spec == Init /\ [][Next]_vars

\* The processor runs on while a call is in progress, and power comes back;
\* nobody has to call.
Fairness == WF_vars(Work) /\ WF_vars(Restart)

FairSpec == Spec /\ Fairness
=============================================================================
