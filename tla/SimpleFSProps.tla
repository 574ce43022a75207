--------------------------- MODULE SimpleFSProps ---------------------------
(***************************************************************************)
(* What is checked of SimpleFS: its types, the layout of the pages, the    *)
(* safety and liveness properties, and that it implements FileStore.       *)
(***************************************************************************)
EXTENDS SimpleFS

\* Every variable stays in its type (sfs_file_header_t, the status bytes, the
\* cursors of the searches and of the garbage collection).
TypeOK ==
    /\ pages \in [1 .. NPages -> Page]
    /\ stale \in [1 .. NPages -> SUBSET (0 .. PageLen)]
    /\ gc \in [1 .. GPages -> Page]
    /\ lastWritten \in Addr
    /\ pc \in Pcs
    /\ req \in Request \cup {NoReq}
    /\ cur \in Nat
    /\ tgt \in Addr
    /\ old \in Addr
    /\ scan \in Scan
    /\ xfer \subseteq Transfer
    /\ reply \in Replies
    /\ suspect \subseteq Ids

-----------------------------------------------------------------------------
\* Every page of the folder can be walked at every moment, also between the
\* programs of a call and after a power failure at any of them or between the
\* commands that erase a page: each record starts where the one before it
\* ends, the last one leaves the cell for END_PAGE inside the page, END_PAGE is
\* in a page declared full, and the cell that ends the walk is no leftover of an
\* erase cut short - unless something was programmed up to such cells.
PageLayout ==
    /\ \A p \in 1 .. NPages : WellFormed(pages[p])
    /\ BlankAhead(pages, stale)

\* Nothing is programmed where data is: a page whose status is NEW_PAGE is "a
\* fresh page where no data exits" (simple_fs.c:19).
RoomIsBlank == pc # "spoiled"

\* The firmware never programs flash outside the record or the page it means
\* to: neither in front of a partial file (the offset computed from rem_len)
\* nor, when GC pages are copied back, beyond what was collected
\* (gc_address - gc_start_address).
NoStrayWrite == pc # "stray"

ActiveOf(id) == {a \in RecordsOf(pages) : At(pages, a).id = id /\ At(pages, a).st = "ACTIVE"}

\* Between calls no file has two ACTIVE versions: sfs_write_file and the last
\* part of sfs_write_file_in_parts have retired the version they replace, and
\* the garbage collection has not left a copy behind.
OneVersion ==
    pc = "idle" => \A id \in Ids \ suspect : Cardinality(ActiveOf(id)) <= 1

\* Between calls no ACTIVE file is where a search does not come: in a page
\* marked OBSOLETE or behind a page whose walk ends at a blank header.
NoHiddenFile ==
    pc = "idle" => \A id \in Ids \ suspect : ActiveOf(id) \subseteq Visible(pages)

\* The address a completed write leaves in last_written_address is the one a
\* search for the file finds (what the host's file_test compares).
LastWrittenIsFound ==
    [][ (/\ pc \notin AtRest /\ pc' = "idle"
         /\ ~MoreParts /\ reply' \in {"success", "not_found"}
         /\ req.id \notin suspect)
        => lastWritten' = Search(pages', req.id, "ACTIVE") ]_vars

-----------------------------------------------------------------------------
PageRank(st) == CASE st = "NEW" -> 0 [] st = "ACTIVE" -> 1 [] st = "OLD" -> 2 [] st = "OBSOLETE" -> 3
FileRank(st) == CASE st = "PARTIAL" -> 1 [] st = "ACTIVE" -> 2 [] st = "OLD" -> 3

OnlyClears(r, s) ==
    /\ FileRank(r.st) <= FileRank(s.st)
    /\ r.id = s.id /\ r.off = s.off /\ r.crc = s.crc
    /\ Len(r.data) = Len(s.data)
    /\ \A k \in DOMAIN r.data : r.data[k] \in {Blank, s.data[k]} \/ s.data[k] = Mixed

\* A page after programs: its status and the status of its records have moved
\* forward, its records are still there, END_PAGE stays and nothing comes after it.
Forward(pg, new) ==
    /\ PageRank(pg.st) <= PageRank(new.st)
    /\ Len(pg.recs) <= Len(new.recs)
    /\ \A i \in DOMAIN pg.recs : OnlyClears(pg.recs[i], new.recs[i])
    /\ pg.end => new.end /\ Len(pg.recs) = Len(new.recs)

\* Without an erase the bits of a page are only cleared.  A step that did
\* otherwise would be one the flash cannot do.
FlashOnlyClears ==
    [][ \A p \in 1 .. NPages : pages'[p] = BlankPage \/ Forward(pages[p], pages'[p]) ]_vars

\* Every command is answered, by its result or by the restart after a power
\* failure: no search, collection or retry goes on for ever, as long as nothing
\* was programmed up to what an erase cut short has left.
EveryCallEnds == pc \notin {"idle", "spoiled"} ~> pc \in {"idle", "spoiled"}

HoldsLive(pg) == \E i \in DOMAIN pg.recs : pg.recs[i].st \in {"ACTIVE", "PARTIAL"}

\* NO_SPACE is answered only when the folder is full: a collection leaves no
\* page without a file that is in use or being written ("No pages available
\* for write after GC").
RefusedOnlyWhenFull ==
    [][ (pc = "back" /\ pc' \in {"retire", "idle"}) =>
            \A p \in 1 .. NPages : HoldsLive(pages[p]) ]_vars

\* A part is added to the parts written before it: a new space is searched for
\* only for the first part of a file, or the first since one was refused ("No
\* parts written before, search for a new space").
PartsAreContinued ==
    [][ (pc = "idle" /\ pc' = "find" /\ req'.op = "part") => req'.sent = 0 ]_vars

\* After the answer to the last part the file reads back as what was sent of it
\* since a part was last refused.
SentIsRead ==
    [][ (pc = "activate" /\ pc' = "idle") => Lookup(pages', req.id) = req.file ]_vars

\* After the answer to the last part the file reads back as the host meant it
\* (file_test_in_parts of the tool compares the two).
MeantIsRead ==
    [][ (pc = "activate" /\ pc' = "idle") => Lookup(pages', req.id) = Meant ]_vars

-----------------------------------------------------------------------------
(***************************************************************************)
(* SimpleFS implements FileStore.                                          *)
(***************************************************************************)
Unknown == <<Blank>>

\* Copies of files that the collection has made and not yet copied back.
InGcArea ==
    {a \in RecordsOf(gc) :
        /\ a[1] < scan.g \/ (a[1] = scan.g /\ scan.open)
        /\ pc = "back" => a[1] >= scan.bg}

\* During a collection a file is wherever its one ACTIVE record is.
Collected1(id) ==
    LET found == {At(pages, a) : a \in RecordsOf(pages)} \cup {At(gc, a) : a \in InGcArea}
        live  == {r \in found : r.id = id /\ r.st = "ACTIVE"}
    IN  IF live = {} THEN None
        ELSE IF Cardinality(live) = 1 THEN ReadRecord(CHOOSE r \in live : TRUE)
        ELSE Corrupt

\* The file being replaced is the old version until the call returns.
Replacing(id) ==
    /\ id = req.id
    /\ \/ req.op = "write" /\ pc \in {"data", "retire"} /\ tgt # NoAddr
       \/ req.op = "part" /\ pc = "activate"

Stored(id) ==
    CASE id \in suspect                    -> Unknown
      [] id \notin suspect /\ pc \in GcPcs -> Collected1(id)
      [] id \notin suspect /\ pc \notin GcPcs ->
            IF req # NoReq /\ Replacing(id)
            THEN IF old = NoAddr THEN None ELSE ReadRecord(At(pages, old))
            ELSE Lookup(pages, id)

Abs == INSTANCE FileStore WITH
    store <- [id \in Ids |-> Stored(id)],
    call  <- IF req = NoReq THEN [op |-> "none"]
             ELSE [op |-> req.op, id |-> req.id, file |-> req.file, last |-> ~MoreParts],
    reply <- CASE reply = "none" -> "none"
               [] reply = "no_space" -> "refused"
               [] reply = "driver_error" -> "failed"
               [] OTHER -> "stored"

\* The file system implements the store of files: through every program of a
\* write, through garbage collections, clean restarts and power failures, each
\* file a search and the CRC check yield is the one the last completed call
\* stored, and a call changes no file but its own.
ImplementsFileStore == Abs!Spec

\* A restart finds the files as they were: the memory is formatted only when
\* it does not hold the key "that identify formated memory".
RestartKeepsFiles ==
    [][ (pc = "down" /\ pc' = "idle") =>
            \A id \in Ids : Lookup(pages', id) = Lookup(pages, id) ]_vars
=============================================================================
