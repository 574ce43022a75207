------------------------------ MODULE SfsPages ------------------------------
(***************************************************************************)
(* The flash data structure of simple_fs.c: a folder is a row of pages, a  *)
(* page is a status byte followed by file records laid end to end, and the *)
(* byte after the last record is either blank (NEW_FILE, the terminator of *)
(* every walk) or END_PAGE.  Bits are only cleared between two erases, so  *)
(* every status moves one way and data is ANDed into what is there.        *)
(*                                                                         *)
(* A record is addressed by <<page, index>>; the code's byte address is    *)
(* the page's start plus the record's off.  One folder is modelled.        *)
(***************************************************************************)
EXTENDS Integers, Sequences, FiniteSets

CONSTANTS
    Ids,        \* file identifiers of the folder
    Files,      \* contents a caller may ask for, sequences of flash cells
    Vals,       \* the values a programmed cell may hold
    Blank,      \* an erased cell (all ones)
    Mixed,      \* a cell into which two different values were programmed
    NPages,     \* pages of the folder, folder_len / page_len
    GPages,     \* folder-sized pages of the GC area, gc_len / page_len
    PageLen,    \* page_len, in cells
    HdrLen      \* sizeof(sfs_file_header_t), in cells

ASSUME SizesAssumption ==
    /\ NPages \in Nat \ {0}
    /\ GPages \in Nat \ {0}
    /\ HdrLen \in Nat \ {0}
    /\ PageLen \in Nat
    /\ PageLen > HdrLen + 1

ASSUME FilesAssumption ==
    /\ Files \subseteq Seq(Vals)
    /\ <<>> \notin Files
    /\ \A f \in Files : \A k \in 1 .. Len(f) - 1 : SubSeq(f, k + 1, Len(f)) \in Files

ASSUME CellsAssumption ==
    /\ Blank \notin Vals /\ Mixed \notin Vals
    /\ Blank # Mixed

(***************************************************************************)
(* Types.  NEW is 0xFF, and each later status clears further bits.         *)
(***************************************************************************)
PageStatus == {"NEW", "ACTIVE", "OLD", "OBSOLETE"}
FileStatus == {"PARTIAL", "ACTIVE", "OLD"}
Cells      == Vals \cup {Blank, Mixed}

\* off: cells between the page's start and the record's header.
\* crc: the contents the CRC was computed over; <<>> is the value 0xFFFF of
\* a file written in parts, which a read does not check.
Record ==
    [st : FileStatus, id : Ids, off : Nat, data : Seq(Cells), crc : Seq(Vals)]

Page == [st : PageStatus, recs : Seq(Record), end : BOOLEAN]

BlankPage == [st |-> "NEW", recs |-> <<>>, end |-> FALSE]

NoAddr == <<0, 0>>
Addr   == (Nat \X Nat)

(***************************************************************************)
(* Space in a page.                                                        *)
(***************************************************************************)
RecLen(r) == HdrLen + Len(r.data)

\* Cells of the page in use: the place where a walk of its records stops.
Top(pg) ==
    IF pg.recs = <<>> THEN 1
    ELSE pg.recs[Len(pg.recs)].off + RecLen(pg.recs[Len(pg.recs)])

\* Mutant of Room: the cell of END_PAGE is forgotten.
RoomNoEndMark(pg, n) == PageLen - Top(pg) >= n + HdrLen

\* A new file needs its header, its data and one cell more for END_PAGE.
Room(pg, n) == PageLen - Top(pg) >= n + HdrLen + 1

\* A GC page takes a record when the next free address is still inside it.
GcRoom(pg, opened, r) == (IF opened THEN Top(pg) ELSE 0) + RecLen(r) < PageLen

\* No walk comes to a cell an erase cut short has left: they all lie behind
\* the cell at which the walk of their page ends.
BlankAhead(pgs, stale) == \A p \in DOMAIN pgs : \A c \in stale[p] : c > Top(pgs[p])

(***************************************************************************)
(* Programming cells.                                                      *)
(***************************************************************************)
Program(old, new) ==
    CASE old = Blank -> new
      [] old = new   -> old
      [] OTHER       -> Mixed

\* The cells data with d programmed into them from cell s + 1 on.
ProgramAt(data, s, d) ==
    [k \in DOMAIN data |->
        IF k > s /\ k <= s + Len(d) THEN Program(data[k], d[k - s]) ELSE data[k]]

SetStatus(pgs, a, st) == [pgs EXCEPT ![a[1]].recs[a[2]].st = st]

Blanks(n) == [k \in 1 .. n |-> Blank]

(***************************************************************************)
(* The walk of sfs_search.  It reads page after page, skips the OBSOLETE   *)
(* ones, and stops at the first blank header.                              *)
(***************************************************************************)
\* The walk of this page ends at a blank header, and the search with it.
Terminated(pg) == pg.st # "OBSOLETE" /\ ~pg.end

Reached(pgs, p) == \A q \in 1 .. p - 1 : ~Terminated(pgs[q])

RecordsOf(pgs) == UNION {{p} \X DOMAIN pgs[p].recs : p \in DOMAIN pgs}

At(pgs, a) == pgs[a[1]].recs[a[2]]

Visible(pgs) ==
    {a \in RecordsOf(pgs) : pgs[a[1]].st # "OBSOLETE" /\ Reached(pgs, a[1])}

Before(a, b) == a[1] < b[1] \/ (a[1] = b[1] /\ a[2] < b[2])

\* a is the member of S the walk meets first, or last.
IsFirst(a, S) == a \in S /\ \A b \in S : a = b \/ Before(a, b)
IsLast(a, S)  == a \in S /\ \A b \in S : a = b \/ Before(b, a)

FirstOf(S) ==
    IF \E a \in S : IsFirst(a, S) THEN CHOOSE a \in S : IsFirst(a, S) ELSE NoAddr

LastOf(S) ==
    IF \E a \in S : IsLast(a, S) THEN CHOOSE a \in S : IsLast(a, S) ELSE NoAddr

\* SFS_SEARCH_FILE_ID (st = "ACTIVE") and SFS_SEARCH_PARTIAL_FILE_ID.
Search(pgs, id, st) ==
    FirstOf({a \in Visible(pgs) : At(pgs, a).id = id /\ At(pgs, a).st = st})

HasActive(pg) == \E i \in DOMAIN pg.recs : pg.recs[i].st = "ACTIVE"

\* Mutant of Sweep: the ACTIVE files met on the way are not counted.
SweepAll(pgs, a) ==
    [p \in DOMAIN pgs |->
        IF Reached(pgs, p) /\ pgs[p].end /\ (a = NoAddr \/ p < a[1])
        THEN [pgs[p] EXCEPT !.st = "OBSOLETE"]
        ELSE pgs[p]]

\* A page walked to its END_PAGE without meeting an ACTIVE file is marked
\* OBSOLETE on the way.  A walk that stops at record a leaves a's page alone.
Sweep(pgs, a) ==
    [p \in DOMAIN pgs |->
        IF /\ Reached(pgs, p) /\ pgs[p].end
           /\ ~HasActive(pgs[p])
           /\ a = NoAddr \/ p < a[1]
        THEN [pgs[p] EXCEPT !.st = "OBSOLETE"]
        ELSE pgs[p]]

\* SFS_SEARCH_LAST_FILE_ADDR: the last ACTIVE file of the last page walked.
LastAddr(pgs) ==
    LET walked == {p \in DOMAIN pgs : pgs[p].st # "OBSOLETE" /\ Reached(pgs, p)}
    IN  LastOf({a \in Visible(pgs) :
                   /\ At(pgs, a).st = "ACTIVE"
                   /\ \A q \in walked : q <= a[1]})

FreshPages(pgs) == {p \in DOMAIN pgs : pgs[p].st = "NEW"}

(***************************************************************************)
(* What sfs_read_file returns.                                             *)
(***************************************************************************)
None    == <<>>
\* A contents that is nobody's: sfs_read_file_data answers CRC_ERROR.
Corrupt == <<Mixed>>

ReadRecord(r) == IF r.crc = <<>> \/ r.crc = r.data THEN r.data ELSE Corrupt

Lookup(pgs, id) ==
    LET a == Search(pgs, id, "ACTIVE")
    IN  IF a = NoAddr THEN None ELSE ReadRecord(At(pgs, a))

(***************************************************************************)
(* What a page has to be for the walks to make sense of it.                *)
(***************************************************************************)
\* Records are laid end to end from the cell after the status byte.
Contiguous(pg) ==
    \A i \in DOMAIN pg.recs :
        pg.recs[i].off = IF i = 1 THEN 1
                         ELSE pg.recs[i - 1].off + RecLen(pg.recs[i - 1])

\* Every record, and after it the cell of END_PAGE (or of the blank header
\* that stops a walk), is inside the page.
StaysInside(pg) ==
    \A i \in DOMAIN pg.recs :
        1 <= pg.recs[i].off /\ pg.recs[i].off + RecLen(pg.recs[i]) < PageLen

\* END_PAGE is found only where no free space will be looked for, and a page
\* that was never begun holds nothing.
MarksAgree(pg) ==
    /\ pg.end => pg.st \in {"OLD", "OBSOLETE"}
    /\ pg.st = "NEW" => pg.recs = <<>>

WellFormed(pg) == Contiguous(pg) /\ StaysInside(pg) /\ MarksAgree(pg)
=============================================================================
