---------------------------- MODULE FlashDriver ----------------------------
(***************************************************************************)
(* ext_mem_driver.c over SpiTransfer, with the flash chip.                 *)
(*                                                                         *)
(* memory_access cuts a call at the chip's program pages; memory_erase at  *)
(* 64K and 4K blocks; each program or erase is three SPI calls or more:    *)
(* write enable, the command, and the status until the chip is not busy.   *)
(* ext_mem_init looks for the memory key and formats a memory without it.  *)
(*                                                                         *)
(* The chip, known from its commands only, clears or sets cells some time  *)
(* after it has taken a command, and takes no other command meanwhile but  *)
(* to read its status and to be reset.                                     *)
(***************************************************************************)
EXTENDS SpiTransfer, Integers, Sequences

CONSTANTS
    Size,       \* MEMORY_SIZE, in cells
    ProgLen,    \* MAX_PROGRAM_LEN
    PageLen,    \* MEM_PAGE_SIZE
    SectorLen,  \* MEM_SECTOR_SIZE
    Vals,       \* the contents of a cell that callers write
    Writes,     \* what callers write
    Key,        \* MEM_INIT_KEY, one cell
    Blank,      \* an erased cell
    Mixed,      \* a cell programmed twice, or cut short
    First,      \* the first address callers use: the key's page is kept out
    Lens,       \* the lengths callers read and erase
    FaultIn,    \* the jobs in which a transfer may be given up
    CrashIn     \* the jobs in which power may fail

ASSUME SizeAssumption ==
    /\ Size \in Nat \ {0} /\ ProgLen \in Nat \ {0} /\ PageLen \in Nat \ {0}
    /\ SectorLen \in Nat \ {0}
    /\ Size % PageLen = 0 /\ SectorLen % PageLen = 0
    /\ First \in 1 .. Size
    /\ Writes \subseteq Seq(Vals)
    /\ Lens \subseteq Nat

ASSUME ContentAssumption == Key # Blank /\ Mixed # Blank

VARIABLES
    mem,    \* chip: the cells
    wel,    \* chip: write enable latch
    job,    \* chip: the cells being changed, and to what
    step,   \* the SPI call the driver makes or makes next
    op,     \* the call in progress: arguments, progress, what comes after it
    rx,     \* what the receive buffer of the SPI call holds
    reply,  \* the answer to the last call
    late    \* history: the call in progress began before chip and bus were at rest

chip   == <<mem, wel, job>>
driver == <<step, op, reply, late>>
vars   == <<spiVars, chip, driver, rx>>

Cells  == 0 .. Size - 1
Values == Vals \cup {Key, Blank, Mixed}

Steps == {"ready", "wren", "send", "poll", "rsten", "rst", "down"}

NoJob == <<>>
Idle  == job = NoJob

\* then: what follows, the answer to the caller, the look at the key, the key
\* of a formatted memory, or nothing.
NoOp      == [kind |-> "none", from |-> 0, data |-> <<>>, n |-> 0, got |-> <<>>, then |-> "caller"]
Op(kind, from, data, then) ==
    [kind |-> kind, from |-> from, data |-> data, n |-> 0, got |-> <<>>, then |-> then]

Blanks(n) == [i \in 1 .. n |-> Blank]
KeyRead   == Op("read", 0, <<Blank>>, "key")
KeyWrite  == Op("write", 0, <<Key>>, "nothing")
FormatAll == Op("erase", 0, Blanks(Size), "format")

NoReply == [result |-> "none", data |-> <<>>]
Answer(r, data) == [result |-> r, data |-> data]

\* Power on, with a new chip.
Init ==
    /\ SpiInit
    /\ mem = [c \in Cells |-> Blank]
    /\ wel = FALSE
    /\ job = NoJob
    /\ step = "down"
    /\ op = NoOp
    /\ rx = <<>>
    /\ reply = NoReply
    /\ late = FALSE

-----------------------------------------------------------------------------
(***************************************************************************)
(* The pieces of a call.                                                   *)
(***************************************************************************)
At(o)   == o.from + o.n
Left(o) == Len(o.data) - o.n
Smaller(x, y) == IF x < y THEN x ELSE y

EraseLen(o) == IF Left(o) >= SectorLen /\ At(o) % SectorLen = 0 THEN SectorLen ELSE PageLen

\* Mutant of ChunkLen: a program runs over the end of its page.
ChunkAcross(o) == IF o.kind = "erase" THEN EraseLen(o) ELSE Smaller(ProgLen, Left(o))

ChunkLen(o) ==
    IF o.kind = "erase" THEN EraseLen(o) ELSE Smaller(ProgLen - (At(o) % ProgLen), Left(o))

\* Mutant of Misaligned: the size that is left is not looked at.
MisalignedStart(o) == o.kind = "erase" /\ At(o) % PageLen # 0

Misaligned(o) == o.kind = "erase" /\ (At(o) % PageLen # 0 \/ Left(o) < PageLen)

FirstStep(o) == IF o.kind = "read" THEN "send" ELSE "wren"

\* Mutant of Progress: the erase does not move on.
ProgressStuck(o) ==
    [o EXCEPT !.n = IF o.kind = "erase" THEN @ ELSE @ + ChunkLen(o),
              !.got = IF o.kind = "read" THEN @ \o rx ELSE @]

\* After the SPI calls of a piece; a read has copied what it received.
Progress(o) ==
    [o EXCEPT !.n = @ + ChunkLen(o),
              !.got = IF o.kind = "read" THEN @ \o rx ELSE @]

Goes(s, o) == step' = s /\ op' = o

\* Mutant of LooksAtKey: any memory that is not blank is formatted.
LooksForBlank(key) ==
    \/ key = Blank /\ Goes("wren", KeyWrite)
    \/ key # Blank /\ Goes("wren", FormatAll)

\* ext_mem_init: key is what mem_key holds after the read.
LooksAtKey(key) ==
    \/ key = Key /\ Goes("ready", NoOp)
    \/ key = Blank /\ Goes("wren", KeyWrite)
    \/ key \notin {Key, Blank} /\ Goes("wren", FormatAll)

\* memory_access or memory_erase is at its end, with r.  memory_erase_chip and
\* ext_mem_init do not look at r: mem_key may then hold anything.
Ended(o, r) ==
    CASE o.then = "caller"  -> Goes("ready", NoOp) /\ reply' = Answer(r, IF r = "success" THEN o.got ELSE <<>>)
      [] o.then = "nothing" -> Goes("ready", NoOp) /\ UNCHANGED reply
      [] o.then = "format"  -> Goes("wren", KeyWrite) /\ UNCHANGED reply
      [] o.then = "key"     ->
            /\ \E key \in IF r = "success" THEN {o.got[1]} ELSE {Key, Blank, Mixed} : LooksAtKey(key)
            /\ UNCHANGED reply

\* The head of the loops over the pieces.
Iterate(o) ==
    CASE Left(o) = 0                    -> Ended(o, "success")
      [] Left(o) # 0 /\ Misaligned(o)   -> Ended(o, "invalid")
      [] Left(o) # 0 /\ ~Misaligned(o)  -> Goes(FirstStep(o), o) /\ UNCHANGED reply

-----------------------------------------------------------------------------
(***************************************************************************)
(* The callers: the file systems and the raw memory commands, one call at  *)
(* a time.  Nothing looks whether the chip still works at a call that was  *)
(* given up, or whether a transfer that was given up has ended.            *)
(***************************************************************************)
\* A call does not survive a transfer refused; a format goes on all the same.
TooEarly(o) == ~Idle \/ (o.then = "format" /\ transfer # "none")

Call(o) ==
    /\ step = "ready"
    /\ CASE o.from + Len(o.data) > Size -> reply' = Answer("data_size", <<>>) /\ UNCHANGED <<step, op>>
         [] o.from + Len(o.data) <= Size /\ Misaligned(o) ->
                reply' = Answer("invalid", <<>>) /\ UNCHANGED <<step, op>>
         [] o.from + Len(o.data) <= Size /\ ~Misaligned(o) ->
                Goes(FirstStep(o), o) /\ reply' = NoReply
    /\ late' = (step' # "ready" /\ TooEarly(o))
    /\ UNCHANGED <<spiVars, chip, rx>>

CallWrite == \E a \in First .. Size - 1, d \in Writes : Call(Op("write", a, d, "caller"))
CallRead  == \E a \in First .. Size - 1, n \in Lens : Call(Op("read", a, Blanks(n), "caller"))
CallErase == \E a \in First .. Size - 1, n \in Lens :
                 a + n <= Size /\ Call(Op("erase", a, Blanks(n), "caller"))

\* memory_erase_chip returns nothing.
EraseChip == Call(FormatAll)

-----------------------------------------------------------------------------
(***************************************************************************)
(* The chip.                                                               *)
(***************************************************************************)
\* Programming clears bits.
ProgramCell(old, new) == CASE old \in {Blank, new} -> new [] OTHER -> Mixed

\* A program goes round inside its page of ProgLen cells.
CellOf(a, i) == (a - (a % ProgLen)) + (((a % ProgLen) + i - 1) % ProgLen)

\* The change that the first k cells of the command ask for.
ProgramJob(k) ==
    [c \in {CellOf(At(op), i) : i \in 1 .. k} |->
        LET last == CHOOSE i \in 1 .. k : CellOf(At(op), i) = c
                        /\ \A j \in i + 1 .. k : CellOf(At(op), j) # c
        IN  ProgramCell(mem[c], op.data[op.n + last])]

EraseJob == [c \in At(op) .. At(op) + ChunkLen(op) - 1 |-> Blank]

With(f) == [c \in Cells |-> IF c \in DOMAIN f THEN f[c] ELSE mem[c]]

\* What the chip was changing is left in any state.
Aborted ==
    \E fate \in [DOMAIN job -> {"old", "new", "mixed"}] :
        mem' = [c \in Cells |->
            IF c \notin DOMAIN job \/ fate[c] = "old" THEN mem[c]
            ELSE IF fate[c] = "new" THEN job[c] ELSE Mixed]

Enables == step = "wren" /\ Idle
Obeys   == step = "send" /\ op.kind # "read" /\ Idle /\ wel

\* A command taken whole; rx is what it answers.
TakesEnable ==
    /\ step = "wren"
    /\ wel' = (wel \/ Idle)
    /\ UNCHANGED <<mem, job, rx>>

TakesChange ==
    /\ step = "send" /\ op.kind # "read"
    /\ job' = IF ~Obeys THEN job
              ELSE IF op.kind = "erase" THEN EraseJob ELSE ProgramJob(ChunkLen(op))
    /\ UNCHANGED <<mem, wel, rx>>

TakesRead ==
    /\ step = "send" /\ op.kind = "read"
    /\ rx' = IF Idle THEN [i \in 1 .. ChunkLen(op) |-> mem[At(op) + i - 1]] ELSE rx
    /\ UNCHANGED chip

TakesStatus ==
    /\ step = "poll"
    /\ rx' = <<IF Idle THEN "idle" ELSE "busy">>
    /\ UNCHANGED chip

TakesReset ==
    /\ step \in {"rsten", "rst"}
    /\ IF step = "rst" THEN Aborted /\ wel' = FALSE /\ job' = NoJob ELSE UNCHANGED chip
    /\ UNCHANGED rx

\* A command cut by the chip select going up: taken if it was all there, a
\* program also if its first cells were, else ignored.
CommandCut ==
    \/ UNCHANGED chip
    \/ Enables /\ wel' = TRUE /\ UNCHANGED <<mem, job>>
    \/ Obeys /\ op.kind = "erase" /\ job' = EraseJob /\ UNCHANGED <<mem, wel>>
    \/ Obeys /\ op.kind = "write"
             /\ \E k \in 1 .. ChunkLen(op) : job' = ProgramJob(k)
             /\ UNCHANGED <<mem, wel>>

ChipReady ==
    /\ job # NoJob
    /\ mem' = With(job)
    /\ job' = NoJob
    /\ wel' = FALSE
    /\ UNCHANGED <<spiVars, driver, rx>>

-----------------------------------------------------------------------------
(***************************************************************************)
(* spi_transfer: spi_txrx between the edges of the chip select.            *)
(***************************************************************************)
\* The receive buffers are blank at first, but for the polls' common one.
TransferBegins ==
    /\ step \notin {"ready", "down"}
    /\ Begin
    /\ rx' = CASE step = "poll" -> rx
               [] step = "send" /\ op.kind = "read" -> [i \in 1 .. ChunkLen(op) |-> Mixed]
               [] OTHER -> <<>>
    /\ UNCHANGED <<chip, driver>>

TransferStarts == Start /\ UNCHANGED <<chip, driver, rx>>

TransferEnds ==
    /\ Ends
    /\ TakesEnable \/ TakesChange \/ TakesRead \/ TakesStatus \/ TakesReset
    /\ UNCHANGED driver

\* One that was given up: its chip select is up, the chip has forgotten it.
LateEnd == EndsLate /\ UNCHANGED <<chip, driver, rx>>

\* FaultIn bounds the transfers given up; a transfer refused has nothing but the
\* timer to wait for.
TimerExpires ==
    /\ op.then \in FaultIn \/ (spi = "wait" /\ err = "busy")
    /\ Expires
    /\ UNCHANGED <<chip, driver, rx>>

LoopIsLeft == LeaveLoop /\ UNCHANGED <<chip, driver, rx>>

\* Mutant of Continue: a write is not waited for.
ContinueAtOnce(r) ==
    CASE step = "wren" /\ r = "success" -> Goes("send", op) /\ UNCHANGED <<reply, rx>>
      [] step = "send" /\ r = "success" /\ op.kind # "erase" -> Iterate(Progress(op)) /\ UNCHANGED rx
      [] step = "send" /\ r = "success" /\ op.kind = "erase" ->
            Goes("poll", op) /\ rx' = <<"idle">> /\ UNCHANGED reply
      [] step = "poll" /\ r = "success" ->
            (IF rx = <<"busy">> THEN Goes("poll", op) /\ UNCHANGED reply ELSE Iterate(Progress(op)))
            /\ UNCHANGED rx
      [] step \in {"wren", "send", "poll"} /\ r # "success" -> Ended(op, r) /\ UNCHANGED rx
      [] step \in {"rsten", "rst"} -> Goes("send", op) /\ UNCHANGED <<reply, rx>>

\* The driver goes on with the result r.
Continue(r) ==
    CASE step = "wren" /\ r = "success" -> Goes("send", op) /\ UNCHANGED <<reply, rx>>
      [] step = "send" /\ r = "success" /\ op.kind = "read" -> Iterate(Progress(op)) /\ UNCHANGED rx
      [] step = "send" /\ r = "success" /\ op.kind # "read" ->
            Goes("poll", op) /\ rx' = <<"idle">> /\ UNCHANGED reply
      [] step = "poll" /\ r = "success" ->
            (IF rx = <<"busy">> THEN Goes("poll", op) /\ UNCHANGED reply ELSE Iterate(Progress(op)))
            /\ UNCHANGED rx
      [] step \in {"wren", "send", "poll"} /\ r # "success" -> Ended(op, r) /\ UNCHANGED rx
      [] step = "rsten" /\ r = "success" -> Goes("rst", op) /\ UNCHANGED <<reply, rx>>
      [] step = "rst" \/ (step = "rsten" /\ r # "success") -> Goes("send", op) /\ UNCHANGED <<reply, rx>>

TransferReturns ==
    /\ Finish
    /\ Continue(Result)
    /\ late' = (late /\ step' # "ready")
    /\ IF transfer = "mine" THEN CommandCut ELSE UNCHANGED chip

-----------------------------------------------------------------------------
(***************************************************************************)
(* Power failures, resets of the processor, start-up.                      *)
(***************************************************************************)
Restarts ==
    /\ Reset
    /\ step' = "down" /\ op' = NoOp /\ rx' = <<>> /\ reply' = NoReply /\ late' = FALSE

Running == step # "down" /\ op.then \in CrashIn

PowerFails ==
    /\ Running
    /\ Restarts
    /\ Aborted
    /\ wel' = FALSE /\ job' = NoJob

\* The chip keeps its power and goes on with what it was doing.
ProcessorResets ==
    /\ Running
    /\ Restarts
    /\ IF transfer = "mine" THEN CommandCut ELSE UNCHANGED chip

\* ext_mem_init: soft reset, read the key.
Boot ==
    /\ step = "down"
    /\ Goes("rsten", KeyRead)
    /\ UNCHANGED <<spiVars, chip, rx, reply, late>>

-----------------------------------------------------------------------------
Command == CallWrite \/ CallRead \/ CallErase \/ EraseChip

MainProgram == Boot \/ TransferBegins \/ TransferStarts \/ LoopIsLeft \/ TransferReturns

Interrupt == TransferEnds \/ TimerExpires

Next ==
    \/ Command \/ MainProgram \/ Interrupt \/ LateEnd
    \/ ChipReady \/ PowerFails \/ ProcessorResets

Spec == Init /\ [][Next]_vars

\* The processor runs on, a transfer ends or its timer expires, and the chip
\* comes to an end.
FairSpec ==
    /\ Spec
    /\ WF_vars(MainProgram)
    /\ WF_vars(Interrupt)
    /\ WF_vars(ChipReady)
=============================================================================
