------------------------- MODULE FlashMemoryProofs -------------------------
(***************************************************************************)
(* Proofs about the SPI transfers, alone and under the flash driver, and   *)
(* about the driver and its chip.                                          *)
(*                                                                         *)
(* SpiInv says what the flags mean at each point of spi_txrx: done tells   *)
(* of this call's transfer only when nrfx_spim_xfer has accepted it, and   *)
(* only because no transfer given up earlier ends between the clearing of  *)
(* the flag and the start of the new transfer (NoneBetween).               *)
(*                                                                         *)
(* TypeInv is what the driver's call, its step and the chip's job can be,  *)
(* whatever fails.  DriverOK adds, if no transfer is given up outside of   *)
(* the callers' own calls and power does not fail in a format, when the    *)
(* chip is at rest and enabled, what of the call is already in the cells,  *)
(* and what the memory key says of the rest of the memory.  It does not    *)
(* hold of a call that began while the chip was still at a call before it: *)
(* of such a call LateOK says how much is known, that the key stays in its *)
(* cell, until the call ends or a format it is in gets at the key.         *)
(***************************************************************************)
EXTENDS FlashDriverProps, TLAPS

(***************************************************************************)
(* The SPI transfers.                                                      *)
(***************************************************************************)
NoneBetween == "armed" \notin LatePcs

SpiTypes ==
    /\ spi \in SpiPcs
    /\ done \in BOOLEAN /\ timeout \in BOOLEAN /\ timer \in BOOLEAN
    /\ transfer \in {"none", "mine", "earlier"}
    /\ err \in {"success", "busy"}

Quiet   == spi = "out" => ~timer /\ ~timeout /\ transfer # "mine"
Cleared == spi = "armed" => ~done /\ transfer # "mine"
Timed   == spi \in {"armed", "wait"} => timer \/ timeout
Refused == spi \in {"wait", "left"} /\ err = "busy" => transfer # "mine"
Started == spi \in {"wait", "left"} /\ err = "success"
              => transfer # "earlier" /\ (done <=> transfer = "none")
LoopEnded == spi = "left" => done \/ timeout

SpiInv == SpiTypes /\ Quiet /\ Cleared /\ Timed /\ Refused /\ Started /\ LoopEnded

LEMMA SpiInitInv == SpiInit => SpiInv
  BY DEF SpiInit, SpiInv, SpiTypes, SpiPcs, Quiet, Cleared, Timed, Refused, Started, LoopEnded

LEMMA SpiStepInv ==
  ASSUME NoneBetween, SpiInv, [SpiNext]_spiVars
  PROVE  SpiInv'
<1> USE DEF SpiInv, SpiTypes, SpiPcs, Quiet, Cleared, Timed, Refused, Started, LoopEnded
<1>1. CASE Begin
  BY <1>1 DEF Begin
<1>2. CASE Start
  BY <1>2 DEF Start
<1>3. CASE Ends
  BY <1>3 DEF Ends
<1>4. CASE EndsLate
  BY <1>4 DEF EndsLate, NoneBetween
<1>5. CASE Expires
  BY <1>5 DEF Expires
<1>6. CASE LeaveLoop
  BY <1>6 DEF LeaveLoop
<1>7. CASE Finish
  BY <1>7 DEF Finish
<1>8. CASE Reset
  BY <1>8 DEF Reset
<1>9. CASE UNCHANGED spiVars
  BY <1>9 DEF spiVars
<1>10. QED
  BY <1>1, <1>2, <1>3, <1>4, <1>5, <1>6, <1>7, <1>8, <1>9 DEF SpiNext

LEMMA SpiInvImplies == SpiInv => OwnResult /\ WaitIsTimed
  BY DEF SpiInv, SpiTypes, Quiet, Timed, Started, LoopEnded, OwnResult, WaitIsTimed, Result

\* Whoever calls spi_txrx, and whenever the two interrupts come, the flags of
\* spi.c mean what SpiInv says.
THEOREM SpiInvariance ==
  ASSUME NoneBetween
  PROVE  SpiSpec => []SpiInv
<1>1. SpiInit => SpiInv
  BY SpiInitInv
<1>2. SpiInv /\ [SpiNext]_spiVars => SpiInv'
  BY SpiStepInv
<1>3. QED
  BY <1>1, <1>2, PTL DEF SpiSpec

LEMMA DriverStepsAreSpi ==
  ASSUME [Next]_vars
  PROVE  [SpiNext]_spiVars
<1> USE DEF SpiNext
<1>1. ASSUME Command PROVE UNCHANGED spiVars
  BY <1>1 DEF Command, CallWrite, CallRead, CallErase, EraseChip, Call
<1>2. ASSUME MainProgram PROVE [SpiNext]_spiVars
  BY <1>2 DEF MainProgram, Boot, TransferBegins, TransferStarts, LoopIsLeft, TransferReturns
<1>3. ASSUME Interrupt PROVE SpiNext
  BY <1>3 DEF Interrupt, TransferEnds, TimerExpires
<1>4. ASSUME LateEnd PROVE SpiNext
  BY <1>4 DEF LateEnd
<1>5. ASSUME ChipReady PROVE UNCHANGED spiVars
  BY <1>5 DEF ChipReady
<1>6. ASSUME PowerFails \/ ProcessorResets PROVE SpiNext
  BY <1>6 DEF PowerFails, ProcessorResets, Restarts
<1>7. ASSUME UNCHANGED vars PROVE UNCHANGED spiVars
  BY <1>7 DEF vars, spiVars
<1>8. QED
  BY <1>1, <1>2, <1>3, <1>4, <1>5, <1>6, <1>7 DEF Next

\* The driver uses the transfers as SpiTransfer allows it: whatever it does to
\* the flags, the timer and the peripheral is a step of SpiTransfer.
THEOREM DriverKeepsToSpi == Spec => SpiSpec
<1>1. Init => SpiInit
  BY DEF Init
<1>2. [Next]_vars => [SpiNext]_spiVars
  BY DriverStepsAreSpi
<1>3. QED
  BY <1>1, <1>2, PTL DEF Spec, SpiSpec

\* A call of spi_txrx that returns success returns the result of its own
\* transfer, under the driver and for every size of memory and set of callers.
THEOREM ResultsAreOwn ==
  ASSUME NoneBetween
  PROVE  Spec => []OwnResult
<1>1. SpiInv => OwnResult
  BY SpiInvImplies
<1>2. QED
  BY <1>1, SpiInvariance, DriverKeepsToSpi, PTL

\* A wait always has a timer that ends it, and no expiry outlives its call.
THEOREM WaitsAreTimed ==
  ASSUME NoneBetween
  PROVE  Spec => []WaitIsTimed
<1>1. SpiInv => WaitIsTimed
  BY SpiInvImplies
<1>2. QED
  BY <1>1, SpiInvariance, DriverKeepsToSpi, PTL

-----------------------------------------------------------------------------
(***************************************************************************)
(* The driver's call and the chip.                                         *)
(***************************************************************************)
Kinds == {"none", "read", "write", "erase"}
Thens == {"caller", "nothing", "format", "key"}

Ops == [kind : Kinds, from : Nat, data : Seq(Values), n : Nat, got : Seq(Values), then : Thens]

\* A call as the loops over its pieces see it ...
Shape(o) ==
    /\ o \in Ops
    /\ o.from + Len(o.data) <= Size
    /\ o.n <= Len(o.data)
    /\ o.then = "key" => o.kind = "read" /\ o.from = 0 /\ o.data = <<Blank>>
    /\ o.then = "nothing" => o.kind = "write" /\ o.from = 0 /\ o.data = <<Key>>
    /\ o.then = "format" => o.kind = "erase" /\ o.from = 0 /\ o.data = Blanks(Size) /\ o.n % PageLen = 0
    /\ o.then = "caller" /\ o.kind # "none" => First <= o.from
    /\ o.kind # "read" => o.got = <<>>

\* ... and as the SPI calls of a piece see it.
OpOK(o) ==
    /\ Shape(o)
    /\ ~Misaligned(o)
    /\ o.then \in {"key", "nothing"} => o.n = 0 /\ o.got = <<>>

StepOK(s, o) ==
    /\ s \in Steps
    /\ s \in {"ready", "down"} => o = NoOp
    /\ s \in {"rsten", "rst"} => o = KeyRead
    /\ s = "send" => o.kind # "none"
    /\ s \in {"wren", "poll"} => o.kind \in {"write", "erase"}

Received ==
    /\ step = "poll" => rx \in {<<"idle">>, <<"busy">>}
    /\ step = "send" /\ op.kind = "read" /\ spi # "out" => rx \in [1 .. ChunkLen(op) -> Values]

ChipTypes ==
    /\ mem \in [Cells -> Values]
    /\ wel \in BOOLEAN
    /\ DOMAIN job \subseteq Cells /\ \A c \in DOMAIN job : job[c] \in Values
    /\ job = [c \in DOMAIN job |-> job[c]]

Outside == step \in {"ready", "down"} => spi = "out"

TypeInv == SpiTypes /\ ChipTypes /\ OpOK(op) /\ StepOK(step, op) /\ Received /\ Outside

-----------------------------------------------------------------------------
\* The transfer of this call has ended, and the chip has the command.
Taken == spi \in {"wait", "left"} /\ err = "success" /\ transfer = "none"

\* Outside of the callers' calls no transfer is given up.
Faultless ==
    /\ step = "down" => transfer = "none"
    /\ op.then # "caller" =>
          ~timeout /\ transfer # "earlier" /\ (spi \in {"wait", "left"} => err = "success")

\* When the chip is at rest, and when it will obey.
Resting ==
    /\ step = "wren" => Idle /\ (Taken => wel)
    /\ step = "rst" /\ Taken => Idle
    /\ step = "send" /\ op.kind = "read" => Idle
    /\ step = "send" /\ op.kind # "read" /\ ~Taken => Idle /\ wel
    /\ step = "poll" /\ Taken /\ rx = <<"idle">> => Idle

\* How much of the call the chip has been given.
Sent == step = "poll" \/ (step = "send" /\ op.kind # "read" /\ Taken)
Reach == IF Sent THEN op.n + ChunkLen(op) ELSE op.n

JobInside ==
    step \in {"send", "poll"} => DOMAIN job \subseteq At(op) .. At(op) + ChunkLen(op) - 1

\* That much is in the cells, or will be when the chip is at rest.
Worked(o, reach, cells) ==
    /\ o.kind = "write" => \A i \in 1 .. reach :
          ProgramCell(cells[o.from + i - 1], o.data[i]) = cells[o.from + i - 1]
    /\ o.kind = "erase" => \A i \in 1 .. reach : cells[o.from + i - 1] = Blank
    /\ o.kind = "read" => Len(o.got) = reach /\ \A i \in 1 .. reach : o.got[i] = cells[o.from + i - 1]

\* What a read has received.
Copied == step = "send" /\ op.kind = "read" /\ Taken
             => rx = [i \in 1 .. ChunkLen(op) |-> mem[At(op) + i - 1]]

\* A format has come as far as the first cell, or it never begins with it.
KeySeen == mem[0] # Blank /\ (0 \in DOMAIN job => job[0] # Blank)
HasKey  == mem[0] = Key /\ 0 \notin DOMAIN job
KeyOnly == (\A c \in Cells \ {0} : mem[c] = Blank) /\ DOMAIN job \subseteq {0}

KeyOK ==
    /\ step # "down" /\ op.then = "caller" => HasKey
    /\ step = "down" \/ op.then = "key" => KeySeen \/ KeyOnly
    /\ op.then = "nothing" => KeyOnly /\ Effective[0] = IF Reach = 0 THEN Blank ELSE Key

NoAnswer == step = "down" \/ op.then = "key" => reply = NoReply

DriverOK ==
    Faultless /\ Resting /\ JobInside /\ Worked(op, Reach, Effective) /\ Copied /\ KeyOK /\ NoAnswer

DriverInv == TypeInv /\ SpiInv /\ DriverOK

\* What it needs besides NoneBetween.
FaultsInCalls         == FaultIn \subseteq {"caller"}
CrashesOutsideFormats == "format" \notin CrashIn

-----------------------------------------------------------------------------
(***************************************************************************)
(* Calls and their pieces.                                                 *)
(***************************************************************************)
LEMMA ModOfProduct ==
  ASSUME NEW p \in Nat \ {0}, NEW k \in Int
  PROVE  (p * k) % p = 0
  OBVIOUS

LEMMA Quotient ==
  ASSUME NEW p \in Nat \ {0}, NEW a \in Int, a % p = 0
  PROVE  a \div p \in Int /\ a = p * (a \div p)
  OBVIOUS

LEMMA ModAdd ==
  ASSUME NEW p \in Nat \ {0}, NEW a \in Int, NEW b \in Int, a % p = 0, b % p = 0
  PROVE  (a + b) % p = 0
<1>1. PICK i \in Int : a = p * i
  BY Quotient
<1>2. PICK j \in Int : b = p * j
  BY Quotient
<1>3. a + b = p * (i + j) /\ i + j \in Int
  BY <1>1, <1>2
<1>4. (p * (i + j)) % p = 0
  BY <1>3, ModOfProduct
<1>5. QED
  BY <1>3, <1>4

LEMMA ModPositive ==
  ASSUME NEW p \in Nat \ {0}, NEW a \in Nat \ {0}, a % p = 0
  PROVE  p <= a
  OBVIOUS

LEMMA BlankCells ==
  ASSUME NEW n \in Nat
  PROVE  Blanks(n) \in Seq(Values) /\ Len(Blanks(n)) = n
  BY DEF Blanks, Values

LEMMA FixedCalls ==
  /\ OpOK(NoOp) /\ OpOK(KeyRead) /\ OpOK(KeyWrite) /\ OpOK(FormatAll)
  /\ NoOp.kind = "none" /\ KeyRead.kind = "read" /\ KeyWrite.kind = "write" /\ FormatAll.kind = "erase"
<1> USE SizeAssumption DEF OpOK, Shape, Ops, Kinds, Thens, Misaligned, At, Left
<1>1. 0 % PageLen = 0 /\ PageLen <= Size
  BY ModPositive
<1>2. OpOK(NoOp) /\ NoOp.kind = "none"
  BY DEF NoOp
<1>3. OpOK(KeyRead) /\ KeyRead.kind = "read"
  BY DEF KeyRead, Op, Values
<1>4. OpOK(KeyWrite) /\ KeyWrite.kind = "write"
  BY DEF KeyWrite, Op, Values
<1>5. OpOK(FormatAll) /\ FormatAll.kind = "erase"
  <2> DEFINE b == Blanks(Size)
  <2>1. b \in Seq(Values) /\ Len(b) = Size
    BY BlankCells
  <2> HIDE DEF b
  <2>2. FormatAll = [kind |-> "erase", from |-> 0, data |-> b, n |-> 0, got |-> <<>>, then |-> "format"]
    BY DEF FormatAll, Op, b
  <2>3. QED
    BY <1>1, <2>1, <2>2 DEF b
<1>6. QED
  BY <1>2, <1>3, <1>4, <1>5

\* A piece lies inside its call; a program stays in its page of the chip.
LEMMA ChunkFits ==
  ASSUME NEW o, Shape(o), ~Misaligned(o), o.kind # "none"
  PROVE  /\ ChunkLen(o) \in Nat /\ o.n + ChunkLen(o) <= Len(o.data)
         /\ At(o) \in Nat /\ Left(o) \in Nat
         /\ o.kind # "erase" => (At(o) % ProgLen) + ChunkLen(o) <= ProgLen
         /\ o.kind # "erase" /\ o.n < Len(o.data) => ChunkLen(o) > 0
         /\ o.kind = "erase" => At(o) % PageLen = 0 /\ ChunkLen(o) % PageLen = 0 /\ ChunkLen(o) > 0
<1> USE SizeAssumption
<1>1. At(o) \in Nat /\ Left(o) \in Nat /\ o.n \in Nat /\ Len(o.data) \in Nat /\ Left(o) = Len(o.data) - o.n
  BY DEF Shape, Ops, At, Left
<1>2. CASE o.kind = "erase"
  <2>1. At(o) % PageLen = 0 /\ PageLen <= Left(o)
    BY <1>1, <1>2 DEF Misaligned
  <2>2. PageLen % PageLen = 0
    OBVIOUS
  <2>3. ChunkLen(o) = EraseLen(o)
    BY <1>2 DEF ChunkLen
  <2>4. \/ EraseLen(o) = PageLen
        \/ EraseLen(o) = SectorLen /\ SectorLen <= Left(o)
    BY DEF EraseLen
  <2>5. QED
    BY <1>1, <1>2, <2>1, <2>2, <2>3, <2>4
<1>3. CASE o.kind # "erase"
  <2> DEFINE m == At(o) % ProgLen
  <2>1. m \in 0 .. ProgLen - 1
    BY <1>1
  <2>2. ChunkLen(o) = IF ProgLen - m < Left(o) THEN ProgLen - m ELSE Left(o)
    BY <1>3 DEF ChunkLen, Smaller
  <2> HIDE DEF m
  <2>3. ChunkLen(o) \in Nat /\ m + ChunkLen(o) <= ProgLen /\ ChunkLen(o) <= Left(o)
        /\ (Left(o) > 0 => ChunkLen(o) > 0)
    BY <1>1, <2>1, <2>2
  <2>4. QED
    BY <1>1, <1>3, <2>3, SMTT(20) DEF m
<1>4. QED
  BY <1>2, <1>3

\* The key is one cell: one piece.
LEMMA KeyIsOnePiece ==
  ASSUME NEW o, OpOK(o), o.then \in {"key", "nothing"}
  PROVE  ChunkLen(o) = 1 /\ Len(o.data) = 1 /\ o.n = 0 /\ o.from = 0 /\ o.kind \in {"read", "write"}
         /\ o.got = <<>>
<1>1. Len(o.data) = 1 /\ o.n = 0 /\ o.from = 0 /\ o.kind \in {"read", "write"} /\ o.got = <<>>
  BY DEF OpOK, Shape
<1>2. At(o) = 0 /\ Left(o) = 1
  BY <1>1 DEF At, Left
<1>3. 0 % ProgLen = 0
  BY SizeAssumption
<1>4. QED
  BY <1>1, <1>2, <1>3, SizeAssumption DEF ChunkLen, Smaller

LEMMA ProgressShape ==
  ASSUME OpOK(op), op.kind # "none", op.kind = "read" => rx \in [1 .. ChunkLen(op) -> Values]
  PROVE  /\ Shape(Progress(op))
         /\ Progress(op).kind = op.kind /\ Progress(op).from = op.from
         /\ Progress(op).data = op.data /\ Progress(op).then = op.then
         /\ Progress(op).n = op.n + ChunkLen(op)
         /\ op.kind # "read" => Progress(op).got = op.got
         /\ op.kind = "read" => Progress(op).got = op.got \o rx
<1> DEFINE p == Progress(op)
           g == IF op.kind = "read" THEN op.got \o rx ELSE op.got
<1>1. op \in Ops /\ Shape(op) /\ ~Misaligned(op)
  BY DEF OpOK, Shape
<1>2. /\ ChunkLen(op) \in Nat /\ op.n + ChunkLen(op) <= Len(op.data) /\ op.n \in Nat
      /\ op.kind = "erase" => ChunkLen(op) % PageLen = 0
  BY <1>1, ChunkFits DEF Ops
<1>3. g \in Seq(Values)
  <2>1. op.got \in Seq(Values)
    BY <1>1 DEF Ops
  <2>2. op.kind = "read" => rx \in Seq(Values)
    BY <1>2
  <2>3. QED
    BY <2>1, <2>2
<1>4. p = [op EXCEPT !.n = op.n + ChunkLen(op), !.got = g]
  BY <1>1 DEF Progress, Ops
<1> HIDE DEF p
<1>5. /\ p \in Ops /\ p.kind = op.kind /\ p.from = op.from /\ p.data = op.data /\ p.then = op.then
      /\ p.n = op.n + ChunkLen(op) /\ p.got = g
  <2> HIDE DEF g
  <2> DEFINE m == op.n + ChunkLen(op)
  <2>1. m \in Nat
    BY <1>2
  <2>2. p = [op EXCEPT !.n = m, !.got = g]
    BY <1>4
  <2> HIDE DEF m
  <2>3. /\ p \in Ops /\ p.kind = op.kind /\ p.from = op.from /\ p.data = op.data /\ p.then = op.then
        /\ p.n = m /\ p.got = g
    BY <1>1, <1>3, <2>1, <2>2 DEF Ops
  <2>4. QED
    BY <2>3 DEF m
<1>6. op.then = "format" => p.n % PageLen = 0
  BY <1>1, <1>2, <1>5, ModAdd, SizeAssumption DEF Shape
<1>7. Shape(p)
  BY <1>1, <1>2, <1>5, <1>6 DEF Shape, g
<1>8. QED
  BY <1>5, <1>7 DEF p

LEMMA EndedTypes ==
  ASSUME NEW o, Shape(o), NEW r, Ended(o, r)
  PROVE  OpOK(op') /\ StepOK(step', op')
<1> USE FixedCalls DEF StepOK, Steps, Goes
<1>1. o.then \in Thens
  BY DEF Shape, Ops
<1>2. CASE o.then = "caller"
  BY <1>2 DEF Ended
<1>3. CASE o.then = "nothing"
  BY <1>3 DEF Ended
<1>4. CASE o.then = "format"
  BY <1>4 DEF Ended
<1>5. CASE o.then = "key"
  BY <1>5 DEF Ended, LooksAtKey
<1>6. QED
  BY <1>1, <1>2, <1>3, <1>4, <1>5 DEF Thens

LEMMA IterateTypes ==
  ASSUME NEW o, Shape(o), o.kind # "none", o.then \in {"key", "nothing"} => Left(o) = 0,
         Iterate(o)
  PROVE  OpOK(op') /\ StepOK(step', op')
<1>1. CASE Left(o) = 0 \/ Misaligned(o)
  <2>1. PICK r : Ended(o, r)
    BY <1>1 DEF Iterate
  <2>2. QED
    BY <2>1, EndedTypes
<1>2. CASE Left(o) # 0 /\ ~Misaligned(o)
  <2>1. step' = FirstStep(o) /\ op' = o
    BY <1>2 DEF Iterate, Goes
  <2>2. OpOK(o)
    BY <1>2 DEF OpOK
  <2>3. o.kind \in {"read", "write", "erase"}
    BY DEF Shape, Ops, Kinds
  <2>4. QED
    BY <2>1, <2>2, <2>3 DEF FirstStep, StepOK, Steps
<1>3. QED
  BY <1>1, <1>2

\* What the driver can do next, one case each.
GoesOn(r) ==
    \/ step = "wren" /\ r = "success" /\ Goes("send", op) /\ UNCHANGED <<reply, rx>>
    \/ step = "send" /\ op.kind = "read" /\ r = "success" /\ Iterate(Progress(op)) /\ UNCHANGED rx
    \/ step = "send" /\ op.kind # "read" /\ r = "success" /\ Goes("poll", op) /\ rx' = <<"idle">> /\ UNCHANGED reply
    \/ step = "poll" /\ r = "success" /\ rx = <<"busy">> /\ Goes("poll", op) /\ UNCHANGED <<reply, rx>>
    \/ step = "poll" /\ r = "success" /\ rx # <<"busy">> /\ Iterate(Progress(op)) /\ UNCHANGED rx
    \/ step \in {"wren", "send", "poll"} /\ r # "success" /\ Ended(op, r) /\ UNCHANGED rx
    \/ step = "rsten" /\ r = "success" /\ Goes("rst", op) /\ UNCHANGED <<reply, rx>>
    \/ (step = "rst" \/ (step = "rsten" /\ r # "success")) /\ Goes("send", op) /\ UNCHANGED <<reply, rx>>

LEMMA ContinueCases ==
  ASSUME TypeInv, spi = "left", NEW r, Continue(r)
  PROVE  GoesOn(r)
<1>1. step \in {"wren", "send", "poll", "rsten", "rst"}
  BY DEF TypeInv, Outside, StepOK, Steps
<1>2. CASE step = "wren"
  BY <1>2 DEF Continue, GoesOn
<1>3. CASE step = "send"
  BY <1>3 DEF Continue, GoesOn
<1>4. CASE step = "poll"
  BY <1>4 DEF Continue, GoesOn
<1>5. CASE step \in {"rsten", "rst"}
  BY <1>5 DEF Continue, GoesOn
<1>6. QED
  BY <1>1, <1>2, <1>3, <1>4, <1>5

LEMMA ContinueTypes ==
  ASSUME TypeInv, spi = "left", NEW r, Continue(r)
  PROVE  /\ OpOK(op') /\ StepOK(step', op')
         /\ step' = "poll" => rx' \in {<<"idle">>, <<"busy">>}
<1> USE DEF Goes
<1>1. GoesOn(r)
  BY ContinueCases
<1>2. OpOK(op) /\ StepOK(step, op) /\ Received /\ Shape(op)
  BY DEF TypeInv, OpOK
<1>3. ASSUME step \in {"send", "poll"}, step = "send" => op.kind = "read", Iterate(Progress(op))
      PROVE  OpOK(op') /\ StepOK(step', op') /\ step' # "poll"
  <2>1. op.kind # "none" /\ (op.kind = "read" => rx \in [1 .. ChunkLen(op) -> Values])
    BY <1>2, <1>3 DEF StepOK, Received
  <2>2. /\ Shape(Progress(op)) /\ Progress(op).kind = op.kind /\ Progress(op).then = op.then
        /\ Progress(op).n = op.n + ChunkLen(op) /\ Progress(op).data = op.data
    BY <1>2, <2>1, ProgressShape
  <2>3. op.then \in {"key", "nothing"} => Left(Progress(op)) = 0
    <3> HAVE op.then \in {"key", "nothing"}
    <3>1. ChunkLen(op) = 1 /\ Len(op.data) = 1 /\ op.n = 0
      BY <1>2, KeyIsOnePiece
    <3>2. Left(Progress(op)) = Len(Progress(op).data) - Progress(op).n
      BY DEF Left
    <3>3. Progress(op).n = 1
      BY <2>2, <3>1
    <3>4. Len(Progress(op).data) = 1
      BY <2>2, <3>1
    <3>5. QED
      BY <3>2, <3>3, <3>4
  <2>4. OpOK(op') /\ StepOK(step', op')
    BY <1>3, <2>1, <2>2, <2>3, IterateTypes
  <2>5. step' # "poll"
    <3> USE <2>2 DEF Iterate, FirstStep, Ended, LooksAtKey, Shape, Ops, Thens
    <3> QED
      BY <1>3
  <2>6. QED
    BY <2>4, <2>5
<1>4. ASSUME Ended(op, r)
      PROVE  OpOK(op') /\ StepOK(step', op') /\ step' # "poll"
  <2>1. step' # "poll"
    BY <1>2, <1>4 DEF Ended, LooksAtKey, Shape, Ops, Thens
  <2>2. QED
    BY <1>2, <1>4, <2>1, EndedTypes
<1>5. CASE step = "wren"
  BY <1>1, <1>2, <1>4, <1>5 DEF GoesOn, StepOK, Steps
<1>6. CASE step = "send"
  <2>1. op.kind \in {"read", "write", "erase"}
    BY <1>2, <1>6 DEF StepOK, Shape, Ops, Kinds
  <2>2. QED
    BY <1>1, <1>2, <1>3, <1>4, <1>6, <2>1 DEF GoesOn, StepOK, Steps
<1>7. CASE step = "poll"
  BY <1>1, <1>2, <1>3, <1>4, <1>7 DEF GoesOn, StepOK, Steps, Received
<1>8. CASE step \in {"rsten", "rst"}
  BY <1>1, <1>2, <1>8, FixedCalls DEF GoesOn, StepOK, Steps
<1>9. QED
  BY <1>1, <1>5, <1>6, <1>7, <1>8 DEF GoesOn

-----------------------------------------------------------------------------
(***************************************************************************)
(* The chip's jobs: a program writes the cells of its piece in order and   *)
(* none twice, an erase blanks them.                                       *)
(***************************************************************************)
LEMMA CellsInOrder ==
  ASSUME NEW a \in Nat, NEW k \in Nat, (a % ProgLen) + k <= ProgLen, NEW i \in 1 .. k
  PROVE  CellOf(a, i) = a + i - 1
<1> DEFINE m == a % ProgLen
<1>1. m \in 0 .. ProgLen - 1
  BY SizeAssumption
<1>2. CellOf(a, i) = (a - m) + ((m + i - 1) % ProgLen)
  BY DEF CellOf
<1>3. m + k <= ProgLen
  OBVIOUS
<1> HIDE DEF m
<1>4. (m + i - 1) % ProgLen = m + i - 1
  <2>1. m + i - 1 \in 0 .. ProgLen - 1
    BY <1>1, <1>3, SizeAssumption
  <2>2. QED
    BY <2>1, SizeAssumption
<1>5. QED
  BY <1>1, <1>2, <1>4

LEMMA ProgramJobIs ==
  ASSUME OpOK(op), op.kind = "write", NEW k \in 0 .. ChunkLen(op)
  PROVE  ProgramJob(k) = [c \in At(op) .. At(op) + k - 1 |-> ProgramCell(mem[c], op.data[c - op.from + 1])]
<1> DEFINE a == At(op)
           S == {CellOf(a, i) : i \in 1 .. k}
           last(c) == CHOOSE i \in 1 .. k : CellOf(a, i) = c /\ \A j \in i + 1 .. k : CellOf(a, j) # c
<1>1. /\ a \in Nat /\ k \in Nat /\ (a % ProgLen) + k <= ProgLen /\ op.from \in Nat /\ op.n \in Nat
      /\ a = op.from + op.n
  <2>1. ChunkLen(op) \in Nat /\ a \in Nat /\ (a % ProgLen) + ChunkLen(op) <= ProgLen
    BY ChunkFits DEF OpOK
  <2>2. a % ProgLen \in Nat
    BY <2>1, SizeAssumption
  <2>3. op.from \in Nat /\ op.n \in Nat /\ a = op.from + op.n
    BY DEF OpOK, Shape, Ops, At
  <2> HIDE DEF a
  <2>4. QED
    BY <2>1, <2>2, <2>3, SizeAssumption
<1>2. ProgramJob(k) = [c \in S |-> ProgramCell(mem[c], op.data[op.n + last(c)])]
  BY DEF ProgramJob
<1> HIDE DEF a
<1>3. \A i \in 1 .. k : CellOf(a, i) = a + i - 1
  BY <1>1, CellsInOrder
<1>4. S = a .. a + k - 1
  <2>1. ASSUME NEW c \in a .. a + k - 1
        PROVE  c \in S
    <3>1. c - a + 1 \in 1 .. k /\ a + (c - a + 1) - 1 = c
      BY <1>1
    <3>2. QED
      BY <1>3, <3>1
  <2>2. ASSUME NEW i \in 1 .. k
        PROVE  CellOf(a, i) \in a .. a + k - 1
    BY <1>1, <1>3
  <2>3. QED
    BY <2>1, <2>2
<1>5. ASSUME NEW c \in a .. a + k - 1
      PROVE  op.n + last(c) = c - op.from + 1
  <2> DEFINE P(i) == CellOf(a, i) = c /\ \A j \in i + 1 .. k : CellOf(a, j) # c
  <2>1. c - a + 1 \in 1 .. k
    BY <1>1
  <2>2. P(c - a + 1)
    <3>1. CellOf(a, c - a + 1) = c
      BY <1>1, <1>3, <2>1
    <3>2. ASSUME NEW j \in (c - a + 1) + 1 .. k
          PROVE  CellOf(a, j) # c
      <4>1. j \in 1 .. k /\ j > c - a + 1
        BY <1>1, <2>1
      <4>2. CellOf(a, j) = a + j - 1
        BY <1>3, <4>1
      <4>3. QED
        BY <1>1, <4>1, <4>2
    <3>3. QED
      BY <3>1, <3>2
  <2>3. ASSUME NEW i \in 1 .. k, P(i)
        PROVE  i = c - a + 1
    BY <1>1, <1>3, <2>3
  <2>4. last(c) = c - a + 1
    <3> HIDE DEF P
    <3>1. last(c) = CHOOSE i \in 1 .. k : P(i)
      BY DEF P
    <3>2. last(c) \in 1 .. k /\ P(last(c))
      BY <2>1, <2>2, <3>1
    <3> HIDE DEF last
    <3>3. QED
      BY <2>3, <3>2
  <2> HIDE DEF last, P
  <2>5. QED
    BY <1>1, <2>4
<1> HIDE DEF S, last
<1>6. QED
  BY <1>2, <1>4, <1>5 DEF a

LEMMA ChunkCells ==
  ASSUME OpOK(op), op.kind # "none", NEW c \in At(op) .. At(op) + ChunkLen(op) - 1
  PROVE  /\ c \in Cells /\ c >= op.from
         /\ c - op.from + 1 \in op.n + 1 .. op.n + ChunkLen(op)
         /\ c - op.from + 1 \in 1 .. Len(op.data) /\ op.data[c - op.from + 1] \in Values
         /\ op.then = "caller" => c # 0
<1> DEFINE k == ChunkLen(op)
           d == op.data
           a == At(op)
<1>1. /\ k \in Nat /\ op.n + k <= Len(d)
      /\ op.from \in Nat /\ op.n \in Nat /\ Len(d) \in Nat /\ a = op.from + op.n
      /\ d \in Seq(Values) /\ op.from + Len(d) <= Size
  <2>1. Shape(op) /\ op \in Ops
    BY DEF OpOK, Shape
  <2>2. k \in Nat /\ op.n + k <= Len(d)
    BY <2>1, ChunkFits DEF OpOK
  <2> HIDE DEF k
  <2>3. op.from \in Nat /\ op.n \in Nat /\ d \in Seq(Values) /\ a = op.from + op.n /\ op.from + Len(d) <= Size
    BY <2>1 DEF Shape, Ops, At
  <2>4. QED
    BY <2>2, <2>3
<1>0. c \in a .. a + k - 1
  OBVIOUS
<1> HIDE DEF a, k, d
<1>2. /\ c \in 0 .. Size - 1 /\ c >= op.from
      /\ c - op.from + 1 \in op.n + 1 .. op.n + k
      /\ c - op.from + 1 \in 1 .. Len(d)
  <2> DEFINE f == op.from
             n == op.n
             l == Len(d)
  <2>1. /\ k \in Nat /\ n + k <= l /\ f \in Nat /\ n \in Nat /\ l \in Nat
        /\ a = f + n /\ f + l <= Size /\ c \in a .. a + k - 1 /\ Size \in Nat
    BY <1>0, <1>1, SizeAssumption
  <2> HIDE DEF f, n, l
  <2>2. c \in Int /\ c >= f + n /\ c < f + n + k
    BY <2>1
  <2>3. /\ c \in 0 .. Size - 1 /\ c >= f
        /\ c - f + 1 \in n + 1 .. n + k /\ c - f + 1 \in 1 .. l
    BY <2>1, <2>2
  <2>4. QED
    BY <2>3 DEF f, n, l
<1>3. op.then = "caller" => c # 0
  BY <1>1, <1>2, SizeAssumption DEF OpOK, Shape
<1>4. d[c - op.from + 1] \in Values
  BY <1>1, <1>2
<1>5. QED
  BY <1>2, <1>3, <1>4 DEF Cells, k, d

\* What a job may be: a change of cells of the piece that the call asks for.
JobOf(j) ==
    /\ j = [c \in DOMAIN j |-> j[c]]
    /\ DOMAIN j \subseteq At(op) .. At(op) + ChunkLen(op) - 1
    /\ \A c \in DOMAIN j : j[c] = IF op.kind = "write" THEN ProgramCell(mem[c], op.data[c - op.from + 1]) ELSE Blank

LEMMA JobsAreOfCall ==
  ASSUME OpOK(op)
  PROVE  /\ op.kind = "erase" => JobOf(EraseJob) /\ DOMAIN EraseJob = At(op) .. At(op) + ChunkLen(op) - 1
         /\ op.kind = "write" => \A k \in 0 .. ChunkLen(op) :
                JobOf(ProgramJob(k)) /\ DOMAIN ProgramJob(k) = At(op) .. At(op) + k - 1
<1>1. op.kind = "erase" => JobOf(EraseJob) /\ DOMAIN EraseJob = At(op) .. At(op) + ChunkLen(op) - 1
  BY DEF EraseJob, JobOf
<1>2. ASSUME op.kind = "write", NEW k \in 0 .. ChunkLen(op)
      PROVE  JobOf(ProgramJob(k)) /\ DOMAIN ProgramJob(k) = At(op) .. At(op) + k - 1
  <2>1. ChunkLen(op) \in Nat /\ At(op) \in Nat
    BY <1>2, ChunkFits DEF OpOK
  <2>2. At(op) .. At(op) + k - 1 \subseteq At(op) .. At(op) + ChunkLen(op) - 1
    BY <2>1
  <2>3. ProgramJob(k) = [c \in At(op) .. At(op) + k - 1 |-> ProgramCell(mem[c], op.data[c - op.from + 1])]
    BY <1>2, ProgramJobIs
  <2>4. QED
    BY <1>2, <2>2, <2>3 DEF JobOf
<1>3. QED
  BY <1>1, <1>2

LEMMA ProgramCellType ==
  ASSUME NEW old, NEW new \in Values
  PROVE  ProgramCell(old, new) \in Values /\ ProgramCell(old, new) \in {new, Mixed}
  BY DEF ProgramCell, Values

LEMMA JobTypes ==
  ASSUME OpOK(op), op.kind # "none", NEW j, JobOf(j)
  PROVE  DOMAIN j \subseteq Cells /\ \A c \in DOMAIN j : j[c] \in Values
<1>1. Blank \in Values
  BY DEF Values
<1>2. ASSUME NEW c \in DOMAIN j
      PROVE  c \in Cells /\ j[c] \in Values
  <2>1. c \in At(op) .. At(op) + ChunkLen(op) - 1
    BY <1>2 DEF JobOf
  <2>2. c \in Cells /\ op.data[c - op.from + 1] \in Values
    BY <2>1, ChunkCells
  <2>3. QED
    BY <1>1, <1>2, <2>2, ProgramCellType DEF JobOf
<1>3. QED
  BY <1>2

LEMMA WithTypes ==
  ASSUME ChipTypes
  PROVE  With(job) \in [Cells -> Values]
  BY DEF ChipTypes, With

LEMMA AbortedCells ==
  ASSUME ChipTypes, Aborted
  PROVE  /\ mem' \in [Cells -> Values]
         /\ \A c \in Cells : c \notin DOMAIN job => mem'[c] = mem[c]
         /\ \A c \in Cells : mem'[c] \in {mem[c], Mixed} \/ (c \in DOMAIN job /\ mem'[c] = job[c])
<1>1. Mixed \in Values
  BY DEF Values
<1>2. PICK fate \in [DOMAIN job -> {"old", "new", "mixed"}] :
        mem' = [c \in Cells |->
            IF c \notin DOMAIN job \/ fate[c] = "old" THEN mem[c]
            ELSE IF fate[c] = "new" THEN job[c] ELSE Mixed]
  BY DEF Aborted
<1>3. QED
  BY <1>1, <1>2 DEF ChipTypes

\* The cells of the piece.
Piece == At(op) .. At(op) + ChunkLen(op) - 1

\* A command taken, or cut, changes the chip in one of these ways.
Obeyed(j) ==
    /\ step = "send" /\ op.kind # "read" /\ Idle /\ wel
    /\ JobOf(j) /\ job' = j /\ UNCHANGED <<mem, wel>>

LEMMA EndCases ==
  ASSUME TypeInv, TransferEnds
  PROVE  \/ step = "wren" /\ wel' = (wel \/ Idle) /\ UNCHANGED <<mem, job, rx>>
         \/ step = "send" /\ op.kind # "read" /\ (\E j : Obeyed(j) /\ DOMAIN j = Piece) /\ UNCHANGED rx
         \/ step = "send" /\ op.kind # "read" /\ ~(Idle /\ wel) /\ UNCHANGED <<chip, rx>>
         \/ TakesRead \/ TakesStatus \/ TakesReset
<1>1. CASE TakesEnable
  BY <1>1 DEF TakesEnable
<1>2. CASE TakesChange
  <2>1. step = "send" /\ op.kind \in {"write", "erase"} /\ UNCHANGED <<mem, wel, rx>> /\ OpOK(op)
    BY <1>2 DEF TakesChange, TypeInv, StepOK, OpOK, Shape, Ops, Kinds
  <2>2. CASE Idle /\ wel
    <3>1. JobOf(job') /\ DOMAIN job' = Piece
      <4>1. job' = IF op.kind = "erase" THEN EraseJob ELSE ProgramJob(ChunkLen(op))
        BY <1>2, <2>1, <2>2 DEF TakesChange, Obeys
      <4>2. ChunkLen(op) \in 0 .. ChunkLen(op)
        BY <2>1, ChunkFits DEF OpOK
      <4>3. QED
        BY <2>1, <4>1, <4>2, JobsAreOfCall DEF Piece
    <3>2. QED
      BY <2>1, <2>2, <3>1 DEF Obeyed
  <2>3. CASE ~(Idle /\ wel)
    BY <1>2, <2>1, <2>3 DEF TakesChange, Obeys, chip
  <2>4. QED
    BY <2>2, <2>3
<1>3. QED
  BY <1>1, <1>2 DEF TransferEnds

LEMMA CutCases ==
  ASSUME TypeInv, IF transfer = "mine" THEN CommandCut ELSE UNCHANGED chip
  PROVE  \/ UNCHANGED chip
         \/ transfer = "mine" /\ step = "wren" /\ Idle /\ wel' = TRUE /\ UNCHANGED <<mem, job>>
         \/ transfer = "mine" /\ \E j : Obeyed(j)
<1>1. OpOK(op)
  BY DEF TypeInv
<1>2. CASE transfer = "mine" /\ Enables /\ wel' = TRUE /\ UNCHANGED <<mem, job>>
  BY <1>2 DEF Enables
<1>3. CASE transfer = "mine" /\ Obeys /\ op.kind = "erase" /\ job' = EraseJob /\ UNCHANGED <<mem, wel>>
  BY <1>1, <1>3, JobsAreOfCall DEF Obeys, Obeyed
<1>4. CASE transfer = "mine" /\ Obeys /\ op.kind = "write"
           /\ (\E k \in 1 .. ChunkLen(op) : job' = ProgramJob(k)) /\ UNCHANGED <<mem, wel>>
  <2>1. PICK k \in 1 .. ChunkLen(op) : job' = ProgramJob(k)
    BY <1>4
  <2>2. ChunkLen(op) \in Nat
    BY <1>1, <1>4, ChunkFits DEF OpOK
  <2>3. k \in 0 .. ChunkLen(op)
    BY <2>2
  <2>4. QED
    BY <1>1, <1>4, <2>1, <2>3, JobsAreOfCall DEF Obeys, Obeyed
<1>5. QED
  BY <1>2, <1>3, <1>4 DEF CommandCut

-----------------------------------------------------------------------------
(***************************************************************************)
(* Types.                                                                  *)
(***************************************************************************)
LEMMA ObeyedTypes ==
  ASSUME TypeInv, NEW j, Obeyed(j)
  PROVE  ChipTypes'
<1>1. OpOK(op) /\ op.kind # "none" /\ ChipTypes
  BY DEF TypeInv, Obeyed, StepOK
<1>2. DOMAIN j \subseteq Cells /\ \A c \in DOMAIN j : j[c] \in Values
  BY <1>1, JobTypes DEF Obeyed
<1>3. QED
  BY <1>1, <1>2 DEF Obeyed, JobOf, ChipTypes

LEMMA CutTypes ==
  ASSUME TypeInv, IF transfer = "mine" THEN CommandCut ELSE UNCHANGED chip
  PROVE  ChipTypes'
<1>1. CASE UNCHANGED chip
  BY <1>1 DEF TypeInv, ChipTypes, chip
<1>2. CASE wel' = TRUE /\ UNCHANGED <<mem, job>>
  BY <1>2 DEF TypeInv, ChipTypes
<1>3. CASE \E j : Obeyed(j)
  BY <1>3, ObeyedTypes
<1>4. QED
  BY <1>1, <1>2, <1>3, CutCases

LEMMA NoJobIsFunction == NoJob = [c \in DOMAIN NoJob |-> NoJob[c]]
  BY DEF NoJob

LEMMA NoJobIsEmpty == DOMAIN NoJob = {}
<1>1. NoJob \in Seq({}) /\ Len(NoJob) = 0
  BY DEF NoJob
<1>2. DOMAIN NoJob = 1 .. 0
  BY <1>1
<1>3. QED
  BY <1>2

LEMMA SettledTypes ==
  ASSUME ChipTypes, mem' \in [Cells -> Values], wel' = FALSE, job' = NoJob
  PROVE  ChipTypes'
  BY NoJobIsEmpty, NoJobIsFunction DEF ChipTypes

LEMMA SpiTypesStep ==
  ASSUME SpiTypes, [SpiNext]_spiVars
  PROVE  SpiTypes'
  BY DEF SpiTypes, SpiPcs, SpiNext, spiVars, Begin, Start, Ends, EndsLate, Expires, LeaveLoop, Finish, Reset

LEMMA TypeInit == Init => TypeInv
<1> SUFFICES ASSUME Init PROVE TypeInv
  OBVIOUS
<1>1. SpiTypes
  BY DEF Init, SpiInit, SpiTypes, SpiPcs
<1>2. ChipTypes
  BY NoJobIsEmpty, NoJobIsFunction DEF Init, ChipTypes, Values
<1>3. OpOK(op) /\ StepOK(step, op) /\ Outside /\ Received
  BY FixedCalls DEF Init, SpiInit, StepOK, Steps, Outside, Received
<1>4. QED
  BY <1>1, <1>2, <1>3 DEF TypeInv

LEMMA CallShape ==
  ASSUME NEW kind \in {"read", "write", "erase"}, NEW a \in First .. Size - 1, NEW d \in Seq(Values),
         a + Len(d) <= Size
  PROVE  Shape(Op(kind, a, d, "caller")) /\ Op(kind, a, d, "caller").kind = kind
         /\ Op(kind, a, d, "caller").then = "caller" /\ Op(kind, a, d, "caller").n = 0
  BY SizeAssumption DEF Op, Shape, Ops, Kinds, Thens

\* The next call: one of the callers', or an erase of the whole memory.
NextCall(o) ==
    /\ step = "ready" /\ UNCHANGED <<spiVars, chip, rx>>
    /\ \/ UNCHANGED <<step, op>> /\ late' = FALSE /\ \E r \in {"data_size", "invalid"} : reply' = Answer(r, <<>>)
       \/ /\ OpOK(o) /\ o.kind \in {"read", "write", "erase"} /\ o.n = 0 /\ o.got = <<>> /\ o.from < Size
          /\ o.then = "caller" \/ o = FormatAll
          /\ step' = FirstStep(o) /\ op' = o /\ reply' = NoReply /\ late' = TooEarly(o)

LEMMA CommandCases ==
  ASSUME Command
  PROVE  \E o : NextCall(o)
<1> USE DEF NextCall
<1>1. ASSUME NEW kind \in {"read", "write", "erase"}, NEW a \in First .. Size - 1, NEW d \in Seq(Values),
             Call(Op(kind, a, d, "caller"))
      PROVE  \E o : NextCall(o)
  <2> DEFINE o == Op(kind, a, d, "caller")
  <2>1. /\ o.from = a /\ o.data = d /\ o.kind = kind /\ o.then = "caller" /\ o.n = 0 /\ o.got = <<>>
        /\ o.from < Size
    BY SizeAssumption DEF Op
  <2>2. o.from + Len(o.data) \in Nat /\ Size \in Nat
    BY <2>1, SizeAssumption
  <2>3. o.from + Len(o.data) <= Size => Shape(o)
    BY <2>1, CallShape
  <2>4. Call(o)
    BY <1>1
  <2> HIDE DEF o
  <2>5. CASE o.from + Len(o.data) > Size
    <3> DEFINE end == o.from + Len(o.data)
    <3>0. end > Size /\ ~(end <= Size)
      <4> HIDE DEF end
      <4>1. end > Size
        BY <2>5 DEF end
      <4>2. end \in Nat /\ Size \in Nat
        BY <2>2 DEF end
      <4>3. QED
        BY <4>1, <4>2
    <3>1. reply' = Answer("data_size", <<>>) /\ UNCHANGED <<step, op>> /\ late' = FALSE
      BY <2>4, <3>0 DEF Call
    <3>2. QED
      BY <2>4, <3>1 DEF Call
  <2>6. CASE o.from + Len(o.data) <= Size /\ Misaligned(o)
    <3>1. reply' = Answer("invalid", <<>>) /\ UNCHANGED <<step, op>>
      BY <2>2, <2>4, <2>6 DEF Call
    <3>2. late' = FALSE
      BY <2>4, <3>1 DEF Call
    <3>3. QED
      BY <2>4, <3>1, <3>2 DEF Call
  <2>7. CASE o.from + Len(o.data) <= Size /\ ~Misaligned(o)
    <3>1. OpOK(o)
      BY <2>1, <2>3, <2>7 DEF OpOK
    <3>2. step' = FirstStep(o) /\ op' = o /\ reply' = NoReply /\ late' = TooEarly(o)
      BY <2>2, <2>4, <2>7 DEF Call, Goes, FirstStep, TooEarly
    <3>3. QED
      BY <2>1, <2>4, <3>1, <3>2 DEF Call
  <2> DEFINE n == o.from + Len(o.data)
  <2>8. n > Size \/ n <= Size
    <3>1. n \in Nat /\ Size \in Nat
      BY <2>2
    <3> HIDE DEF n
    <3>2. QED
      BY <3>1
  <2>9. QED
    BY <2>5, <2>6, <2>7, <2>8
<1>2. CASE CallWrite
  <2>1. PICK a \in First .. Size - 1, d \in Writes : Call(Op("write", a, d, "caller"))
    BY <1>2 DEF CallWrite
  <2>2. d \in Seq(Values)
    BY SizeAssumption DEF Values
  <2>3. QED
    BY <1>1, <2>1, <2>2
<1>3. CASE CallRead
  <2>1. PICK a \in First .. Size - 1, n \in Lens : Call(Op("read", a, Blanks(n), "caller"))
    BY <1>3 DEF CallRead
  <2>2. Blanks(n) \in Seq(Values)
    BY SizeAssumption, BlankCells
  <2>3. QED
    BY <1>1, <2>1, <2>2
<1>4. CASE CallErase
  <2>1. PICK a \in First .. Size - 1, n \in Lens : Call(Op("erase", a, Blanks(n), "caller"))
    BY <1>4 DEF CallErase
  <2>2. Blanks(n) \in Seq(Values)
    BY SizeAssumption, BlankCells
  <2>3. QED
    BY <1>1, <2>1, <2>2
<1>5. CASE EraseChip
  <2>1. FormatAll.from + Len(FormatAll.data) <= Size /\ ~Misaligned(FormatAll) /\ FormatAll.from + Len(FormatAll.data) \in Nat
    <3>1. Shape(FormatAll) /\ ~Misaligned(FormatAll) /\ FormatAll \in Ops
      BY FixedCalls DEF OpOK, Shape
    <3>2. FormatAll.from \in Nat /\ Len(FormatAll.data) \in Nat
      BY <3>1 DEF Ops
    <3>3. FormatAll.from + Len(FormatAll.data) <= Size
      BY <3>1 DEF Shape
    <3>4. QED
      BY <3>1, <3>2, <3>3
  <2>2. FormatAll.n = 0 /\ FormatAll.got = <<>> /\ FormatAll.from < Size
    BY SizeAssumption DEF FormatAll, Op
  <2>3. Call(FormatAll)
    BY <1>5 DEF EraseChip
  <2>4. step' = FirstStep(FormatAll) /\ op' = FormatAll /\ reply' = NoReply /\ late' = TooEarly(FormatAll)
    BY <2>1, <2>3, SizeAssumption DEF Call, Goes, FirstStep, TooEarly
  <2>5. QED
    BY <2>2, <2>3, <2>4, FixedCalls DEF Call
<1>6. QED
  BY <1>2, <1>3, <1>4, <1>5 DEF Command

LEMMA TypeCommand ==
  ASSUME TypeInv, Command
  PROVE  TypeInv'
<1> USE DEF NextCall
<1>1. PICK o : NextCall(o)
  BY CommandCases
<1>2. SpiTypes' /\ ChipTypes' /\ spi = "out" /\ spi' = "out"
  BY <1>1 DEF TypeInv, Outside, SpiTypes, ChipTypes, spiVars, chip
<1>3. OpOK(op') /\ StepOK(step', op')
  BY <1>1, FixedCalls DEF TypeInv, StepOK, Steps, FirstStep
<1>4. step' # "poll"
  BY <1>1 DEF FirstStep
<1>5. Received' /\ Outside'
  BY <1>2, <1>4 DEF Received, Outside
<1>6. QED
  BY <1>2, <1>3, <1>5 DEF TypeInv

LEMMA TypeReturns ==
  ASSUME TypeInv, TransferReturns
  PROVE  TypeInv'
<1>1. spi = "left" /\ spi' = "out" /\ SpiTypes'
  BY SpiTypesStep DEF TransferReturns, Finish, SpiNext, TypeInv
<1>2. /\ OpOK(op') /\ StepOK(step', op')
      /\ step' = "poll" => rx' \in {<<"idle">>, <<"busy">>}
  BY <1>1, ContinueTypes DEF TransferReturns
<1>3. ChipTypes'
  BY CutTypes DEF TransferReturns
<1>4. Received' /\ Outside'
  BY <1>1, <1>2 DEF Received, Outside
<1>5. QED
  BY <1>1, <1>2, <1>3, <1>4 DEF TypeInv

LEMMA TypeEnds ==
  ASSUME TypeInv, TransferEnds
  PROVE  TypeInv'
<1>1. SpiTypes' /\ UNCHANGED <<spi, step, op, reply>>
  BY SpiTypesStep DEF TransferEnds, Ends, SpiNext, TypeInv, driver
<1>2. ChipTypes' /\ Received'
  <2>1. CASE step = "wren" /\ wel' = (wel \/ Idle) /\ UNCHANGED <<mem, job, rx>>
    BY <1>1, <2>1 DEF TypeInv, ChipTypes, Received
  <2>2. CASE step = "send" /\ op.kind # "read" /\ (\E j : Obeyed(j) /\ DOMAIN j = Piece) /\ UNCHANGED rx
    BY <1>1, <2>2, ObeyedTypes DEF TypeInv, Received
  <2>3. CASE UNCHANGED <<chip, rx>>
    BY <1>1, <2>3 DEF TypeInv, ChipTypes, Received, chip
  <2>4. CASE TakesRead
    <3>1. OpOK(op) /\ ChipTypes /\ op.kind = "read" /\ step = "send" /\ UNCHANGED chip
      BY <2>4 DEF TypeInv, TakesRead
    <3>2. CASE Idle
      <4>1. rx' = [i \in 1 .. ChunkLen(op) |-> mem[At(op) + i - 1]]
        BY <2>4, <3>2 DEF TakesRead
      <4>2. ASSUME NEW i \in 1 .. ChunkLen(op)
            PROVE  mem[At(op) + i - 1] \in Values
        <5>1. At(op) \in Nat /\ ChunkLen(op) \in Nat
          BY <3>1, ChunkFits DEF OpOK
        <5>2. At(op) + i - 1 \in At(op) .. At(op) + ChunkLen(op) - 1
          BY <5>1
        <5>3. QED
          BY <3>1, <5>2, ChunkCells DEF ChipTypes
      <4>3. QED
        BY <1>1, <3>1, <4>1, <4>2 DEF ChipTypes, Received, chip
    <3>3. CASE ~Idle
      BY <1>1, <2>4, <3>1, <3>3 DEF TypeInv, TakesRead, ChipTypes, Received, chip
    <3>4. QED
      BY <3>2, <3>3
  <2>5. CASE TakesStatus
    BY <1>1, <2>5 DEF TypeInv, TakesStatus, ChipTypes, Received, chip
  <2>6. CASE TakesReset
    <3>1. CASE step = "rst"
      BY <1>1, <2>6, <3>1, AbortedCells, SettledTypes DEF TypeInv, TakesReset, Received
    <3>2. CASE step # "rst"
      BY <1>1, <2>6, <3>2 DEF TypeInv, TakesReset, ChipTypes, Received, chip
    <3>3. QED
      BY <3>1, <3>2
  <2>7. QED
    BY <2>1, <2>2, <2>3, <2>4, <2>5, <2>6, EndCases
<1>3. QED
  BY <1>1, <1>2 DEF TypeInv, Outside

LEMMA TypeRestarts ==
  ASSUME TypeInv, PowerFails \/ ProcessorResets
  PROVE  TypeInv'
<1>1. Restarts
  BY DEF PowerFails, ProcessorResets
<1>2. SpiTypes' /\ spi' = "out"
  BY <1>1, SpiTypesStep DEF Restarts, Reset, SpiNext, TypeInv
<1>3. OpOK(op') /\ StepOK(step', op') /\ step' = "down" /\ op'.kind = "none"
  BY <1>1, FixedCalls DEF Restarts, StepOK, Steps
<1>4. ChipTypes'
  <2>1. CASE PowerFails
    BY <2>1, AbortedCells, SettledTypes DEF TypeInv, PowerFails
  <2>2. CASE ProcessorResets
    BY <2>2, CutTypes DEF ProcessorResets
  <2>3. QED
    BY <2>1, <2>2
<1>5. Received' /\ Outside'
  BY <1>2, <1>3 DEF Received, Outside
<1>6. QED
  BY <1>2, <1>3, <1>4, <1>5 DEF TypeInv

LEMMA TypeBegins ==
  ASSUME TypeInv, TransferBegins
  PROVE  TypeInv'
<1>1. SpiTypes' /\ UNCHANGED <<chip, driver>> /\ spi = "out" /\ spi' = "armed"
  BY SpiTypesStep DEF TransferBegins, Begin, SpiNext, TypeInv
<1>2. Received'
  <2>1. CASE step = "poll"
    BY <1>1, <2>1 DEF TransferBegins, TypeInv, Received, driver
  <2>2. CASE step = "send" /\ op.kind = "read"
    <3>1. rx' = [i \in 1 .. ChunkLen(op) |-> Mixed]
      BY <2>2 DEF TransferBegins
    <3>2. QED
      BY <1>1, <2>2, <3>1 DEF Received, driver, Values
  <2>3. QED
    BY <1>1, <2>1, <2>2 DEF Received, driver
<1>3. QED
  BY <1>1, <1>2 DEF TypeInv, ChipTypes, Outside, TransferBegins, chip, driver

LEMMA TypeOthers ==
  ASSUME TypeInv, Boot \/ TransferStarts \/ LoopIsLeft \/ TimerExpires \/ LateEnd \/ ChipReady \/ UNCHANGED vars
  PROVE  TypeInv'
<1>1. SpiTypes'
  <2>1. [SpiNext]_spiVars
    BY DEF Boot, TransferStarts, LoopIsLeft, TimerExpires, LateEnd, ChipReady, vars, SpiNext
  <2>2. QED
    BY <2>1, SpiTypesStep DEF TypeInv
<1>2. CASE Boot
  <2>1. OpOK(op') /\ StepOK(step', op') /\ step' = "rsten"
    BY <1>2, FixedCalls DEF Boot, Goes, StepOK, Steps
  <2>2. QED
    BY <1>1, <1>2, <2>1 DEF Boot, TypeInv, ChipTypes, Received, Outside, chip
<1>3. CASE TransferStarts \/ LoopIsLeft \/ TimerExpires \/ LateEnd
  <2>1. UNCHANGED <<chip, driver, rx>>
    BY <1>3 DEF TransferStarts, LoopIsLeft, TimerExpires, LateEnd
  <2>2. (spi = "out") <=> (spi' = "out")
    BY <1>3 DEF TransferStarts, LoopIsLeft, TimerExpires, LateEnd, Start, LeaveLoop, Expires, EndsLate
  <2>3. QED
    BY <1>1, <2>1, <2>2 DEF TypeInv, ChipTypes, Received, Outside, chip, driver
<1>4. CASE ChipReady
  <2>1. ChipTypes'
    BY <1>4, WithTypes, SettledTypes DEF TypeInv, ChipReady
  <2>2. QED
    BY <1>1, <1>4, <2>1 DEF ChipReady, TypeInv, Received, Outside, spiVars, driver
<1>5. CASE UNCHANGED vars
  BY <1>1, <1>5 DEF vars, TypeInv, ChipTypes, Received, Outside, spiVars, chip, driver
<1>6. QED
  BY <1>2, <1>3, <1>4, <1>5

LEMMA TypeStep ==
  ASSUME TypeInv, [Next]_vars
  PROVE  TypeInv'
<1>1. CASE Command
  BY <1>1, TypeCommand
<1>2. CASE TransferBegins
  BY <1>2, TypeBegins
<1>3. CASE TransferReturns
  BY <1>3, TypeReturns
<1>4. CASE TransferEnds
  BY <1>4, TypeEnds
<1>5. CASE PowerFails \/ ProcessorResets
  BY <1>5, TypeRestarts
<1>6. CASE Boot \/ TransferStarts \/ LoopIsLeft \/ TimerExpires \/ LateEnd \/ ChipReady \/ UNCHANGED vars
  BY <1>6, TypeOthers
<1>7. QED
  BY <1>1, <1>2, <1>3, <1>4, <1>5, <1>6 DEF Next, MainProgram, Interrupt

-----------------------------------------------------------------------------
(***************************************************************************)
(* The driver's calls and the cells.                                       *)
(***************************************************************************)
LEMMA EffectiveCells ==
  ASSUME ChipTypes
  PROVE  /\ Effective \in [Cells -> Values]
         /\ Idle => Effective = mem /\ DOMAIN job = {}
         /\ \A c \in Cells : Effective[c] = IF c \in DOMAIN job THEN job[c] ELSE mem[c]
<1>1. Effective = [c \in Cells |-> IF c \in DOMAIN job THEN job[c] ELSE mem[c]]
  BY DEF Effective, With
<1>2. Idle => DOMAIN job = {}
  BY NoJobIsEmpty DEF Idle
<1>3. QED
  BY <1>1, <1>2 DEF ChipTypes

LEMMA ProgramTwice ==
  ASSUME NEW old, NEW new
  PROVE  ProgramCell(ProgramCell(old, new), new) = ProgramCell(old, new)
  BY ContentAssumption DEF ProgramCell

LEMMA ReturnsSuccess ==
  ASSUME SpiInv, spi = "left", Result = "success"
  PROVE  Taken
  BY DEF SpiInv, SpiTypes, Started, LoopEnded, Result, Taken

LEMMA ReturnsAlways ==
  ASSUME SpiInv, Faultless, spi = "left", op.then # "caller"
  PROVE  Result = "success"
  BY DEF SpiInv, SpiTypes, Faultless, Result

\* Nothing is done yet of a call that begins.
LEMMA WorkedNothing ==
  ASSUME NEW o, o.got = <<>>, NEW cells
  PROVE  Worked(o, 0, cells)
  BY DEF Worked

LEMMA DriverInit == Init => DriverInv
<1> SUFFICES ASSUME Init PROVE DriverInv
  OBVIOUS
<1>1. TypeInv /\ SpiInv /\ ChipTypes
  BY TypeInit, SpiInitInv DEF Init, TypeInv
<1>2. op = NoOp /\ step = "down" /\ spi = "out" /\ transfer = "none" /\ reply = NoReply /\ op.then = "caller"
      /\ op.kind = "none" /\ op.n = 0
  BY DEF Init, SpiInit, NoOp
<1>3. KeyOnly
  BY NoJobIsEmpty DEF Init, KeyOnly
<1>4. Worked(op, Reach, Effective)
  BY <1>2 DEF Worked
<1>5. QED
  BY <1>1, <1>2, <1>3, <1>4 DEF DriverInv, DriverOK, Faultless, Resting, JobInside, Copied, KeyOK, NoAnswer

\* A step of the transfer by which the chip gets nothing.
LEMMA QuietStep ==
  ASSUME DriverInv, UNCHANGED <<chip, driver>>, Taken' <=> Taken, Taken => rx' = rx, Faultless'
  PROVE  DriverOK'
<1> USE DEF DriverInv, DriverOK, chip, driver
<1>1. UNCHANGED <<mem, wel, job, step, op, reply>>
  OBVIOUS
<1>2. Effective' = Effective
  BY <1>1 DEF Effective, With
<1>3. Sent' <=> Sent
  BY <1>1 DEF Sent
<1>4. Reach' = Reach
  BY <1>1, <1>3 DEF Reach
<1>5. Resting'
  BY <1>1 DEF Resting, Idle
<1>6. JobInside'
  BY <1>1 DEF JobInside
<1>7. Worked(op, Reach, Effective)'
  BY <1>1, <1>2, <1>4
<1>8. Copied'
  BY <1>1 DEF Copied
<1>9. KeyOK' /\ NoAnswer'
  BY <1>1, <1>2, <1>4 DEF KeyOK, HasKey, KeyOnly, KeySeen, NoAnswer
<1>10. QED
  BY <1>5, <1>6, <1>7, <1>8, <1>9

LEMMA DriverQuiet ==
  ASSUME NoneBetween, FaultsInCalls, DriverInv,
         TransferBegins \/ TransferStarts \/ LoopIsLeft \/ TimerExpires \/ LateEnd \/ UNCHANGED vars
  PROVE  DriverOK'
<1> USE DEF DriverInv, DriverOK, SpiInv, SpiTypes, SpiPcs
<1>1. UNCHANGED <<chip, driver>>
  BY DEF TransferBegins, TransferStarts, LoopIsLeft, TimerExpires, LateEnd, vars
<1>2. (Taken' <=> Taken) /\ (Taken => rx' = rx) /\ Faultless'
  <2> USE DEF Taken, Faultless
  <2>1. UNCHANGED <<step, op>>
    BY <1>1 DEF driver
  <2>2. CASE TransferBegins
    BY <2>1, <2>2 DEF TransferBegins, Begin
  <2>3. CASE TransferStarts
    BY <2>1, <2>3 DEF TransferStarts, Start, Cleared, TypeInv, Outside
  <2>4. CASE LoopIsLeft
    BY <2>1, <2>4 DEF LoopIsLeft, LeaveLoop
  <2>5. CASE TimerExpires
    BY <2>1, <2>5 DEF TimerExpires, Expires, FaultsInCalls
  <2>6. CASE LateEnd
    BY <2>1, <2>6 DEF LateEnd, EndsLate, Started, NoneBetween
  <2>7. CASE UNCHANGED vars
    BY <2>7 DEF vars, spiVars, driver
  <2>8. QED
    BY <2>2, <2>3, <2>4, <2>5, <2>6, <2>7
<1>3. QED
  BY <1>1, <1>2, QuietStep

LEMMA DriverChipReady ==
  ASSUME DriverInv, ChipReady
  PROVE  DriverOK'
<1> USE DEF DriverInv, DriverOK
<1>1. /\ ~Idle /\ mem' = With(job) /\ job' = NoJob /\ DOMAIN job' = {}
      /\ UNCHANGED <<step, op, reply, rx, spi, done, timeout, timer, transfer, err>>
  BY NoJobIsEmpty DEF ChipReady, Idle, driver, spiVars
<1>2. ChipTypes /\ TypeInv'
  BY TypeOthers DEF TypeInv
<1>3. mem' = Effective /\ Effective' = Effective
  <2>1. mem' = Effective
    BY <1>1 DEF Effective
  <2>2. Effective' = [c \in Cells |-> mem'[c]]
    BY <1>1 DEF Effective, With
  <2>3. QED
    BY <1>2, <2>1, <2>2, EffectiveCells
<1>4. Taken' <=> Taken
  BY <1>1 DEF Taken
<1>5. Reach' = Reach
  BY <1>1, <1>4 DEF Reach, Sent
<1>6. Resting' /\ Copied'
  BY <1>1, <1>4 DEF Resting, Copied, Idle
<1>7. JobInside' /\ Faultless' /\ NoAnswer'
  BY <1>1 DEF JobInside, Faultless, NoAnswer
<1>8. Worked(op, Reach, Effective)'
  BY <1>1, <1>3, <1>5
<1>9. KeyOK'
  <2>1. \A c \in Cells : c \notin DOMAIN job => mem'[c] = mem[c]
    BY <1>2, <1>3, EffectiveCells
  <2>2. 0 \in Cells
    BY SizeAssumption DEF Cells
  <2>3. (HasKey => HasKey') /\ (KeyOnly => KeyOnly') /\ (KeySeen => KeySeen')
    BY <1>1, <1>2, <1>3, <2>1, <2>2, EffectiveCells DEF HasKey, KeyOnly, KeySeen
  <2>4. QED
    BY <1>1, <1>3, <1>5, <2>3 DEF KeyOK
<1>10. QED
  BY <1>6, <1>7, <1>8, <1>9

LEMMA DriverCommand ==
  ASSUME DriverInv, Command, ~late'
  PROVE  DriverOK'
<1> USE DEF DriverInv, DriverOK, NextCall
<1>1. PICK o : NextCall(o)
  BY CommandCases
<1>2. /\ spi = "out" /\ op = NoOp /\ op.then = "caller" /\ op.kind = "none"
      /\ ~timeout /\ ~Taken /\ UNCHANGED <<spi, timeout, transfer, err, mem, wel, job, rx>>
  BY <1>1 DEF TypeInv, Outside, StepOK, NoOp, SpiInv, Quiet, Taken, spiVars, chip
<1>3. HasKey /\ HasKey'
  BY <1>1, <1>2 DEF KeyOK, HasKey
<1>4. CASE UNCHANGED <<step, op>>
  <2>1. Effective' = Effective /\ Reach' = Reach /\ ~Taken'
    BY <1>2, <1>4 DEF Effective, With, Reach, Sent, Taken
  <2>2. Worked(op, Reach, Effective)'
    BY <1>4, <2>1
  <2>3. QED
    BY <1>1, <1>2, <1>3, <1>4, <2>1, <2>2
       DEF Faultless, Resting, JobInside, Copied, KeyOK, NoAnswer
<1>5. CASE /\ OpOK(o) /\ o.kind \in {"read", "write", "erase"} /\ o.n = 0 /\ o.got = <<>>
           /\ o.then = "caller" \/ o = FormatAll
           /\ step' = FirstStep(o) /\ op' = o /\ reply' = NoReply /\ late' = TooEarly(o)
  <2>0. Idle /\ DOMAIN job = {} /\ (o.then = "caller" \/ transfer = "none")
    <3>1. ~TooEarly(o)
      BY <1>5
    <3>2. FormatAll.then = "format"
      BY DEF FormatAll, Op
    <3>3. QED
      BY <1>5, <3>1, <3>2, NoJobIsEmpty DEF TooEarly, Idle
  <2>1. ~Taken' /\ step' = (IF o.kind = "read" THEN "send" ELSE "wren")
    BY <1>2, <1>5 DEF FirstStep, Taken
  <2>2. Reach' = 0
    BY <1>5, <2>1 DEF Reach, Sent
  <2>3. Worked(op, Reach, Effective)'
    BY <1>5, <2>2, WorkedNothing
  <2>4. o.then \in {"caller", "format"}
    BY <1>5 DEF FormatAll, Op
  <2>5. Faultless'
    BY <1>2, <1>5, <2>0, <2>1 DEF Faultless
  <2>6. Resting' /\ JobInside' /\ Copied'
    BY <1>1, <1>2, <2>0, <1>5, <2>1 DEF Resting, JobInside, Copied, Idle
  <2>7. KeyOK' /\ NoAnswer'
    BY <1>3, <1>5, <2>1, <2>4 DEF KeyOK, NoAnswer
  <2>8. QED
    BY <2>3, <2>5, <2>6, <2>7
<1>6. QED
  BY <1>1, <1>4, <1>5

LEMMA DriverBoot ==
  ASSUME DriverInv, Boot
  PROVE  DriverOK'
<1> USE DEF DriverInv, DriverOK
<1>1. /\ step = "down" /\ step' = "rsten" /\ op' = KeyRead
      /\ UNCHANGED <<spi, timeout, transfer, err, mem, wel, job, rx, reply>>
  BY DEF Boot, Goes, spiVars, chip
<1>2. KeyRead.then = "key" /\ KeyRead.n = 0 /\ KeyRead.got = <<>>
  BY DEF KeyRead, Op
<1>3. spi = "out" /\ ~timeout /\ transfer = "none" /\ reply = NoReply
  BY <1>1 DEF TypeInv, Outside, SpiInv, Quiet, Faultless, NoAnswer
<1>4. Reach' = 0
  BY <1>1, <1>2 DEF Reach, Sent
<1>5. Worked(op, Reach, Effective)'
  BY <1>1, <1>2, <1>4, WorkedNothing
<1>6. Faultless' /\ Resting' /\ JobInside' /\ Copied' /\ NoAnswer'
  BY <1>1, <1>2, <1>3 DEF Faultless, Resting, JobInside, Copied, NoAnswer
<1>7. KeyOK'
  BY <1>1, <1>2 DEF KeyOK, HasKey, KeyOnly, KeySeen
<1>8. QED
  BY <1>5, <1>6, <1>7

\* A job of a caller keeps off the key, the key's job off everything else.
LEMMA ObeyedKey ==
  ASSUME TypeInv, NEW j, Obeyed(j)
  PROVE  /\ op.then = "caller" => 0 \notin DOMAIN j
         /\ op.then = "nothing" => DOMAIN j \subseteq {0}
         /\ op.then # "key"
<1>1. OpOK(op) /\ op.kind # "none" /\ DOMAIN j \subseteq At(op) .. At(op) + ChunkLen(op) - 1
  BY DEF TypeInv, Obeyed, StepOK, JobOf
<1>2. op.then = "caller" => 0 \notin DOMAIN j
  BY <1>1, ChunkCells
<1>3. ASSUME op.then = "nothing"
      PROVE  DOMAIN j \subseteq {0}
  <2>1. At(op) = 0 /\ ChunkLen(op) = 1
    BY <1>1, <1>3, KeyIsOnePiece DEF At
  <2>2. QED
    BY <1>1, <2>1
<1>4. op.then # "key"
  BY <1>1 DEF OpOK, Shape, Obeyed
<1>5. QED
  BY <1>2, <1>3, <1>4

LEMMA AbortedKey ==
  ASSUME ChipTypes, Aborted, job' = NoJob
  PROVE  (HasKey => HasKey') /\ (KeyOnly => KeyOnly') /\ (KeySeen => KeySeen')
<1>1. 0 \in Cells /\ DOMAIN job' = {}
  BY SizeAssumption, NoJobIsEmpty DEF Cells
<1>2. QED
  BY <1>1, AbortedCells, ContentAssumption DEF HasKey, KeyOnly, KeySeen

LEMMA KeyIsSeen == HasKey => KeySeen
  BY ContentAssumption DEF HasKey, KeySeen

LEMMA DriverRestarts ==
  ASSUME DriverInv, CrashesOutsideFormats, PowerFails \/ ProcessorResets
  PROVE  DriverOK'
<1> USE DEF DriverInv, DriverOK
<1>1. /\ step # "down" /\ op.then \in CrashIn
      /\ step' = "down" /\ op' = NoOp /\ reply' = NoReply /\ spi' = "out" /\ transfer' = "none"
  BY DEF PowerFails, ProcessorResets, Running, Restarts, Reset
<1>2. op.then \in {"caller", "key", "nothing"}
  BY <1>1 DEF CrashesOutsideFormats, TypeInv, OpOK, Shape, Ops, Thens
<1>3. (op.then = "caller" => HasKey) /\ (op.then = "key" => KeySeen \/ KeyOnly) /\ (op.then = "nothing" => KeyOnly)
  BY <1>1 DEF KeyOK
<1>4. KeySeen' \/ KeyOnly'
  <2>1. CASE PowerFails
    BY <1>2, <1>3, <2>1, AbortedKey, KeyIsSeen DEF TypeInv, PowerFails
  <2>2. CASE ProcessorResets
    <3>1. CASE UNCHANGED <<mem, job>>
      BY <1>2, <1>3, <3>1, KeyIsSeen DEF KeySeen, KeyOnly
    <3>2. CASE \E j : Obeyed(j)
      <4>1. PICK j : Obeyed(j)
        BY <3>2
      <4>2. job' = j /\ UNCHANGED mem
        BY <4>1 DEF Obeyed
      <4>3. QED
        BY <1>2, <1>3, <4>1, <4>2, ObeyedKey, KeyIsSeen DEF KeySeen, KeyOnly
    <3>3. QED
      BY <2>2, <3>1, <3>2, CutCases DEF ProcessorResets, chip
  <2>3. QED
    BY <2>1, <2>2
<1>5. op'.then = "caller" /\ op'.kind = "none"
  BY <1>1 DEF NoOp
<1>6. Worked(op, Reach, Effective)'
  BY <1>5 DEF Worked
<1>7. QED
  BY <1>1, <1>4, <1>5, <1>6 DEF Faultless, Resting, JobInside, Copied, KeyOK, NoAnswer

\* The transfer of this call ends: the chip takes the command.
LEMMA EndsTakes ==
  ASSUME SpiInv, TransferEnds
  PROVE  /\ spi \in {"wait", "left"} /\ err = "success" /\ ~Taken /\ Taken'
         /\ transfer = "mine" /\ UNCHANGED <<spi, timeout, err, step, op, reply>>
  BY DEF TransferEnds, Ends, SpiInv, SpiTypes, SpiPcs, Quiet, Cleared, Refused, Taken, driver

\* A program or an erase that is obeyed is then done, as far as the call goes.
LEMMA ObeyedWorks ==
  ASSUME TypeInv, Worked(op, op.n, Effective), UNCHANGED op,
         NEW j, Obeyed(j), DOMAIN j = Piece
  PROVE  /\ Worked(op, op.n + ChunkLen(op), Effective)'
         /\ \A c \in Cells : Effective'[c] =
               IF c \in Piece THEN (IF op.kind = "write" THEN ProgramCell(mem[c], op.data[c - op.from + 1]) ELSE Blank)
               ELSE Effective[c]
<1>1. OpOK(op) /\ op.kind \in {"write", "erase"} /\ op.kind # "none" /\ ChipTypes /\ ChipTypes'
  BY ObeyedTypes DEF TypeInv, Obeyed, StepOK, OpOK, Shape, Ops, Kinds
<1>2. Idle /\ JobOf(j) /\ job' = j /\ mem' = mem /\ DOMAIN j \subseteq Cells
  BY <1>1, JobTypes DEF Obeyed
<1>3. Effective' = [c \in Cells |-> IF c \in DOMAIN job' THEN job'[c] ELSE mem'[c]]
  BY DEF Effective, With
<1>4. Effective = mem
  BY <1>1, <1>2, EffectiveCells
<1>5. \A c \in Cells : Effective'[c] =
          IF c \in Piece THEN (IF op.kind = "write" THEN ProgramCell(mem[c], op.data[c - op.from + 1]) ELSE Blank)
          ELSE Effective[c]
  BY <1>2, <1>3, <1>4 DEF JobOf
<1>6. /\ op.n \in Nat /\ ChunkLen(op) \in Nat /\ op.from \in Nat /\ At(op) = op.from + op.n
      /\ op.n + ChunkLen(op) <= Len(op.data) /\ Len(op.data) \in Nat /\ op.from + Len(op.data) <= Size
  BY <1>1, ChunkFits DEF OpOK, Shape, Ops, At
<1>7. ASSUME NEW i \in 1 .. op.n + ChunkLen(op)
      PROVE  /\ op.kind = "write" => ProgramCell(Effective'[op.from + i - 1], op.data[i]) = Effective'[op.from + i - 1]
             /\ op.kind = "erase" => Effective'[op.from + i - 1] = Blank
  <2> DEFINE c == op.from + i - 1
  <2>1. c \in Cells /\ c - op.from + 1 = i
    <3> DEFINE f == op.from
               m == op.n + ChunkLen(op)
               l == Len(op.data)
    <3>1. m \in Nat /\ f \in Nat /\ l \in Nat /\ m <= l /\ f + l <= Size /\ i \in 1 .. m
      BY <1>6
    <3> HIDE DEF f, m, l
    <3>2. f + i - 1 \in 0 .. Size - 1 /\ (f + i - 1) - f + 1 = i
      BY <3>1, SizeAssumption
    <3>3. QED
      BY <3>2 DEF f, Cells
  <2>2. (c \in Piece) <=> (i > op.n)
    BY <1>6 DEF Piece
  <2> HIDE DEF c
  <2>3. CASE i > op.n
    BY <1>5, <2>1, <2>2, <2>3, ProgramTwice, <1>1 DEF c
  <2>4. CASE ~(i > op.n)
    <3>1. i \in 1 .. op.n
      BY <1>6, <2>4
    <3>2. Effective'[c] = Effective[c]
      BY <1>5, <2>1, <2>2, <2>4
    <3>3. QED
      BY <3>1, <3>2 DEF Worked, c
  <2>5. QED
    BY <2>3, <2>4
<1>8. op'.kind # "read" /\ op' = op
  BY <1>1
<1>9. Worked(op', op'.n + ChunkLen(op'), Effective')
  BY <1>1, <1>7, <1>8 DEF Worked
<1>10. QED
  BY <1>5, <1>9

LEMMA DriverEnds ==
  ASSUME DriverInv, TransferEnds
  PROVE  DriverOK'
<1> USE DEF DriverInv, DriverOK
<1>1. /\ spi \in {"wait", "left"} /\ err = "success" /\ ~Taken /\ Taken'
      /\ transfer = "mine" /\ UNCHANGED <<spi, timeout, err, step, op, reply>> /\ transfer' = "none"
  BY EndsTakes DEF TransferEnds, Ends
<1>2. Faultless' /\ NoAnswer' /\ OpOK(op) /\ StepOK(step, op) /\ ChipTypes
  BY <1>1 DEF Faultless, NoAnswer, TypeInv
<1>3. CASE step = "wren" /\ wel' = (wel \/ Idle) /\ UNCHANGED <<mem, job, rx>>
  <2>1. Effective' = Effective /\ Reach' = Reach
    BY <1>1, <1>3 DEF Effective, With, Reach, Sent
  <2>2. Worked(op, Reach, Effective)'
    BY <1>1, <2>1
  <2>3. QED
    BY <1>1, <1>2, <1>3, <2>1, <2>2 DEF Resting, Idle, JobInside, Copied, KeyOK, HasKey, KeyOnly, KeySeen
<1>4. CASE step = "send" /\ op.kind # "read" /\ (\E j : Obeyed(j) /\ DOMAIN j = Piece) /\ UNCHANGED rx
  <2>1. PICK j : Obeyed(j) /\ DOMAIN j = Piece
    BY <1>4
  <2>2. Reach = op.n /\ Reach' = op.n + ChunkLen(op)
    BY <1>1, <1>4 DEF Reach, Sent
  <2>3. /\ Worked(op, op.n + ChunkLen(op), Effective)'
        /\ \A c \in Cells : Effective'[c] =
               IF c \in Piece THEN (IF op.kind = "write" THEN ProgramCell(mem[c], op.data[c - op.from + 1]) ELSE Blank)
               ELSE Effective[c]
    BY <1>1, <2>1, <2>2, ObeyedWorks
  <2>4. Worked(op, Reach, Effective)'
    BY <1>1, <2>2, <2>3
  <2>5. Resting' /\ Copied' /\ JobInside'
    BY <1>1, <1>4, <2>1 DEF Resting, Copied, JobInside, Obeyed, Piece
  <2>6. KeyOK'
    <3>1. CASE op.then = "caller"
      BY <1>1, <1>4, <2>1, <3>1, ObeyedKey DEF KeyOK, HasKey, Obeyed
    <3>2. CASE op.then = "nothing"
      <4>1. KeyOnly' /\ Idle
        BY <1>1, <2>1, <3>2, ObeyedKey DEF KeyOK, KeyOnly, Obeyed
      <4>2. At(op) = 0 /\ ChunkLen(op) = 1 /\ op.n = 0 /\ op.from = 0 /\ op.data = <<Key>> /\ op.kind = "write"
        BY <1>2, <3>2, KeyIsOnePiece DEF At, OpOK, Shape
      <4>3. 0 \in Cells /\ 0 \in Piece
        BY <4>2, SizeAssumption DEF Cells, Piece
      <4>4. Effective'[0] = ProgramCell(mem[0], op.data[1])
        BY <2>3, <4>2, <4>3
      <4>5. mem[0] = Blank
        BY <1>2, <2>2, <3>2, <4>1, <4>2, EffectiveCells DEF KeyOK
      <4>6. Effective'[0] = Key /\ Reach' = 1
        BY <2>2, <4>2, <4>4, <4>5 DEF ProgramCell
      <4>7. QED
        BY <1>1, <1>4, <3>2, <4>1, <4>6 DEF KeyOK
    <3>3. CASE op.then = "format"
      BY <1>1, <1>4, <3>3 DEF KeyOK
    <3>4. QED
      BY <1>2, <2>1, <3>1, <3>2, <3>3, ObeyedKey DEF OpOK, Shape, Ops, Thens
  <2>7. QED
    BY <1>2, <2>4, <2>5, <2>6
<1>5. CASE step = "send" /\ op.kind # "read" /\ ~(Idle /\ wel) /\ UNCHANGED <<chip, rx>>
  BY <1>1, <1>5 DEF Resting
<1>6. CASE TakesRead \/ TakesStatus
  <2>1. /\ UNCHANGED <<mem, wel, job>>
        /\ step = "poll" \/ (step = "send" /\ op.kind = "read")
    BY <1>6 DEF TakesRead, TakesStatus, chip
  <2>2. Effective' = Effective /\ Reach' = Reach
    BY <1>1, <2>1 DEF Effective, With, Reach, Sent
  <2>3. Worked(op, Reach, Effective)'
    BY <1>1, <2>2
  <2>4. KeyOK' /\ JobInside'
    BY <1>1, <2>1, <2>2 DEF KeyOK, HasKey, KeyOnly, KeySeen, JobInside
  <2>5. Resting'
    <3>1. step = "poll" /\ rx' = <<"idle">> => Idle
      <4>1. <<"busy">> # <<"idle">>
        OBVIOUS
      <4>2. QED
        BY <1>6, <4>1 DEF TakesRead, TakesStatus
    <3>2. QED
      BY <1>1, <2>1, <3>1 DEF Resting, Idle
  <2>6. Copied'
    BY <1>1, <1>6, <2>1 DEF Copied, Resting, TakesRead, TakesStatus
  <2>7. QED
    BY <1>2, <2>3, <2>4, <2>5, <2>6
<1>7. CASE TakesReset
  <2>1. op = KeyRead /\ op.then = "key" /\ op.n = 0 /\ op.got = <<>> /\ step \in {"rsten", "rst"}
    BY <1>2, <1>7 DEF TakesReset, StepOK, KeyRead, Op
  <2>2. Reach' = 0
    BY <1>1, <2>1 DEF Reach, Sent
  <2>3. Worked(op, Reach, Effective)'
    BY <1>1, <2>1, <2>2, WorkedNothing
  <2>4. KeyOK'
    <3>1. KeySeen' \/ KeyOnly'
      BY <1>2, <1>7, <2>1, AbortedKey DEF TakesReset, chip, KeyOK, HasKey, KeyOnly, KeySeen
    <3>2. QED
      BY <1>1, <2>1, <3>1 DEF KeyOK
  <2>5. Resting' /\ JobInside' /\ Copied'
    BY <1>1, <1>7, <2>1 DEF TakesReset, Resting, Idle, JobInside, Copied
  <2>6. QED
    BY <1>2, <2>3, <2>4, <2>5
<1>8. QED
  BY <1>3, <1>4, <1>5, <1>6, <1>7, EndCases DEF TypeInv

-----------------------------------------------------------------------------
(***************************************************************************)
(* The driver goes on after a transfer.                                    *)
(***************************************************************************)
\* After the SPI calls of a piece all of it is done.
LEMMA PieceDone ==
  ASSUME DriverInv, spi = "left", Taken, Idle,
         step = "poll" \/ (step = "send" /\ op.kind = "read")
  PROVE  /\ Shape(Progress(op)) /\ Worked(Progress(op), Progress(op).n, mem)
         /\ Progress(op).kind = op.kind /\ Progress(op).from = op.from /\ op.kind # "none"
         /\ Progress(op).data = op.data /\ Progress(op).then = op.then
         /\ Progress(op).n = op.n + ChunkLen(op)
<1> DEFINE p == Progress(op)
<1>1. /\ OpOK(op) /\ op.kind \in {"read", "write", "erase"} /\ op.kind # "none" /\ ChipTypes
      /\ op.kind = "read" => rx \in [1 .. ChunkLen(op) -> Values] /\ step = "send"
  BY DEF DriverInv, TypeInv, StepOK, OpOK, Shape, Ops, Kinds, Received
<1>2. /\ Shape(p) /\ p.kind = op.kind /\ p.from = op.from /\ p.data = op.data /\ p.then = op.then
      /\ p.n = op.n + ChunkLen(op)
      /\ op.kind = "read" => p.got = op.got \o rx
  BY <1>1, ProgressShape
<1> HIDE DEF p
<1>3. Effective = mem
  BY <1>1, EffectiveCells
<1>4. Worked(op, Reach, mem) /\ Copied
  BY <1>3 DEF DriverInv, DriverOK
<1>5. Worked(p, p.n, mem)
  <2>1. CASE op.kind # "read"
    <3>1. Reach = p.n
      BY <1>2, <2>1 DEF Reach, Sent
    <3>2. QED
      BY <1>2, <1>4, <2>1, <3>1 DEF Worked
  <2>2. CASE op.kind = "read"
    <3> DEFINE g == op.got
               n == op.n
               k == ChunkLen(op)
               f == op.from
    <3>1. n \in Nat /\ k \in Nat /\ f \in Nat /\ At(op) = f + n
      BY <1>1, ChunkFits DEF OpOK, Shape, Ops, At
    <3>2. step = "send" /\ Reach = n
      BY <1>1, <2>2 DEF Reach, Sent
    <3>3. g \in Seq(Values) /\ Len(g) = n /\ \A i \in 1 .. n : g[i] = mem[f + i - 1]
      BY <1>1, <1>4, <2>2, <3>2 DEF Worked, OpOK, Shape, Ops
    <3>4. rx = [i \in 1 .. k |-> mem[f + n + i - 1]] /\ rx \in [1 .. k -> Values]
      BY <1>1, <1>4, <2>2, <3>1, <3>2 DEF Copied
    <3>5. p.n = n + k /\ p.got = g \o rx /\ p.kind = "read" /\ p.from = f
      BY <1>2, <2>2
    <3> HIDE DEF g, n, k, f
    <3>6. rx \in Seq(Values) /\ Len(rx) = k
      <4>1. rx \in [1 .. k -> Values] /\ k \in Nat
        BY <3>1, <3>4
      <4>2. rx \in Seq(Values)
        BY <4>1
      <4>3. DOMAIN rx = 1 .. Len(rx) /\ DOMAIN rx = 1 .. k /\ Len(rx) \in Nat
        BY <4>1, <4>2
      <4>4. QED
        BY <4>1, <4>2, <4>3
    <3>7. Len(g \o rx) = n + k
      BY <3>3, <3>6
    <3>8. ASSUME NEW i \in 1 .. n + k
          PROVE  (g \o rx)[i] = mem[f + i - 1]
      <4>1. CASE i \in 1 .. n
        <5>1. (g \o rx)[i] = g[i]
          BY <3>3, <3>6, <4>1
        <5>2. QED
          BY <3>3, <4>1, <5>1
      <4>2. CASE i > n
        <5> DEFINE j == i - n
        <5>1. j \in 1 .. k /\ f + n + j - 1 = f + i - 1
          BY <3>1, <4>2
        <5>2. (g \o rx)[i] = rx[j]
          BY <3>1, <3>3, <3>6, <4>2
        <5> HIDE DEF j
        <5>3. rx[j] = mem[f + n + j - 1]
          BY <3>4, <5>1
        <5>4. QED
          BY <5>1, <5>2, <5>3
      <4>3. i \in 1 .. n \/ i > n
        BY <3>1
      <4>4. QED
        BY <4>1, <4>2, <4>3
    <3>9. QED
      BY <3>5, <3>7, <3>8 DEF Worked
  <2>3. QED
    BY <2>1, <2>2
<1>6. QED
  BY <1>1, <1>2, <1>5 DEF p

LEMMA ModGap ==
  ASSUME NEW p \in Nat \ {0}, NEW a \in Nat, NEW b \in Nat, a % p = 0, b % p = 0, b <= a, a - b # 0
  PROVE  p <= a - b
<1>1. PICK i \in Int : a = p * i
  BY Quotient
<1>2. PICK j \in Int : b = p * j
  BY Quotient
<1>3. a - b = p * (i - j) /\ i - j \in Int
  BY <1>1, <1>2
<1>4. (p * (i - j)) % p = 0
  BY <1>3, ModOfProduct
<1>5. a - b \in Nat \ {0} /\ (a - b) % p = 0
  BY <1>3, <1>4
<1>6. QED
  BY <1>5, ModPositive

\* A format is cut at whole pages: it is never found misaligned.
LEMMA FormatAligned ==
  ASSUME NEW p, Shape(p), p.then = "format"
  PROVE  Misaligned(p) => Left(p) = 0
<1>1. p.from = 0 /\ p.n % PageLen = 0 /\ p.n \in Nat /\ Len(p.data) = Size /\ p.n <= Size
  BY SizeAssumption, BlankCells DEF Shape, Ops
<1>2. At(p) = p.n /\ Left(p) = Size - p.n
  BY <1>1, SizeAssumption DEF At, Left
<1>3. Size - p.n # 0 => PageLen <= Size - p.n
  BY <1>1, SizeAssumption, ModGap
<1>4. QED
  BY <1>1, <1>2, <1>3, SizeAssumption DEF Misaligned

\* A call that has its first step to make next.
LEMMA StartsOp ==
  ASSUME TypeInv', UNCHANGED <<chip, transfer, timeout>>, spi' = "out", Idle,
         op'.kind \in {"read", "write", "erase"}, step' = FirstStep(op'),
         op'.then # "key", Worked(op', op'.n, mem),
         op'.then # "caller" => ~timeout /\ transfer = "none",
         op'.then = "caller" => HasKey,
         op'.then = "nothing" => KeyOnly /\ op'.n = 0 /\ mem[0] = Blank
  PROVE  DriverOK'
<1>1. ~Taken' /\ step' = (IF op'.kind = "read" THEN "send" ELSE "wren") /\ UNCHANGED <<mem, wel, job>>
  BY DEF Taken, FirstStep, chip
<1>2. ChipTypes' /\ DOMAIN job' = {} /\ Idle'
  BY <1>1, NoJobIsEmpty DEF TypeInv, Idle
<1>3. Effective' = mem
  <2>1. Effective' = [c \in Cells |-> mem[c]]
    BY <1>1, <1>2 DEF Effective, With
  <2>2. QED
    BY <1>1, <1>2, <2>1 DEF ChipTypes
<1>4. Reach' = op'.n
  BY <1>1 DEF Reach, Sent
<1>5. Worked(op, Reach, Effective)'
  BY <1>3, <1>4
<1>6. Faultless' /\ Resting' /\ JobInside' /\ Copied' /\ NoAnswer'
  BY <1>1, <1>2 DEF Faultless, Resting, JobInside, Copied, NoAnswer
<1>7. KeyOK'
  BY <1>1, <1>3, <1>4 DEF KeyOK, HasKey, KeyOnly, KeySeen
<1>8. QED
  BY <1>5, <1>6, <1>7 DEF DriverOK

LEMMA ComesToRest ==
  ASSUME step' = "ready", op' = NoOp, spi' = "out", HasKey'
  PROVE  DriverOK'
<1>1. op'.kind = "none" /\ op'.then = "caller"
  BY DEF NoOp
<1>2. QED
  BY <1>1 DEF DriverOK, Faultless, Resting, JobInside, Worked, Copied, KeyOK, NoAnswer

\* The pieces go on, or the call ends, all of it done.
LEMMA IterateDone ==
  ASSUME DriverInv, TypeInv', UNCHANGED <<chip, transfer, timeout>>, spi' = "out", Idle,
         ~timeout, transfer = "none",
         NEW p, Shape(p), p.kind # "none", p.then = op.then, Worked(p, p.n, mem),
         step \notin {"ready", "down"}, op.then \in {"key", "nothing"} => p.n = 1,
         op.then = "nothing" => mem[0] = Key,
         Iterate(p)
  PROVE  DriverOK'
<1>1. op.then \in Thens /\ p.kind \in {"read", "write", "erase"} /\ p.n \in Nat /\ Len(p.data) \in Nat /\ 0 \in Cells
  BY SizeAssumption DEF DriverInv, TypeInv, OpOK, Shape, Ops, Kinds, Cells
<1>2. HasKey' <=> HasKey
  BY DEF HasKey, chip
<1>3. op.then \in {"key", "nothing"} => Left(p) = 0
  <2> HAVE op.then \in {"key", "nothing"}
  <2>1. p.n = 1
    OBVIOUS
  <2>2. Len(p.data) = 1
    <3>1. p.data = <<Blank>> \/ p.data = <<Key>>
      BY DEF Shape
    <3>2. QED
      BY <3>1
  <2>3. QED
    BY <2>1, <2>2 DEF Left
<1>4. DOMAIN job = {}
  BY NoJobIsEmpty DEF Idle
<1>5. CASE Left(p) # 0 /\ ~Misaligned(p)
  <2>1. step' = FirstStep(p) /\ op' = p
    BY <1>5 DEF Iterate, Goes
  <2>2. op.then \in {"caller", "format"}
    BY <1>1, <1>3, <1>5 DEF Thens
  <2>3. op.then = "caller" => HasKey
    BY DEF DriverInv, DriverOK, KeyOK
  <2>4. QED
    BY <1>1, <2>1, <2>2, <2>3, StartsOp
<1>6. CASE op.then = "caller" /\ (Left(p) = 0 \/ Misaligned(p))
  <2>1. PICK r : Ended(p, r)
    BY <1>6 DEF Iterate
  <2>2. step' = "ready" /\ op' = NoOp
    BY <1>6, <2>1 DEF Ended, Goes
  <2>3. HasKey'
    BY <1>2, <1>6 DEF DriverInv, DriverOK, KeyOK
  <2>4. QED
    BY <2>2, <2>3, ComesToRest
<1>7. CASE op.then # "caller" /\ (Left(p) = 0 \/ Misaligned(p))
  <2>1. Left(p) = 0
    BY <1>1, <1>3, <1>7, FormatAligned DEF Thens
  <2>2. Ended(p, "success")
    BY <2>1 DEF Iterate
  <2>3. CASE op.then = "nothing"
    <3>1. step' = "ready" /\ op' = NoOp
      BY <2>2, <2>3 DEF Ended, Goes
    <3>2. HasKey'
      BY <1>2, <1>4, <2>3 DEF HasKey
    <3>3. QED
      BY <3>1, <3>2, ComesToRest
  <2>4. CASE op.then = "format"
    <3>1. step' = "wren" /\ op' = KeyWrite
      BY <2>2, <2>4 DEF Ended, Goes
    <3>2. p.n = Size /\ p.from = 0 /\ p.kind = "erase"
      <4>1. p.from = 0 /\ p.kind = "erase" /\ p.data = Blanks(Size)
        BY <2>4 DEF Shape
      <4>2. Len(p.data) = Size
        BY <4>1, SizeAssumption, BlankCells
      <4>3. Len(p.data) - p.n = 0
        BY <2>1 DEF Left
      <4>4. QED
        BY <1>1, <4>1, <4>2, <4>3
    <3>3. \A c \in Cells : mem[c] = Blank
      <4>1. ASSUME NEW c \in Cells
            PROVE  mem[c] = Blank
        <5>1. c + 1 \in 1 .. Size /\ 0 + (c + 1) - 1 = c
          BY SizeAssumption DEF Cells
        <5>2. QED
          BY <3>2, <5>1 DEF Worked
      <4>2. QED
        BY <4>1
    <3>4. KeyOnly /\ mem[0] = Blank
      BY <1>1, <1>4, <3>3 DEF KeyOnly
    <3>5. /\ KeyWrite.kind = "write" /\ KeyWrite.n = 0 /\ KeyWrite.got = <<>> /\ KeyWrite.then = "nothing"
          /\ FirstStep(KeyWrite) = "wren"
      BY DEF KeyWrite, Op, FirstStep
    <3>6. Worked(KeyWrite, 0, mem)
      BY <3>5, WorkedNothing
    <3>7. QED
      BY <3>1, <3>4, <3>5, <3>6, StartsOp
  <2>5. CASE op.then = "key"
    <3>1. LooksAtKey(p.got[1])
      BY <2>2, <2>5 DEF Ended
    <3>2. p.n = 1 /\ p.from = 0 /\ p.kind = "read"
      BY <2>5 DEF Shape
    <3>3. p.got[1] = mem[0]
      <4>1. 1 \in 1 .. 1 /\ 0 + 1 - 1 = 0
        OBVIOUS
      <4>2. QED
        BY <3>2, <4>1 DEF Worked
    <3>4. KeySeen \/ KeyOnly
      BY <2>5 DEF DriverInv, DriverOK, KeyOK
    <3>5. CASE mem[0] = Key /\ Goes("ready", NoOp)
      <4>1. HasKey'
        BY <1>2, <1>4, <3>5 DEF HasKey
      <4>2. QED
        BY <3>5, <4>1, ComesToRest DEF Goes
    <3>6. CASE mem[0] = Blank /\ Goes("wren", KeyWrite)
      <4>1. KeyOnly
        BY <3>4, <3>6 DEF KeySeen
      <4>2. /\ KeyWrite.kind = "write" /\ KeyWrite.n = 0 /\ KeyWrite.got = <<>> /\ KeyWrite.then = "nothing"
            /\ FirstStep(KeyWrite) = "wren"
        BY DEF KeyWrite, Op, FirstStep
      <4>3. Worked(KeyWrite, 0, mem)
        BY <4>2, WorkedNothing
      <4>4. QED
        BY <3>6, <4>1, <4>2, <4>3, StartsOp DEF Goes
    <3>7. CASE Goes("wren", FormatAll)
      <4>1. /\ FormatAll.kind = "erase" /\ FormatAll.n = 0 /\ FormatAll.got = <<>> /\ FormatAll.then = "format"
            /\ FirstStep(FormatAll) = "wren"
        BY DEF FormatAll, Op, FirstStep
      <4>2. Worked(FormatAll, 0, mem)
        BY <4>1, WorkedNothing
      <4>3. QED
        BY <3>7, <4>1, <4>2, StartsOp DEF Goes
    <3>8. QED
      BY <3>1, <3>3, <3>5, <3>6, <3>7 DEF LooksAtKey
  <2>6. QED
    BY <1>1, <1>7, <2>3, <2>4, <2>5 DEF Thens
<1>8. QED
  BY <1>5, <1>6, <1>7

LEMMA DriverReturns ==
  ASSUME NoneBetween, FaultsInCalls, DriverInv, TransferReturns
  PROVE  DriverOK'
<1>1. /\ spi = "left" /\ spi' = "out" /\ ~timeout' /\ UNCHANGED err
      /\ transfer' = IF transfer = "mine" THEN "earlier" ELSE transfer
  BY DEF TransferReturns, Finish
<1>2. GoesOn(Result) /\ TypeInv /\ TypeInv' /\ OpOK(op) /\ StepOK(step, op) /\ ChipTypes
  BY <1>1, ContinueCases, TypeReturns DEF TransferReturns, DriverInv, TypeInv
<1>3. ~Taken'
  BY <1>1 DEF Taken
<1>4. ASSUME Result = "success"
      PROVE  Taken /\ ~timeout /\ transfer = "none" /\ UNCHANGED <<chip, transfer, timeout, mem, wel, job>>
  <2>1. Taken /\ ~timeout
    BY <1>1, <1>4, ReturnsSuccess DEF DriverInv, Result, Taken
  <2>2. transfer = "none" /\ timeout \in BOOLEAN
    BY <2>1 DEF Taken, DriverInv, SpiInv, SpiTypes
  <2>3. timeout' = FALSE /\ transfer' = transfer
    BY <1>1, <2>2 DEF TransferReturns, Finish
  <2>4. UNCHANGED <<mem, wel, job>>
    BY <2>2 DEF TransferReturns, chip
  <2>5. QED
    BY <2>1, <2>2, <2>3, <2>4 DEF chip
<1>5. ASSUME step = "poll" \/ (step = "send" /\ op.kind = "read"), Result = "success", Idle, Iterate(Progress(op))
      PROVE  DriverOK'
  <2>1. /\ Shape(Progress(op)) /\ Worked(Progress(op), Progress(op).n, mem)
        /\ Progress(op).kind = op.kind /\ op.kind # "none"
        /\ Progress(op).then = op.then /\ Progress(op).n = op.n + ChunkLen(op)
    BY <1>1, <1>4, <1>5, PieceDone
  <2>2. op.then \in {"key", "nothing"} => ChunkLen(op) = 1 /\ op.n = 0
    BY <1>2, KeyIsOnePiece
  <2>3. op.then = "nothing" => mem[0] = Key
    <3> HAVE op.then = "nothing"
    <3>1. op.kind = "write" /\ step = "poll"
      BY <1>2, <1>5 DEF OpOK, Shape
    <3>2. Reach = 1
      BY <2>2, <3>1 DEF Reach, Sent
    <3>3. Effective[0] = Key
      BY <3>2 DEF DriverInv, DriverOK, KeyOK
    <3>4. QED
      BY <1>2, <1>5, <3>3, EffectiveCells
  <2>4. op.then \in {"key", "nothing"} => Progress(op).n = 1
    BY <2>1, <2>2
  <2>5. step \notin {"ready", "down"}
    BY <1>5
  <2> DEFINE p == Progress(op)
  <2>6. Shape(p) /\ p.kind # "none" /\ p.then = op.then /\ Worked(p, p.n, mem) /\ Iterate(p)
        /\ (op.then \in {"key", "nothing"} => p.n = 1)
    BY <1>5, <2>1, <2>4
  <2> HIDE DEF p
  <2>7. QED
    BY <1>1, <1>2, <1>4, <1>5, <2>3, <2>5, <2>6, IterateDone
\* The driver makes another SPI call for the same piece.
<1>6. ASSUME UNCHANGED <<op, reply, chip>>, Result = "success", Sent' <=> Sent, step' \in {"send", "poll", "rst"},
             step' = "send" => step \in {"wren", "rst"}, step' = "poll" => step \in {"send", "poll"} /\ op.kind # "read",
             step' = "rst" => step = "rsten"
      PROVE  DriverOK'
  <2>1. /\ UNCHANGED <<mem, wel, job, transfer, timeout>> /\ Taken /\ ~timeout /\ transfer = "none"
    BY <1>4, <1>6
  <2>2. Effective' = Effective /\ Reach' = Reach
    BY <1>6, <2>1 DEF Effective, With, Reach
  <2>3. Worked(op, Reach, Effective)'
    BY <1>6, <2>2 DEF DriverInv, DriverOK
  <2>4. Faultless' /\ Copied' /\ NoAnswer'
    BY <1>1, <1>3, <1>6, <2>1 DEF Faultless, Copied, NoAnswer, DriverInv, DriverOK
  <2>5. Resting'
    BY <1>2, <1>3, <1>6, <2>1 DEF Resting, Idle, DriverInv, DriverOK, StepOK, KeyRead, Op
  <2>6. JobInside'
    <3>1. step' = "send" => DOMAIN job = {}
      BY <1>2, <1>6, <2>1, EffectiveCells DEF Resting, DriverInv, DriverOK
    <3>2. QED
      BY <1>6, <2>1, <3>1 DEF JobInside, DriverInv, DriverOK
  <2>7. KeyOK'
    BY <1>2, <1>6, <2>1, <2>2 DEF KeyOK, HasKey, KeyOnly, KeySeen, DriverInv, DriverOK, StepOK
  <2>8. QED
    BY <2>3, <2>4, <2>5, <2>6, <2>7 DEF DriverOK
<1>7. CASE step = "wren" /\ Result = "success"
  <2>1. step' = "send" /\ UNCHANGED <<op, reply>> /\ op.kind \in {"write", "erase"}
    BY <1>2, <1>7 DEF GoesOn, Goes, StepOK
  <2>2. UNCHANGED chip /\ (Sent' <=> Sent)
    BY <1>3, <1>4, <1>7, <2>1 DEF Sent
  <2>3. QED
    BY <1>6, <1>7, <2>1, <2>2
<1>8. CASE step = "send" /\ Result = "success"
  <2>1. CASE op.kind = "read"
    <3>1. Idle /\ Iterate(Progress(op))
      BY <1>2, <1>8, <2>1 DEF GoesOn, DriverInv, DriverOK, Resting
    <3>2. QED
      BY <1>5, <1>8, <2>1, <3>1
  <2>2. CASE op.kind # "read"
    <3>1. step' = "poll" /\ UNCHANGED <<op, reply>>
      BY <1>2, <1>8, <2>2 DEF GoesOn, Goes
    <3>2. UNCHANGED chip /\ (Sent' <=> Sent)
      BY <1>4, <1>8, <2>2, <3>1 DEF Sent
    <3>3. QED
      BY <1>6, <1>8, <2>2, <3>1, <3>2
  <2>3. QED
    BY <2>1, <2>2
<1>9. CASE step = "poll" /\ Result = "success"
  <2>1. CASE rx = <<"busy">>
    <3>1. step' = "poll" /\ UNCHANGED <<op, reply>> /\ op.kind # "read"
      BY <1>2, <1>9, <2>1 DEF GoesOn, Goes, StepOK
    <3>2. UNCHANGED chip /\ (Sent' <=> Sent)
      BY <1>4, <1>9, <3>1 DEF Sent
    <3>3. QED
      BY <1>6, <1>9, <3>1, <3>2
  <2>2. CASE rx # <<"busy">>
    <3>1. Idle /\ Iterate(Progress(op))
      BY <1>2, <1>4, <1>9, <2>2 DEF GoesOn, DriverInv, DriverOK, Resting, TypeInv, Received
    <3>2. QED
      BY <1>5, <1>9, <3>1
  <2>3. QED
    BY <2>1, <2>2
<1>10. CASE step \in {"wren", "send", "poll"} /\ Result # "success"
  <2>1. op.then = "caller"
    BY <1>1, <1>10, ReturnsAlways DEF DriverInv, DriverOK
  <2>2. Ended(op, Result)
    BY <1>2, <1>10 DEF GoesOn
  <2>3. step' = "ready" /\ op' = NoOp
    BY <2>1, <2>2 DEF Ended, Goes
  <2>4. HasKey'
    <3>1. HasKey
      BY <1>10, <2>1 DEF DriverInv, DriverOK, KeyOK
    <3>2. CASE UNCHANGED <<mem, job>>
      BY <3>1, <3>2 DEF HasKey
    <3>3. CASE \E j : Obeyed(j)
      <4>1. PICK j : Obeyed(j)
        BY <3>3
      <4>2. job' = j /\ UNCHANGED mem
        BY <4>1 DEF Obeyed
      <4>3. QED
        BY <1>2, <2>1, <3>1, <4>1, <4>2, ObeyedKey DEF HasKey
    <3>4. QED
      BY <1>2, <3>2, <3>3, CutCases DEF TransferReturns, chip
  <2>5. QED
    BY <1>1, <2>3, <2>4, ComesToRest
<1>11. CASE step \in {"rsten", "rst"}
  <2>1. op = KeyRead /\ op.kind = "read" /\ op.then = "key"
    BY <1>2, <1>11 DEF StepOK, KeyRead, Op
  <2>2. Result = "success"
    BY <1>1, <2>1, ReturnsAlways DEF DriverInv, DriverOK
  <2>3. UNCHANGED <<op, reply>> /\ step' = (IF step = "rsten" THEN "rst" ELSE "send")
    BY <1>2, <1>11, <2>2 DEF GoesOn, Goes
  <2>4. UNCHANGED chip /\ (Sent' <=> Sent)
    BY <1>4, <1>11, <2>1, <2>2, <2>3 DEF Sent
  <2>5. QED
    BY <1>6, <1>11, <2>1, <2>2, <2>3, <2>4
<1>12. step \in {"wren", "send", "poll", "rsten", "rst"}
  BY <1>2 DEF GoesOn
<1>13. QED
  BY <1>7, <1>8, <1>9, <1>10, <1>11, <1>12

-----------------------------------------------------------------------------
(***************************************************************************)
(* Calls that begin too early.                                             *)
(***************************************************************************)
Lateness == late \in BOOLEAN /\ (late => step \notin {"ready", "down"} /\ op.then # "key")

\* Where a call stands when a transfer of it has returned r: it goes on with its
\* piece, or the piece is over.
SamePiece(r) ==
    /\ r = "success" /\ UNCHANGED <<op, reply>> /\ step' \in {"send", "poll"}
    /\ step' = "send" => step = "wren"
    /\ step' = "poll" => op.kind # "read" /\ step \in {"send", "poll"}
    /\ step' = "poll" /\ step = "poll" => rx = <<"busy">>

PieceOver(r) == r # "success" \/ (step = "send" /\ op.kind = "read") \/ (step = "poll" /\ rx = <<"idle">>)

Leads(r) ==
    \/ r = "success" /\ op' = Progress(op) /\ step' = FirstStep(op) /\ UNCHANGED reply
    \/ op.then = "format" /\ op' = KeyWrite /\ step' = "wren" /\ UNCHANGED reply
    \/ op.then = "nothing" /\ op' = NoOp /\ step' = "ready" /\ UNCHANGED reply
    \/ /\ op.then = "caller" /\ op' = NoOp /\ step' = "ready"
       /\ \/ reply' = Answer("invalid", <<>>)
          \/ r # "success" /\ reply' = Answer(r, <<>>)
          \/ \E d \in Seq(Values) : reply' = Answer("success", d)

LEMMA CallGoesOn ==
  ASSUME TypeInv, spi = "left", op.then # "key", NEW r, GoesOn(r)
  PROVE  /\ step \in {"wren", "send", "poll"}
         /\ SamePiece(r) \/ (PieceOver(r) /\ Leads(r))
<1>1. OpOK(op) /\ Shape(op) /\ StepOK(step, op) /\ Received /\ op.then \in {"caller", "nothing", "format"}
  BY DEF TypeInv, OpOK, Shape, Ops, Thens
<1>2. step \in {"wren", "send", "poll"}
  BY <1>1 DEF GoesOn, StepOK, KeyRead, Op
<1>3. ASSUME NEW q, NEW x, Ended(q, x), q.then = op.then, x = "success" => q.got \in Seq(Values),
             x \in {"success", "invalid"} \/ x = r
      PROVE  Leads(r)
  <2>1. CASE op.then = "format"
    BY <1>3, <2>1 DEF Ended, Goes, Leads
  <2>2. CASE op.then = "nothing"
    BY <1>3, <2>2 DEF Ended, Goes, Leads
  <2>3. CASE op.then = "caller"
    <3>1. op' = NoOp /\ step' = "ready" /\ reply' = Answer(x, IF x = "success" THEN q.got ELSE <<>>)
      BY <1>3, <2>3 DEF Ended, Goes
    <3>2. CASE x = "success"
      <4>1. q.got \in Seq(Values) /\ reply' = Answer("success", q.got)
        BY <1>3, <3>1, <3>2
      <4>2. QED
        BY <2>3, <3>1, <4>1 DEF Leads
    <3>3. CASE x # "success"
      BY <1>3, <2>3, <3>1, <3>3 DEF Leads
    <3>4. QED
      BY <3>2, <3>3
  <2>4. QED
    BY <1>1, <2>1, <2>2, <2>3
<1>4. ASSUME r = "success", Iterate(Progress(op)), step = "poll" \/ (step = "send" /\ op.kind = "read")
      PROVE  Leads(r)
  <2> DEFINE p == Progress(op)
  <2>1. op.kind # "none" /\ ~Misaligned(op) /\ (op.kind = "read" => rx \in [1 .. ChunkLen(op) -> Values])
    BY <1>1, <1>4 DEF StepOK, OpOK, Received
  <2>2. Shape(p) /\ p.then = op.then /\ p.kind = op.kind
    BY <1>1, <2>1, ProgressShape
  <2>3. Iterate(p)
    BY <1>4
  <2>4. p = Progress(op)
    OBVIOUS
  <2> HIDE DEF p
  <2>5. p.got \in Seq(Values)
    BY <2>2 DEF Shape, Ops
  <2>6. CASE Left(p) # 0 /\ ~Misaligned(p)
    BY <1>4, <2>2, <2>3, <2>4, <2>6 DEF Iterate, Goes, FirstStep, Leads
  <2>7. CASE Left(p) = 0 \/ Misaligned(p)
    <3>1. PICK x \in {"success", "invalid"} : Ended(p, x)
      BY <2>3, <2>7 DEF Iterate
    <3>2. QED
      BY <1>3, <2>2, <2>5, <3>1
  <2>8. QED
    BY <2>6, <2>7
<1>5. CASE step = "wren"
  <2>1. CASE r = "success"
    BY <1>1, <1>5, <2>1 DEF GoesOn, Goes, SamePiece
  <2>2. CASE r # "success"
    <3>1. Ended(op, r)
      BY <1>1, <1>5, <2>2 DEF GoesOn
    <3>2. QED
      BY <1>2, <1>3, <2>2, <3>1 DEF PieceOver
  <2>3. QED
    BY <1>2, <2>1, <2>2
<1>6. CASE step = "send"
  <2>1. CASE r = "success" /\ op.kind # "read"
    BY <1>1, <1>6, <2>1 DEF GoesOn, Goes, SamePiece
  <2>2. CASE r = "success" /\ op.kind = "read"
    <3>1. Iterate(Progress(op))
      BY <1>1, <1>6, <2>2 DEF GoesOn
    <3>2. QED
      BY <1>2, <1>4, <1>6, <2>2, <3>1 DEF PieceOver
  <2>3. CASE r # "success"
    <3>1. Ended(op, r)
      BY <1>1, <1>6, <2>3 DEF GoesOn
    <3>2. QED
      BY <1>2, <1>3, <2>3, <3>1 DEF PieceOver
  <2>4. QED
    BY <1>2, <2>1, <2>2, <2>3
<1>7. CASE step = "poll"
  <2>1. CASE r = "success" /\ rx = <<"busy">>
    BY <1>1, <1>7, <2>1 DEF GoesOn, Goes, SamePiece, StepOK
  <2>2. CASE r = "success" /\ rx # <<"busy">>
    <3>1. Iterate(Progress(op)) /\ rx = <<"idle">>
      BY <1>1, <1>7, <2>2 DEF GoesOn, Received
    <3>2. QED
      BY <1>2, <1>4, <1>7, <2>2, <3>1 DEF PieceOver
  <2>3. CASE r # "success"
    <3>1. Ended(op, r)
      BY <1>1, <1>7, <2>3 DEF GoesOn
    <3>2. QED
      BY <1>2, <1>3, <2>3, <3>1 DEF PieceOver
  <2>4. QED
    BY <1>2, <2>1, <2>2, <2>3
<1>8. QED
  BY <1>2, <1>5, <1>6, <1>7

LEMMA LatenessStep ==
  ASSUME TypeInv, Lateness, [Next]_vars
  PROVE  Lateness'
<1>1. CASE Command
  <2>1. PICK o : NextCall(o)
    BY <1>1, CommandCases
  <2>2. CASE late' = FALSE
    BY <2>2 DEF Lateness
  <2>3. CASE /\ step' = FirstStep(o) /\ op' = o /\ late' = TooEarly(o)
             /\ o.then = "caller" \/ o = FormatAll
    <3>1. TooEarly(o) \in BOOLEAN /\ step' \notin {"ready", "down"} /\ o.then # "key"
      BY <2>3 DEF TooEarly, FirstStep, FormatAll, Op
    <3>2. QED
      BY <2>3, <3>1 DEF Lateness
  <2>4. QED
    BY <2>1, <2>2, <2>3 DEF NextCall
<1>2. CASE TransferReturns
  <2>1. spi = "left" /\ GoesOn(Result) /\ late' = (late /\ step' # "ready")
    BY <1>2, ContinueCases DEF TransferReturns, Finish
  <2>2. CASE ~late
    BY <2>1, <2>2 DEF Lateness
  <2>3. CASE late
    <3>1. op.then # "key" /\ (SamePiece(Result) \/ Leads(Result))
      BY <2>1, <2>3, CallGoesOn DEF Lateness
    <3>2. Progress(op).then = op.then
      <4>1. op \in Ops
        BY DEF TypeInv, OpOK, Shape
      <4>2. QED
        BY <4>1 DEF Progress, Ops
    <3>3. op'.then # "key" /\ step' # "down"
      BY <3>1, <3>2 DEF SamePiece, Leads, FirstStep, KeyWrite, NoOp, Op
    <3>4. QED
      BY <2>1, <3>3 DEF Lateness
  <2>4. QED
    BY <2>2, <2>3
<1>3. CASE Boot \/ PowerFails \/ ProcessorResets
  <2>1. late' = FALSE
    <3>1. late \in BOOLEAN /\ (step = "down" => ~late)
      BY DEF Lateness
    <3>2. CASE Boot
      BY <3>1, <3>2 DEF Boot
    <3>3. CASE PowerFails \/ ProcessorResets
      BY <3>3 DEF PowerFails, ProcessorResets, Restarts
    <3>4. QED
      BY <1>3, <3>2, <3>3
  <2>2. QED
    BY <2>1 DEF Lateness
<1>4. CASE TransferBegins \/ TransferStarts \/ LoopIsLeft \/ TransferEnds \/ TimerExpires \/ LateEnd \/ ChipReady
           \/ UNCHANGED vars
  BY <1>4 DEF TransferBegins, TransferStarts, LoopIsLeft, TransferEnds, TimerExpires, LateEnd, ChipReady,
              vars, driver, Lateness
<1>5. QED
  BY <1>1, <1>2, <1>3, <1>4 DEF Next, MainProgram, Interrupt

\* Whatever transfers are given up and whenever power fails, the driver keeps
\* its call inside the memory and the chip's job inside the cells.
THEOREM FlashTypesHold == Spec => []FlashTypeOK
<1>1. Init => TypeInv /\ Lateness
  BY TypeInit DEF Init, Lateness
<1>2. TypeInv /\ Lateness /\ [Next]_vars => TypeInv' /\ Lateness'
  BY TypeStep, LatenessStep
<1>3. TypeInv /\ Lateness => FlashTypeOK
  BY DEF Lateness, TypeInv, SpiTypes, ChipTypes, OpOK, Shape, Ops, StepOK, Received, FlashTypeOK
<1>4. QED
  BY <1>1, <1>2, <1>3, PTL DEF Spec

\* A call that begins too early, as far as nothing sure is known of it: it is
\* another caller's, or a format that has not got at the key, and goes on to
\* write the key over itself.
LateBus ==
    /\ transfer = "earlier" \/ (spi \in {"wait", "left"} /\ err = "busy") => step = "wren"
    /\ timeout => spi \in {"wait", "left"} /\ err = "busy"

LateOK ==
    /\ late
    /\ op.then # "caller" => LateBus
    /\ step = "poll" /\ Taken /\ rx = <<"idle">> => Idle
    /\ mem[0] = Key
    /\ 0 \in DOMAIN job => job[0] = Key /\ op.then = "nothing" /\ step \in {"send", "poll"}

LateInv == TypeInv /\ Lateness /\ SpiInv /\ LateOK

LEMMA LateCommand ==
  ASSUME DriverInv, Command, late'
  PROVE  LateOK'
<1>1. PICK o : NextCall(o)
  BY CommandCases
<1>2. /\ spi = "out" /\ op = NoOp /\ op.then = "caller" /\ step = "ready"
      /\ ~timeout /\ UNCHANGED <<spi, timeout, transfer, err, mem, wel, job, rx>>
  BY <1>1 DEF NextCall, DriverInv, TypeInv, Outside, StepOK, NoOp, SpiInv, Quiet, spiVars, chip
<1>3. HasKey
  BY <1>2 DEF DriverInv, DriverOK, KeyOK
<1>4. step' = FirstStep(o) /\ op' = o /\ (o.then = "caller" \/ o = FormatAll)
  BY <1>1 DEF NextCall
<1>5. step' # "poll" /\ (o.then # "caller" => step' = "wren")
  BY <1>4 DEF FirstStep, FormatAll, Op
<1>6. QED
  BY <1>2, <1>3, <1>4, <1>5 DEF LateOK, LateBus, HasKey

LEMMA LateQuiet ==
  ASSUME NoneBetween, FaultsInCalls, LateInv,
         TransferBegins \/ TransferStarts \/ LoopIsLeft \/ TimerExpires \/ LateEnd \/ UNCHANGED vars
  PROVE  LateOK'
<1> USE DEF LateInv, SpiInv, SpiTypes, SpiPcs
<1>1. UNCHANGED <<mem, wel, job, step, op, reply, late>>
  BY DEF TransferBegins, TransferStarts, LoopIsLeft, TimerExpires, LateEnd, vars, chip, driver
<1>2. (Taken' => Taken /\ rx' = rx) /\ (op.then # "caller" => LateBus')
  <2> USE DEF Taken, LateOK, LateBus
  <2>1. CASE TransferBegins
    BY <1>1, <2>1 DEF TransferBegins, Begin, Quiet
  <2>2. CASE TransferStarts
    BY <1>1, <2>2 DEF TransferStarts, Start, Cleared
  <2>3. CASE LoopIsLeft
    BY <1>1, <2>3 DEF LoopIsLeft, LeaveLoop
  <2>4. CASE TimerExpires
    BY <1>1, <2>4 DEF TimerExpires, Expires, FaultsInCalls
  <2>5. CASE LateEnd
    BY <1>1, <2>5 DEF LateEnd, EndsLate, Started, NoneBetween
  <2>6. CASE UNCHANGED vars
    BY <1>1, <2>6 DEF vars, spiVars
  <2>7. QED
    BY <2>1, <2>2, <2>3, <2>4, <2>5, <2>6
<1>3. QED
  BY <1>1, <1>2 DEF LateOK, Idle

LEMMA LateChipReady ==
  ASSUME LateInv, ChipReady
  PROVE  LateOK'
<1>1. /\ mem' = Effective /\ job' = NoJob /\ DOMAIN job' = {}
      /\ UNCHANGED <<step, op, reply, late, rx, spi, done, timeout, timer, transfer, err>>
  BY NoJobIsEmpty DEF ChipReady, Effective, driver, spiVars
<1>2. 0 \in Cells /\ ChipTypes
  BY SizeAssumption DEF Cells, LateInv, TypeInv
<1>3. mem'[0] = Key
  BY <1>1, <1>2, EffectiveCells DEF LateInv, LateOK
<1>4. QED
  BY <1>1, <1>3 DEF LateInv, LateOK, LateBus, Idle

LEMMA LateEnds ==
  ASSUME LateInv, TransferEnds
  PROVE  DriverOK' \/ LateOK'
<1>1. /\ spi \in {"wait", "left"} /\ err = "success" /\ ~Taken /\ Taken'
      /\ transfer = "mine" /\ UNCHANGED <<spi, timeout, err, step, op, reply, late>> /\ transfer' = "none"
  BY EndsTakes DEF LateInv, TransferEnds, Ends, driver
<1>2. /\ OpOK(op) /\ StepOK(step, op) /\ ChipTypes /\ TypeInv /\ LateOK
      /\ step \notin {"ready", "down"} /\ op.then # "key"
  BY DEF LateInv, TypeInv, LateOK, Lateness
<1>3. op.then # "caller" => LateBus' /\ ~timeout
  BY <1>1, <1>2 DEF LateOK, LateBus, LateInv, SpiInv, SpiTypes
<1>4. CASE UNCHANGED <<mem, job>> /\ (step = "poll" /\ rx' = <<"idle">> => Idle)
  BY <1>1, <1>2, <1>3, <1>4 DEF LateOK, Idle
<1>5. CASE step = "send" /\ op.kind # "read" /\ (\E j : Obeyed(j) /\ DOMAIN j = Piece) /\ UNCHANGED rx
  <2>1. PICK j : Obeyed(j) /\ DOMAIN j = Piece
    BY <1>5
  <2>2. JobOf(j) /\ job' = j /\ mem' = mem /\ Idle
    BY <2>1 DEF Obeyed
  <2>3. CASE 0 \notin DOMAIN j
    BY <1>1, <1>2, <1>3, <1>5, <2>2, <2>3 DEF LateOK
  <2>4. CASE 0 \in DOMAIN j /\ op.then = "nothing"
    <3>1. op.kind = "write" /\ op.from = 0 /\ op.data = <<Key>>
      BY <1>2, <2>4 DEF OpOK, Shape
    <3>2. j[0] = ProgramCell(mem[0], Key)
      <4>1. 0 - 0 + 1 = 1 /\ op.data[1] = Key
        BY <3>1
      <4>2. j[0] = ProgramCell(mem[0], op.data[0 - op.from + 1])
        BY <2>2, <2>4, <3>1 DEF JobOf
      <4>3. QED
        BY <3>1, <4>1, <4>2
    <3>3. j[0] = Key
      BY <1>2, <3>2 DEF LateOK, ProgramCell
    <3>4. QED
      BY <1>1, <1>2, <1>3, <1>5, <2>2, <2>4, <3>3 DEF LateOK
  <2>5. CASE 0 \in DOMAIN j /\ op.then = "format"
    <3>1. op.n = 0 /\ op.got = <<>> /\ op.kind = "erase"
      <4>1. op.n \in Nat /\ op.from = 0 /\ op.kind = "erase" /\ op.got = <<>>
        BY <1>2, <2>5 DEF OpOK, Shape, Ops
      <4>2. At(op) = op.n /\ ChunkLen(op) \in Nat
        BY <1>2, <4>1, ChunkFits DEF At, OpOK
      <4>3. 0 \in op.n .. op.n + ChunkLen(op) - 1
        BY <2>1, <2>5, <4>2 DEF Piece
      <4>4. QED
        BY <4>1, <4>2, <4>3
    <3>2. Worked(op, op.n, Effective)
      BY <3>1, WorkedNothing
    <3>3. Worked(op, op.n + ChunkLen(op), Effective)'
      BY <1>1, <1>2, <2>1, <3>2, ObeyedWorks
    <3>4. Reach' = op'.n + ChunkLen(op')
      BY <1>1, <1>5 DEF Reach, Sent
    <3>5. Worked(op, Reach, Effective)'
      BY <3>3, <3>4
    <3>6. Faultless' /\ Resting' /\ JobInside' /\ Copied' /\ NoAnswer'
      BY <1>1, <1>2, <1>3, <1>5, <2>1, <2>2, <2>5 DEF Faultless, Resting, JobInside, Copied, NoAnswer, Piece
    <3>7. KeyOK'
      BY <1>1, <1>2, <2>5 DEF KeyOK
    <3>8. QED
      BY <3>5, <3>6, <3>7 DEF DriverOK
  <2>6. op.then # "caller" \/ 0 \notin DOMAIN j
    BY <1>2, <2>1, ObeyedKey
  <2>7. QED
    BY <1>2, <2>3, <2>4, <2>5, <2>6 DEF OpOK, Shape, Ops, Thens
<1>6. \/ UNCHANGED <<mem, job>> /\ (step = "poll" /\ rx' = <<"idle">> => Idle)
      \/ (step = "send" /\ op.kind # "read" /\ (\E j : Obeyed(j) /\ DOMAIN j = Piece) /\ UNCHANGED rx)
  <2>1. <<"busy">> # <<"idle">>
    OBVIOUS
  <2>2. ~TakesReset
    BY <1>2 DEF TakesReset, StepOK, KeyRead, Op
  <2>3. QED
    BY <1>2, <2>1, <2>2, EndCases DEF TakesRead, TakesStatus, chip
<1>7. QED
  BY <1>4, <1>5, <1>6

LEMMA LateRestarts ==
  ASSUME LateInv, CrashesOutsideFormats, PowerFails \/ ProcessorResets
  PROVE  DriverOK'
<1>1. /\ step # "down" /\ op.then \in CrashIn
      /\ step' = "down" /\ op' = NoOp /\ reply' = NoReply /\ spi' = "out" /\ transfer' = "none"
  BY DEF PowerFails, ProcessorResets, Running, Restarts, Reset
<1>2. op.then \in {"caller", "nothing"} /\ TypeInv /\ ChipTypes
  BY <1>1 DEF CrashesOutsideFormats, LateInv, Lateness, LateOK, TypeInv, OpOK, Shape, Ops, Thens
<1>3. KeySeen /\ mem[0] = Key /\ (op.then = "caller" => HasKey)
  BY <1>2, ContentAssumption DEF LateInv, LateOK, KeySeen, HasKey
<1>4. KeySeen'
  <2>1. CASE PowerFails
    BY <1>2, <1>3, <2>1, AbortedKey DEF PowerFails
  <2>2. CASE ProcessorResets
    <3>1. CASE UNCHANGED <<mem, job>>
      BY <1>3, <3>1 DEF KeySeen
    <3>2. CASE \E j : Obeyed(j)
      <4>1. PICK j : Obeyed(j)
        BY <3>2
      <4>2. job' = j /\ UNCHANGED mem /\ JobOf(j)
        BY <4>1 DEF Obeyed
      <4>3. CASE op.then = "caller"
        BY <1>2, <1>3, <4>1, <4>2, <4>3, ObeyedKey DEF KeySeen
      <4>4. CASE op.then = "nothing"
        <5>1. op.kind = "write" /\ op.from = 0 /\ op.data = <<Key>>
          BY <1>2, <4>4 DEF TypeInv, OpOK, Shape
        <5>2. 0 \in DOMAIN j => j[0] = Key
          <6>1. op.data[0 - op.from + 1] = Key
            <7>1. 0 - 0 + 1 = 1 /\ <<Key>>[1] = Key
              OBVIOUS
            <7>2. QED
              BY <5>1, <7>1
          <6>2. QED
            BY <1>3, <4>2, <5>1, <6>1 DEF JobOf, ProgramCell
        <5>3. QED
          BY <1>3, <4>2, <5>2, ContentAssumption DEF KeySeen
      <4>5. QED
        BY <1>2, <4>3, <4>4
    <3>3. QED
      BY <1>2, <2>2, <3>1, <3>2, CutCases DEF ProcessorResets, chip
  <2>3. QED
    BY <2>1, <2>2
<1>5. op'.then = "caller" /\ op'.kind = "none"
  BY <1>1 DEF NoOp
<1>6. Worked(op, Reach, Effective)'
  BY <1>5 DEF Worked
<1>7. QED
  BY <1>1, <1>4, <1>5, <1>6 DEF DriverOK, Faultless, Resting, JobInside, Copied, KeyOK, NoAnswer

LEMMA LateReturns ==
  ASSUME LateInv, TransferReturns
  PROVE  DriverOK' \/ LateOK'
<1>1. /\ spi = "left" /\ spi' = "out" /\ ~timeout' /\ UNCHANGED err
      /\ transfer' = IF transfer = "mine" THEN "earlier" ELSE transfer
      /\ late' = (late /\ step' # "ready")
  BY DEF TransferReturns, Finish
<1>2. /\ GoesOn(Result) /\ TypeInv /\ OpOK(op) /\ StepOK(step, op) /\ ChipTypes /\ LateOK /\ late
      /\ op.then # "key" /\ SpiInv
  BY <1>1, ContinueCases DEF TransferReturns, LateInv, TypeInv, LateOK, Lateness
<1>3. step \in {"wren", "send", "poll"} /\ (SamePiece(Result) \/ (PieceOver(Result) /\ Leads(Result)))
  BY <1>1, <1>2, CallGoesOn
<1>4. ASSUME Result = "success"
      PROVE  Taken /\ UNCHANGED <<transfer, mem, wel, job>> /\ transfer = "none"
  <2>1. Taken /\ transfer = "none"
    BY <1>1, <1>2, <1>4, ReturnsSuccess DEF Taken
  <2>2. QED
    BY <1>1, <2>1 DEF TransferReturns, chip
<1>5. ~Taken' /\ op \in Ops
  BY <1>1, <1>2 DEF Taken, OpOK, Shape
<1>6. CASE SamePiece(Result)
  <2>1. LateBus'
    BY <1>1, <1>4, <1>6 DEF SamePiece, LateBus
  <2>2. QED
    BY <1>1, <1>2, <1>4, <1>5, <1>6, <2>1 DEF SamePiece, LateOK
<1>7. CASE PieceOver(Result) /\ Leads(Result)
  <2>1. op.then # "caller" => 0 \notin DOMAIN job /\ UNCHANGED <<mem, job>>
                              /\ (Result # "success" => step = "wren")
    <3> HAVE op.then # "caller"
    <3>1. CASE Result = "success"
      <4>1. (step = "poll" /\ rx = <<"idle">>) \/ op.kind = "read"
        BY <1>7, <3>1 DEF PieceOver
      <4>2. op.kind # "read"
        BY <1>2 DEF OpOK, Shape, Ops, Thens
      <4>3. Idle
        BY <1>2, <1>4, <3>1, <4>1, <4>2 DEF LateOK
      <4>4. QED
        BY <1>4, <3>1, <4>3, NoJobIsEmpty DEF Idle
    <3>2. CASE Result # "success"
      <4>1. err = "busy" /\ step = "wren" /\ transfer # "mine"
        BY <1>1, <1>2, <3>2 DEF LateOK, LateBus, Result, SpiInv, SpiTypes, Refused
      <4>2. QED
        BY <1>2, <3>2, <4>1 DEF LateOK, TransferReturns, chip
    <3>3. QED
      BY <3>1, <3>2
  <2>2. HasKey'
    <3>1. CASE UNCHANGED <<mem, job>>
      BY <1>2, <2>1, <3>1 DEF LateOK, HasKey
    <3>2. CASE op.then = "caller" /\ \E j : Obeyed(j)
      <4>1. PICK j : Obeyed(j)
        BY <3>2
      <4>2. job' = j /\ UNCHANGED mem
        BY <4>1 DEF Obeyed
      <4>3. QED
        BY <1>2, <3>2, <4>1, <4>2, ObeyedKey DEF HasKey, LateOK
    <3>3. QED
      BY <1>2, <2>1, <3>1, <3>2, CutCases DEF TransferReturns, chip
  <2>3. CASE step' = "ready" /\ op' = NoOp
    BY <1>1, <2>2, <2>3, ComesToRest
  <2>4. CASE op.then # "caller" /\ step' = "wren" /\ op'.then \in {"format", "nothing"}
    BY <1>1, <1>2, <1>5, <2>2, <2>4 DEF LateOK, LateBus, HasKey
  <2>5. CASE op.then = "caller" /\ Result = "success" /\ op' = Progress(op) /\ step' = FirstStep(op)
    <3>1. op'.then = "caller" /\ step' \in {"wren", "send"}
      BY <1>5, <2>5 DEF Progress, FirstStep, Ops
    <3>2. QED
      BY <1>1, <1>2, <1>5, <2>2, <3>1 DEF LateOK, HasKey
  <2>6. CASE op.then # "caller" /\ Result = "success" /\ op' = Progress(op) /\ step' = FirstStep(op)
    <3>1. op.kind \in {"write", "erase"} /\ op.then \in {"format", "nothing"}
      BY <1>2, <2>6 DEF OpOK, Shape, Ops, Thens
    <3>2. op'.then = op.then /\ step' = "wren"
      BY <1>5, <2>6, <3>1 DEF Progress, FirstStep, Ops
    <3>3. QED
      BY <2>4, <2>6, <3>1, <3>2
  <2>7. KeyWrite.then = "nothing"
    BY DEF KeyWrite, Op
  <2>8. QED
    BY <1>7, <2>3, <2>4, <2>5, <2>6, <2>7 DEF Leads
<1>8. QED
  BY <1>3, <1>6, <1>7

-----------------------------------------------------------------------------
FlashInv == TypeInv /\ Lateness /\ SpiInv /\ (DriverOK \/ LateOK)

\* What it says of a call that is not late.
LEMMA InTime == FlashInv /\ ~late => DriverInv
  BY DEF FlashInv, LateOK, DriverInv

LEMMA FlashStep ==
  ASSUME NoneBetween, FaultsInCalls, CrashesOutsideFormats, FlashInv, [Next]_vars
  PROVE  FlashInv'
<1>1. TypeInv' /\ SpiInv' /\ Lateness'
  BY TypeStep, SpiStepInv, DriverStepsAreSpi, LatenessStep DEF FlashInv
<1>2. ASSUME DriverOK PROVE DriverOK' \/ LateOK'
  <2>0. DriverInv
    BY <1>2 DEF FlashInv, DriverInv
  <2>1. CASE Command
    BY <2>0, <2>1, DriverCommand, LateCommand
  <2>2. CASE Boot
    BY <2>0, <2>2, DriverBoot
  <2>3. CASE TransferReturns
    BY <2>0, <2>3, DriverReturns
  <2>4. CASE TransferEnds
    BY <2>0, <2>4, DriverEnds
  <2>5. CASE PowerFails \/ ProcessorResets
    BY <2>0, <2>5, DriverRestarts
  <2>6. CASE ChipReady
    BY <2>0, <2>6, DriverChipReady
  <2>7. CASE TransferBegins \/ TransferStarts \/ LoopIsLeft \/ TimerExpires \/ LateEnd \/ UNCHANGED vars
    BY <2>0, <2>7, DriverQuiet
  <2>8. QED
    BY <2>1, <2>2, <2>3, <2>4, <2>5, <2>6, <2>7 DEF Next, MainProgram, Interrupt
<1>3. ASSUME LateOK PROVE DriverOK' \/ LateOK'
  <2>0. LateInv
    BY <1>3 DEF FlashInv, LateInv
  <2>1. ~Command /\ ~Boot
    BY <2>0 DEF Command, CallWrite, CallRead, CallErase, EraseChip, Call, Boot, LateInv, LateOK, Lateness
  <2>2. CASE TransferReturns
    BY <2>0, <2>2, LateReturns
  <2>3. CASE TransferEnds
    BY <2>0, <2>3, LateEnds
  <2>4. CASE PowerFails \/ ProcessorResets
    BY <2>0, <2>4, LateRestarts
  <2>5. CASE ChipReady
    BY <2>0, <2>5, LateChipReady
  <2>6. CASE TransferBegins \/ TransferStarts \/ LoopIsLeft \/ TimerExpires \/ LateEnd \/ UNCHANGED vars
    BY <2>0, <2>6, LateQuiet
  <2>7. QED
    BY <2>1, <2>2, <2>3, <2>4, <2>5, <2>6 DEF Next, MainProgram, Interrupt
<1>4. QED
  BY <1>1, <1>2, <1>3 DEF FlashInv

\* The inductive invariant, if late transfers do not end between two transfers'
\* flags, only callers' transfers are given up, and formats are not cut short.
\* Calls may come when they like: one that begins while the chip works at a call
\* before it loses its commands, but not the memory key.
THEOREM DriverInvariance ==
  ASSUME NoneBetween, FaultsInCalls, CrashesOutsideFormats
  PROVE  Spec => []FlashInv
<1>1. Init => FlashInv
  BY DriverInit DEF FlashInv, DriverInv, Lateness, Init
<1>2. FlashInv /\ [Next]_vars => FlashInv'
  BY FlashStep
<1>3. QED
  BY <1>1, <1>2, PTL DEF Spec

-----------------------------------------------------------------------------
(***************************************************************************)
(* What follows.                                                           *)
(***************************************************************************)
\* The look at the key sees the key as it is, in a chip at rest.
LEMMA LooksRight ==
  ASSUME NoneBetween, FaultsInCalls, DriverInv, TransferReturns, op.then = "key"
  PROVE  \/ op' = op /\ step' \in {"rst", "send"} /\ UNCHANGED <<chip, reply>>
         \/ Idle /\ LooksAtKey(mem[0]) /\ UNCHANGED <<chip, reply>>
<1>1. spi = "left" /\ Result = "success" /\ Taken /\ TypeInv /\ OpOK(op) /\ StepOK(step, op) /\ op.kind = "read"
  BY ReturnsAlways, ReturnsSuccess DEF TransferReturns, Finish, DriverInv, DriverOK, TypeInv, OpOK, Shape
<1>2. GoesOn(Result) /\ UNCHANGED chip
  BY <1>1, ContinueCases DEF TransferReturns, Taken
<1>3. CASE op' = op /\ step' \in {"rst", "send"} /\ UNCHANGED reply
  BY <1>2, <1>3
<1>4. CASE step = "send" /\ Iterate(Progress(op))
  <2> DEFINE p == Progress(op)
  <2>1. Idle
    BY <1>1, <1>4 DEF DriverInv, DriverOK, Resting
  <2>2. /\ Shape(p) /\ Worked(p, p.n, mem) /\ p.kind = op.kind /\ p.from = op.from
        /\ p.data = op.data /\ p.then = op.then /\ p.n = op.n + ChunkLen(op)
    BY <1>1, <1>4, <2>1, PieceDone
  <2>3. ChunkLen(op) = 1 /\ Len(op.data) = 1 /\ op.n = 0 /\ op.from = 0
    BY <1>1, KeyIsOnePiece
  <2>4. Iterate(p)
    BY <1>4
  <2> HIDE DEF p
  <2>5. p.n = 1 /\ Len(p.data) = 1 /\ p.from = 0 /\ p.kind = "read" /\ p.then = "key"
    BY <1>1, <2>2, <2>3
  <2>6. Left(p) = 0
    BY <2>5 DEF Left
  <2>7. Ended(p, "success")
    BY <2>4, <2>6 DEF Iterate
  <2>8. LooksAtKey(p.got[1]) /\ UNCHANGED reply
    BY <2>5, <2>7 DEF Ended
  <2>9. p.got[1] = mem[0]
    <3>1. 1 \in 1 .. 1 /\ 0 + 1 - 1 = 0
      OBVIOUS
    <3>2. QED
      BY <2>2, <2>5, <3>1 DEF Worked
  <2>10. QED
    BY <1>2, <2>1, <2>8, <2>9
<1>5. QED
  BY <1>1, <1>2, <1>3, <1>4 DEF GoesOn, Goes, StepOK

LEMMA BootStep ==
  ASSUME NoneBetween, FaultsInCalls, DriverInv, [Next]_vars,
         op.then = "key", op'.then # "key", step' # "down"
  PROVE  /\ op'.then = "format" => mem[0] # Key
         /\ op'.then = "nothing" => \A c \in Cells : mem[c] = Blank
<1>1. step \notin {"ready", "down"}
  BY DEF DriverInv, TypeInv, StepOK, NoOp
<1>2. TransferReturns
  <2>1. op' # op
    OBVIOUS
  <2>2. CASE Command
    BY <1>1, <2>2 DEF Command, CallWrite, CallRead, CallErase, EraseChip, Call
  <2>3. CASE Boot \/ PowerFails \/ ProcessorResets
    BY <1>1, <2>3 DEF Boot, PowerFails, ProcessorResets, Restarts
  <2>4. CASE TransferBegins \/ TransferStarts \/ LoopIsLeft \/ TransferEnds \/ TimerExpires \/ LateEnd \/ ChipReady
             \/ UNCHANGED vars
    BY <2>1, <2>4 DEF TransferBegins, TransferStarts, LoopIsLeft, TransferEnds, TimerExpires, LateEnd, ChipReady,
                      vars, driver
  <2>5. QED
    BY <2>2, <2>3, <2>4 DEF Next, MainProgram, Interrupt
<1>3. LooksAtKey(mem[0])
  BY <1>2, LooksRight
<1>4. KeySeen \/ KeyOnly
  BY DEF DriverInv, DriverOK, KeyOK
<1>5. NoOp.then = "caller" /\ KeyWrite.then = "nothing" /\ FormatAll.then = "format"
  BY DEF NoOp, KeyWrite, FormatAll, Op
<1>6. op'.then = "format" => mem[0] # Key
  BY <1>3, <1>5 DEF LooksAtKey, Goes
<1>7. op'.then = "nothing" => mem[0] = Blank
  BY <1>3, <1>5 DEF LooksAtKey, Goes
<1>8. QED
  BY <1>4, <1>6, <1>7 DEF KeySeen, KeyOnly

\* The chip ignores no command of a call that began when it was at rest: when
\* the transfer of a program, an erase or a read ends, the chip is at rest still,
\* or again, and enabled if it needs to be.
THEOREM NoCommandIsIgnored ==
  ASSUME NoneBetween, FaultsInCalls, CrashesOutsideFormats
  PROVE  Spec => NoCallIgnored
<1>1. FlashInv => (CommandArrives /\ ~late => Heeded)
  <2> HAVE FlashInv
  <2> HAVE CommandArrives /\ ~late
  <2>1. DriverInv
    BY InTime
  <2>2. QED
    BY <2>1 DEF CommandArrives, Heeded, DriverInv, DriverOK, Resting, Taken
<1>2. FlashInv => [CommandArrives /\ ~late => Heeded]_vars
  BY <1>1
<1>3. QED
  BY <1>2, DriverInvariance, PTL DEF NoCallIgnored

\* A start formats only a memory without its key, and gives the key only to a
\* memory that is blank all over.
THEOREM BootsAreRight ==
  ASSUME NoneBetween, FaultsInCalls, CrashesOutsideFormats
  PROVE  Spec => BootIsRight
<1>1. FlashInv /\ op.then = "key" => DriverInv
  BY InTime DEF FlashInv, Lateness
<1>2. FlashInv /\ [Next]_vars =>
        [op.then = "key" /\ op'.then # "key" /\ step' # "down" =>
            /\ op'.then = "format" => mem[0] # Key
            /\ op'.then = "nothing" => \A c \in Cells : mem[c] = Blank]_vars
  BY <1>1, BootStep
<1>3. QED
  BY <1>2, DriverInvariance, PTL DEF Spec, BootIsRight

-----------------------------------------------------------------------------
(***************************************************************************)
(* The driver implements the memory.                                       *)
(***************************************************************************)
Range(o) == o.from .. o.from + Len(o.data) - 1

LEMMA RangeByIndex ==
  ASSUME NEW o, o.from \in Nat, Len(o.data) \in Nat, NEW c \in Int, c - o.from + 1 \in 1 .. Len(o.data)
  PROVE  c \in Range(o)
<1> DEFINE f == o.from
           l == Len(o.data)
<1>1. f \in Nat /\ l \in Nat /\ c - f + 1 \in 1 .. l
  OBVIOUS
<1> HIDE DEF f, l
<1>2. c \in f .. f + l - 1
  BY <1>1
<1>3. QED
  BY <1>2 DEF Range, f, l

\* What the refinement needs: of a late call no more than its types.
MemInv == TypeInv /\ Lateness /\ (~late => DriverInv)

\* The call in progress, as the memory sees it.
LEMMA CallInProgress ==
  ASSUME TypeInv, InCall
  PROVE  /\ CurrentCall.kind = (IF op.then = "format" THEN "format" ELSE IF op.then = "nothing" THEN "key" ELSE op.kind)
         /\ CurrentCall.from = op.from /\ CurrentCall.data = op.data
         /\ CurrentCall = [kind |-> CurrentCall.kind, from |-> op.from, data |-> op.data]
         /\ op.kind \in {"read", "write", "erase"} /\ CurrentCall # [kind |-> "none"]
         /\ CurrentCall.kind # "none"
         /\ op.then = "format" => op.kind = "erase"
         /\ op.then = "nothing" => op.kind = "write"
         /\ op.from \in Nat /\ op.data \in Seq(Values) /\ op.from + Len(op.data) <= Size
<1>1. /\ op.then \in {"caller", "nothing", "format"} /\ op.kind \in {"read", "write", "erase"}
      /\ op.then = "format" => op.kind = "erase"
      /\ op.then = "nothing" => op.kind = "write"
      /\ op.from \in Nat /\ op.data \in Seq(Values) /\ op.from + Len(op.data) <= Size
  BY DEF TypeInv, InCall, StepOK, Steps, OpOK, Shape, Ops, Kinds, Thens, KeyRead, Op
<1> DEFINE k == CASE op.then = "format"  -> "format"
                  [] op.then = "nothing" -> "key"
                  [] op.then = "caller"  -> op.kind
<1>2. CurrentCall = [kind |-> k, from |-> op.from, data |-> op.data]
  BY DEF CurrentCall
<1>3. k = (IF op.then = "format" THEN "format" ELSE IF op.then = "nothing" THEN "key" ELSE op.kind)
  BY <1>1
<1> HIDE DEF k
<1>4. CurrentCall.kind = k /\ CurrentCall.from = op.from /\ CurrentCall.data = op.data
  BY <1>2
<1>5. k # "none"
  BY <1>1, <1>3
<1>6. CurrentCall # [kind |-> "none"]
  BY <1>4, <1>5
<1>7. QED
  BY <1>1, <1>2, <1>3, <1>4, <1>5, <1>6

LEMMA NoCallInProgress ==
  ASSUME ~InCall
  PROVE  CurrentCall = Memory!NoCall /\ Unsettled = DOMAIN job
  BY DEF CurrentCall, Unsettled, Memory!NoCall

\* The cells a call may change, and to what.
LEMMA ChangesAre ==
  ASSUME TypeInv, InCall, NEW c \in Cells
  PROVE  /\ c \in Memory!Changes <=> op.kind # "read" /\ c \in Range(op)
         /\ c \in Range(op) => c - op.from + 1 \in 1 .. Len(op.data)
         /\ op.kind = "write" => Memory!Target(c) = ProgramCell(Effective[c], op.data[c - op.from + 1])
         /\ op.kind = "erase" => Memory!Target(c) = Blank
<1>1. c \in 0 .. Size - 1 /\ Len(op.data) \in Nat /\ op.from \in Nat
  BY CallInProgress, SizeAssumption DEF Cells
<1>2. c \in Range(op) <=> c >= op.from /\ c < op.from + Len(op.data)
  BY <1>1 DEF Range
<1>3. c \in Range(op) => c - op.from + 1 \in 1 .. Len(op.data)
  BY <1>1 DEF Range
<1>4. CurrentCall.kind = "read" <=> op.kind = "read"
  BY CallInProgress
<1>5. c \in Memory!Changes <=> op.kind # "read" /\ c \in Range(op)
  BY <1>2, <1>4, CallInProgress DEF Memory!Changes, Memory!InRange, Memory!NoCall, Memory!Cells, Cells
<1>6. op.kind = "write" <=> CurrentCall.kind \in {"write", "key"}
  BY CallInProgress
<1>7. op.kind = "write" => Memory!Target(c) = ProgramCell(Effective[c], op.data[c - op.from + 1])
  BY <1>6, CallInProgress DEF Memory!Target, Memory!Programmed, ProgramCell
<1>8. op.kind = "erase" => Memory!Target(c) = Blank
  BY <1>6, CallInProgress DEF Memory!Target
<1>9. QED
  BY <1>3, <1>5, <1>7, <1>8

\* What the chip is doing is a part of the call.
LEMMA JobInChanges ==
  ASSUME MemInv
  PROVE  DOMAIN job \subseteq Memory!Changes \cup Unsettled
<1>1. CASE ~InCall \/ late
  BY <1>1 DEF Unsettled
<1>2. CASE InCall /\ ~late
  <2>0. DriverInv /\ TypeInv
    BY <1>2 DEF MemInv
  <2>1. ASSUME NEW c \in DOMAIN job
        PROVE  c \in Memory!Changes
    <3>1. ~Idle /\ step \in {"wren", "send", "poll"} /\ OpOK(op) /\ op.kind # "none" /\ c \in Cells
      BY <1>2, <2>0, <2>1, NoJobIsEmpty, CallInProgress
         DEF Idle, DriverInv, TypeInv, ChipTypes, InCall, StepOK, Steps, KeyRead, Op
    <3>2. step # "wren" /\ op.kind # "read" /\ c \in At(op) .. At(op) + ChunkLen(op) - 1
      BY <2>0, <2>1, <3>1 DEF DriverInv, DriverOK, Resting, JobInside, TypeInv, StepOK
    <3>3. c - op.from + 1 \in 1 .. Len(op.data) /\ c >= op.from
      BY <2>0, <3>1, <3>2, ChunkCells
    <3>4. c \in Range(op)
      <4>1. op.from \in Nat /\ Len(op.data) \in Nat /\ c \in Int
        BY <1>2, <2>0, <3>1, CallInProgress, SizeAssumption DEF Cells
      <4>2. QED
        BY <3>3, <4>1, RangeByIndex
    <3>5. QED
      BY <1>2, <2>0, <3>1, <3>2, <3>4, ChangesAre
  <2>2. QED
    BY <2>1
<1>3. QED
  BY <1>1, <1>2

LEMMA ObeyedInChanges ==
  ASSUME TypeInv, NEW j, Obeyed(j)
  PROVE  /\ InCall /\ DOMAIN j \subseteq Cells
         /\ \A c \in DOMAIN j : c \in Memory!Changes /\ j[c] = Memory!Target(c)
<1>1. TypeInv /\ OpOK(op) /\ op.kind \in {"write", "erase"} /\ op.kind # "none" /\ ChipTypes /\ Idle /\ JobOf(j)
  BY DEF TypeInv, Obeyed, StepOK, OpOK, Shape, Ops, Kinds
<1>2. InCall
  BY <1>1, ObeyedKey DEF InCall, Obeyed
<1>3. Effective = mem
  BY <1>1, EffectiveCells
<1>4. ASSUME NEW c \in DOMAIN j
      PROVE  c \in Cells /\ c \in Memory!Changes /\ j[c] = Memory!Target(c)
  <2>1. c \in At(op) .. At(op) + ChunkLen(op) - 1
    BY <1>1, <1>4 DEF JobOf
  <2>2. c \in Cells /\ c >= op.from /\ c - op.from + 1 \in 1 .. Len(op.data)
    BY <1>1, <2>1, ChunkCells
  <2>3. c \in Range(op)
    <3>1. op.from \in Nat /\ Len(op.data) \in Nat /\ c \in Int
      BY <1>2, <2>2, CallInProgress, SizeAssumption DEF Cells
    <3>2. QED
      BY <2>2, <3>1, RangeByIndex
  <2>4. QED
    BY <1>1, <1>2, <1>3, <1>4, <2>2, <2>3, ChangesAre DEF JobOf
<1>5. QED
  BY <1>2, <1>4

MemoryStep == Memory!Next \/ UNCHANGED Memory!vars

\* Steps the memory does not see.
LEMMA MemoryStutter ==
  ASSUME UNCHANGED <<Effective, CurrentCall, Unsettled, reply, late>>
  PROVE  MemoryStep
  BY DEF MemoryStep, Memory!vars

LEMMA SameCall ==
  ASSUME UNCHANGED <<mem, job, reply, late>>, InCall' <=> InCall,
         op'.kind = op.kind, op'.from = op.from, op'.data = op.data, op'.then = op.then
  PROVE  MemoryStep
<1>1. UNCHANGED <<Effective, CurrentCall, Unsettled>>
  BY DEF Effective, With, CurrentCall, Unsettled
<1>2. QED
  BY <1>1, MemoryStutter

\* The chip comes to rest between calls.
LEMMA MemorySettles ==
  ASSUME TypeInv, TypeInv', ~InCall, ~InCall', UNCHANGED <<reply, late>>, job' = NoJob,
         \A c \in Cells : c \notin DOMAIN job => Effective'[c] = Effective[c]
  PROVE  MemoryStep
<1>1. CurrentCall = Memory!NoCall /\ CurrentCall' = Memory!NoCall /\ Unsettled = DOMAIN job /\ Unsettled' = {}
  BY NoCallInProgress, NoJobIsEmpty DEF CurrentCall, Unsettled, Memory!NoCall
<1>2. Effective' \in [Cells -> Values]
  <2>1. Effective' = [c \in Cells |-> IF c \in DOMAIN job' THEN job'[c] ELSE mem'[c]]
    BY DEF Effective, With
  <2>2. QED
    BY <2>1 DEF TypeInv, ChipTypes
<1>3. Memory!Settle
  BY <1>1, <1>2 DEF Memory!Settle, Memory!InDoubt, Memory!Cells, Cells
<1>4. QED
  BY <1>3 DEF MemoryStep, Memory!Next

LEMMA RefinesQuiet ==
  ASSUME TransferBegins \/ TransferStarts \/ LoopIsLeft \/ TimerExpires \/ LateEnd \/ UNCHANGED vars
  PROVE  MemoryStep
<1>1. UNCHANGED <<mem, job, step, op, reply, late>>
  BY DEF TransferBegins, TransferStarts, LoopIsLeft, TimerExpires, LateEnd, vars, chip, driver
<1>2. InCall' <=> InCall
  BY <1>1 DEF InCall
<1>3. QED
  BY <1>1, <1>2, SameCall

\* A late call: its cells and those not settled before it are in doubt.
LEMMA LateMoves ==
  ASSUME late = TRUE, Effective' \in [Cells -> Values],
         \A c \in Cells : c \notin Memory!Changes \cup Unsettled => Effective'[c] = Effective[c],
         Unsettled' \subseteq Memory!Changes \cup Unsettled,
         \/ UNCHANGED <<CurrentCall, reply, late>>
         \/ CurrentCall.kind = "format" /\ CurrentCall' = Memory!KeyCall /\ UNCHANGED <<reply, late>>
         \/ /\ CurrentCall.kind = "key" /\ UNCHANGED reply
            /\ CurrentCall' = Memory!NoCall /\ late' = FALSE
         \/ /\ CurrentCall.kind \in {"write", "erase", "read"}
            /\ CurrentCall' = Memory!NoCall /\ late' = FALSE
            /\ reply' \in Memory!Errors \cup Memory!Successes
  PROVE  MemoryStep
<1>1. Memory!LateCall
  BY DEF Memory!LateCall, Memory!InDoubt, Memory!Cells, Cells
<1>2. QED
  BY <1>1 DEF MemoryStep, Memory!Next

LEMMA RefinesChipReady ==
  ASSUME MemInv, ChipReady
  PROVE  MemoryStep
<1>1. /\ mem' = Effective /\ job' = NoJob /\ UNCHANGED <<step, op, reply, late>>
      /\ DOMAIN job' = {} /\ late \in BOOLEAN
  BY NoJobIsEmpty DEF ChipReady, Effective, driver, MemInv, Lateness
<1>2. TypeInv /\ ChipTypes /\ TypeInv'
  BY TypeOthers DEF MemInv, TypeInv
<1>3. Effective' = Effective /\ Effective' \in [Cells -> Values]
  <2>1. Effective' = [c \in Cells |-> mem'[c]]
    BY <1>1 DEF Effective, With
  <2>2. QED
    BY <1>1, <1>2, <2>1, EffectiveCells DEF TypeInv, ChipTypes
<1>4. (InCall' <=> InCall) /\ CurrentCall' = CurrentCall
  BY <1>1 DEF InCall, CurrentCall
<1>5. CASE InCall /\ ~late
  <2>1. UNCHANGED Unsettled
    BY <1>1, <1>4, <1>5 DEF Unsettled
  <2>2. QED
    BY <1>1, <1>3, <1>4, <2>1, MemoryStutter
<1>6. CASE ~InCall
  BY <1>1, <1>2, <1>3, <1>4, <1>6, MemorySettles
<1>7. CASE late = TRUE
  <2>1. Unsettled' = {}
    BY <1>1, <1>7 DEF Unsettled
  <2>2. QED
    BY <1>1, <1>3, <1>4, <1>7, <2>1, LateMoves
<1>8. QED
  BY <1>1, <1>5, <1>6, <1>7

\* A call begins: when the chip is not at rest, it is late.
LEMMA CallBegins ==
  ASSUME TypeInv, ~InCall, late = FALSE, UNCHANGED <<mem, job>>, reply' = NoReply,
         late' \in BOOLEAN, ~Idle => late', late' => ~Idle \/ op'.then = "format",
         OpOK(op'), op'.kind \in {"read", "write", "erase"}, op'.then \in {"caller", "nothing", "format"},
         op'.from < Size, step' \in {"send", "wren"}
  PROVE  MemoryStep
<1>1. InCall' /\ Effective' = Effective
  BY DEF InCall, Effective, With
<1>2. Idle <=> DOMAIN job = {}
  <2>1. job = [c \in DOMAIN job |-> job[c]]
    BY DEF TypeInv, ChipTypes
  <2>2. DOMAIN job = {} => job = <<>>
    BY <2>1
  <2>3. QED
    BY <2>2, NoJobIsEmpty DEF Idle, NoJob
<1>3. CurrentCall = Memory!NoCall /\ Unsettled = DOMAIN job /\ Unsettled' = Unsettled
  BY <1>1, <1>2, NoCallInProgress DEF Unsettled
<1> DEFINE k == CASE op'.then = "format"  -> "format"
                  [] op'.then = "nothing" -> "key"
                  [] op'.then = "caller"  -> op'.kind
<1>4. CurrentCall' = [kind |-> k, from |-> op'.from, data |-> op'.data]
  BY <1>1 DEF CurrentCall
<1>5. k \in {"write", "read", "erase", "format", "key"} /\ (op'.then = "format" => k = "format")
  OBVIOUS
<1> HIDE DEF k
<1>6. op'.from \in Cells /\ op'.data \in Seq(Values) /\ op'.from + Len(op'.data) <= Size
  BY SizeAssumption DEF Cells, OpOK, Shape, Ops
<1>7. CurrentCall' \in [kind : {"write", "read", "erase", "format", "key"}, from : Memory!Cells, data : Seq(Values)]
      /\ CurrentCall'.from + Len(CurrentCall'.data) <= Size /\ CurrentCall'.kind = k
  BY <1>4, <1>5, <1>6 DEF Memory!Cells, Cells
<1>8. Memory!Call
  BY <1>1, <1>2, <1>3, <1>5, <1>7 DEF Memory!Call, Memory!NoReply, NoReply
<1>9. QED
  BY <1>8 DEF MemoryStep, Memory!Next

LEMMA RefinesCommand ==
  ASSUME MemInv, Command
  PROVE  MemoryStep
<1> USE DEF NextCall
<1>1. PICK o : NextCall(o)
  BY CommandCases
<1>2. /\ ~InCall /\ UNCHANGED <<mem, job>> /\ Effective' = Effective
      /\ TypeInv /\ late = FALSE /\ step = "ready"
  BY <1>1 DEF InCall, chip, Effective, With, MemInv, Lateness
<1>3. CASE UNCHANGED <<step, op, late>> /\ \E r \in {"data_size", "invalid"} : reply' = Answer(r, <<>>)
  <2>1. UNCHANGED <<CurrentCall, Unsettled>> /\ CurrentCall = Memory!NoCall
    BY <1>2, <1>3, NoCallInProgress DEF CurrentCall, Unsettled, InCall
  <2>2. reply' \in Memory!Errors
    BY <1>3 DEF Memory!Errors, Answer
  <2>3. Memory!Refuse
    BY <1>2, <1>3, <2>1, <2>2 DEF Memory!Refuse
  <2>4. QED
    BY <2>3 DEF MemoryStep, Memory!Next
<1>4. CASE /\ OpOK(o) /\ o.kind \in {"read", "write", "erase"} /\ o.from < Size
           /\ o.then = "caller" \/ o = FormatAll
           /\ step' = FirstStep(o) /\ op' = o /\ reply' = NoReply /\ late' = TooEarly(o)
  <2>1. o.then \in {"caller", "format"} /\ step' \in {"send", "wren"}
    BY <1>4 DEF FormatAll, Op, FirstStep
  <2>2. TooEarly(o) \in BOOLEAN /\ (~Idle => TooEarly(o)) /\ (TooEarly(o) => ~Idle \/ o.then = "format")
    BY DEF TooEarly
  <2>3. QED
    BY <1>2, <1>4, <2>1, <2>2, CallBegins
<1>5. QED
  BY <1>1, <1>2, <1>3, <1>4

LEMMA RefinesBoot ==
  ASSUME Boot
  PROVE  MemoryStep
<1>1. ~InCall /\ ~InCall' /\ UNCHANGED <<mem, job, reply, late>>
  BY DEF Boot, Goes, InCall, KeyRead, Op, chip
<1>2. UNCHANGED <<Effective, CurrentCall, Unsettled>>
  BY <1>1 DEF Effective, With, CurrentCall, Unsettled
<1>3. QED
  BY <1>1, <1>2, MemoryStutter

\* The cells of the call and those not settled, and no others, are in doubt.
LEMMA CutCells ==
  ASSUME MemInv, TypeInv',
         \/ UNCHANGED <<mem, job>>
         \/ Aborted /\ job' = NoJob
         \/ \E j : Obeyed(j)
  PROVE  /\ Effective' \in [Cells -> Values]
         /\ \A c \in Cells : c \notin Memory!Changes \cup Unsettled => Effective'[c] = Effective[c]
         /\ DOMAIN job' \subseteq Memory!Changes \cup Unsettled
<1>1. Effective' = [c \in Cells |-> IF c \in DOMAIN job' THEN job'[c] ELSE mem'[c]]
  BY DEF Effective, With
<1>2. Effective' \in [Cells -> Values] /\ ChipTypes
  BY <1>1 DEF TypeInv, ChipTypes, MemInv
<1>3. DOMAIN job \subseteq Memory!Changes \cup Unsettled
  BY JobInChanges
<1>4. \A c \in Cells : Effective[c] = IF c \in DOMAIN job THEN job[c] ELSE mem[c]
  BY <1>2, EffectiveCells
<1>5. CASE UNCHANGED <<mem, job>>
  BY <1>1, <1>2, <1>3, <1>4, <1>5
<1>6. CASE Aborted /\ job' = NoJob
  <2>1. DOMAIN job' = {} /\ \A c \in Cells : c \notin DOMAIN job => mem'[c] = mem[c]
    BY <1>2, <1>6, NoJobIsEmpty, AbortedCells
  <2>2. QED
    BY <1>1, <1>2, <1>3, <1>4, <2>1
<1>7. CASE \E j : Obeyed(j)
  <2>1. PICK j : Obeyed(j)
    BY <1>7
  <2>2. job' = j /\ mem' = mem /\ DOMAIN job = {}
    BY <2>1, NoJobIsEmpty DEF Obeyed, Idle
  <2>3. DOMAIN j \subseteq Memory!Changes
    BY <2>1, ObeyedInChanges DEF MemInv
  <2>4. QED
    BY <1>1, <1>2, <1>4, <2>2, <2>3
<1>8. QED
  BY <1>5, <1>6, <1>7

LEMMA RefinesRestarts ==
  ASSUME MemInv, TypeInv', PowerFails \/ ProcessorResets
  PROVE  MemoryStep
<1>1. step' = "down" /\ reply' = NoReply /\ late' = FALSE
  BY DEF PowerFails, ProcessorResets, Restarts
<1>2. CurrentCall' = Memory!NoCall /\ Unsettled' = DOMAIN job'
  BY <1>1 DEF InCall, CurrentCall, Unsettled, Memory!NoCall
<1>3. \/ UNCHANGED <<mem, job>>
      \/ Aborted /\ job' = NoJob
      \/ \E j : Obeyed(j)
  BY CutCases DEF PowerFails, ProcessorResets, MemInv, chip
<1>4. /\ Effective' \in [Cells -> Values]
      /\ \A c \in Cells : c \notin Memory!Changes \cup Unsettled => Effective'[c] = Effective[c]
      /\ DOMAIN job' \subseteq Memory!Changes \cup Unsettled
  BY <1>3, CutCells
<1>5. Memory!Cut
  BY <1>1, <1>2, <1>4 DEF Memory!Cut, Memory!InDoubt, Memory!Cells, Cells, Memory!NoReply, NoReply
<1>6. QED
  BY <1>5 DEF MemoryStep, Memory!Next

LEMMA RefinesEnds ==
  ASSUME MemInv, TypeInv', TransferEnds
  PROVE  MemoryStep
<1>1. /\ UNCHANGED <<step, op, reply, late>> /\ (InCall' <=> InCall) /\ TypeInv /\ ChipTypes
      /\ late \in BOOLEAN /\ UNCHANGED CurrentCall
  BY DEF TransferEnds, driver, InCall, CurrentCall, MemInv, TypeInv, Lateness
<1>2. CASE UNCHANGED <<mem, job>>
  BY <1>1, <1>2, SameCall
<1>3. CASE ~late /\ \E j : Obeyed(j)
  <2>1. PICK j : Obeyed(j)
    BY <1>3
  <2>2. job' = j /\ mem' = mem /\ DOMAIN job = {}
    BY <2>1, NoJobIsEmpty DEF Obeyed, Idle
  <2>3. InCall /\ \A c \in DOMAIN j : c \in Memory!Changes /\ j[c] = Memory!Target(c)
    BY <1>1, <2>1, ObeyedInChanges
  <2>4. Effective' = [c \in Cells |-> IF c \in DOMAIN job' THEN job'[c] ELSE mem'[c]]
    BY DEF Effective, With
  <2>5. \A c \in Cells : Effective[c] = IF c \in DOMAIN job THEN job[c] ELSE mem[c]
    BY <1>1, EffectiveCells
  <2>6. /\ Effective' \in [Cells -> Values]
        /\ \A c \in Cells : Effective'[c] = Effective[c] \/ (c \in Memory!Changes /\ Effective'[c] = Memory!Target(c))
    BY <2>2, <2>3, <2>4, <2>5 DEF TypeInv, ChipTypes
  <2>7. UNCHANGED <<CurrentCall, Unsettled>>
    BY <1>1, <1>3, <2>3 DEF Unsettled
  <2>8. CurrentCall # Memory!NoCall
    BY <1>1, <2>3, CallInProgress DEF Memory!NoCall
  <2>9. Memory!Advance
    BY <1>1, <1>3, <2>6, <2>7, <2>8 DEF Memory!Advance, Memory!Cells, Cells
  <2>10. QED
    BY <2>9 DEF MemoryStep, Memory!Next
<1>4. CASE step = "rst" /\ Aborted /\ job' = NoJob
  <2>1. ~InCall /\ ~InCall'
    BY <1>1, <1>4 DEF InCall, TypeInv, StepOK, KeyRead, Op
  <2>2. DOMAIN job' = {} /\ \A c \in Cells : c \notin DOMAIN job => mem'[c] = mem[c]
    BY <1>1, <1>4, NoJobIsEmpty, AbortedCells
  <2>3. Effective' = [c \in Cells |-> IF c \in DOMAIN job' THEN job'[c] ELSE mem'[c]]
    BY DEF Effective, With
  <2>4. \A c \in Cells : c \notin DOMAIN job => Effective'[c] = Effective[c]
    BY <1>1, <2>2, <2>3, EffectiveCells
  <2>5. QED
    BY <1>1, <1>4, <2>1, <2>4, MemorySettles
<1>5. CASE late /\ \E j : Obeyed(j)
  <2>1. /\ Effective' \in [Cells -> Values]
        /\ \A c \in Cells : c \notin Memory!Changes \cup Unsettled => Effective'[c] = Effective[c]
        /\ DOMAIN job' \subseteq Memory!Changes \cup Unsettled
    BY <1>5, CutCells
  <2>2. late = TRUE /\ Unsettled' = DOMAIN job'
    BY <1>1, <1>5 DEF Unsettled
  <2>3. QED
    BY <1>1, <2>1, <2>2, LateMoves
<1>6. QED
  BY <1>1, <1>2, <1>3, <1>4, <1>5, EndCases DEF TakesRead, TakesStatus, TakesReset, chip

\* A call whose pieces are all done has changed its cells, or has read them.
LEMMA TargetsReached ==
  ASSUME TypeInv, InCall, Idle, op.kind # "read",
         NEW p, p.kind = op.kind, p.from = op.from, p.data = op.data, Worked(p, Len(op.data), mem)
  PROVE  \A c \in Memory!Changes : Effective[c] = Memory!Target(c)
<1>1. Effective = mem /\ op.kind \in {"write", "erase"}
  BY EffectiveCells, CallInProgress DEF TypeInv
<1>2. ASSUME NEW c \in Memory!Changes
      PROVE  Effective[c] = Memory!Target(c)
  <2>1. c \in Cells
    BY DEF Memory!Changes, Memory!Cells, Cells
  <2> DEFINE i == c - op.from + 1
  <2>2. i \in 1 .. Len(op.data)
    BY <2>1, ChangesAre
  <2>3. op.from + i - 1 = c
    BY <2>1, CallInProgress, SizeAssumption DEF Cells
  <2>4. /\ op.kind = "write" => Memory!Target(c) = ProgramCell(mem[c], op.data[i])
        /\ op.kind = "erase" => Memory!Target(c) = Blank
    BY <1>1, <2>1, ChangesAre
  <2> HIDE DEF i
  <2>5. QED
    BY <1>1, <2>2, <2>3, <2>4 DEF Worked
<1>3. QED
  BY <1>2

LEMMA AllRead ==
  ASSUME TypeInv, InCall, Idle, op.kind = "read",
         NEW p, p.kind = op.kind, p.from = op.from, p.data = op.data, p.got \in Seq(Values),
         Worked(p, Len(op.data), mem)
  PROVE  p.got = [i \in DOMAIN CurrentCall.data |-> Effective[CurrentCall.from + i - 1]]
<1>1. Effective = mem
  BY EffectiveCells DEF TypeInv
<1>2. CurrentCall.data = op.data /\ CurrentCall.from = op.from /\ DOMAIN op.data = 1 .. Len(op.data)
  BY CallInProgress
<1>3. Len(p.got) = Len(op.data) /\ \A i \in 1 .. Len(op.data) : p.got[i] = mem[op.from + i - 1]
  BY DEF Worked
<1> DEFINE g == p.got
<1>4. g \in Seq(Values) /\ Len(g) = Len(op.data)
  BY <1>3
<1> HIDE DEF g
<1>5. g = [i \in 1 .. Len(g) |-> g[i]]
  BY <1>4
<1>6. QED
  BY <1>1, <1>2, <1>3, <1>4, <1>5 DEF g

\* The call ends between two pieces.
CallEnds == step' = "ready" /\ op' = NoOp /\ UNCHANGED <<mem, job>> /\ Idle

LEMMA AfterCall ==
  ASSUME CallEnds
  PROVE  CurrentCall' = Memory!NoCall /\ Unsettled' = {} /\ Effective' = Effective
<1>1. ~InCall' /\ DOMAIN job' = {}
  BY NoJobIsEmpty DEF CallEnds, InCall, Idle
<1>2. QED
  BY <1>1 DEF CallEnds, CurrentCall, Unsettled, Memory!NoCall, Effective, With

LEMMA RefinesIterate ==
  ASSUME TypeInv, TypeInv', late = FALSE, late' = FALSE, InCall, Idle, UNCHANGED <<mem, job>>,
         NEW p, Shape(p), Worked(p, p.n, mem), p.kind = op.kind, p.from = op.from, p.data = op.data, p.then = op.then,
         Iterate(p)
  PROVE  MemoryStep
<1>1. /\ op.then \in {"caller", "nothing", "format"} /\ op.kind \in {"read", "write", "erase"}
      /\ op.then = "nothing" => op.kind = "write"
      /\ op.then = "format" => op.kind = "erase"
      /\ Unsettled = {} /\ CurrentCall # Memory!NoCall
  BY CallInProgress DEF InCall, Unsettled, TypeInv, OpOK, Shape, Ops, Thens, Memory!NoCall
<1>2. CurrentCall.kind = (IF op.then = "format" THEN "format" ELSE IF op.then = "nothing" THEN "key" ELSE op.kind)
  BY CallInProgress
<1>3. Left(p) = 0 => p.n = Len(op.data)
  BY DEF Left, Shape, Ops
<1>4. Effective \in [Cells -> Values] /\ Effective = mem
  BY EffectiveCells DEF TypeInv
<1>5. CASE Left(p) # 0 /\ ~Misaligned(p)
  <2>1. step' = FirstStep(p) /\ op' = p /\ UNCHANGED reply
    BY <1>5 DEF Iterate, Goes
  <2>2. InCall'
    BY <1>1, <2>1 DEF InCall, FirstStep
  <2>3. QED
    BY <2>1, <2>2, SameCall
<1>6. CASE Left(p) = 0 /\ op.then = "caller"
  <2>1. CallEnds /\ reply' = Answer("success", p.got)
    BY <1>6 DEF Iterate, Ended, Goes, CallEnds
  <2>2. CurrentCall' = Memory!NoCall /\ Unsettled' = {} /\ Effective' = Effective
    BY <2>1, AfterCall
  <2>3. Worked(p, Len(op.data), mem)
    BY <1>3, <1>6
  <2>4. CASE op.kind = "read"
    <3>1. p.got \in Seq(Values)
      BY DEF Shape, Ops
    <3>2. p.got = [i \in DOMAIN CurrentCall.data |-> Effective[CurrentCall.from + i - 1]]
      BY <2>3, <2>4, <3>1, AllRead
    <3>3. Memory!Read
      BY <1>1, <1>2, <1>6, <2>1, <2>2, <2>4, <3>2 DEF Memory!Read, Memory!Success, Answer
    <3>4. QED
      BY <3>3 DEF MemoryStep, Memory!Next
  <2>5. CASE op.kind # "read"
    <3>1. \A c \in Memory!Changes : Effective[c] = Memory!Target(c)
      BY <2>3, <2>5, TargetsReached
    <3>2. p.got = <<>>
      BY <2>5 DEF Shape
    <3>3. CurrentCall.kind \in {"write", "erase"}
      BY <1>1, <1>2, <1>6, <2>5
    <3>4. Memory!Done
      BY <1>1, <2>1, <2>2, <3>1, <3>2, <3>3 DEF Memory!Done, Memory!Success, Answer
    <3>5. QED
      BY <3>4 DEF MemoryStep, Memory!Next
  <2>6. QED
    BY <2>4, <2>5
<1>7. CASE Left(p) = 0 /\ op.then = "nothing"
  <2>1. CallEnds /\ UNCHANGED reply
    BY <1>7 DEF Iterate, Ended, Goes, CallEnds
  <2>2. CurrentCall' = Memory!NoCall /\ Unsettled' = {} /\ Effective' = Effective
    BY <2>1, AfterCall
  <2>3. \A c \in Memory!Changes : Effective[c] = Memory!Target(c)
    BY <1>1, <1>3, <1>7, TargetsReached
  <2>4. CurrentCall.kind = "key"
    BY <1>2, <1>7
  <2>5. Memory!Done
    BY <1>1, <2>1, <2>2, <2>3, <2>4 DEF Memory!Done
  <2>6. QED
    BY <2>5 DEF MemoryStep, Memory!Next
<1>8. CASE Left(p) = 0 /\ op.then = "format"
  <2>1. step' = "wren" /\ op' = KeyWrite /\ UNCHANGED reply
    BY <1>8 DEF Iterate, Ended, Goes
  <2>2. p.kind = "erase" /\ p.from = 0 /\ p.n = Size
    BY <1>3, <1>8, BlankCells, SizeAssumption DEF Shape
  <2>3. ASSUME NEW c \in Cells
        PROVE  Effective[c] = Blank
    <3>1. c + 1 \in 1 .. Size /\ 0 + (c + 1) - 1 = c
      BY SizeAssumption DEF Cells
    <3>2. QED
      BY <1>4, <2>2, <3>1 DEF Worked
  <2>4. InCall' /\ Effective' = Effective
    BY <2>1 DEF InCall, KeyWrite, Op, Effective, With
  <2>5. CurrentCall' = Memory!KeyCall /\ Unsettled' = {}
    BY <2>1, <2>4 DEF CurrentCall, Unsettled, KeyWrite, Op, Memory!KeyCall
  <2>6. Memory!Formatted
    BY <1>1, <1>2, <1>8, <2>1, <2>3, <2>4, <2>5 DEF Memory!Formatted, Memory!Cells, Cells
  <2>7. QED
    BY <2>6 DEF MemoryStep, Memory!Next
<1>9. CASE Left(p) # 0 /\ Misaligned(p)
  <2>1. op.then = "caller"
    BY <1>1, <1>9, FormatAligned DEF Misaligned
  <2>2. CallEnds /\ reply' = Answer("invalid", <<>>)
    BY <1>9, <2>1 DEF Iterate, Ended, Goes, CallEnds
  <2>3. CurrentCall' = Memory!NoCall /\ Unsettled' = {} /\ Effective' = Effective
    BY <2>2, AfterCall
  <2>4. reply' \in Memory!Errors
    BY <2>2 DEF Memory!Errors, Answer
  <2>5. CurrentCall.kind \in {"write", "erase", "read"}
    BY <1>1, <1>2, <2>1
  <2>6. Memory!Fail
    BY <1>4, <2>3, <2>4, <2>5 DEF Memory!Fail, Memory!InDoubt, Memory!Cells, Cells
  <2>7. QED
    BY <2>6 DEF MemoryStep, Memory!Next
<1>10. QED
  BY <1>1, <1>5, <1>6, <1>7, <1>8, <1>9

\* The look at the key, and what it leads to.
LEMMA RefinesLook ==
  ASSUME NoneBetween, FaultsInCalls, DriverInv, TypeInv', late = FALSE,
         TransferReturns, op.then = "key"
  PROVE  MemoryStep
<1>1. ~InCall /\ reply = NoReply /\ late' = FALSE /\ TypeInv
  BY DEF InCall, DriverInv, DriverOK, NoAnswer, TransferReturns
<1>2. UNCHANGED <<mem, job, reply>>
  BY LooksRight DEF chip
<1>3. CASE op' = op
  <2>1. ~InCall'
    BY <1>3 DEF InCall
  <2>2. QED
    BY <1>1, <1>2, <1>3, <2>1, SameCall
<1>4. CASE Idle /\ LooksAtKey(mem[0])
  <2>1. CASE Goes("ready", NoOp)
    <3>1. ~InCall'
      BY <2>1 DEF Goes, InCall
    <3>2. UNCHANGED <<CurrentCall, Unsettled, Effective>>
      BY <1>1, <1>2, <3>1 DEF CurrentCall, Unsettled, Effective, With
    <3>3. QED
      BY <1>1, <1>2, <3>2, MemoryStutter
  <2>2. CASE \E o \in {KeyWrite, FormatAll} : Goes("wren", o)
    <3>1. op' \in {KeyWrite, FormatAll} /\ step' = "wren"
      BY <2>2 DEF Goes
    <3>2. /\ op'.then \in {"caller", "nothing", "format"} /\ op'.kind \in {"read", "write", "erase"}
          /\ op'.from < Size
      BY <3>1, SizeAssumption DEF KeyWrite, FormatAll, Op
    <3>3. OpOK(op')
      BY <3>1, FixedCalls
    <3>4. QED
      BY <1>1, <1>2, <1>4, <3>1, <3>2, <3>3, CallBegins
  <2>3. QED
    BY <1>4, <2>1, <2>2 DEF LooksAtKey
<1>5. QED
  BY <1>3, <1>4, LooksRight

\* A call that fails leaves its cells in doubt, and no others.
LEMMA RefinesFailure ==
  ASSUME MemInv, TypeInv', late = FALSE, late' = FALSE,
         TransferReturns, op.then = "caller", step \in {"wren", "send", "poll"},
         Result # "success", Ended(op, Result)
  PROVE  MemoryStep
<1>1. InCall /\ CurrentCall.kind \in {"write", "erase", "read"} /\ Unsettled = {}
  BY CallInProgress DEF InCall, Unsettled, MemInv
<1>2. step' = "ready" /\ op' = NoOp /\ reply' = Answer(Result, <<>>)
  BY DEF Ended, Goes
<1>3. CurrentCall' = Memory!NoCall /\ Unsettled' = DOMAIN job'
  BY <1>2 DEF InCall, CurrentCall, Unsettled, Memory!NoCall
<1>4. Result \in {"timeout", "busy"}
  BY DEF Result, MemInv, DriverInv, SpiInv, SpiTypes
<1>5. reply' \in Memory!Errors
  BY <1>2, <1>4 DEF Memory!Errors, Answer
<1>6. \/ UNCHANGED <<mem, job>>
      \/ \E j : Obeyed(j)
  BY CutCases DEF TransferReturns, MemInv, chip
<1>7. /\ Effective' \in [Cells -> Values]
      /\ \A c \in Cells : c \notin Memory!Changes => Effective'[c] = Effective[c]
      /\ DOMAIN job' \subseteq Memory!Changes
  BY <1>1, <1>6, CutCells
<1>8. Memory!Fail
  BY <1>1, <1>3, <1>5, <1>7 DEF Memory!Fail, Memory!InDoubt, Memory!Cells, Cells
<1>9. QED
  BY <1>8 DEF MemoryStep, Memory!Next

\* Between the transfers of a call that is not late.
LEMMA RefinesOwnReturns ==
  ASSUME NoneBetween, FaultsInCalls, MemInv, TypeInv', late = FALSE, TransferReturns
  PROVE  MemoryStep
<1>1. /\ spi = "left" /\ DriverInv /\ TypeInv /\ OpOK(op) /\ StepOK(step, op) /\ GoesOn(Result)
      /\ late' = FALSE
  BY ContinueCases DEF TransferReturns, Finish, MemInv, TypeInv
<1>2. CASE op.then = "key"
  BY <1>1, <1>2, RefinesLook
<1>3. CASE op.then # "key" /\ Result # "success"
  <2>1. step \in {"wren", "send", "poll"} /\ Ended(op, Result)
    BY <1>1, <1>3 DEF GoesOn, StepOK, KeyRead, Op
  <2>2. op.then = "caller"
    BY <1>1, <1>3, ReturnsAlways DEF DriverInv, DriverOK
  <2>3. QED
    BY <1>1, <1>3, <2>1, <2>2, RefinesFailure
<1>4. CASE op.then # "key" /\ Result = "success"
  <2>1. Taken /\ UNCHANGED <<mem, job>>
    BY <1>1, <1>4, ReturnsSuccess DEF DriverInv, TransferReturns, Taken, chip
  <2>2. InCall
    BY <1>1, <1>4 DEF InCall, GoesOn
  <2>3. CASE step' \in {"send", "poll"} /\ UNCHANGED <<op, reply>>
    <3>1. InCall'
      BY <1>4, <2>3 DEF InCall
    <3>2. QED
      BY <1>1, <2>1, <2>2, <2>3, <3>1, SameCall
  <2>4. CASE Iterate(Progress(op)) /\ ((step = "poll" /\ rx # <<"busy">>) \/ (step = "send" /\ op.kind = "read"))
    <3>1. Idle
      BY <1>1, <2>1, <2>4 DEF DriverInv, DriverOK, Resting, TypeInv, Received
    <3> DEFINE p == Progress(op)
    <3>2. /\ Shape(p) /\ Worked(p, p.n, mem) /\ p.kind = op.kind /\ p.from = op.from
          /\ p.data = op.data /\ p.then = op.then
      BY <1>1, <2>1, <2>4, <3>1, PieceDone
    <3>3. Iterate(p)
      BY <2>4
    <3> HIDE DEF p
    <3>4. QED
      BY <1>1, <2>1, <2>2, <3>1, <3>2, <3>3, RefinesIterate
  <2>5. step \notin {"rsten", "rst"}
    BY <1>1, <1>4 DEF StepOK, KeyRead, Op
  <2>6. \/ step' \in {"send", "poll"} /\ UNCHANGED <<op, reply>>
        \/ Iterate(Progress(op)) /\ ((step = "poll" /\ rx # <<"busy">>) \/ (step = "send" /\ op.kind = "read"))
    BY <1>1, <1>4, <2>5 DEF GoesOn, Goes
  <2>7. QED
    BY <2>3, <2>4, <2>6
<1>5. QED
  BY <1>2, <1>3, <1>4

\* Between the transfers of a late call.
LEMMA RefinesLateReturns ==
  ASSUME MemInv, TypeInv', late = TRUE, TransferReturns
  PROVE  MemoryStep
<1>1. /\ spi = "left" /\ TypeInv /\ OpOK(op) /\ GoesOn(Result) /\ op.then # "key" /\ InCall
      /\ late' = (step' # "ready") /\ Result \in {"success", "timeout", "busy"}
  BY ContinueCases DEF TransferReturns, Finish, MemInv, Lateness, InCall, TypeInv, Result, SpiTypes
<1>2. /\ Effective' \in [Cells -> Values]
      /\ \A c \in Cells : c \notin Memory!Changes \cup Unsettled => Effective'[c] = Effective[c]
      /\ DOMAIN job' \subseteq Memory!Changes \cup Unsettled
  <2>1. \/ UNCHANGED <<mem, job>>
        \/ \E j : Obeyed(j)
    BY <1>1, CutCases DEF TransferReturns, chip
  <2>2. QED
    BY <2>1, CutCells
<1>3. Unsettled' \subseteq DOMAIN job'
  BY DEF Unsettled
<1>4. /\ op.then = "format" => CurrentCall.kind = "format"
      /\ op.then = "nothing" => CurrentCall.kind = "key"
      /\ op.then = "caller" => CurrentCall.kind \in {"write", "erase", "read"}
  BY <1>1, CallInProgress
<1>5. ASSUME op'.kind = op.kind, op'.from = op.from, op'.data = op.data, op'.then = op.then,
             step' \in {"wren", "send", "poll"}, UNCHANGED reply
      PROVE  UNCHANGED <<CurrentCall, reply, late>>
  <2>1. InCall' /\ UNCHANGED late
    BY <1>1, <1>5 DEF InCall
  <2>2. QED
    BY <1>1, <1>5, <2>1 DEF CurrentCall
<1>6. CASE SamePiece(Result)
  <2>1. UNCHANGED <<CurrentCall, reply, late>>
    BY <1>5, <1>6 DEF SamePiece
  <2>2. QED
    BY <1>2, <1>3, <2>1, LateMoves
<1>7. CASE Leads(Result)
  <2>1. CASE op' = Progress(op) /\ step' = FirstStep(op) /\ UNCHANGED reply
    <3>1. op'.kind = op.kind /\ op'.from = op.from /\ op'.data = op.data /\ op'.then = op.then
      <4>1. op \in Ops
        BY <1>1 DEF OpOK, Shape
      <4>2. QED
        BY <2>1, <4>1 DEF Progress, Ops
    <3>2. UNCHANGED <<CurrentCall, reply, late>>
      BY <1>5, <2>1, <3>1 DEF FirstStep
    <3>3. QED
      BY <1>2, <1>3, <3>2, LateMoves
  <2>2. CASE op.then = "format" /\ op' = KeyWrite /\ step' = "wren" /\ UNCHANGED reply
    <3>1. InCall' /\ UNCHANGED late
      BY <1>1, <2>2 DEF InCall, KeyWrite, Op
    <3>2. CurrentCall' = Memory!KeyCall
      BY <2>2, <3>1 DEF CurrentCall, KeyWrite, Op, Memory!KeyCall
    <3>3. QED
      BY <1>2, <1>3, <1>4, <2>2, <3>1, <3>2, LateMoves
  <2>3. ASSUME op' = NoOp, step' = "ready"
        PROVE  CurrentCall' = Memory!NoCall /\ late' = FALSE
    BY <1>1, <2>3 DEF CurrentCall, InCall, Memory!NoCall
  <2>4. CASE op.then = "nothing" /\ op' = NoOp /\ step' = "ready" /\ UNCHANGED reply
    BY <1>2, <1>3, <1>4, <2>3, <2>4, LateMoves
  <2>5. CASE /\ op.then = "caller" /\ op' = NoOp /\ step' = "ready"
             /\ \/ reply' = Answer("invalid", <<>>)
                \/ Result # "success" /\ reply' = Answer(Result, <<>>)
                \/ \E d \in Seq(Values) : reply' = Answer("success", d)
    <3>1. reply' \in Memory!Errors \cup Memory!Successes
      BY <1>1, <2>5 DEF Memory!Errors, Memory!Successes, Answer
    <3>2. QED
      BY <1>2, <1>3, <1>4, <2>3, <2>5, <3>1, LateMoves
  <2>6. QED
    BY <1>7, <2>1, <2>2, <2>4, <2>5 DEF Leads
<1>8. QED
  BY <1>1, <1>6, <1>7, CallGoesOn

LEMMA RefinesReturns ==
  ASSUME NoneBetween, FaultsInCalls, MemInv, TypeInv', TransferReturns
  PROVE  MemoryStep
<1>1. late \in BOOLEAN
  BY DEF MemInv, Lateness
<1>2. QED
  BY <1>1, RefinesOwnReturns, RefinesLateReturns

LEMMA RefinesInit == Init => Memory!Init
<1> SUFFICES ASSUME Init PROVE Memory!Init
  OBVIOUS
<1>1. ~InCall /\ DOMAIN job = {} /\ mem = [c \in Cells |-> Blank] /\ reply = NoReply /\ late = FALSE
  BY NoJobIsEmpty DEF Init, InCall
<1>2. Effective = [c \in Cells |-> Blank]
  BY <1>1 DEF Effective, With
<1>3. QED
  BY <1>1, <1>2, NoCallInProgress DEF Memory!Init, Memory!Cells, Cells, Memory!NoReply, NoReply

LEMMA RefinesStep ==
  ASSUME NoneBetween, FaultsInCalls, MemInv, [Next]_vars
  PROVE  [Memory!Next]_(Memory!vars)
<1>1. TypeInv'
  BY TypeStep DEF MemInv
<1>2. MemoryStep
  <2>1. CASE Command
    BY <2>1, RefinesCommand
  <2>2. CASE Boot
    BY <2>2, RefinesBoot
  <2>3. CASE TransferReturns
    BY <1>1, <2>3, RefinesReturns
  <2>4. CASE TransferEnds
    BY <1>1, <2>4, RefinesEnds
  <2>5. CASE PowerFails \/ ProcessorResets
    BY <1>1, <2>5, RefinesRestarts
  <2>6. CASE ChipReady
    BY <2>6, RefinesChipReady
  <2>7. CASE TransferBegins \/ TransferStarts \/ LoopIsLeft \/ TimerExpires \/ LateEnd \/ UNCHANGED vars
    BY <2>7, RefinesQuiet
  <2>8. QED
    BY <2>1, <2>2, <2>3, <2>4, <2>5, <2>6, <2>7 DEF Next, MainProgram, Interrupt
<1>3. QED
  BY <1>2 DEF MemoryStep

\* The driver over its chip is a memory of which a caller needs to know little: a
\* call that succeeds has changed, or read, every cell it was asked to, unless it
\* began while the chip still worked at a call before it; one that fails or is cut
\* short leaves its own cells in doubt; and no call, late or not, changes cells of
\* others.
THEOREM DriverIsMemory ==
  ASSUME NoneBetween, FaultsInCalls, CrashesOutsideFormats
  PROVE  Spec => ImplementsMemory
<1>1. Init => Memory!Init
  BY RefinesInit
<1>2. FlashInv /\ [Next]_vars => [Memory!Next]_(Memory!vars)
  <2>1. FlashInv => MemInv
    BY InTime DEF FlashInv, MemInv
  <2>2. QED
    BY <2>1, RefinesStep
<1>3. QED
  BY <1>1, <1>2, DriverInvariance, PTL DEF Spec, ImplementsMemory, Memory!Spec
=============================================================================
