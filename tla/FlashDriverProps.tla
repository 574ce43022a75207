-------------------------- MODULE FlashDriverProps --------------------------
(***************************************************************************)
(* What is checked of FlashDriver, and that it implements FlashMemory.     *)
(***************************************************************************)
EXTENDS FlashDriver

\* Every variable stays in its type (the flags of spi.c, the driver's call, the
\* chip).
FlashTypeOK ==
    /\ spi \in SpiPcs
    /\ done \in BOOLEAN /\ timeout \in BOOLEAN /\ timer \in BOOLEAN
    /\ transfer \in {"none", "mine", "earlier"}
    /\ err \in {"success", "busy"}
    /\ mem \in [Cells -> Values]
    /\ wel \in BOOLEAN
    /\ DOMAIN job \subseteq Cells /\ \A c \in DOMAIN job : job[c] \in Values
    /\ step \in Steps
    /\ op.n \in 0 .. Len(op.data)
    /\ late \in BOOLEAN
    /\ step = "poll" => rx \in {<<"idle">>, <<"busy">>}

\* A call of spi_txrx that returns success has seen the end of the transfer it
\* started itself: the receive buffer is filled and the chip has the command.
\* The two handlers only set flags ("Flag used to indicate that SPI instance
\* completed the transfer"), which earlier transfers and timers could set too.
OwnResult == spi = "left" /\ Result = "success" => transfer = "none"

\* The wait loop is never entered without a timer that will end it, and no
\* expiry is left over for the next call: the flag and the timer are off between
\* calls.
WaitIsTimed ==
    /\ spi = "wait" => timer \/ timeout
    /\ spi = "out" => ~timer /\ ~timeout

\* The end of the transfer of a program, an erase or a read.
CommandArrives == transfer = "mine" /\ transfer' = "none" /\ step = "send"

Heeded == Idle /\ (op.kind # "read" => wel)

\* The chip is never given a program, an erase or a read while it is busy, nor
\* a program or an erase that is not enabled: it would ignore the command, and
\* the driver, which waits for its status only, would report success.
NoCommandIgnored == [][CommandArrives => Heeded]_vars

\* That much holds of every call that began when chip and bus were at rest,
\* through every piece of it.
NoCallIgnored == [][CommandArrives /\ ~late => Heeded]_vars

\* ext_mem_init formats a memory only if it is without the key, and puts the key
\* into a memory without one only if all of it is blank ("Chip is formatted,
\* update memory init key").
BootIsRight ==
    [][ op.then = "key" /\ op'.then # "key" /\ step' # "down" =>
            /\ op'.then = "format" => mem[0] # Key
            /\ op'.then = "nothing" => \A c \in Cells : mem[c] = Blank ]_vars

\* Every call, every start and every format comes to its end, by its result or by
\* a power failure or reset: no wait and no poll of the status goes on for ever.
EveryOpEnds == step \notin {"ready", "down"} ~> step \in {"ready", "down"}

-----------------------------------------------------------------------------
\* The cells as they are when the chip has come to rest.
Effective == With(job)

InCall == step \notin {"ready", "down"} /\ op.then # "key"

\* The call the memory is in, and the cells it has still to settle.
CurrentCall ==
    IF InCall
    THEN [kind |-> CASE op.then = "format"  -> "format"
                     [] op.then = "nothing" -> "key"
                     [] op.then = "caller"  -> op.kind,
          from |-> op.from, data |-> op.data]
    ELSE [kind |-> "none"]

Unsettled == IF InCall /\ ~late THEN {} ELSE DOMAIN job

Memory == INSTANCE FlashMemory WITH
    mem <- Effective, call <- CurrentCall, loose <- Unsettled

\* The driver implements the memory: through refused calls, transfers given up
\* for their time, power failures and resets, a call that reports success has
\* changed or read every cell it was asked to, unless it began while the chip
\* was still at a call before it, and no call at all changes others' cells.
ImplementsMemory == Memory!Spec
=============================================================================
