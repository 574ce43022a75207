# Simple file system: specification, model checking, proofs

The repository is firmware for an nRF52 with an external SPI flash: a small
file system (`src/application/src/simple_fs.c`), a store of measurements
(`large_file_storage.c`), the flash driver and the SPI transfers under them
(`ext_mem_driver.c`, `spi.c`), a command server on the UART (`uart_command.c`),
and a host tool in Python (`src/python_tool/simple_fs/`). `src/sdk/` is the
vendor's SDK.  This directory holds TLA+ modules of that code, the TLC
configurations that check them, and proofs checked by TLAPS.

## 1. Inventory

| Component | State | Operations | Correct when |
|---|---|---|---|
| `simple_fs.c` | flash: folders of pages, each a status byte and records; the GC area. RAM: `last_written_address` of each folder | `sfs_write_file`, `sfs_write_file_in_parts`, the two reads, `sfs_init`, `sfs_uninit`; inside: the four searches, the garbage collection (GC) | a file read is the last one written; pages can be walked at any moment; a call changes no file but its own; every call ends; all this after power failures, for files whose call was not cut short |
| `ext_mem_driver.c` | the flash; the memory key at address 0 | program, read, erase (4K, 64K, chip), start-up with a format when the key is missing | programs only clear bits, in the 256-byte pages asked for; a formatted memory is not formatted again |
| `spi.c` | `m_spi_xfer_done`, `m_spi_txrx_timeout`, both set by interrupt handlers | `spi_txrx` | a result is that of its own transfer |
| `storage_mngr.c` | the table of folders | `init_storage` | folders, GC area and key do not overlap |
| `large_file_storage.c` | a ring of meta data entries, allocations of measurements, `current_file_address` | write and read in parts, first unread file | measurements are read once each, whole, oldest first; the latest is known after a restart |
| `uart_command.c` | the receive state machine, the packet, the answer | framing, parsing, the command table, the handlers | one answer to each packet, with its identifier; a damaged packet is not executed |
| host: `transport_layer.py` | list of answers, message identifier, reader thread | write a command, wait for its answer | an answer goes to the call that waits for it |
| host: `simple_fs_functions.py` | progress of a transfer | test loops, reads and writes in parts | what is sent is what is read |
| `main.c`, `systick.c`, `led.c` | none that matters | the main loop | one command at a time |

Interaction: the host's transport sends a packet and waits; the main loop
assembles it (`uart_data_handle`), runs one handler to its end and answers; the
handler calls `simple_fs.c` or `large_file_storage.c`, which call the driver,
which busy-waits on SPI transfers completed by interrupts.  So file system calls
never overlap.  What is hard is elsewhere: a call is a long row of flash
programs that a power failure may cut anywhere; the data structure is found
again only by walking it; the garbage collection moves every file while a call
is under way; a transfer in parts spans many calls, with other calls, collections
and restarts between them; and the SPI flags and the host's lists are shared with
interrupts and a thread.  `PROJECT.json` lists these hazards, each at its line,
with the properties that watch it.

## 2. Modules

| Module | What it is |
|---|---|
| `SfsPages` | the data structure: pages, records, space, programming of cells, the walk of `sfs_search`, what a read returns |
| `SimpleFS` | the state machine: host commands, the steps of each call, GC, power failure, restart |
| `FileStore` | the abstract specification: a store of files, calls that replace one file whole or are refused |
| `SimpleFSProps` | the properties, and the refinement mapping to `FileStore` |
| `MCSimpleFS` | the instances for TLC |
| `MeasStore` | the measurement store: two rings, the calls of the host, power failure, restart |
| `MeasQueue` | the abstract specification: a bounded queue of measurements |
| `MeasStoreProps` | the properties, and the refinement mapping to `MeasQueue` |
| `MCMeasStore` | the instances for TLC |
| `SpiTransfer` | `spi.c`: the steps of `spi_txrx` and the two interrupt handlers |
| `FlashDriver` | `ext_mem_driver.c` over `SpiTransfer` (which it extends), with the chip: calls cut into SPI transfers, start-up, format, resets |
| `FlashMemory` | the abstract specification: a memory whose failed calls leave only their own cells in doubt |
| `FlashDriverProps` | the properties, and the refinement mapping to `FlashMemory` |
| `MCFlashDriver` | the instances for TLC |
| `UartLink` | the transport of the host tool, the two lines, the queues of `app_uart`, the receiver and the main loop of `uart_command.c`, byte by byte |
| `Rpc` | the abstract specification: a command is executed at most once, while its caller waits |
| `UartLinkProps` | the properties, and the refinement mapping to `Rpc` |
| `MCUartLink` | the instances for TLC |
| `SfsPagesProofs` | lemmas about the operators of `SfsPages` |
| `SimpleFSProofs` | the inductive invariant of `SimpleFS`, types and layout |
| `SimpleFSFlashProofs` | that every step of `SimpleFS` is one a flash can do |
| `FileStoreProofs` | the files of `SimpleFS`: one version each, none lost or hidden, and space enough for a collection |
| `FileContentsProofs` | what the files of `SimpleFS` hold, and that it implements `FileStore` |
| `FlashMemoryProofs` | the invariant of `spi.c` and that the driver keeps to it, the types and the invariant of `FlashDriver`, and that it implements `FlashMemory` |
| `MeasStoreProofs` | the types of `MeasStore`, the invariant of its two rings, that restarts keep measurements and that what is UNREAD is whole |
| `UartLinkProofs` | the types and the invariant of `UartLink`, and that it implements `Rpc` |

The modules form layers, as the code does: `UartLink` carries the commands whose
handlers are the `Command` actions of `SimpleFS` and `MeasStore`; these two take
each flash program as one step that happens, happens in part or fails, which is
what `FlashMemory` promises and `FlashDriver` is shown to implement (a failed or
cut call touches its own cells only); and `FlashDriver` runs over `SpiTransfer`.

### How state and steps correspond to the code

`pages` is the folder's flash, `gc` the GC area divided into pages of the
folder's `page_len`.  A page is its status, its records in order and whether
END_PAGE follows them; the rest of it is blank.  A record is its header (status,
identifier, length as `Len(data)`, CRC) with its offset and its cells.  The CRC
is ideal: it holds the contents it was computed over, and `<<>>` stands for the
0xFFFF of files written in parts, which a read does not check.  An address is
`<<page, index>>`, and `NoAddr` the code's 0.  A cell programmed twice with
different values is `Mixed`.

`pc` says where in its function the call is, `req`, `tgt`, `old`, `cur`, `scan`
are the arguments and locals that live across flash programs
(`new_file_info.address`, `old_file_info.address`, the addresses of the two loops
of the collection).  `xfer` is the host's side of a transfer in parts, `reply` the
last answer.  `suspect` is a history variable: the files about which nothing is
promised after a power failure.

An action is one flash program or erase, or several between which a power failure
cannot be told apart:

- a search and the OBSOLETE marks it leaves (`Sweep`): the search of `sfs_init`
  after a restart makes the same marks again, and no walk looks into such a page;
- what is done to a page of the GC area, which nothing reads after a restart
  except for the NEW status (kept in `Spent`);
- the program of a header (11 bytes).  A header that crosses a 256-byte program
  page is two programs in the driver (`FlashDriver` cuts them): that power fails between
  the two is not modelled here, see below.

Where a cut in the middle can be told apart there are several outcomes (`Torn`):
the first cells of a file's data, the first records of a page copied back.  An
erase is taken as atomic, and so is the chip erase command.

The driver may also answer a program of a write with an error, the program made or not
(`DriverFails`, at the points `FaultPcs`): `sfs_write_file` and
`sfs_write_file_in_parts` then return from the middle (`simple_fs.c:609,615,627,720,728,746,755`),
and a search for space that fails still has the old version retired (`simple_fs.c:598,619`).
`FaultBound` bounds such errors: they happen only while fewer than that many files are suspect.

`pc = "stray"` is where the model stops following the code: the program has
begun to write flash outside the record or the page it meant.

`KeyInGc` says that the GC area begins at address 0 and therefore holds the memory
key: `storage_mngr.c` configures it so, `ext_mem_driver.h` says otherwise.
`KeyPage` stands for a first GC page that holds the key.  The two runs that verify
the file system itself take a GC area elsewhere; `SimpleFSKey` shows what the
actual place does.

`HostStops` and `Interleave` describe the host.  A careful serial host
(`HostStops`, not `Interleave`) gives a transfer up when a part is refused and
finishes a transfer before it writes anything else.  The tool in the repository is
serial, but does not look at the answers to parts.

### The measurement store

`slots` are the allocations of `FILE_ALLOC_SIZE` between the data addresses, `meta`
the entries of the meta data; `current` is the entry `current_file_address` points to,
0 if none is known.  `NSlots` is 7 in the code: an allocation counts if it ends before
`DATA_END_ADDRESS` (`large_file_storage.c:141`).  `NMeta` is 820, the last of which
has one byte in the meta data and four in the header of the first allocation; `LastEntry`
keeps what those four bytes hold.  The steps of a write follow the flash programs of
`write_measurement_in_parts`: the erase of a full ring of entries (`EraseRing`), the new
entry, the mark of the old one, the header, the UNREAD mark, the erase of the next
allocation, the data.  What a walk finds is a function of the flash (`WalkFinds`,
`Tried`, `Visited`).

The abstract queue holds the finished unread files in the order of the reader's walk: `Newest`
is the allocation the walk begins behind, `Pending` the set of the files, and a file's place the number
of those the walk comes to earlier (`Earlier`).  The queue
may give up its first element only when it is full (`NSlots - 1` measurements: one
allocation is always erased ahead), and puts a measurement in whole, at the step that
programs its last part.

The host is serial and does not mix the parts of a write with those of a read; after a
power failure it repeats the part it has no answer to.  `ReadBlind` lets it read when
there is nothing to read (the tool of the repository cannot tell), `ReadPart` is the size of
the parts it asks for.  `RestartOnErase` lets the device restart after a chip erase;
`CrashPcs` and `CrashLate` name the points at which the power may fail.  These are the
conditions the store turns out to need.

### The flash driver

`spi` is the place in `spi_txrx`, `done` and `timeout` are `m_spi_xfer_done` and
`m_spi_txrx_timeout`, `transfer` is `transfer_in_progress` of `nrfx_spim` together with whose
transfer it is.  Each step of the main program and each interrupt is an action; an
interrupt handler runs to its end.  A transfer whose time is up is not aborted: it runs on
as `"earlier"` and its END interrupt (`EndsLate`) comes at one of the points `LatePcs`.

`step` is the SPI call the driver makes (write enable, command, status, the two of the soft
reset), `op` the call in progress: what it is, where, the data, how far it is (`n`), and what
comes after it (`then`: an answer to the caller, the look at the key, the key of a formatted
memory).  `ChunkLen` cuts a write at the ends of program pages and an erase into 64K and 4K
blocks.  The chip is known from its commands: `wel` is its write enable latch, `job` what it
is changing; it takes a command when the SPI transfer has ended, a transfer given up is cut
by chip select (`CommandCut`), and `ChipReady` ends its work at any later time.  Power
failures (`PowerFails`) leave what was being changed in any state; a reset of the processor
(`ProcessorResets`) leaves the chip at work, until the soft reset of the next start.

Callers begin a call only when the chip is idle (`Idle` in `Call`).  The driver itself does
not look: after a status transfer that was given up (`ext_mem_driver.c:84`) the chip may still
be at work, and the next command would be ignored by it and answered with success.
`memory_erase_chip` returns nothing, so `EraseChip` is called only when no transfer given up is
still under way.

### The serial link

A packet is STX, escaped bytes, ETX.  `call`, `lastId`, `answers` are the tool's side
(`write_cmd`, `MESSAGE_ID`, `resp_list`), `reader` the reader thread; `rx`, `tx`, `ovf` the
queues of `app_uart_fifo.c`; `packet`, `main`, `msg`, `out` the receiver, the place in the
main loop, `m_uart_cmd` and what is still to be put of the answer.  A command carries one
payload byte, and its answer sends it back, so that a property can tell whose answer it is.
The CRC is ideal.  `damage` and `spoilt` are history: the call under way or the one before
was damaged, and whether any was since the tool was started.

Some of what the code does is visible in the model and worth knowing: a host ignores a CRC
mismatch (`transport_layer.py:186-188`); a packet of fewer than four bytes raises an
exception that ends the reader thread; a packet of one byte makes the length of the CRC's
input wrap (`uart_command.c:233`), and the device faults (`main = "dead"`);
`UART_RESP_PKT_CRC_ERROR` (`uart_command.c:273-274`) is never sent, since the cleared
command is answered as not supported.

## 3. Runs

Runs of the file system use module `MCSimpleFS`, those of the measurement store
`MCMeasStore`.  In the former, files are sequences of one or two cells, and a
page has room for two small files or one of each kind.

| Run | Question | Bounds | Result |
|---|---|---|---|
| `SimpleFSCore` | Does a folder in normal use, with GC and clean restarts, implement the store? | 2 pages of 7 cells, 1 GC page, 2 files of 1 or 2 cells, one file also in parts of one cell; restarts between calls | holds, 68 775 states |
| `SimpleFSCrash` | And with power failures at every step and driver errors at every program of a write? | 3 pages of 5 cells (one file each), 1 GC page, files of one cell, one written whole and one in a part; driver errors while a file is still promised (`FaultBound = 2`) | holds, 576 745 states |
| `SimpleFSOverrun` | GC area of several pages | 3 pages, 3 GC pages | `NoStrayWrite` violated: `simple_fs.c:261` |
| `SimpleFSKey` | GC area over the key | 2 pages, `KeyInGc` | `RestartKeepsFiles` violated: `storage_mngr.c:32` |
| `SimpleFSOversize` | a file shorter than a page that fits in none | a file of 4 cells, pages of 6 | `EveryCallEnds` violated: `simple_fs.c:559` |
| `MeasStore` | Do measurements go through the store as through a queue, over several rounds of both rings? | 4 allocations, 5 entries, 2 measurements of 2 cells, written and read in parts of 1; power failures between calls and at every step of a write up to the UNREAD mark, in the first round of entries; a restart after a chip erase | holds, 30 240 states |
| `MeasRing` | is the latest file known to the flash in every round of entries? | no power failure needed | `LatestIsStored` violated: `large_file_storage.c:94` |
| `FlashDriver` | Does the driver over SPI implement a memory, with transfers given up, power failures and resets? | 6 cells, program pages and 4K pages of 2, 64K blocks of 4; writes of 1 and 3 cells, reads and erases of 2 and 3, from every address behind the key's page; transfers given up in the calls of the file systems, power failures and resets everywhere but in a format | holds, 257 693 states |
| `SpiLate` | and when a transfer given up ends at the worst moment? | `LatePcs` with `"armed"` | `OwnResult` violated: `spi.c:53` |
| `FlashFormat` | and when power fails during a format? | `CrashIn` with `"format"` | `BootIsRight` violated: `ext_mem_driver.c:339` |
| `UartLink` | Does a command reach the device once and its answer the caller, with damaged bytes and a tool that is stopped and started? | 3 message identifiers (the counter wraps), 2 payloads, queues of 4 and 2 bytes; one damage, anywhere and of any kind, until the link has recovered; the tool is stopped at rest | holds, 95 493 states |
| `LinkRestart` | and when the tool is stopped while the device works? | no damage | `AnswerIsOwn` violated: `transport_layer.py:228` |

Runs of the driver use module `MCFlashDriver`, those of the link `MCUartLink`.

Properties (module `SimpleFSProps`): `TypeOK`; `PageLayout` (each page can be walked
at any moment); `NoStrayWrite` (no write in front of a partial file, none past
what a collection gathered); `OneVersion` and `NoHiddenFile` (between calls no file
has two ACTIVE versions, and none is where a search does not come);
`LastWrittenIsFound`; `FlashOnlyClears` (no step sets a bit without an erase);
`PartsAreContinued` (a part that is not the first joins the parts before it); `SentIsRead`
(a transfer that was not refused is read back as sent); `RefusedOnlyWhenFull` (NO_SPACE after a
collection means that every page holds a file in use; after failures a page may be left
without one, so this is checked in normal use only); `ImplementsFileStore`; `EveryCallEnds`;
`RestartKeepsFiles`.

Properties of the measurement store (module `MeasStoreProps`): `MeasTypeOK`;
`WritesInside` (no erased address is taken for an allocation's); `LatestStoredFirstRound`
(between calls a restart would find the file the RAM knows, until the meta data is erased
for a second round) and `LatestIsStored` (in any round); `SpaceAhead` (the allocation
behind the latest file is erased, and at most one file is PARTIAL); `UnreadIsWhole`;
`RestartKeepsMeas`; `ImplementsQueue`.

Properties of the driver (module `FlashDriverProps`): `FlashTypeOK`; `OwnResult` (a transfer
answered with success is the one that was started); `WaitIsTimed` (no wait without a timer, no
expiry left over); `NoCommandIgnored` (no command to a chip that is busy or not
enabled); `BootIsRight` (a memory with the key is not formatted, one without gets a
key only when it is blank); `ImplementsMemory`; `EveryOpEnds`.

Properties of the link (module `UartLinkProps`): `LinkTypeOK`; `AnswerIsOwn`; `NothingDropped`
(the flush at the end of a packet and a full queue drop no byte of an undamaged session);
`ImplementsRpc`; `EveryCallAnswered` (a call that is not damaged, nor the call before it,
returns, whatever is left in the buffers, or the device has faulted).

### What the other values of the constants show

Some constants exclude a behaviour of the code or of its callers.  Each exclusion was found
necessary by a run with the other value:

- `Interleave = TRUE` (a host that writes another file between two parts):
  `PartsAreContinued` fails.  A page walked to END_PAGE without an ACTIVE file is marked OBSOLETE
  although it holds the PARTIAL file (`simple_fs.c:490`); the next part starts a new file.
- `HostStops = FALSE` (the tool of the repository): `SentIsRead` fails.
  `file_write_in_parts` (`simple_fs_functions.py:283`) goes on after a refused part, and the
  next part is taken for the beginning of a shorter file.
- `ReadPart = 2` with `ReadBlind` (one part holds a whole measurement): `RestartKeepsMeas` fails.
  With nothing unread the address is 0 (`large_file_storage.c:281`), and READ is
  programmed over the memory key; the next start formats.
- `RestartOnErase = FALSE`: `WritesInside` fails.  `cmd_ext_mem_chip_erase`
  (`uart_command.c:444`) leaves `current_file_address`, and the next write takes the erased
  address for an allocation's.
- `CrashLate = TRUE`: `WritesInside` fails.  After the meta data was erased for a new round the
  entry of the old one is still marked INACTIVE, at its place in the erased memory
  (`large_file_storage.c:107`).  A restart in the second round finds its entry by walking, takes
  that mark for a used entry when it gets there, and goes on to the last one, which has its
  address in the header of the first allocation; once that is erased, so is the latest address.
- `CrashPcs` with `"next"` and `"last"`: `UnreadIsWhole` fails.  The file is UNREAD
  (`large_file_storage.c:191`) before its last part is programmed.
- `LatePcs` with `"armed"`, `CrashIn` with `"format"`, `Impatient = TRUE`: the runs `SpiLate`,
  `FlashFormat` and `LinkRestart`.
- `FaultIn` with `"key"` (transfers given up during the start): `BootIsRight` and
  `NoCommandIgnored` fail.  `ext_mem_init` does not look at the result of reading the key
  (`ext_mem_driver.c:338`), `mem_key` is then uninitialised, and a memory in use may be
  formatted; and a soft reset given up leaves the chip at the work it was doing before a
  reset of the processor.

Why the bounds are enough.  In `SimpleFSCore` two files of two lengths fill and
overflow pages in every combination; one GC page for two folder pages makes the
collection take a second round (`GcResume`), with the cursor in the middle of a
page; refusals occur; a transfer of two parts has GC and refusal before its first
part, and a clean restart between the two.  The folders of `storage_mngr.c` with
64K pages have one or two pages and exactly one GC page.  In `SimpleFSCrash` a page
holds one file, so that three pages give a blank page, a page behind it and a page
in front of it at each failure; any number of failures may follow one another, also
during the calls after a restart.  Every disjunct of `Next` fires in these two.  In
`MeasStore` four allocations give every position of the latest file (first, last, one
before the last, in between) and a full queue of three; three of the five entries are
used in a round, then they are erased; two parts give a first, a last and a torn one,
and the length of the store's life is not bounded: the state space is finite without
counters.  The choice `Occupied` of `CallWrite` is reached only with power failures
after the UNREAD mark.  In `FlashDriver` a write of three cells covers two program pages
from every offset, an erase takes one 64K block, one 4K block or is refused for its
alignment; a transfer may be given up at each SPI call, any number of times.  In `UartLink`
the receive queue of 4 is shorter than any packet and the transmit queue of 2 shorter than any
answer, so that both are full in every call; an identifier takes values that must be
escaped (2 and 3) and one that need not, a payload likewise (3 and 33).  `Crc` is ideal: of two
bytes that belong to no other number, command and payload, so that a damaged packet is
never taken for a whole one.

What power failures leave promised.  A call cut short puts its own file in `suspect`.
A failure in a collection, or between the OLD mark and the END_PAGE of a page declared
full (`simple_fs.c:424-430`), puts all files there: the code can lose any of them.  A
driver error puts the same files there.  A suspect file stays so until the chip is
erased.  The run shows what remains: no failure elsewhere touches another file, the
folder stays walkable whatever was torn, and every later call still ends.

Fairness.  `WF_vars(Work)`: a processor that has begun a call runs on (there is
nothing it waits for in this model); `WF_vars(Restart)`: power comes back.  No
fairness on commands: nobody has to call.  Deadlock is checked in every run; a
restarted or idle system can always take a command.  `FlashDriver.FairSpec`: weak fairness
of the main program (it is a busy wait: it runs), of `Interrupt` (a transfer ends or the timer
that is running expires; in the jobs outside `FaultIn` it ends) and of `ChipReady` (the
chip's own time is bounded).  Not of a late end: a transfer given up may hang for ever.
`UartLink.FairSpec`: weak fairness of the main loop, of the two interrupts and of the
caller that waits; none on commands, stops and damage.

## 4. Proofs

`SimpleFSProofs` proves, for every number of pages, GC pages, page and header length,
set of files and set of points at which the power may fail:

- `TypesHold`: `Spec => []TypeOK`;
- `LayoutHolds`: `Spec => []PageLayout`;
- both from `Invariance`: `Spec => []IInv`.

Assumptions: `SizesAssumption` (positive sizes, and a page has more cells than a
header and its status), `FilesAssumption` (no file is empty: a record without data is
never asked for by the host tool), `HostAssumption`.  TLC evaluates them in each run.

`PageLayout` is not inductive.  That a header goes inside its page needs that `tgt`
was found by the room check and that no record was appended since; that END_PAGE is
put only on a page declared full needs that the page of `cur` is OLD and has none
yet; that a page copied back can be walked needs the same of the GC pages, while
the collection fills them, and of every prefix of them, for a copy cut short.
`IInv` therefore says: the folder consists of well-formed pages (`IsFolder`); so does
the GC area, whose pages that are not full have room for what comes (`GcGood`); the
registers have their types (`Registers`); and for each `pc`, what holds of request,
target, old version and cursors there (`CallOK`: `RoomOK`, `SearchOK`, `TargetOK`,
`FullOK`, `ScanOK`, ...).  The proof has one lemma per action, which rest on lemmas of
`SfsPagesProofs`: what appending a record, putting END_PAGE, changing a status,
programming cells or cutting a page short does to a well-formed page.  `IInv` was
checked with TLC on both passing configurations before it was proved.

`SimpleFSFlashProofs` proves `OnlyClearing`: `Spec => FlashOnlyClears`, from the same
assumptions.  `IInv` is not enough: the last part activates its record in a step of its own,
and would set a bit if that record were the one just marked OLD.  `PartialOK` says that from
the data of a part to its activation the record is PARTIAL, and the version a search finds
to retire is ACTIVE, so another one; `PartialInvariance` proves it together with `IInv`.  That
a page moves forward (`Forward`) is reflexive and transitive, each kind of program moves
its page forward, and a search, a torn program, a failed call are several of them.

`FileStoreProofs` proves, under `CleanUse` (power fails between calls only, the driver reports
no error, and the host finishes one file before it writes another), for every folder, GC
area, page and file size:

- `OneVersionHolds`, `NoHiddenFileHolds`, `LastWrittenIsFoundHolds`, `RefusedOnlyWhenFullHolds`;
- `NoStrayWriteHolds`, for a GC area of one page;
- all five from `FilesInvariance` (`Spec => []FInv`).

Each condition is needed: `SimpleFSCrash` and the findings of section 3 show what two versions or
a lost part a failure inside a call leaves, an interleaving host meets the PARTIAL record of another file,
and `SimpleFSOverrun` shows a GC area of several pages writing outside what was collected.
`FInv` adds to `PInv`, for as long as no stray write is made:

- the folder is filled from its first page (`Lined`), OBSOLETE pages hold nothing ACTIVE, and an
  OLD page has its END_PAGE (`Marks`).  So a search comes by every record in use (`AllVisible`),
  and the one it finds first is the only one (`VersionsOK`); two versions are ACTIVE only
  between the header of the new one and the OLD mark of the old one (`Swapping`), and then the search
  for the old one has passed the new one by;
- during a collection a file is in the folder or in the GC area, once (`CopiesOK`);
- a collection never needs more pages than it has erased (`CollectOK`).  With `k` pages filled
  again, `scan.g` the GC page being filled and `scan.p` the folder page being collected,
  `Collects(k)` says `k + scan.g <= scan.p`: what has been collected fits into the pages in
  front of the one being looked at, and when it is equal, the last GC page is not ahead of
  the record being looked at.  That is why a page copied back always finds a blank one, and why a
  collection that ends without a blank page leaves a file in use in each of them, which is
  `RefusedOnlyWhenFull`;
- the one PARTIAL record belongs to the transfer under way, is in the page that takes new
  files, and has room for the parts to come (`HostOK`, `PartsOK`): so the offset computed from
  `rem_len` never falls in front of it.

`FInv` was checked with TLC on small folders before it was proved, as were its parts on which
lemmas rest.  Where an induction on page numbers is needed (the first page that is not
full), it is the least element of a set of naturals (`Least`, from `WFMin`).

`FileContentsProofs` proves, under `CarefulUse`, for every folder, page and file size:

- `Implementation`: `Spec => ImplementsFileStore`, the whole refinement;
- `SentIsReadHolds`, `PartsAreContinuedHolds`, `RestartKeepsFilesHolds`;
- all four from `ContentsInvariance` (`Spec => []CInv`).

`CarefulUse` is `CleanUse` and three more conditions, each of which section 3 shows to be needed: the
host gives up a transfer that was refused (with `HostStops = FALSE`, `SentIsRead` fails), the
memory key is not where the collection erases (`SimpleFSKey`), the GC area is one page
(`SimpleFSOverrun`).  So `RestartKeepsFilesHolds` says that the place of the key is all that is wrong
in `SimpleFSKey`.

`FInv` says where the records are, `CInv` what is in them.  `SoundOK`: a read of any record in
use yields its data, which is one of the files (the CRC is that of the data, or there is none),
in the folder, in the GC area and in the version being replaced; the one exception is the new
version before its data.  `AskedOK`: what the request can be at each point of a call, in
particular that space is searched for with the first part only.  `TargetHolds` and `SentIsThere`:
the record being written holds the first cells of the file sent so far and blank cells behind them
(`Written`), between calls as well.  Then a file written in parts is whole when it is activated, and
`Holds(id, x)` says without a search what a file holds: the data of the version in use, which is
the one in the folder or in the GC area, or the old one while it is replaced.  `StoredIs` shows
that this is the mapped `Stored(id)`, for which the one version must be visible to the search
(`FInv`) and sound.

One lemma per action says what it does to `Holds`.  `CallWrite` and `CallPart` are `Call`; the last step of a
call is `Accept` (`WriteData`, more parts to come), `Commit` (`RetireReplaced`, `Activate`) or `Refuse`
(`RetireReplaced` without a target, and `GcDone` for a part); `Crash` between calls is `Restart`, and `EraseChip`
is `Format`.  All other steps, the searches, the programs before the last one, every step of a
collection, the reads and the restart, leave `FileStore` as it is.  `CInv` was checked with TLC on the
configuration of `SimpleFSCore` and on a folder of three pages before it was proved.

`FlashMemoryProofs` proves first, for every order of the steps of `spi_txrx` and its interrupts,
every memory and every caller, `ResultsAreOwn` and `WaitsAreTimed`.  `SpiInv` says what the flags
mean at each point of `spi_txrx`: once `nrfx_spim_xfer` has accepted the transfer, `done` holds
exactly when no transfer is under way, and from the start of the timer to the end of
the wait there is a timer running or an expiry to be seen.  `DriverKeepsToSpi` (`Spec => SpiSpec`) carries this to the driver: each
of its steps is a step of `SpiTransfer` or leaves its variables alone.  The assumption
`NoneBetween` says that no transfer given up ends between the clearing of the flag and
the start of the next one; `SpiLate` shows that the code needs it.

It goes on to prove, for every memory, page and sector size and all jobs of the callers:

- `FlashTypesHold` (`Spec => []FlashTypeOK`), without any condition.  It needs that a job stays
  inside the memory (`SizeAssumption`: pages divide sectors, both divide the memory, as
  0x1000, 0x10000 and 0x100000 do) and that what is left of an erase stays aligned;
- under `NoneBetween`, `FaultsInCalls` (transfers are given up only in the calls of the file
  systems, not in start-up) and `CrashesOutsideFormats` (no format is cut short):
  `NoCommandIsIgnored`, `BootsAreRight` and `DriverIsMemory`, `Spec => ImplementsMemory`, the whole
  refinement.  `SpiLate` and `FlashFormat` show what happens without them.

`DriverInv` has a part for each thing the refinement tells apart.  `JobInside`: the rest of the
job and the transfer under way lie in the cells of the call.  `Worked`: the cells before the
rest hold what the call wants, those behind it what they held.  `Copied`: the buffer of a
read holds the cells read so far.  `Faultless` and `Resting`: outside a caller's job no
transfer has been given up, and the chip is idle and write-enabled where the next
command counts on it.  `KeyOK`: the key in RAM is the one in the memory, unless a format
is under way.  Then one lemma per action: each step of the driver is one of `Call`, `Advance`,
`Done`, `Read`, `Formatted`, `Fail`, `Refuse`, `Cut`, `Settle` of `FlashMemory`, or leaves its variables alone.
`ContentAssumption` (the key and a cell programmed in part differ from a blank one) is
evaluated by TLC in each run, as is `SizeAssumption`; `DriverInv` was checked with TLC first.

`MeasStoreProofs` proves, for every number of allocations, entries and parts:

- `MeasTypesHold` (`Spec => []MeasTypeOK`), without any condition.  A part stays inside its
  measurement because the length asked for is what the host has left (`RequestOK`);
- under `CautiousUse` (the device restarts after a chip erase, and power does not fail once the
  meta data has been erased for a second round), wherever else the power fails:
  `WritingStaysInside`, `LatestIsFound` and `SpaceIsAhead`, the properties `WritesInside`,
  `LatestStoredFirstRound` and `SpaceAhead`, from `RingInvariance` (`Spec => []RingInv`).

None of the three is inductive.  `RingInv` names the entry `f` that is the latest (`RingAt`): in
the first round the entries before it are INACTIVE, it is ACTIVE, none behind it is INACTIVE,
and those from the second behind it on are blank.  The next entry is blank too, or a power
failure came after it was written and before the old one was retired: then (`NextRepeats`) it
names the free allocation at which the search of the repeated call must end, so that the
same address is programmed again and not another one over it.  That needs that the search is
determined (`OneTaken`) and begins with the latest (`FirstTried`), and that a PARTIAL allocation
can only be the latest one (`PartialAt`).  `RetireOK`, `EntryOK`, `Writing` say what holds between
the programs of a call.  The runs of section 3 show that either half of `CautiousUse` is needed.

It goes on to prove `RestartsKeepAll` (`RestartKeepsMeas`) under `KeyIsSafe` (`ReadBlind`
is false or a part is shorter than a measurement): the key is lost only by a blind read
of a whole measurement, and a reading that has begun is never blind, because the walk of
`first_written_file_address` meets every allocation (`EveryOneVisited`), so it finds the
measurement again (`UnreadIsFound`).  It proves `UnreadStaysWhole` (`UnreadIsWhole`) under
`SafeUse` (both conditions, and no power failure between the UNREAD mark and the last part):
`WholeInv` adds to `RingInv` that a PARTIAL allocation holds the cells sent and otherwise
blank ones or such of a torn part (`Received`), and that something was sent only if there is a
PARTIAL allocation, which the next call then continues.

Last, `ImplementsQueueHolds` (`Spec => ImplementsQueue`) under `SafeUse`: the whole refinement to
`MeasQueue`.  What the flash tells of the order of the files is only where the latest is, so
`QueueInv` adds to `WholeInv`:

- `UnreadIsLatest`: once the reader's walk has met an unread file it meets no other kind before
  the newest.  So the allocation behind the newest, if it is unread, is the head of the queue,
  and then every other one is unread too: what `EraseNext` gives up is the oldest of a full store;
- `NextIsFree`: the search for space ends at the newest allocation or at the one behind it
  (`NextTaken`).  Between two measurements `SpaceAhead` gives this; after a power failure between
  the entry and the header, that the new allocation is still free.  It keeps a new file from
  landing among the old ones, and says where the latest falls back to when power fails before the
  old entry is retired;
- `PartsAreOldest`: what the host has of a measurement is the beginning of the head of the queue,
  so that the last part completes the one that is marked READ;
- `Marked`: the file being finished is the one marked UNREAD.

A sequence that lists a set in the order of a key is what the lemmas about `Listed` are for: its
places are taken once each (`OnePlaceEach`, `EveryPlaceTaken`), so it is told by them (`ListedIs`); an
element later than all is its end (`ListedAppend`) and one earlier than all its head
(`ListedTail`).  The walk behind an allocation comes to it last and to the next first
(`FirstAndLast`), and the order of the others does not change when the newest moves on by one
(`SameOrder`, `MovedOn`), nor when a power failure takes it back.  Then one lemma per action:
the step is `Offer`, `Drop`, `Put`, `Get` or `Format`, or leaves the queue alone.

`MeasAssumption` and `AddressAssumption` (the marks for address 0, for erased and for spoilt
addresses are no allocation's number) are assumed, and evaluated by TLC in each run.  `RingInv`
was checked with TLC with power failures at every point, `WholeInv` at every point but the two
excluded, before they were proved, and so were the four parts of `QueueInv`.

`UartLinkProofs` proves, for every size of the two queues, every range of message numbers up to
`MESSAGE_MASK` and every set of payload bytes:

- `LinkTypesHold` (`Spec => []LinkTypeOK`), without any condition;
- under `Patient` (the tool is not stopped while the device is at work, as in the run
  `UartLink`; `LinkRestart` shows that the code needs it), with any damage the lines do:
  `AnswerIsOwnHolds`, `NothingDroppedHolds` and `ImplementsRpcHolds`, `Spec => ImplementsRpc`, the whole
  refinement.

None of them is inductive, because what a byte will do depends on those around it.  The queue and the line to
the device are seen as one `stream`, the queue and the packet being put as one `reply`.  `LinkInv` has four parts.

- `Unspoilt`: where a session without damage stands: `AtEase`, `Asking`, `Executing`, `Answering`, `Answered`.  On
  either way `Follows` ties what the receiver holds to what is still to come: together
  they are the packet, also after a DLE and before the byte it escapes.  The session after a damaged
  one may have bytes of that in front of its request (`Gathering`).
- `Turns`: in any session, damaged or not, a packet on its way to the device excludes a command at work and an
  answer long enough to be one on its way to the tool (`Left` is what is left of one); so the
  flush takes nothing of value, and no second command is executed in a call.
- `Once` and `OwnCrcs`: whatever bytes are lost or changed, behind the end of a packet no other
  begins, and the second bytes of a CRC that a packet under way can take up are those of the call.  Then
  a packet that is accepted carries the payload of the call (`AcceptedOwn`).
- `Ending`: once the damage is over the stream ends with the end of a packet, not one
  that is escaped, so that the receiver is back in step before the next call but one.

A packet has four or five bytes before they are escaped; `Rest(b, k)` is what the line carries of
them from the k-th, and `RestUnfolds`, `RestTidy` and `FollowsStep` say what it is made of and what
taking a byte of it does.  Then one lemma per action and part of the invariant, and one per action for
the refinement.  The invariant was checked with TLC on the configuration of `UartLink` (the numbers of
answers cut to 0 .. 6) before it was proved.

Only model-checked: the properties of `FileStoreProofs` and
`FileContentsProofs` where a run lets the power fail inside calls or the driver report errors;
and liveness, `EveryCallAnswered` among it, which is out of the proof system's reach.

## 5. What is not modelled

- Several folders.  They share the GC area, one collection at a time; `GPages` > 1 and
  leftovers of the same folder are in `SimpleFSOverrun`, leftovers of another
  folder with another `page_len` are not modelled.
- Driver errors inside a collection: `last_written_address` is then left pointing where a
  record need not begin any more, and the next search for space would start in the middle
  of a record.  Failed reads of the searches whose result the code ignores
  (`simple_fs.c:598,737`): the old version would stay ACTIVE in front of the new one, and the
  call answer success.  A page or record mark made by a search that then fails counts as
  made.
- The splitting of a header at a 256-byte program page, in `SimpleFS` (`FlashDriver` has it).
- In the driver: deep power down and `ext_mem_test`, which nothing calls; a receive buffer on
  the stack of a transfer given up, into which the SPI peripheral may still write.
- In the link: more than one damage before the link has recovered; a main loop slower than
  the line when it has nothing to do (`KeepsUp`); the 5 s pause of `uart_error_handle`, taken
  as a loss of the bytes that arrive meanwhile; commands of any length and the
  unknown ones; the time-out of `read_response` and `reset_buffers`, which nobody uses; the
  eighth bit of a byte, which the tool's port setting SEVENBITS (`transport_layer.py:92`)
  would cut off on real lines.
- `WRONG_FOLDER` and the alignment check of `sfs_init`: a fixed table decides them.
- In the measurement store: measurements of different lengths (`file_len` is one
  constant), a read command that fails half-way, two flash programs inside one
  header (9 bytes), and what a blind read returns.
- Statuses no code writes (`default` in `simple_fs.c:471`, `GARBAGE_ERROR`).
- The raw memory commands, which can put anything anywhere.
- A transfer in parts taken up again by the host after a power failure, or repeated:
  the host tool keeps nothing across its own restarts and repeats nothing.
- Reads are whole in one step: no write overlaps them, one command runs at a time.

## 6. What is left

- `StorageManager`: two folders with different page lengths over one GC area.  With GC
  areas of one page a leftover of another folder is met as one of the same folder is; with
  several, `SimpleFSOverrun` shows the collection to be wrong before that matters.
- Driver errors in a collection, with pages that can be read from the middle of a record.
- Theorems: the step simulation of the refinement to `FileStore` with power failures inside calls.
