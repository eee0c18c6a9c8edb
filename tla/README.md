# TLA+ specifications of the Hydra AMIX tree

This directory holds TLA+ models of the platform code under `src/usr/sys/amiga`:
the Amiga half of an SVR4 kernel (AMIX 2.1), and above all the STREAMS driver
for the Hydra Systems AmigaNet Ethernet card that this tree adds.  The kernel
proper (`os`, `fs`, `vm`, `io`, ...) is present in binary form only.

Paths below are relative to `src/usr/sys/amiga` unless they start with `src/`.

## 1. Inventory

### 1.1 Ethernet

**Hydra driver** (`driver/hydra/hydra.c`).  State: `hydra_board[]`, per board
five streams (`hydra[]`: queue, DLPI state, sap), the counters
(`hydra_status`, with `board_state`) and `hydra_info` (`next_pkt`, pages);
`hydra_autoconfig[]`; and on the card the DP8390's registers and 16 KB of RAM:
pages 0-7 for one frame to send, pages 8-63 a ring of received frames.

| Part | Operations | Interacts through | Hard behaviour |
|---|---|---|---|
| receive ring | `hydraintr`, `receive_interrupt`, `toss_packet_up_stream` | CURR, BNRY, ISR, card RAM; `putnext` upstream | the chip stores while the driver copies; acknowledge/drain order; wrap; full ring; corrupted headers |
| transmit | `hydrawput`, `hydraproto` (UNITDATA), `hydraxmit`, `transmit_interrupt` | CR.TXP, PTX, TXE; the streams' write queues | a put and the end of a transmission cross; one transmit buffer for five queues; wakeups |
| lifecycle | `hydraopen`, `hydra_initialize`, `setup_ne2000`, `hydraclose` | IMR, CR, `board_state`, `hydra[]` | neither masks interrupts: the handler runs between any two stores |
| DLPI | `hydraproto` | `hydra[].sap/state`, `allocb` | replies that cannot be allocated; binding while frames arrive |
| ioctls | `hydraioctl` | M_IOCTL, M_IOCDATA, M_COPYIN/OUT | a two-step exchange kept in `cp_private`; tests that touch the running chip |
| probing | `hydraautoconfig`, `ac_*`, `get_ethernet_address`, `autocon` | `bootinfo`, bus reads | a corrupted ConfigDev table, three fallbacks |
| tools | `hya/hya.c`, `hya/hydra_test.c` | ioctls | none: they format what the driver returns |

What makes it correct: a frame the card stored reaches the streams bound to
its type once, whole and in order, or is counted; a message put on a stream is
sent once and in order; an interrupt is always served; a stream that is open
has a running board, and a board nobody has open is stopped.

**A2065 driver** (`driver/aen/aen.c`).  The model the Hydra driver was written
after: the LANCE and the driver share rings of descriptors (128 receive buffers
of 150 bytes, 8 transmit buffers) that an OWN bit hands over.  Hard: frames
chained over several buffers, a frame the chip abandons half stored, and
`aen_initialize`, which sleeps until an interrupt while other opens may start.

**SLIP** (`driver/slip.c`).  A STREAMS module over a tty and a DLPI driver above
it; state: the pairing of the two, a receive buffer with an escape state.

### 1.2 SCSI and disks (`alien/`)

**Host adapters** `a3091.c` (A3000), `a2091.c`, `a2090.c`: `units[]` with a queue
of commands each, a queue of units to start, `istate` of a table-driven
automaton fed with WD33C93A status codes.  Operations: `a3091queue`,
`a3091intr`, `startany`.  Hard: targets disconnect and reselect at any time, also
while another command is being started; saved data pointers.
**Selector** `sd.c` routes commands to adapters; **partitions** `sdpart.c` reads
the Rigid Disk Block; **disk** `dd.c` keeps a queue of `buf`s per unit and runs
command, REQUEST SENSE, one retry; **tape** `ct.c`; **generic SCSI** `scsi.c`;
`physdsk.c` (raw I/O page by page).  Correct: each request ends exactly once,
requests of a unit in order, a transfer interrupted by a disconnect resumes at the
byte it stopped at, the bus never idles with a unit ready, and a transfer moves
the blocks of its partition and no others.

### 1.3 Character devices (`driver/`)

| File | State | Hard behaviour |
|---|---|---|
| `par.c` parallel port | `parflags`, `par_outq`, `timeout_id`, `currentbyte` | interrupt, timeout and writer race; open resets the flags; sleeping writers |
| `sl.c` serial port | tty struct, output block, carrier | interrupt driven output one character at a time, flow control, ioctls ordered behind output |
| `alien/contrib/mx/mx.c` IBM style serial card (contributed) | tty struct, output block, `mx->ch`, a receive ring | interrupts at two levels and a clock poll that nests in one of them |
| `ql.c`, `ql65/`, `as65/` A2232 card | shared memory rings with a 6502 whose program is in `ql65` | two processors, ring indices |
| `audio.c` | clients, channels, three buffers each | buffers against the DMA interrupt, allocation of channels, close with sound left |
| `hd.c` ST-506 disk, `jb.c` bus allocator | elevator queue; owner of the A2090 bus and who waits for it | two drivers hand the bus to each other; "NEVER been tested under SVR4" (its own words) |
| `bb.c` billboard, `kdb/` debugger | console redirection; breakpoints | interactive |
| `ben.c` clock chip, `cl.c`, `acia.c`, `machid.c` | registers | bit-banged reads, none concurrent |
| `ram.c`, `amiga.c`, `tiga.c`, `zz9000.c`, `dummy.c` | a region of memory | bounds of `mmap`/`uiomove` |

### 1.4 Floppy (`floppy/`)

`flop.c`: a queue of requests served by a servant process, or by the caller
while there is none, out of a least-recently-used cache of whole tracks (`tbcinit`,
`findtrk`, `flush`, `incache`), which a countdown writes back before it stops a
motor; raw I/O through one static buffer (`fdphysio`).  `floph.c`: motors, the one
selected drive, seeks and transfers.  `flopf.c`, `flopf.dos.c`: MFM encoders and
decoders for AmigaDOS and MS-DOS tracks.  Hard: every delay and every transfer
sleeps, an open by another process works the same registers, a dirty track of one
drive is evicted to serve another; a track comes back at any bit alignment.

### 1.5 Console, boot, kernel glue

`console/` (screens, keyboard, keymaps, the terminal emulator `c0.c`), `boot/`
(two-stage loader, `decompress.c`, ELF conversion), `kernel/support.c` (ConfigDev
table: `config`, `autocon`), `ml/*.s` (trap vectors: `p2int` calls each entry of
`int2_tbl` of `src/usr/sys/master.d/kernel.c` on every level-2 interrupt),
`src/usr/sys/master.d` and `src/usr/sys/local` (tables of entry points).

## 2. Plan

Order: the receive ring, where a mistake loses or corrupts data silently; then
the other half of the interrupt handler; then what surrounds both.

| Step | Modules | Component |
|---|---|---|
| 1 | `HydraRing`, `FrameFifo`, `HydraRingFifo`, `MCHydraRing`, `HydraRingProofs`, `HydraRingFifoProofs` | Hydra, receiving |
| 2 | `HydraTx`, `MCHydraTx`, `HydraTxProofs` | Hydra, sending |
| 3 | `HydraBoard`, `MCHydraBoard`, `HydraBoardProofs` | Hydra, opening and closing |
| 4 | `Scsi3091`, `DiskQueue`, `Scsi3091Disk`, `MCScsi3091`, `Scsi3091Proofs`, `Scsi3091DiskProofs` | SCSI disks |
| 5 | `AenRx`, `AenBoard`, `HydraIoctl` | A2065; ioctls of the Hydra |
| 6 | `ParPort`, `SlOutput`, `SlInput`, `QlLine`, `MxLine`, `Slip`, `Audio`, `Lines`, `MCLines`, `LinesProofs` | lines |
| 7 | `CtTape`, `BoyerBus`, `SdDisk`, `GsIoctl`, `FloppyCache`, `FloppyDrive`, `FloppyAmiga`, `FloppyDos`, `MCDisks`, `FloppyDriveProofs` | storage |
| 8 | `Autoconf` | memory and boards |

All of it is done.  What could follow: every store of `a3091queue()` as a step, so
that `gsioctl()`, which calls it with interrupts on, can be composed with
`Scsi3091`; proofs about more drivers of the two families.

Most drivers share no state.  `Lines`, `MCLines` and `MCDisks` therefore put a family
of them into one specification: `part` is chosen in `Init` and never changes, and a
behaviour is one of the driver it names.  `Lines` holds the drivers that `LinesProofs`
proves about (`ParPort`, `SlInput`, `AenRx`, `AenBoard`, `HydraIoctl`) with their
constants as parameters; `MCLines` gives those values and adds the terminals.  What drivers of a family owe their users
is the same - bytes in order, nobody left waiting - so each property of a family
is stated once, as a conjunction of the form each driver gives it.

Abstract specifications: the bounded FIFO behind the ring and the queue of
requests per disk.

## 3. What is modelled

Each module has one action per register access or store that another party can
see; where the code masks interrupts or runs in the handler, a whole C function
is a step.  What the hardware does is modelled from how the driver uses it and
marked external in the map of `PROJECT.json`.

**`HydraRing`** - `hydraintr()`'s receive part and `receive_interrupt()` beside a
DP8390 that stores frames page by page.  `curr`, `bnry`, `isr`, `hdr`, `ram`,
`nic` are the chip; `next_pkt`, `pc` and the locals `status`, `lcurr`, `header`,
`rxbuff`, `loop_count` the driver; `arrived`, `accepted`, `delivered` history.
`IntrRead`, `IntrAck`, `RxPoll`, `RxDrained`, `RxHeader`, then one of `RxBadNext`,
`RxSkip`, or `RxCopy`, `RxAdvance`, `RxToss` follow the loop in its order.
A page holds a tag, which frame it belongs to and which page of it, and the four
bytes a header may occupy; `RamRead` and `CopyFrame` do the code's byte offsets,
longword rounding and bounds test.  Left out: the totals `rx_errors`,
`buffer_error` and `overflow`, and what padding contains.  `Faults` lets a failing
card write wrong status bytes, sizes or next pages; `NoiseHeaders` is payload
that happens to read as a header.

**`FrameFifo`, `HydraRingFifo`** - the promise of that path, a FIFO bounded in
pages, and the mapping of `HydraRing` onto it.

**`HydraTx`** - `hydrawput()`, the `DL_UNITDATA_REQ` of `hydraproto()`,
`hydraxmit()`, `transmit_interrupt()`.  `wq` is each stream's write queue, `pc`,
`caller`, `cur`, `mp` where the CPU is; it is one process because `splhydra()`
keeps puts and the handler apart.  `hydrawsrv()` returns at once in the code and
is no action.

**`HydraBoard`** - `hydraopen()` with `hydra_initialize()` and `setup_ne2000()`,
`hydraclose()`, the DLPI primitives and the handler, over a ring reduced to a
sequence of frames.  Neither open nor close masks interrupts, so `pc` stops
after each store the handler or the chip can see.  INT2 is level triggered:
while `Asserted` no process step is enabled, and `IntrSkip` is the handler
finding the board not running.  `Called` has the handler run on any level-2
interrupt, as `p2int` does.  The branch for `HYDRA_RAW_DATA` in the delivery of
frames is left out: no code sets that flag.  A frame of type 0 is delivered to every open
stream that has not bound, because the delivery compares its type with the 0 such a
stream has for its sap: the frames of the model may carry it.  Boards do not interact, so one is
modelled, with its card present.

**`Scsi3091`** - `dd.c` over `a3091.c`.  The record `hba` is the adapter's static
variables with the chip's registers it uses; each C function on them is an
operator from record to record (`StartDma`, `StartAny`, `UQueue`, `Queue`), and
each action of `a3091intr()`'s table is a TLA+ action (`Complete` is action 0,
`Dead` 1, `Requeue` 2, `Resume` 3, `RestorePointers` 4, `Abort` 5, `SavePointers`
6, `Disconnected` 7, `ReadMessage` 8, `AwaitEnd` 9).  `IHandle` is `ihandle()`, which
the adapter calls in the middle of its own handler.  Targets (`tgt`) move chunks,
save and restore pointers, disconnect, reselect, end with any status.  A
reselection can beat a selection or be pending when one is ordered; the chip
then ignores the command.  Status bytes are named rather than numbered; the
command phase register reads 0x60 at completion, as it does for a command that
ended; the CPU's `cipwait()` always ends.  `sdvalid()` is taken to let the buf pass;
`SdDisk` has its test.

**`DiskQueue`, `Scsi3091Disk`** - what a disk driver promises, and the mapping of
`Scsi3091` onto it.

### The lines

Each of these modules keeps a driver's static variables, its chip and its callers
in one record; a C function is an operator from record to record, since the drivers
call each other's functions and their own again, and an action is a call, an
interrupt, a timeout or a stretch between two points where another context may
come in.

| Module | Stands for | One step is |
|---|---|---|
| `ParPort` | `par.c`; callout table, printer | a function up to its sleep: all of it runs at level 2.  `parwrite()` a byte at a time, since `uwritec()` may sleep |
| `SlOutput` | `sl.c`: open, close, write queue, `slsrvioc`, `slproc`, `getoblk`, `sltint`, CTS, XON/XOFF, carrier | a call, interrupt, tick or timeout; putting a message on the queue and `getoblk()` are two; `getoblk()` is reached again from within itself as in the code |
| `SlInput` | `slrint` at level 5 against `slpoll` at the clock's | each part of `slpoll()`'s loop |
| `QlLine` | `ql.c` and the 65C02 program `ql65/ql6502.m4` over the shared memory | a function or, where the other processor may come between, a part of one: the 65C02's publishing of a condition, taking and setting of parameters, and flush; `qlintr()`'s look at a condition, its clearing, the input and what it orders then, the output |
| `MxLine` | `contrib/mx/mx.c`, with an 8250 | a function, but `mxtint()` at level 2 is fetch and write, since the clock's `mxpoll()` nests there; `mxlint()`'s loop is taken a turn at a time, since level 6 comes between; putting a message on the queue and `getoblk()` are two steps |
| `Slip` | both halves of `slip.c`, the line leading from one to the other | a message; the line cuts bytes into messages anywhere |
| `Audio` | `audio.c` | a function: all at `splaudio()` |
| `AenRx` | `aenintr`, `receive_interrupt`, `toss_packet_up_stream` of `aen.c` against the LANCE | a descriptor given back by the LANCE; one search for ENP; one buffer copied and given back |
| `AenBoard` | the rest of `aen.c` | a function up to its sleep; open and close stop between the two stores an interrupt can separate, `transmit_interrupt()` after each stream, as the LANCE goes on sending |
| `HydraIoctl` | `hydraioctl`, with each test of the card | a message of the stream head |

Data is numbered: a byte, packet or frame is its number, so that loss, repetition and
overtaking are visible.  In `Slip` bytes are what the framing tells apart.

### Storage and boards

| Module | Stands for | One step is |
|---|---|---|
| `CtTape` | `ct.c` | `machine()` to the next SCSI command; an open, read or close up to its sleep |
| `BoyerBus` | `hd.c`, `a2090.c`'s queue, `jb.c` | a call or interrupt; `jbinit()` is two, as it sleeps in `delay()` |
| `SdDisk` | `sdpart.c`, `physdsk.c`, open, read and write of `dd.c` | from sleep to sleep; a disk moves one buf |
| `GsIoctl` | `gsioctl()` of `scsi.c` | between the copies that may sleep |
| `FloppyCache` | `flop.c` | from sleep to sleep; reading and writing a track (`dtypes[].get`, `.put`) sleeps and may fail, so the servant's `flush()` is an entry at a time, and so is the choice of a motor to age.  A caller that serves itself does the rest of its flush at once: there is no servant then to come between |
| `FloppyDrive` | `floph.c` | between two `fldelay()`s, each of any length; `fliwrite()` keeps everything out while it waits for the index |
| `FloppyAmiga`, `FloppyDos` | `flopf.c`, `flopf.dos.c` | encode a track; damage a bit; decode it from some bit on |
| `Autoconf` | `config()`, `autocon()`, `hydraautoconfig()`, `aenautoconfig()`, `sd.c`'s `init` and `insert` | one of those, in any order after the first |

The codecs work on bits at their real word width with small sectors; nothing of the
sync, gap, clock bit, checksum or CRC rules is left out.  A label is the blocks
`sdpart.c` reads, a transfer the block numbers it moves, an address a multiple of
32 KB.  What shuts a driver's promise off is a variable of the model, set where the
code does it and named in the property: `raced`, `shared`, `odd`, `merged`, `reset`
and the like.

## 4. What the runs check

| Run | Instance | Shows |
|---|---|---|
| `ring_ok` | six-page ring, five frames of one to three pages, healthy card | `TypeOK`, `NicSparesUnread`, `NoLostWakeup`, `LossOnlyWhenFull` |
| `ring_fifo` | six pages, three frames, bad status and sizes mixed in | `InOrderDelivery`, `EveryFrameAccountedFor`, `RingIsFifo` with its liveness |
| `ring_chain` | seven pages, two frames of one or six pages, next pages outside the ring or anywhere in it | `EmptyIsNotFull`, `CopyStaysInRing`, `HandlerReturns` |
| `tx` | three streams of two messages, one flush, transmissions may abort | `StreamOrder`, `WireMatchesStarted`, `QueueHasWakeup`, `AllSent` unless one aborts |
| `board` | two streams, three opens, interrupts at any step | `ClosedIsStopped`, `OpenStreamsHaveBoard`, `HandlerSeesWholeBoard`, `StraysExplained`, `UnservedOnlyInWindows`, `ServedWhenQuiet` |
| `board_served` | one open, interrupts at any step | `InterruptServed` fails: see section 7 |
| `scsi_ok` | disks with two and one requests of two chunks, two detours per command | `NeverDead`, `RequestsEndInOrder` with its liveness |
| `scsi_odd` | the same, with pointers restored in mid-transfer and other messages | `UnitInOnePlace`, `NoneWaitsWhenIdle`, `DmaInStep`, `SenseFindsCheck` |
| `lines` | fourteen instances in `MCLines` | `LinesTypeOK`; `LinesInOrder`, `LinesGoOn`, `RequestsTakeEffect`, `UnservedOnlyInWindow` of the drivers in `Lines`; `TtysInOrder`, `TtysGoOn` of the others |
| `disks` | eleven instances in `MCDisks` | `DisksTypeOK`, `ServedInOrder`, `NobodyForgotten`, `WritesAreKept`, `WhereThought`, `NeverWrongData`, `TracksReadable` |
| `sl_queued` | a serial port, two messages of data, two TCSETA or TCSETAW | `QueuedIoctlsServed` fails: see section 7 |
| `mx_break` | one port, one TCSBRK | `BreakEnds` fails: see section 7 |

The properties of `lines` and `disks` are conjunctions; the definition in the MC
module, or in `Lines`, names the form each driver's module gives it, and the comment there states
what that driver promises.  The "go on" properties are safety properties that say
why a sleeper or a queue cannot be left: its wakeup is named in every state - an
interrupt due, a timeout in the callout table, a command at the adapter.  That is
stronger than "it will be woken" under some fairness, and it shows where the wakeup
comes from.

Why the bounds are enough.  A ring of six pages is the smallest that holds a
frame of full length; frames of one, two and three pages wrap at every offset,
fill it exactly and overrun it, and five of them go round it more than once.  254
bytes puts the CRC alone in the last page.  `MaxLoop` needs only to exceed the
ring for the loop limit to mean what 256 means for 56 pages.  Three streams let
one be passed over while another is served.  Two streams suffice for a board: one
keeps it up while the other changes hands; frames have the one type that streams bind or
0, and broadcast frames are taken as those for us are.  Two detours allow a save and a
disconnection in one command, or two disconnections; the third request meets a
queue and a predecessor on its own disk and a competitor on the bus.

In the families a ring has three to five slots with the high water mark inside it, so
that it fills, wraps and drops RTS; two users or clients meet in every sleep; two
data messages and one control message let the one be under way, the other queued
and the third come between.  The contributed card has a second
instance with its receive ring full.  The A2232 has four: orders of every kind; one flush
after another, the second while the card still works on the first; XON, XOFF and XOFF with
its eighth bit set among what is received; and the receive ring full.  The cache has two entries for two drives
of two tracks, so that each request evicts and the victim may be the other
drive's; a second instance has one drive and more requests than entries;
a third has three writes, two opens and closes and two servants, one after the end of the
other, so that a drive is opened or closed while its motor is aged or its tracks are
flushed, and a servant ends with tracks in the cache.  Labels
are the smallest whose list is not in the order of the disk, with a bad checksum
before the good one.  A track has two sectors, reads start at six bits spread over
all alignments, and bad bits fall into each kind of field.  The LANCE's receive ring
has three descriptors for three frames of one or two buffers: they go round it more than
once, a frame is given up half way when the next descriptor is not free, a frame is merged
with the rest of another, and pieces without ENP fill the ring.  Its transmit ring has
one descriptor for three messages, so that the ring is full while both queues hold one and
the interrupt routine puts one back.

Deadlock is checked in every run but `lines`, `disks` and `mx_break`: there the bounds
on what users ask run out driver by driver (in `mx_break` after the one open), after
which the machine rightly rests, and what must not come to rest is what the "go on"
properties say.

Exceptions the code makes are part of the properties, not of the models:
`QueueHasWakeup` excepts a transmission that aborted, `UnservedOnlyInWindows` names the
steps, `StraysExplained` a step of `hydraopen()` and the frames of type 0, `DmaInStep` excepts a restore in
mid-transfer, `NotLeftDisabled` the two ways in which the A2232 stays disabled (section 7),
`OpenerWillWake` a condition cleared unread, `BytesLostOnlyWhenNested`, `ReceivedInOrder`
and `CloserWillWake` what the contributed card's interrupts do inside each other, a delay that
outlives a close and an ignored break, and `CachedTracksAge` the caller that serves itself.
In `SlOutput` and `MxLine` a behaviour ends where the code follows a queue at NULL.

## 5. Fairness

Only what the machine guarantees is fair.  The handler is (INT2 is level
triggered and it runs to completion), a call in progress is (neither open nor
close of the Hydra sleeps), the chip ends a frame or a transmission it began, the
SCSI bus moves on and each target sends a bounded number of messages within a
command.  Nothing makes frames arrive, users call or disks be used.  Weak fairness
is enough throughout: each of these stays enabled until it happens.  The families
are checked without fairness.

## 6. What is proved

`HydraRingProofs` proves theorems of `HydraRing` for every ring, set of frame
lengths, loop limit and bound that `RingAssumption` and `FrameAssumption` allow.

- `TypeCorrect`: `Spec => []TypeOK`, for all faults.  `TypeInv` adds that a frame being
  stored has a length and that a header stepped over passed its test.
- `UnreadSafe`: `Spec => []NicSparesUnread`.  The invariant is `RingInv`: BNRY is one page
  behind `next_pkt`; the frame being stored begins at CURR, numbers its pages and
  ends short of BNRY (`ChipAhead`); the pages that start a frame between `next_pkt`
  and CURR name a next start further on, CURR at most (`FramesChain`); the driver's
  copies of CURR and of a header are not ahead of the ring (`DriverBehind`).  The
  chain is what lets BNRY move: stepping over one frame leaves the rest a chain from
  the new `next_pkt` (`RingAdvance`).  Distances in the ring (`DistFrom`, `DistNext`,
  `BnryFarthest`) replace case distinctions about wrapping.
- `WakeupKept`: `Spec => []NoLostWakeup`, from `WakeInv`: as long as no frame ends, each
  turn of the loop brings `next_pkt` nearer to CURR, so a loop limit above the ring's
  size is reached only with PRX raised again.
- `LossMeansFull`: `Spec => LossOnlyWhenFull`, an action property, from `RingInv`.
- `EmptyHasRoom`: `Spec => []EmptyIsNotFull`, for all faults.
- `CopyInRing`: `Spec => []CopyStaysInRing`, for all faults: any header that passes
  the driver's tests is copied without a refused read, in a ring of any legal size.

`UnreadSafe`, `WakeupKept` and `LossMeansFull` assume `Faults` within wrong status bytes
and wrong sizes: with a wrong next page they do not hold, which is why the
driver has `RxBadNext`.

`HydraRingFifoProofs` goes on from `RingInv` to what is in the frames, under the same
hypothesis on `Faults`.

- `DeliveredInOrder`: `Spec => []InOrderDelivery`, and `AllAccountedFor`:
  `Spec => []EveryFrameAccountedFor`.  That BNRY is respected says that a page is not
  overwritten; it does not say which frame is in it.  `StoreInv` does: it numbers the
  pages stored over the whole behaviour, so that each accepted frame not yet handled
  has an interval of numbers, the intervals follow each other from `next_pkt` to CURR,
  and each page holds the tag its number asks for, with the header of its frame in
  front.  `BufferInv` says that what `RxCopy` put together, in one part or two, is the
  frame the counters are about to count, and `DeliveryInv` that what went up are the
  good ones among those counted.
- `RingIsSafeFifo`: `Spec => Fifo!FifoSafety`: the chip's end of a frame is `FrameFifo`'s
  `Accept`, `RxSkip` of a bad one `Discard`, the move of BNRY past a copied one `Take`,
  its way up `Give`, and every other step a stutter.  How
  many pages the FIFO holds is a recursive function; what is needed of it is proved by
  induction over a set of counterexamples with a least element (`LeastNat`,
  `SetInduction`), which takes a set, not an operator, as its parameter.

`HydraTxProofs` proves theorems of `HydraTx` for any streams, messages, flushes and
aborts, from the invariant `TxInv`.

- `TypeCorrect`: `Spec => []TypeOK`.
- `WakeupKept`: `Spec => []QueueHasWakeup`.  The property speaks of the time between calls
  and is not inductive.  `WakeInv` says what holds inside them: while
  `transmit_interrupt()` scans, a queue *behind* the scan that holds a message has a
  wakeup due, and `hydraxmit()` puts a message back only with one due; when the scan
  ends every queue is behind it.
- `WireKept`: `Spec => []WireMatchesStarted`.  `WireInv` keeps an increasing map from the
  frames sent to the places of the frames started, all but the one in the transmit
  pages, and that the pages are filled only with no transmission in progress.
- `StreamKept`: `Spec => []StreamOrder`, from `OrderInv`: while `hydraxmit()` works on a
  message it belongs to the stream being served, and one that came straight from a put
  finds its queue empty (`HoldInv`), so that putting it back at the front, or leaving
  it where it is, keeps what was started, held and queued in the order put (`Kept`).

`HydraBoardProofs` proves theorems of `HydraBoard` for any streams, saps and frames, from
the invariant `BoardInv`: what `state` is at each place an open or a close can be
interrupted at and that no stream is open on a board marked reset (`PhaseInv`), how
the chip is set there (`ChipInv`), what is left if nothing comes between the last two
steps of `hydraclose()` (`QuietInv`), and that an open stream has 0 or a sap it bound,
the latter when it is `DL_IDLE`, except before `hydraopen()` clears what it found (`SapInv`).  Its theorems are
`TypeCorrect`, `BoardKept` (`OpenStreamsHaveBoard`), `WholeBoardSeen`
(`HandlerSeesWholeBoard`), `WindowsNamed` (`UnservedOnlyInWindows`), `StoppedWhenClosed`
(`ClosedIsStopped`) and `StraysNamed` (`StraysExplained`).

`Scsi3091Proofs` proves theorems of `Scsi3091` for any disks, numbers of requests, messages
and quirks, from the invariant `ScsiInv`.

- `OnePlaceKept`: `Spec => []UnitInOnePlace`.  The property alone says too little of the
  chip: `Registers` adds that no command is under way while a status is pending, that a
  transfer, a message and a status are of the unit that has both the bus and the
  adapter, and that a unit that reselects is not the one being selected.  What
  `startany()`, `uqueue()`, `a3091queue()` and the end of a command do to the fields that
  say where a unit is are lemmas (`StartAnyFields`, `UQueueFields`, `QueueFields`,
  `DequeueFields`), so that each action is settled on these fields alone.
- `NoneWaits`: `Spec => []NoneWaitsWhenIdle`, from the same invariant.

`Scsi3091DiskProofs` goes on from `ScsiInv` to the commands and their data, again for any
disks, requests, chunks and messages.

- `DmaKept`: `Spec => []DmaInStep`, and `SenseKept`: `Spec => SenseFindsCheck`, for all
  quirks.  The invariant is `StackInv`.  `WorkInv` ties the two drivers together: the
  adapter has one command for each disk with bufs, and which one is what the disk's
  `state` says.  `BusInv` says what a status pending at the chip means: which states of
  the automaton, commands and statuses go together (`Talk`), whose the bus is and what
  the target on it is at (`Where`), that the count kept with a unit is what was left
  when its pointers were saved, but for a save the chip is ahead with, and that TC and
  DMA stand where the target does (`Counts`, `Ready`), and that a target to be asked
  for its sense has some to report (`Checks`).
- `AlwaysAlive`: `Spec => []NeverDead`, for targets that send no message but those the
  automaton names (`"message" \notin Quirks`).  That no other case of the table is met is
  `TableComplete`, from `Talk`.
- `StackIsSafeQueue`: `Spec => Disk!QueueSafety`, for targets that restore their pointers
  only where they were saved (`"midway" \notin Quirks`; section 7 says what happens with
  others).  `DataInv` adds that what a target has moved of a buf is in its place; a
  good status comes only when it has moved all of it, and `ihandle()` ends a buf without
  an error only on a good status of the buf's own command.

The two hypotheses on `Quirks` are those of run `scsi_ok`.  TLC checked `StackInv` in the
instance of `scsi_odd`, and `MessageInv` and `DataInv` with it in that of `scsi_ok`, before
they were proved.

`FloppyDriveProofs` proves theorems of `FloppyDrive` for any drives and any number of
cylinders, in particular the parts of `WhereThought` that run `disks` checks on two
drives (`MCDisks` itself reaches recursive definitions).

- `HeadKnown`: `Spec => []HeadWhereThought`, `AloneOnTrack`: `Spec =>
  []StraysOnlyWhenRaced`, `SelectedRuns`: `Spec => []StoppedNotSelected`; `TypeCorrect`
  for the types.
- The invariant is `DriveInv`.  As long as no process has begun while the other was at
  work (`Calm`), port B selects the drive the driver thinks selected, and that one is
  running; its side is that of its track, if that is known; and each head is on the
  cylinder noted for its drive.  The exception is a drive that is being stepped:
  `seek()` notes the new track first, so there the head and the steps to come add up
  to the cylinder wanted, and the copy of port B the loop steps with still names that
  drive (`Seeking`).  TLC checked `DriveInv` on two drives before it was proved.

`LinesProofs` proves theorems of `Lines` for any users, streams, calls, bytes and frames
and for rings of any length: `RxCount` 2 or more, `TxCount` 1 or more, and in `sl.c` a ring of
two slots or more with its high water mark inside (`LinesAssumption`).  The
invariant is `LinesInv`, that of the driver the behaviour is about.

- `LinesTypes`: `LinesSpec => []PartsTypeOK`; `LinesKeepOrder`: `[]LinesInOrder`;
  `LinesKeepGoing`: `[]LinesGoOn`; `LinesServe`: `[]RequestsTakeEffect`; `LinesUnserved`: the action
  property `UnservedOnlyInWindow`.
- `ParInv` (`par.c`).  What the flags say is not always so: `paropen()` clears them over a byte
  under way (`reset`), and a timeout sends a byte the printer may still acknowledge
  (`late`).  As long as neither has happened the pending byte has exactly one timeout,
  the one `timeout_id` names, and the printer owes exactly one acknowledgement; the bytes
  strobed, the one stopped and those queued are 1, 2, 3, ... (`ParClean`, `ParOwed`,
  `ParLine`).
- `SlInv` (`slrint()` against `slpoll()`).  What went up, the message being filled and the
  ring, one behind the other, are all that came and was not lost, in order (`InLine`),
  and a receive interrupt that is off, or RTS that is down, has a character in the ring
  or a step of `slpoll()` left that turns it on (`SlGoes`).
- `AenInv` (sending, opening, ioctls).  The descriptors with OWN are the first n from the
  chip's on, and `tx_buffer_index` is behind them (`AenRing`).  The frames on the wire, in
  the ring and on the queues are those sent and not `gone`, a stream's in the
  order of their numbers in each place and from one to the next (`AenOrder`).  While
  `transmit_interrupt()` is under way a queue it has already passed may hold a message
  with no interrupt due as long as one it has not passed does: serving that fills a
  descriptor (`AenMoving`).  `AenBoardInv` says what `board_state`, the chip and each opener
  are at, and who is still to wake.
- `RxInv` (receiving).  The driver's descriptors are the first c from `rx_buffer_index` on
  and the LANCE's follow.  Read in that order (`RxView`) they are a chain: buffers of a
  frame follow each other from its first, frames by their numbers, and one given up half
  way ends with an error (`RxChain`).  So the first descriptor with ENP ends a frame, and if
  what lies before it is of another, an error among it clears `rb`.  `RxCopy` says where in the
  frame the copying is, while the LANCE fills what has been given back; `RxQuiet` that an
  ENP, or a ring that is full, has an interrupt to come, unless `aenintr()` wrote it back.
- `HydraInv` (the Hydra's ioctls): what `cp_private` is in each state of the dialogue, and
  how often the test has run (`Dialogue`), and that nothing but a read behind the
  registers can have trapped.

That a search ends at the first ENP needs the least element of a set (`SmallestOf`, from
`WellFoundedInduction`).  TLC finds `LinesInv` true in the instance of
run `lines`.  Two of the drivers' models had to be made finer for it: as long as
`receive_interrupt()` and `transmit_interrupt()` were one step each, neither what the
LANCE does between two buffers nor the second write of the status could be seen.

Only model-checked, because the prover cannot: liveness (`HandlerReturns`, `AllSent`,
`ServedWhenQuiet`, the liveness half of `RingIsFifo` and `RequestsEndInOrder`), and the
modules with recursive definitions (`CtTape`, `BoyerBus`, `SlOutput`, `QlLine`, `MxLine`,
`FloppyDos` and others that recurse as their code does), with all that `MCLines` and
`MCDisks` say of them: `TtysInOrder`, `TtysGoOn`, the terminals' part of `LinesTypeOK`, and the properties of
run `disks`.  Three parts of the latter are proved in `FloppyDriveProofs`.  Only
model-checked though a proof is conceivable: `Slip` (a fold over the bytes of a message),
`Audio`, `SdDisk` and `GsIoctl`.  All other safety properties of the passing runs are
proved.

## 7. What the models found

Three runs show a disagreement of the code with what is said of it.

- `board_served`: `setup_ne2000()` unmasks the chip's interrupts before it sets
  `HYDRA_BOARD_RUNNING` (`driver/hydra/hydra.c:1752-1755`), with the receiver running.
  A frame that ends in between asserts INT2, `hydraintr()` skips the board, and the
  opening process never runs again.
- `sl_queued`: while the serial port is busy a TCSETA is put back on the write queue,
  "queue these for later" (`driver/sl.c:539`).  With output left, `sltint()` takes it
  from there by `getq()` as if it were data (`sl.c:1116`): its bytes go down the line and
  the caller is never answered.  `ql.c` and `mx.c` have the same lines.
- `mx_break`: a break is ended by a timeout that is given the tty where
  `mx_ttrstrt()` expects the card (`mx.c:939`), so TIMEOUT stays set and output does not
  start again.

The rest are exceptions that properties name, or behaviour the models keep as it is:

- Hydra: a DL_BIND whose acknowledgement cannot be allocated is done all the same, and
  the caller never told (`hydra.c:899`); a frame that ends after the last close leaves INT2 asserted, since
  `hydraclose()` does not clear IMR; an interrupt between its two last steps restarts
  the chip; a stream can get frames of the type its minor's last user bound, for one
  step of `hydraopen()`; an aborted transmission leaves the queues waiting; a test
  ioctl whose argument is at address 0 is acknowledged without being run; the test that
  reads a register takes any index up to 255 (`hydra.c:503`), where the one that writes
  refuses those above 15: from 16 on the access is behind the board's 64 KB; the probe
  takes RAM that reads like an address PROM for a board.
- A2065: an ioctl of AEN_SET_CONFIG answers twice and stalls queued output, an open
  that meets its sleep detaches the other streams; AEN_CLEAR_STATUS frees its message
  twice.  For an error `aenintr()` writes the status it read at its start once more
  (`aen.c:988`), which takes down a RINT or TINT that has come up since: the frame, or the
  messages on the queues, wait for the next one.  Frames that the LANCE gave up half way
  leave no ENP; when they fill the ring, the search for one (`aen.c:1058`) goes round for
  ever (`in = "caught"`); and if only the one just behind where the search starts has
  ENP, `j` comes out as `i`, so that nothing is copied and nothing given back, and the old
  contents of `rxbuff` go up the streams (`aen.c:1172`) turn after turn (`again`).
  128 buffers make both rare.
- Parallel port: `paropen()` clears the flags of a busy port, so a byte may be
  overwritten and a sleeper's wakeup lost.
- Serial lines: breaks passed over for IGNBRK skip the steps that release the sender.
  In `mx.c` the clock's `mxtint()` can nest in that of level 2, and both use `mx->ch`: a
  byte is lost, or 0xff sent in place of none when the inner one found no output; a note of
  the transmitter outlives a close (`stale`); a break ignored while the receive interrupt
  is off takes the last character along and leaves it off (`mx.c:1504`).  In `mx.c`
  and `sl.c` a delay that ends after a close calls `getoblk()` with no queue, and there
  nothing tests for that (`mx.c:628`).
- A2232: the 65C02 compares a character with XOFF in its low seven bits
  (`ql65/ql6502.m4:43-47`), the driver all eight (`ql.c:717-731`) unless ISTRIP is
  set: byte 0x93 stops the transmitter and nobody starts it.  A flush that is ordered while
  the card takes back the one before is lost, and the transmitter stays disabled.  A
  condition that the card publishes between `qlintr()`'s look and its clearing
  (`ql.c:762`, `810`) is lost, so that a process may sleep in `qlopen()` for ever.
- SLIP: a packet that cannot go up is kept and the next is added to it; a packet put
  on the write queue because the tty was full is never taken off it (`dlpiwsrv()`
  does nothing) and holds up all that follow; of a packet that is too large the code
  drops what it has and goes on with the rest as a packet (`slip.c:728`: "drop it and
  start over"); for a packet that ends with the DLPI
  side closed a queue at NULL is asked for room (`slip.c:680`).
- Audio: a message that fits only in part at an interrupt is played again; a client
  that waits for a channel may lose its message to another.
- Disks: a SCSI target that restores its pointers in mid-transfer has the rest of its
  data put at the wrong address; callers of `gsioctl()` that overlap share one command
  and may get each other's outcome; a partition defined anew moves the transfers
  under way; a raw transfer that begins behind the end of its partition gets a count below 0
  (`dd.c:81`), which only `sdvalid()` stops; two opens of the tape can both pass the test of `dp->open`; `hd.c`
  resets `b_errcnt` only when a buf is queued, so that the buf after a failed one gets a
  single try; a start function may run while `jbinit()` still sleeps (`early`).
- Floppy: `fdopen()` of one drive can move the selection under a transfer of another;
  `getnext()` prefers cached tracks, so others may wait; `fdphysio()` looks at its static
  buf after it has let it go; `flush()`, which sleeps in each put, stops a motor that
  `fdopen()` has started meanwhile; `fliwrite()` waits for the index at `splhi()`, for ever if
  there is none.
- Boards: booted by EXEC0, only the last region of memory is kept (`nmem` is declared
  again inside the loop).

## 8. What is not modelled

Every part is listed in `PROJECT.json` with its reason:

- the console (`c0.c`, `c1.c`, `screen.c`, ...): layout and terminal emulation over a
  binary line discipline;
- the boot loader, tools, assembler and decompression: sequential, run once;
- `a2091.c`: the automaton of `a3091.c` with other DMA registers;
- clocks, memory devices, debugger: register access or bounds checks without state
  another part relies on;
- answers that change no state (DL_INFO_REQ, TCGETA, statistics, names) and their
  wording;
- how `gsioctl()`, which calls `sdqueue()` with interrupts on, mixes with the stores of
  `a3091queue()`: each of them, and each half of a register access, would have to be a
  step of `Scsi3091`;
- everything whose other half is binary: line disciplines, the STREAMS scheduler, file
  systems.
