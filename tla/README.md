# A verification project for the WaferSat firmware

WaferSat is the firmware of a small camera payload on an STM32F4 board: ChibiOS/RT, an
OV5640 camera behind the DCMI interface and one DMA stream, an SD card with FatFs, a
handful of I2C sensors and a serial shell. This directory models the part of it where
interrupts, threads, hardware and removable media meet, checks the models with TLC on
small instances and proves with TLAPS, for every value of the constants, all safety
results: about the camera's DMA driver and the capture path, the timeouts, the card
monitor, the image store on FatFs down to the refinement of its abstract specification,
the PPM writer, the sensors, the directory listing and the DMA copy. Liveness is left to
TLC.

All paths below are relative to `src/`. The program's own files are considered, and of
the libraries FatFs (`ext/fatfs/src/ff.c`), because what survives on the card is decided
there. ChibiOS and the other code under `ext` and the ChibiOS tree are external, and
their configuration (`chconf.h`, `halconf.h`, `mcuconf.h`, `ffconf.h`) is used as facts
about the build.

## 1. Inventory

| Component | State it keeps | Operations | Module |
|---|---|---|---|
| Camera DMA driver, `dcmi_dma.c` | block geometry, `blocks_done`, control register image, received length; the stream's registers | two inits, arm, stop, two interrupt handlers | `DcmiDma`, `DcmiDmaProofs` |
| Capture path, `ov5640.c` and the camera commands of `main.c` | `OV5640_ram_buffer` and its length, `samplingFinished`, the DCMI's CAPTURE bit, the camera's mode | `cam_init`, `image`, `image_rgb` and the snapshot routines behind them | `Camera` (composes `DcmiDma`), `CameraProofs` |
| Capture timeouts, the loops of `ov5640.c` | deadline, system clock | poll, sleep, decide | `CaptureTimeout`, `CaptureTimeoutProofs` |
| Card monitor and main loop, `main.c` | debounce counter, pending events, `fs_ready`, driver state, `shelltp` | timer callback, three event handlers, shell respawn, shell commands as users of the volume | `CardMonitor`, `CardMonitorProofs` |
| JPEG image store, `write_jpeg` | `image_index`, the open file | name search, write, close, reset | `ImageStore` (extends `FatFs`, implements `Album`), `ImageStoreProofs` |
| FatFs, `ff.c` | the FAT, the directory and FSInfo on the card; the window, its dirty flag and the free count in memory; the file object | mount, create, extend, write, sync, close | `FatFs`, `FatFsProofs` |
| PPM writer, `write_rgb` | loop position, file contents | header, pixel loop, pixel decoder | `PpmWriter`, `PpmWriterProofs` |
| I2C wrapper, `pi2c.c`, and sensors, `collector.c`, `bme280.c`, `tmp100.c`, `ltr329.c`, `mpu9250.c` | the data point `sensor_data`, the BME280 handle | `sensors`, `getSensors`, the drivers' conversions | `Sensors` |
| Directory listing, `cmd_tree` and `scan_files` | the path buffer `fbuff`, `fno`, one DIR per level | open, read, descend, return | `TreeScan` |
| DMA copy and benchmark, `memcpy_dma.c`, `membench.c` | the copy stream's owner | `memcpy_dma_start`, `memcpy_dma`, `memcpy_dma_stop` | `MemcpyDma` |
| The shell as their caller | the command running | `sensors`, `tree`, `membench` | `Console` (composes the three), `ConsoleProofs` |
| Calendar, `ptime.c` | RTC | conversions, get and set | not modelled: no caller |
| Debug output, watchdog, LED blinkers, USB descriptors | – | – | not modelled |

**How they interact.** The shell thread runs one command at a time. `image` and
`image_rgb` program the camera over I2C, arm the DMA stream, set the DCMI's CAPTURE bit
and poll for completion; the stream's interrupt handler feeds the stream with block
addresses and reports completion (`dma_avail`) or an error (`dma_error`, an assertion
that halts). The finished buffer is written to the card by the same thread. The main
thread owns the card: a virtual timer polls the card switch and broadcasts events, the
main loop dispatches them to handlers that connect, mount or disconnect, and publishes
`fs_ready`, which the commands read once. The main loop also respawns the shell.

**What is hard here.** The interrupt racing the stream's double buffer; one DMA stream
shared by two transfer modes and never released; snapshots given up with hardware still
running; a removal and an insertion pending together; two threads in a FatFs that is
built non-reentrant; power cuts between the disk accesses that store an image; I2C
transfers that fail half-way through a round; a recursion that shares its path buffer;
absolute deadlines on a wrapping clock. Each one is listed with its line under `hazards` in
`PROJECT.json`.

**What makes each component correct.**

- DMA driver: no store outside the buffer; blocks in order without gap or overlap;
  completion never reported early; the reported length covers what was stored.
- Capture path: a snapshot that reports success has exactly one whole frame; nothing is
  stored behind a buffer that is exactly one image; the buffer stands still while it is written to the card; every snapshot ends; the firmware halts
  for real errors only; the driver's contract is kept.
- Timeouts: no early timeout, no endless wait, no success without a frame.
- Card monitor: `fs_ready` agrees with the driver and with the debounced switch; cards
  and shells are followed; no mount under a running file-system command.
- Image store: an image is on the card whole or not at all, is never overwritten or
  lost, and names follow the order of the images without gaps; the name search ends.
- FatFs: every entry's chain is whole and its own on the card at every moment; memory
  and card differ in one marked sector only; the free count is never too low; clusters
  are lost by failures and resets only.
- Sensors: no field is left over from an earlier round or taken from another device, and
  the conversions are right.
- Listing: every file once, with its path, in order, and complete unless an error is met;
  the path buffer is overrun only where a directory's own path does not fit.
- DMA copy: it is `memcpy`, and the stream is never allocated twice.
- PPM writer: the file is a beginning of the image, all of it if no write failed, and
  its numbers are the pixels' colours.

## 2. Modules and how they correspond to the code

`PROJECT.json` maps every definition to its lines. Definitions keep the source's names.
Definitions marked *Slip* in the modules are deliberate mutations of the definition that
follows them; they are used by no specification and serve to test the properties.

**`DcmiDma`** models `dcmi_dma.c` with the stream it programs. Sizes are in 32-bit
words and addresses are offsets into the buffer (every size the firmware passes is a
multiple of four bytes, and the buffer is one allocation). The statics of `dcmi_dma.c`
are variables of the same names; the stream is `en dbm ct m0ar m1ar ndtr reload ptr tcif
errif`. Each init is two steps because it prints, and therefore blocks, between computing
the geometry and programming the stream. Both handlers are modelled whole: error test,
done or overrun test, retargeting. `isr` is the handler the *first* `dmaStreamAllocate`
installed: the later calls fail, and the driver ignores that. `dma_error` asserts, so
nothing behind it in a handler is executed, and a stream left enabled goes on. FIFO and
bus errors are only latched and are seen with the next completion, because only TCIE is
set. `Client` states the driver's contract: a transfer is started only while the stream
is idle.

**`Camera`** composes the driver with the commands, the DCMI and the camera by
`INSTANCE DcmiDma` over shared variables. The shell thread is a program counter whose
steps end where the code blocks or prints. Word `p` of frame `f` is the tag
`<<f, p>>`, and zero is `<<0, 0>>`, so mixed, shifted and stale contents are told apart.
Waiting loops may end at any time (their clock is `CaptureTimeout`'s subject), which
covers every timing of a timeout against a late frame. In `cmd_image`, which repeats
until the file system is gone, `fs_ready` is nondeterministic: it belongs to the main
thread. The results of the camera's register writes are ignored by the code, so a
configuration may leave the camera without a mode, and it then sends nothing.
A `dcmi_dma_init` that finds no split is not modelled: every resolution of `ov5640.h` has one.

**`CardMonitor`** models the timer callback `tmrfunc`, the main loop, `InsertHandler`,
`RemoveHandler`, `ShellHandler` and the shell as a user of the volume. The build has no
time quantum and gives main and shell the same priority, so a thread's action extends
to its next blocking call. `InsertHandler` is two steps: `sdcConnect` and `f_mount` both
block on the card. A call through a NULL `shelltp` reads the vector table: the byte
found there either does not look like a terminated thread or makes the kernel assert,
so both outcomes are allowed. The main loop's call to `chThdCreateFromHeap` succeeds:
the heap serves only the shell, whose memory is given back before the next one is made.
Nothing keeps the timer from broadcasting an insertion while a removal is still pending;
the history variable `overtaken` is set when it does, as the main loop will then handle
the insertion first.

**`CaptureTimeout`** models both polling loops tick by tick on a clock modulo
`ClockModulus`; snapshots start at every possible time.

**`FatFs`** models the part of `ff.c` that stores a new file on a FAT16 or FAT32 volume
whose root directory has a fixed size. `card` is what survives a power cut: FAT,
directory, FSInfo's free count. `fs` is the FATFS object; `fs.fat` and `fs.dir` are the
tables as FatFs sees them, that is the window's sector from memory and the rest from the
card, so the single window with its dirty flag (`move_window`, `sync_window`) is
modelled exactly. A disk access succeeds, fails before it has changed anything, or fails
behind the write-back; a sector write is atomic. `create_chain` is two steps, marking the
new cluster and linking it, because a power cut can fall between their write-backs; which
free cluster is found is left open (`last_clst` is a hint). A close is four steps:
buffered tail, directory entry, window, FSInfo. FSInfo's write may be lost silently, as
the code ignores its result. Abstracted: sizes are counted in clusters, the three
directory records of a name are one slot, the second FAT copy is left out. The same
module covers FAT16, where FSInfo is never written and the count starts as `Unknown`.

**`ImageStore`** extends it with `write_jpeg`: the delayed `f_mount` in front of every
image (`main.c` 640-646), the name search, `f_write` (called even when `f_open` failed),
the failed or short write that leaves the file open, the index that moves on before the
close, and a reset between any two steps.

**`Album`** is the abstract specification: images appear one at a time, whole, each under
a name above all earlier ones, and never change. `ImplementsAlbum` is the refinement: the
album is what a reader of the *card* finds by following directory entries and chains, at
every moment, so a power cut at any point is covered. An entry without a size counts as
no image.

**`Sensors`** models `getSensors` device by device. Any subset of a device's transfers
may fail. TMP100, LTR329 and MPU9250 register bytes are converted by the drivers'
arithmetic, with byte order, sign, width and C's rounding. A BME280 result is the tuple
of its inputs (calibration, `t_fine`, measurement), so a value compensated with another
device's or an older temperature is told apart; everything computed from a failed read is
garbage. `BME280_isAvailable` ignores the result of its read, so a silent device may seem
present. `weather` names what the devices measure and changes from round to round.

**`TreeScan`** models `scan_files` with an explicit stack of open directories; `fbuff` is
the sequence of names in the buffer, cut and extended at the level's `i` as the code does
it. The card may be another one for every command. A name stands for one entry of the
card (entries of different directories with equal spelling are different names), and
`CardAssumption` says what a card is: a finite tree below the root, in which every entry
is in one directory and none is below itself. A failing `f_getfree` only returns to the
prompt and is left out.

**`MemcpyDma`** models the copy block by block, with byte `k` of the source as `k`, and
the allocation of the stream around it. **`Console`** composes the three commands: the
shell runs one at a time and they share no state, so a session repeats one of them.

**`PpmWriter`** models `write_rgb` pixel by pixel with the decoder's arithmetic on real
byte values.

The **`*Proofs`** modules extend their components with the theorems of section 4; no
specification depends on them. The `MC*` modules only add the values the configurations
need.

## 3. Runs

| Run | Bounds | Shows |
|---|---|---|
| `dma_timely` | 12-word buffer, 10-word image in five blocks of 2, one open-ended block of 6, up to 16 words per transfer | types, contiguity, the handlers' comment, a covering length, with timely interrupts; single- and double-buffer transfers, hardware errors, halts and repeated transfers |
| `dma_late` | the same buffer, a 9-word image in three blocks of 3, three open-ended blocks of 3, up to 15 words per transfer | memory safety and no early completion with arbitrarily late and merging interrupts |
| `camera_jpeg` | 8-word buffer, blocks of 2, frames of 1 to 6 words, two frames | JPEG snapshots with overruns, DMA errors, buffer exhaustion and timeouts, and that they implement `DcmiDma` (`DmaContract`) |
| `camera_all` | buffer and RGB image of 5 words, blocks of 1 (RGB) and 2 (JPEG), JPEG frames of 1 or 2 words, two frames | JPEG and RGB commands in any order with FIFO overruns, sharing one stream, one handler and a buffer of exactly one image: whole frames, no store behind the buffer (`StoresInBuffer`), a stable buffer, snapshots that end |
| `card_monitor` | `POLLING_INTERVAL` 10, as in the code | insertions, removals, bounces, failing cards, shell exits, with a main thread late by any time and events dispatched out of order |
| `capture_timeout` | clock modulo 24, 5 ticks to the deadline, sleeps of 1 to 3 ticks | both loops, from every start time |
| `image_store` | 3 clusters with 2 FAT entries per sector, 2 directory slots in a sector each, index limit 1, three images of 1 or 2 clusters | failing disk accesses, a full volume, a full directory and power cuts at any point: `ImplementsAlbum`, consistent tables, no gaps in the names, no cluster lost without a failure, the search ends |
| `ppm_writer` | 2 x 2 pixels of three colours | failing opens, writes and closes, two frames in a row |
| `console` | two weathers, sensors 0 to 2, three cards, copies of 0 to 14 bytes with 2 words per block | sensor rounds, listings and copies, repeated, with every pattern of failures |
| `rgb_after_jpeg` | 9-word buffer, 4-word image | violation, see section 5 |
| `mount_reentered` | as `card_monitor` | violation, see section 5 |
| `ppm_colours` | one pixel | violation, see section 5 |

**Why the bounds are enough.** A double-buffer transfer repeats after two blocks: five
blocks make both targets be retargeted twice and end the transfer on either. Frames run
from shorter than a block to longer than the buffer's share, so a stop falls at every
position of a block and the overrun branch is taken. Two frames are what stale data, a
late frame or a second handler need. In `camera_all` the sizes are related as in the
firmware (`CodeSizes` in section 4): the image is the whole buffer and ends behind the
reserve block of the JPEG mode; with blocks of one word every word has its interrupt. The
clock's modulus is larger than a whole wait with
its oversleeping, so waits before, across and after a wrap all happen. The FAT spans two
sectors (entries 2 and 3, entry 4), so a link crosses sectors and the window moves both
ways; three images of up to two clusters fill volume and directory, and the index passes
its limit, fails and starts over after a reset. Two rounds are what a stale reading needs
and two devices what a mixed-up handle needs; a listing needs a subdirectory between two
files on two levels; the copies include 0 bytes, whole words, whole blocks and more than
one block. TLC reports that every action is taken.

Deadlock checking is off in the configurations because these systems may stop: a halted
firmware, a camera that sends nothing, a user who types nothing and exhausted bounds
(`MaxWords`, `MaxFrames`, `MaxShots`) leave no step.

**Assumed timing.** `IsrTimely`: the stream's interrupt is served before the stream
completes another block. A block of the JPEG mode is 65534 words, several milliseconds
at the camera's data rate, against an interrupt latency of microseconds. `dma_late` drops
the assumption. Nothing else is assumed: in `CardMonitor` the main thread may be late by
any number of polls, as a mount or a shell command that never blocks can make it.

**Fairness.** `Camera`: the interrupt and the running command. Interrupts have the
highest priority; a command is never preempted for good, as the threads of equal
priority block regularly and all of the command's own waits have a timeout. The camera,
the user and hardware errors get none, so `SnapshotEnds` must hold with a dead camera.
`CardMonitor`: the timer, which rearms itself in its own callback (`main.c` 480), and
the main thread, which waits with a timeout. `CaptureTimeout`: a sleeping thread wakes.
`ImageStore`, `PpmWriter` and `Console`: a command that was started runs on, except that
a reset may cut `write_jpeg` off; I2C transfers and card accesses have timeouts.

## 4. Proofs

Each theorem holds for every value of the constants that satisfies the module's named
assumption and the hypotheses given here. Where a property is not inductive alone, the
`*Proofs` module states the invariant that is, as a conjunction of named parts, and has
one lemma per action or group of actions that keeps it.

### The DMA driver: `DcmiDmaProofs`

From `SizesAssumption` (the open-ended block fits into the buffer; sizes are positive):

- `TypeCorrect`: `[]TypeOK`;
- `MemorySafety`: `[]MemorySafe`, for timely and late interrupts alike;
- `Contiguity`: `[]Contiguous`;
- `CommentHolds`: `[]BlockInTransfer`, the invariant the handlers' comment states;
- `DoneNotEarly`: `NeverDoneEarly`, an action property;
- `StopLength`: `StopCoversFrame`, an action property, if an image fits into the buffer.

The first five rest on `Invariance`, `[]IInv`. `IInv` adds to the properties:

- `QuietInit`: between the two halves of an init the stream is idle. Without it the
  geometry could change under a transfer, which is exactly what `Client`'s guard
  excludes.
- `Geometry`: there is room for one block behind the last one. That is where the handler
  points the stream before the last interrupt; it follows from the open-ended mode's
  reserved block (`OpenGeometry`) or from the over-allocation (`RgbGeometry`). It also
  ties the reload value and the double-buffer bit to the geometry.
- `Targets`: an enabled stream writes inside its current target, and both targets are at
  most block number `num_blocks`. This bounds late and halted transfers, which only
  reuse old targets.
- `Counted`: the items moved are at least those of the blocks counted, including the one
  whose interrupt is pending. Merged interrupts make it an inequality.
- `InStep`: with timely interrupts the count is exact and the current target is block
  `blocks_done`, plus one while the interrupt is pending.

`StopLength` needs `DInv`, which adds what a *stopped* stream still knows: `Progress`
(the words written follow from the count and the remaining items), `Finished` (a transfer
that has used up its blocks was ended by the RGB handler, and its higher target is the
end of the image) and `Fits`. The arithmetic of blocks (`NextBlock`, `BlocksAscend`) is
proved once. `RgbGeometry` uses the well-foundedness of the naturals for the minimum that
the split search finds.

### The capture path: `CameraProofs`

The hypothesis `CodeSizes` says: interrupts are timely; the image can be split and fits;
the buffer has at least one open-ended block; and, if `image_rgb` is a command, a JPEG
frame stays inside its share of the buffer and the image ends inside the share or behind
its reserve block. The firmware's sizes are of this kind: buffer and image have 1572864
words, an open-ended block has 65534 of them, the share is 23 blocks or 1507282 words,
with the reserve block 1572816, and the split is 32 blocks of 49152.

- `CapturedFrameIsWhole`: `[]WholeFrame`; `StableWhileWritten`: `BufferStable`. Both for
  JPEG and RGB commands in any order.
- `StoredInBuffer`: `StoresInBuffer`, an action property, for the same commands. The
  firmware's buffer is exactly one image, so the stream points behind it from the
  second-last interrupt of an RGB transfer to the last. The property says that no word
  is stored there, unless a FIFO overrun or a frame let in by a left CAPTURE bit has
  disturbed this RGB snapshot, or an earlier one was given up while it ran. These
  exceptions are needed: without any one of the first two TLC finds a store behind the
  buffer of `camera_all` (a part of one frame followed by a whole one).
- `TypeCorrect`: `[]TypeOK`; `HaltsOnlyForErrors`: `[]HaltMeansError`; `ContractKept`:
  `DmaContract`, the refinement of `DcmiDma!Spec`. These three for commands without
  `image_rgb`. With it the last two are false (`rgb_after_jpeg`, and the geometry that
  changes under a transfer that was given up, section 5), and the range of the reported
  length in `TypeOK` rests on the contract: TLC finds no violation of it on the instance
  of `camera_all`, but nothing is proved.

`CInv` is the driver's own `DInv`, instantiated over the shared variables, together with
what the place of the shell thread says about driver and camera (`Quiet`, `Control`,
`Halting`) and what the buffer holds (`Cleared`, `JpegInStep`, `RgbInStep`,
`JpegCaptured`, `RgbCaptured`, `KnownLength`). The core is that an undisturbed transfer is
in one of four situations: no frame yet, a frame arriving with all its words in place, a
frame the stream has stopped taking, or a complete frame (`Nothing`, `Arriving`,
`Dropped`, `Arrived`). All of it is claimed until an RGB snapshot is given up with its
transfer running (`rgbTimedOut`), which is where the driver's contract ends. Because the
driver's lemma `DInductive` is reused, the capture path's proof never looks inside an
interrupt handler except for the order of words.

`StoredInBuffer` adds two invariants, as `CInv` does not say how much may still come.
`Room`: while an undisturbed RGB transfer is running, the words stored and the words that
the camera can still deliver to it are together at most one image (`RoomEnvironment` and
`RoomThread` keep it). `Parked`, in `DcmiDmaProofs`: the targets of a stream that an
assertion has left running are blocks it had already reached, so the rest of a frame goes
where words have been stored before (`StoredInImage`).

### Timeouts, card monitor, PPM writer

- `CaptureTimeoutProofs`: `DeadlineIsKept` (`[]TimesOutInTime`) and `CapturedIsFinished`
  (`[]CapturedMeansFinished`) for every clock width, deadline and sleep that
  `TimesAssumption` admits. The invariant `InTime` says that away from the wrap the clock
  stands at the elapsed time behind the start of the wait (`OnTime`): this is what ties
  the loop's comparison of absolute times to the time that has passed.
- `CardMonitorProofs`: `TypeCorrect`, `ReadyIsConnected` (`[]FsReadyMeansConnected`) and
  `SettledStateAgrees` (`[]SettledAgrees`), for every debounce interval and a main thread
  that is late by any time. `CardInv` adds four parts: a second insertion, or
  one on a volume that is still ready, has the removal between the two pending behind it
  (`RemovalBetween`); without a card, and with one that overtook a removal, the volume is
  unused or a removal is pending (`OutMeansUnused`); a card that overtook none has none
  pending against it (`NoneAgainst`), and its insertion is being handled or has been
  (`InIsHandled`).
- `PpmWriterProofs`: `FileIsPrefix` (`[]PrefixOfImage`) and `ClosedFileIsWhole`
  (`ClosedIsWhole`: every pixel, in order, if no write failed and neither did the close)
  for every image size and content. The invariant adds that the loop
  has not run past the last row; the work is the arithmetic of rows and columns.

### The image store: `FatFsProofs` and `ImageStoreProofs`

Without any hypothesis beyond `FatAssumption` and `StoreAssumption`, for every number of
clusters, sectors, slots, images and every index limit, with disk accesses failing and
power cuts at any point:

- `TypeCorrect` (`[]TypeOK`), `WindowIsAll` (`[]OneDirtySector`), `FreeCountHolds`
  (`[]FreeNotUnderstated`), `NamesHaveNoGap` (`[]NoGaps`), `CardIsWhole`
  (`[]ChainsWhole`);
- `OnlyFailuresLose`: `LosesByFailureOnly`, an action property: a cluster is marked as
  used with no chain leading to it only by a write or a close that fails, a full disk or a
  reset;
- `AlbumImplemented`: `ImplementsAlbum`. The initial card maps to an empty album, and
  every step leaves the album alone or adds one whole image above all the others.

`FatFsProofs` has the lemmas about the disk layer: what `move_window`, `sync_window` and
the allocation of a cluster leave unchanged, and when they write. `SInv` in
`ImageStoreProofs` is the invariant. Its parts are needed because an image becomes visible
in a single sector write at the end, and everything written before must already be right
by then:

- `Control` and `Index`: what each place in `write_jpeg` knows of volume, file and index;
- `Counting`: memory never has a cluster free that the card has not, and the count is one
  ahead between the two FAT writes of an allocation;
- `Naming`: names are different and without a gap, and all names below the index are
  taken, also after a reset to index 0;
- `OwnEntry`: the entry being written has the highest name and is empty on the card until
  the close writes it;
- `Filed`: every file on the card is a whole chain that shares no cluster and holds one
  image, and none of them is the one being written;
- `Apart`: memory agrees with the card on the chains of all files, and no cluster of a
  file is one that is being allocated;
- `Working`: there *is* a chain in memory that holds what has been written so far.

`ChainFrom` is a recursive function. `Linked` states without recursion what a chain is,
and `ChainIs` shows that `ChainFrom` returns the linked chain; its proof takes the least
place where two solutions of the recursive equation differ, which needs only that the
naturals are well-founded. `OnlyFailuresLose` follows from `SInv` with it: `ChainGrows`
says that the chain read after a link is the old one with the new cluster behind it, and
at the write of the entry the chain in memory becomes, cluster by cluster, the file's.

### The console: `ConsoleProofs`

- `RoundIsCurrent`: `[]DataPointIsCurrent`, and `HandleIsOwn`: `[]OwnCompensation`, for
  all TMP100 sensors, all registers' contents (`SensorAssumption`: a register is two bytes) and every pattern
  of failed transfers. `Measured` says which devices have had their turn and that their
  fields are right. `LuxIsRead`, `CentidegreesAreRead` and `MilliGIsRead` prove the
  drivers' conversions, with byte order, sign, width and rounding, for all 65536 values.
- `ListingHolds`: `[]ListingInOrder`, for every card that is a tree, every length of a name
  and size of the buffer, with directory opens and reads failing anywhere.
- `CopyWorks`: `[]CopyIsMemcpy`, and `StreamIsFree`: `[]NeverAllocatedTwice`, for every
  block size and length, from `Copying`.

`ListingInOrder` compares what is printed with `Listing`, which is defined by recursion
over the tree (`PathOf`, `Lines`) and by `FlattenSeq`. The proof first shows that these
satisfy their recursive equations for every tree (`PathsMeet`, `LinesMeet`, `UptoMeets`):
existence and uniqueness are shown by the least counterexample, along the heights that
`IsTree` provides and along the length of a sequence, so no induction scheme is needed.
`Scanning` is the invariant. Its core, `Stack`, gives each open directory an offset, the
number of lines of the listing in front of that directory: the offset of a level is that
of the level above plus the lines of the entries before it. `Where` then says that at each
place of `scan_files` the path in `fbuff` is that of the directory at hand and that
exactly the lines up to it are printed. The buffer is only ever extended by a directory
that is about to be entered, so an overrun names a directory whose path does not fit.

### Only model-checked

- Liveness (`SnapshotEnds`, `WaitEnds`, `CardIsFollowed`, `ShellRespawns`, both
  `WriteEnds`, `PromptReturns`): it needs fairness, which the prover does not handle.
- The three violation runs are counterexamples and need no proof.

## 5. Where the code and what is said about it disagree

Three disagreements have a run of their own:

- `rgb_after_jpeg`: the stream is allocated again without being released and the failure
  is ignored (`dcmi_dma.c` 149), so after `image` the open-ended handler also serves
  `image_rgb`. It takes the end of a good frame for "in fact out of buffer" and halts.
- `mount_reentered`: `InsertHandler` mounts while a shell command that passed its
  `fs_ready` test is inside FatFs, which is built with `FF_FS_REENTRANT 0` and whose
  `f_mount` is "always not re-entrant".
- `ppm_colours`: the pixel's second byte is shifted right by 8 before it is added
  (`main.c` 179), so red and most of green are lost.

The models also reproduce the following, and the properties except them by name:

- A timed-out RGB snapshot leaves stream and DCMI running (`ov5640.c` 1697); the buffer
  may change while it is written, and the next init changes the geometry under the
  transfer (`rgbTimedOut` in `WholeFrame` and `BufferStable`).
- If `image_rgb` is the first command, its handler also serves JPEG snapshots. It knows
  nothing of the reserve block: a JPEG longer than its share would go on into it, and
  between the last block and the handler's end the reported length would miss words of a
  frame that is reported as captured. A JPEG of more than 1507282 words (6 MB) would be
  needed; `CodeSizes` and the bounds of `camera_all` leave it out.
- A FIFO overrun is not looked at (`overrun`), and a timed-out JPEG snapshot leaves
  CAPTURE set, so a late frame may enter the next one (`lateFrame`).
- The RGB loop decides by reading the clock again, so a complete frame can be reported
  as a timeout. The converse, success without a frame, is what `CapturedMeansFinished`
  excludes.
- Deadlines are absolute, so a wait near the wrap of the 32-bit clock ends at once or a
  clock period late (`NearWrap`).
- `ShellHandler` may use a NULL `shelltp` (`crashed`).
- Events are dispatched by id (`main.c` 974): with a main thread that is late by more
  than the debounce time, a removal and a later insertion pending together are handled
  insertion first, and the card that is in stays unmounted until it is taken out.
  `SettledAgrees` and `CardIsFollowed` say that this is the only case in which it does
  (`overtaken`). A failed reconnect in that state leaves `fs_ready` set on a card that is
  not connected; `FsReadyMeansConnected` says that this lasts no longer than the removal
  is pending.
- The firmware's buffer is exactly one image (`main.c` 39), while `dcmi_dma.h` 5 asks for
  an over-allocation; `MemorySafe` assumes the latter (`OverAllocated`). Without it the
  enabled stream points behind the buffer until the last interrupt is served.
  `StoresInBuffer` says that nothing is stored there; a part of a frame in front of the
  image, left by a FIFO overrun or a late frame, is what breaks it.
- A write that fails or is cut off leaves clusters marked as used that no entry has, and
  possibly an entry without a size; nothing in the firmware gives them back
  (`LosesByFailureOnly` says that nothing else loses clusters). The entry
  only takes a name, which is why `NoGaps` counts it and `Album` does not.
- After a failed read a BME280 may be taken for present, and its fields are garbage
  (`silent` in `OwnCompensation`).
- The field of TMP100 sensor 2 is read from sensor 0 (`collector.c` 377), and
  temperatures below zero are converted as unsigned numbers (`tmp100.c` 21): -25 degrees
  become 231. `DataPointIsCurrent` states exactly that, and that nothing else is wrong.
- A card whose directories are deep enough overruns `fbuff` (`main.c` 354): the model
  stops there (`pc = "overrun"`), and `ListingInOrder` says that no other card does it.
- Copies of more than 65535 words repeat their first block (`memcpy_dma.c` 94); no copy
  of the firmware is that long, and `CopyIsMemcpy` leaves them out.

## 6. What is not modelled, and the plan

Not modelled for good: the register tables of `ov5640.c`, GPIO set-up, resolution and
light-intensity calls nobody makes, debug formatting, the watchdog (never started), LED
blinkers, the USB descriptors (not built), the calendar (`ptime.c`, no caller), the ADC
readings, and the arithmetic of the BME280's compensation (64-bit and floating point,
beyond TLC's integers). Of FatFs: exFAT, FAT12, directories that grow, the second copy of
the FAT (a directory that cannot grow is full early, which `image_store` explores as a
failing open), and every call the firmware does not make. `f_getfree` stores a count that a
disk error has cut short (`tree`), but `image` mounts afresh before it writes, so the
wrong count is not used.

What would come next:

1. An abstract specification of a snapshot (request, then one whole frame or a failure)
   that `Camera` implements, and one of the card (out, in, ready) for `CardMonitor`.
2. What of `TypeOK` and `HaltMeansError` holds of the capture path with `image_rgb`.
