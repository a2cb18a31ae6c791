------------------------------ MODULE DcmiDma ------------------------------
(***************************************************************************)
(* The camera DMA driver of dcmi_dma.c together with the DMA2 stream it    *)
(* programs.  The driver moves one camera frame from the DCMI data         *)
(* register into OV5640_ram_buffer in double-buffer mode: while the        *)
(* hardware fills one of its two memory targets, the transfer-complete     *)
(* interrupt points the other one at the block after next.                 *)
(*                                                                         *)
(* Sizes and addresses are counted in 32-bit words and addresses are       *)
(* offsets from dcmi_dma_buffer (every size the code uses is a multiple of *)
(* four bytes).  The stream itself (an STM32 peripheral behind the         *)
(* ChibiOS dmaStream calls) is external and modelled from how the driver   *)
(* uses it.                                                                *)
(***************************************************************************)
EXTENDS Integers, FiniteSetsExt

CONSTANTS
  BufWords,        \* words of OV5640_ram_buffer
  ImageWords,      \* words of one RGB frame (dcmi_dma_image_size)
  MinBlockWords,   \* smallest block the split accepts (256 in the code)
  MaxBlockWords,   \* largest NDTR value (65535 in the code)
  OpenBlockWords,  \* block of the open-ended mode (65534 in the code)
  MaxWords,        \* bound: words the camera delivers after one arm
  IsrTimely        \* the interrupt is served before the next block completes

ASSUME SizesAssumption ==
  /\ BufWords \in Nat /\ ImageWords \in Nat \ {0}
  /\ MinBlockWords \in Nat \ {0} /\ MaxBlockWords \in Nat
  /\ OpenBlockWords \in 1 .. BufWords
  /\ MaxWords \in Nat
  /\ IsrTimely \in BOOLEAN

VARIABLES
  num_blocks, block_size, blocks_done,  \* the statics of dcmi_dma.c
  stream_control_register,              \* "reset", "single" or "double" (DBM)
  dcmi_dma_words_received,              \* dcmi_dma_bytes_received
  phase,               \* the init call in progress: "idle", "rgb" or "jpeg"
  samplingFinished,    \* set by the done callback, dma_avail
  halted,              \* dma_error's assertion has stopped the CPU
  isr,                 \* the handler dmaStreamAllocate installed
  en, dbm, ct,         \* CR: stream enabled, double buffer, current target
  m0ar, m1ar,          \* the two memory targets
  ndtr, reload,        \* items left in this block, items per block
  ptr,                 \* the address the next item goes to
  tcif, errif,         \* latched completion and error flags
  written              \* history: items moved since the last arm

driverVars == <<num_blocks, block_size, blocks_done, stream_control_register,
                dcmi_dma_words_received, phase>>
appVars    == <<samplingFinished, halted>>
streamVars == <<isr, en, dbm, ct, m0ar, m1ar, ndtr, reload, ptr, tcif, errif>>
vars       == <<driverVars, appVars, streamVars, written>>

Handlers == {"shuffle", "open_ended"}
Modes    == {"rgb", "jpeg"}

(***************************************************************************)
(* The geometry of a transfer.                                             *)
(***************************************************************************)

\* Block counts that split the image evenly into blocks of a legal size.
Splits ==
  {n \in 1 .. ImageWords : LET words == ImageWords \div n IN
                             /\ words * n = ImageWords
                             /\ words \in MinBlockWords .. MaxBlockWords}

\* dcmi_dma_init counts upward, so it settles on the fewest blocks.
RgbBlocks == Min(Splits)
RgbBlockWords == ImageWords \div RgbBlocks

\* The open-ended mode keeps one block of the buffer in reserve.
OpenBlocks == (BufWords \div OpenBlockWords) - 1

(***************************************************************************)
(* The stream.                                                             *)
(***************************************************************************)

Target(t) == IF t = 0 THEN m0ar ELSE m1ar

dmaStreamAllocate(handler) == isr' = IF isr = "none" THEN handler ELSE isr

\* NDTR is read-only while the stream is enabled.
dmaStreamSetTransactionSize(words) ==
  /\ ndtr' = IF en THEN ndtr ELSE words
  /\ reload' = IF en THEN reload ELSE words

\* Disabling the stream also clears its interrupt flags.
dmaStreamDisable == en' = FALSE /\ tcif' = FALSE /\ errif' = FALSE

\* A pending stream interrupt, or a halted CPU, keeps threads from running.
ThreadRuns == ~tcif /\ ~halted

\* The camera has a word and the stream accepts it.  MaxWords bounds the frame.
DmaTransfer ==
  /\ en
  /\ written < MaxWords
  /\ written' = written + 1
  /\ UNCHANGED driverVars /\ UNCHANGED appVars
  /\ UNCHANGED <<isr, dbm, m0ar, m1ar, reload, errif>>

DmaItem ==
  /\ DmaTransfer
  /\ ndtr > 1
  /\ ndtr' = ndtr - 1
  /\ ptr' = ptr + 1
  /\ UNCHANGED <<en, ct, tcif>>

\* A block that fills up raises TCIF and reloads the item count.
DmaBlock ==
  /\ DmaTransfer
  /\ ndtr = 1
  /\ IsrTimely /\ ~halted => ~tcif
  /\ ndtr' = reload
  /\ tcif' = TRUE

\* In double-buffer mode the stream goes on in the other target ...
DmaBlockSwap ==
  /\ DmaBlock /\ dbm
  /\ ct' = 1 - ct
  /\ ptr' = Target(1 - ct)
  /\ UNCHANGED en

\* ... and otherwise it stops.
DmaBlockLast ==
  /\ DmaBlock /\ ~dbm
  /\ en' = FALSE
  /\ UNCHANGED <<ct, ptr>>

\* A FIFO error is only latched; a bus error also disables the stream.  The
\* driver enables neither interrupt: it sees them with the next completion.
DmaError ==
  /\ en
  /\ errif' = TRUE
  /\ en' \in BOOLEAN
  /\ UNCHANGED driverVars /\ UNCHANGED appVars
  /\ UNCHANGED <<isr, dbm, ct, m0ar, m1ar, ndtr, reload, ptr, tcif, written>>

(***************************************************************************)
(* The interrupt handlers.                                                 *)
(***************************************************************************)

\* The callbacks of ov5640.c: dma_avail reports the frame, dma_error asserts.
dma_avail == samplingFinished' = TRUE /\ UNCHANGED halted
dma_error == halted' = TRUE /\ UNCHANGED samplingFinished

IsrEntry(handler) == isr = handler /\ tcif /\ ~halted

\* Any flag beside completion calls the error callback, which does not return.
IsrError(handler) ==
  /\ IsrEntry(handler) /\ errif
  /\ dma_error
  /\ tcif' = FALSE /\ errif' = FALSE
  /\ UNCHANGED driverVars
  /\ UNCHANGED <<isr, en, dbm, ct, m0ar, m1ar, ndtr, reload, ptr, written>>

\* Slip: the test of the current target is the wrong way round.
IsrRetargetWrongTarget(handler) ==
  /\ IsrEntry(handler) /\ ~errif
  /\ blocks_done + 1 # num_blocks
  /\ blocks_done' = blocks_done + 1
  /\ tcif' = FALSE
  /\ LET block_addr == block_size * (blocks_done + 2) IN
       \/ ct = 1 /\ m1ar' = block_addr /\ UNCHANGED m0ar
       \/ ct = 0 /\ m0ar' = block_addr /\ UNCHANGED m1ar
  /\ UNCHANGED appVars
  /\ UNCHANGED <<num_blocks, block_size, stream_control_register,
                 dcmi_dma_words_received, phase, isr, en, dbm, ct, ndtr,
                 reload, ptr, errif, written>>

\* Slip: the block after the next one.
IsrRetargetTooFar(handler) ==
  /\ IsrEntry(handler) /\ ~errif
  /\ blocks_done + 1 # num_blocks
  /\ blocks_done' = blocks_done + 1
  /\ tcif' = FALSE
  /\ LET block_addr == block_size * (blocks_done + 3) IN
       \/ ct = 0 /\ m1ar' = block_addr /\ UNCHANGED m0ar
       \/ ct = 1 /\ m0ar' = block_addr /\ UNCHANGED m1ar
  /\ UNCHANGED appVars
  /\ UNCHANGED <<num_blocks, block_size, stream_control_register,
                 dcmi_dma_words_received, phase, isr, en, dbm, ct, ndtr,
                 reload, ptr, errif, written>>

\* Point the target that is not in use at block blocks_done + 1.
IsrRetarget(handler) ==
  /\ IsrEntry(handler) /\ ~errif
  /\ blocks_done + 1 # num_blocks
  /\ blocks_done' = blocks_done + 1
  /\ tcif' = FALSE
  /\ LET block_addr == block_size * (blocks_done + 2) IN
       \/ ct = 0 /\ m1ar' = block_addr /\ UNCHANGED m0ar
       \/ ct = 1 /\ m0ar' = block_addr /\ UNCHANGED m1ar
  /\ UNCHANGED appVars
  /\ UNCHANGED <<num_blocks, block_size, stream_control_register,
                 dcmi_dma_words_received, phase, isr, en, dbm, ct, ndtr,
                 reload, ptr, errif, written>>

\* Slip: done with the block before the last.
ShuffleDoneEarly ==
  /\ IsrEntry("shuffle") /\ ~errif
  /\ blocks_done + 2 = num_blocks
  /\ blocks_done' = blocks_done + 1
  /\ dma_avail
  /\ dmaStreamDisable
  /\ UNCHANGED <<num_blocks, block_size, stream_control_register,
                 dcmi_dma_words_received, phase, isr, dbm, ct, m0ar, m1ar,
                 ndtr, reload, ptr, written>>

\* The last block of a frame of known size.
ShuffleDone ==
  /\ IsrEntry("shuffle") /\ ~errif
  /\ blocks_done + 1 = num_blocks
  /\ blocks_done' = blocks_done + 1
  /\ dma_avail
  /\ dmaStreamDisable
  /\ UNCHANGED <<num_blocks, block_size, stream_control_register,
                 dcmi_dma_words_received, phase, isr, dbm, ct, m0ar, m1ar,
                 ndtr, reload, ptr, written>>

\* The open-ended transfer has used up the buffer: an overrun is an error, and
\* the callback halts before the stream is disabled.
OpenEndedOverrun ==
  /\ IsrEntry("open_ended") /\ ~errif
  /\ blocks_done + 1 = num_blocks
  /\ blocks_done' = blocks_done + 1
  /\ tcif' = FALSE
  /\ dma_error
  /\ UNCHANGED <<num_blocks, block_size, stream_control_register,
                 dcmi_dma_words_received, phase, isr, en, dbm, ct, m0ar, m1ar,
                 ndtr, reload, ptr, errif, written>>

dcmi_dma_shuffle_isr ==
  IsrError("shuffle") \/ IsrRetarget("shuffle") \/ ShuffleDone

dcmi_dma_shuffle_isr_open_ended ==
  IsrError("open_ended") \/ IsrRetarget("open_ended") \/ OpenEndedOverrun

Isr == dcmi_dma_shuffle_isr \/ dcmi_dma_shuffle_isr_open_ended

(***************************************************************************)
(* The calls of a thread.  Each init call prints between computing the     *)
(* geometry and programming the stream, and printing blocks, so an init    *)
(* is two steps.                                                           *)
(***************************************************************************)

\* dcmi_dma_init found a split of the image.  Every resolution of ov5640.h has
\* one, so the return of -1, which OV5640_InitDMA_RGB ignores, is never taken.
dcmi_dma_init ==
  /\ ThreadRuns /\ phase = "idle"
  /\ Splits # {}
  /\ num_blocks' = RgbBlocks
  /\ block_size' = RgbBlockWords
  /\ phase' = "rgb"
  /\ UNCHANGED appVars /\ UNCHANGED streamVars
  /\ UNCHANGED <<blocks_done, stream_control_register,
                 dcmi_dma_words_received, written>>

\* Slip: two blocks in reserve instead of one.
InitOpenEndedShort ==
  /\ ThreadRuns /\ phase = "idle"
  /\ num_blocks' = OpenBlocks - 1
  /\ block_size' = OpenBlockWords
  /\ phase' = "jpeg"
  /\ UNCHANGED appVars /\ UNCHANGED streamVars
  /\ UNCHANGED <<blocks_done, stream_control_register,
                 dcmi_dma_words_received, written>>

dcmi_dma_init_open_ended ==
  /\ ThreadRuns /\ phase = "idle"
  /\ num_blocks' = OpenBlocks
  /\ block_size' = OpenBlockWords
  /\ phase' = "jpeg"
  /\ UNCHANGED appVars /\ UNCHANGED streamVars
  /\ UNCHANGED <<blocks_done, stream_control_register,
                 dcmi_dma_words_received, written>>

\* SetMode clears EN before the targets are written; enabling restarts the
\* stream at target 0.  An NDTR of zero leaves it idle.
dcmi_dma_arm ==
  /\ blocks_done' = 0
  /\ dbm' \in BOOLEAN /\ (dbm' <=> stream_control_register' = "double")
  /\ ct' = 0
  /\ m0ar' = 0
  /\ m1ar' = block_size
  /\ ptr' = 0
  /\ en' \in BOOLEAN /\ (en' <=> ndtr' > 0)
  /\ written' = 0

\* The rest of either init, and the arm call that follows it.
ProgramAndArm ==
  /\ ThreadRuns /\ phase \in Modes
  /\ dmaStreamAllocate(IF phase = "rgb" THEN "shuffle" ELSE "open_ended")
  /\ dmaStreamSetTransactionSize(block_size)
  /\ stream_control_register' = IF num_blocks > 1 THEN "double" ELSE "single"
  /\ dcmi_dma_arm
  /\ phase' = "idle"
  /\ UNCHANGED appVars
  /\ UNCHANGED <<num_blocks, block_size, dcmi_dma_words_received, tcif,
                 errif>>

\* Slip: the start of the current block, as without the padding mode.
StopWithoutPadding ==
  /\ ThreadRuns /\ phase = "idle"
  /\ dmaStreamDisable
  /\ dcmi_dma_words_received' = Target(ct)
  /\ UNCHANGED appVars
  /\ UNCHANGED <<num_blocks, block_size, blocks_done, stream_control_register,
                 phase, isr, dbm, ct, m0ar, m1ar, ndtr, reload, ptr, written>>

\* Slip: the block in progress is left out.
StopDropsBlock ==
  /\ ThreadRuns /\ phase = "idle"
  /\ dmaStreamDisable
  /\ dcmi_dma_words_received' = Target(ct) - block_size
  /\ UNCHANGED appVars
  /\ UNCHANGED <<num_blocks, block_size, blocks_done, stream_control_register,
                 phase, isr, dbm, ct, m0ar, m1ar, ndtr, reload, ptr, written>>

\* Slip: the stream is not disabled.
StopLeavesStream ==
  /\ ThreadRuns /\ phase = "idle"
  /\ UNCHANGED <<en, tcif, errif>>
  /\ dcmi_dma_words_received' = IF m1ar > m0ar THEN m1ar ELSE m0ar
  /\ UNCHANGED appVars
  /\ UNCHANGED <<num_blocks, block_size, blocks_done, stream_control_register,
                 phase, isr, dbm, ct, m0ar, m1ar, ndtr, reload, ptr, written>>

\* Padding mode: the higher of the two targets stands for the end of the data.
dcmi_dma_open_ended_stop ==
  /\ ThreadRuns /\ phase = "idle"
  /\ dmaStreamDisable
  /\ dcmi_dma_words_received' = IF m1ar > m0ar THEN m1ar ELSE m0ar
  /\ UNCHANGED appVars
  /\ UNCHANGED <<num_blocks, block_size, blocks_done, stream_control_register,
                 phase, isr, dbm, ct, m0ar, m1ar, ndtr, reload, ptr, written>>

\* OV5640_Snapshot2RAM_RGB clears the flag before it waits for it.
ClearSamplingFinished ==
  /\ ThreadRuns /\ phase = "idle"
  /\ samplingFinished' = FALSE
  /\ UNCHANGED driverVars /\ UNCHANGED streamVars
  /\ UNCHANGED <<halted, written>>

Init ==
  /\ num_blocks = 0 /\ block_size = 0 /\ blocks_done = 0
  /\ stream_control_register = "reset"
  /\ dcmi_dma_words_received = 0
  /\ phase = "idle"
  /\ samplingFinished = FALSE /\ halted = FALSE
  /\ isr = "none" /\ en = FALSE /\ dbm = FALSE /\ ct = 0
  /\ m0ar = 0 /\ m1ar = 0 /\ ndtr = 0 /\ reload = 0 /\ ptr = 0
  /\ tcif = FALSE /\ errif = FALSE
  /\ written = 0

Hardware == DmaItem \/ DmaBlockSwap \/ DmaBlockLast \/ DmaError

\* A client that keeps the driver's contract: it starts a transfer only when
\* the stream is idle.
Client ==
  \/ ~en /\ (dcmi_dma_init \/ dcmi_dma_init_open_ended)
  \/ ProgramAndArm
  \/ dcmi_dma_open_ended_stop
  \/ ClearSamplingFinished

Next == Hardware \/ Isr \/ Client

Spec == Init /\ [][Next]_vars

(***************************************************************************)
(* Properties.                                                             *)
(***************************************************************************)

TypeOK ==
  /\ num_blocks \in Nat /\ block_size \in Nat /\ blocks_done \in Nat
  /\ stream_control_register \in {"reset", "single", "double"}
  /\ dcmi_dma_words_received \in Nat
  /\ phase \in {"idle"} \cup Modes
  /\ samplingFinished \in BOOLEAN /\ halted \in BOOLEAN
  /\ isr \in {"none"} \cup Handlers
  /\ en \in BOOLEAN /\ dbm \in BOOLEAN /\ ct \in {0, 1}
  /\ m0ar \in Nat /\ m1ar \in Nat /\ ndtr \in Nat /\ reload \in Nat
  /\ ptr \in Nat
  /\ tcif \in BOOLEAN /\ errif \in BOOLEAN
  /\ written \in 0 .. MaxWords

\* The buffer of an RGB transfer is over-allocated by a block, as dcmi_dma.h
\* asks for.
OverAllocated == Splits # {} => ImageWords + RgbBlockWords <= BufWords

\* No item is ever stored outside the buffer: not when interrupts are served
\* late, not while the last block's interrupt is pending, and not by the
\* stream that dma_error's assertion leaves running (dcmi_dma.c 63-70, 100).
MemorySafe == OverAllocated /\ en => ptr < BufWords

\* With timely interrupts the blocks follow one another without a gap or an
\* overlap: the next item goes right behind all the earlier ones
\* (dcmi_dma.c 48-70).
Contiguous ==
  IsrTimely /\ en /\ ~halted => ptr = written

\* What the driver's comment says of blocks_done (dcmi_dma.c 49-50): the blocks
\* below it are done and it is the one being filled.
BlockInTransfer ==
  IsrTimely /\ en /\ dbm /\ ~tcif /\ ~halted =>
     /\ Target(ct) = block_size * blocks_done
     /\ Target(1 - ct) = block_size * (blocks_done + 1)

\* The done callback is never early: when it reports the frame, all of its
\* blocks have been stored, however late interrupts were (dcmi_dma.c 52-57).
NeverDoneEarly ==
  [][~samplingFinished /\ samplingFinished' =>
       written >= block_size * num_blocks]_vars

\* Stopping an open-ended transfer reports a length that covers every item
\* stored and stays inside the buffer (dcmi_dma.c 206-223).
StopCoversFrame ==
  [][dcmi_dma_open_ended_stop /\ IsrTimely /\ blocks_done < num_blocks
       => dcmi_dma_words_received' \in written .. BufWords]_vars

=============================================================================
