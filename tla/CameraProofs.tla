---------------------------- MODULE CameraProofs ---------------------------
(***************************************************************************)
(* Proofs about the capture path, for every size of buffer, image, block   *)
(* and frame: the commands keep the DMA driver's contract as long as no    *)
(* RGB snapshot has been given up, a snapshot that reports success leaves  *)
(* exactly one frame in the buffer, and nothing is stored behind it.       *)
(***************************************************************************)
EXTENDS Camera, NaturalsInduction, WellFoundedInduction, TLAPS

\* The driver's proofs, for the driver as the commands use it.
DP == INSTANCE DcmiDmaProofs

(***************************************************************************)
(* The sizes the theorems are about.                                       *)
(***************************************************************************)

\* The part of the buffer that an open-ended transfer fills.
Share == OpenBlockWords * Dma!OpenBlocks

\* Interrupts are served in time, the image can be split and fits, and a
\* JPEG frame stays inside its share where the handler of an RGB transfer may
\* be the one that counts its blocks (dmaStreamAllocate keeps the first).
CodeSizes ==
  /\ IsrTimely
  /\ Dma!Splits # {} /\ Dma!OpenBlocks > 0
  /\ ImageWords <= BufWords
  /\ "image_rgb" \in Commands =>
       /\ MaxJpegWords <= Share
       /\ ImageWords <= Share \/ ImageWords > Share + OpenBlockWords

(***************************************************************************)
(* The inductive invariant.                                                *)
(***************************************************************************)

\* Steps with a transfer under way, and those that know its geometry.
Running == {"image_dcmi", "image_wait", "image_stop",
            "rgb_dcmi", "rgb_clear", "rgb_wait"}
JpegGeometry == {"image_arm", "image_dcmi", "image_wait", "image_stop"}
RgbGeometry == {"rgb_arm", "rgb_dcmi", "rgb_clear", "rgb_wait"}

\* The part of the types that is about truth values.
Flags ==
  /\ captured \in BOOLEAN /\ capture \in BOOLEAN /\ passing \in BOOLEAN
  /\ rgbTimedOut \in BOOLEAN /\ overrun \in BOOLEAN
  /\ lateFrame \in BOOLEAN /\ dmaFault \in BOOLEAN

\* The camera counts the words of a frame it has started.
Counting ==
  /\ frame \in 0 .. MaxFrames /\ flen \in Nat /\ fpos \in 0 .. flen
  /\ passing => frame >= 1

\* Words carry the number of a frame and a place in it.
Words ==
  /\ DOMAIN OV5640_ram_buffer = Addresses
  /\ \A a \in Addresses : OV5640_ram_buffer[a][1] \in -1 .. MaxFrames
  /\ OV5640_ram_buffer_length \in 0 .. BufWords

\* Outside a transfer the stream is off and no interrupt is pending; the flag
\* an RGB snapshot waits for is set when its transfer is over.
Quiet ==
  /\ pc \notin Running => ~en /\ ~tcif /\ ~halted
  /\ pc = "rgb_wait" /\ samplingFinished =>
       ~en /\ ~tcif /\ ~halted /\ written >= ImageWords

\* What the place of the shell thread says about driver and camera.
Control ==
  /\ pc \in {"shell"} \cup ImageSteps \cup RgbSteps
  /\ config \in {"none", "jpeg", "rgb"}
  /\ phase = "jpeg" <=> pc = "image_arm"
  /\ phase = "rgb" <=> pc = "rgb_arm"
  /\ pc \in JpegGeometry =>
       num_blocks = Dma!OpenBlocks /\ block_size = OpenBlockWords
  /\ pc \in RgbGeometry =>
       num_blocks = Dma!RgbBlocks /\ block_size = Dma!RgbBlockWords
  /\ pc \in RgbSteps => config # "jpeg" /\ "image_rgb" \in Commands
  /\ "image_rgb" \notin Commands => isr # "shuffle" /\ config # "rgb"

\* An error flag stands for a hardware error, and without one only a transfer
\* that has used up its blocks halts the firmware.
Halting ==
  /\ errif => dmaFault
  /\ halted => dmaFault \/ written >= block_size * num_blocks

\* A transfer that nothing has disturbed is in one of four situations: no frame
\* yet, ...
Nothing == capture /\ ~passing /\ written = 0

\* ... a frame coming in, all of its words so far in place, ...
Arriving == capture /\ passing /\ fpos = written /\ HoldsFrame(written)

\* ... a frame that the stream has stopped taking, ...
Dropped == capture /\ ~en /\ (passing => fpos < flen)

\* ... or a frame that is complete.
Arrived ==
  /\ ~capture /\ ~passing /\ frame >= 1
  /\ fpos = written /\ flen = written /\ HoldsFrame(written)

\* The rest of the buffer is as the memset of a JPEG snapshot left it.
ZeroFrom(n) == \A a \in Addresses : a >= n => OV5640_ram_buffer[a] = Zero

Undisturbed == ~overrun /\ ~lateFrame

Cleared ==
  /\ pc \in {"image_init", "image_arm"} => ZeroFrom(0)
  /\ pc = "image_dcmi" /\ written = 0 => ZeroFrom(0)

JpegInStep ==
  pc \in {"image_wait", "image_stop"} /\ Undisturbed /\ ~halted =>
    /\ Nothing \/ Arriving \/ Dropped \/ Arrived
    /\ ZeroFrom(written)
    /\ written <= Share + OpenBlockWords
    /\ pc = "image_stop" /\ captured => ~capture

\* The frame of a JPEG snapshot: the camera may still be in the other mode.
KnownLength ==
  pc \in {"image_wait", "image_stop"} /\ (passing \/ Arrived) =>
    flen \in 1 .. MaxJpegWords \/ (flen = ImageWords /\ "image_rgb" \in Commands)

JpegCaptured ==
  captured /\ Undisturbed =>
    /\ pc = "image_done" =>
         /\ Arrived /\ ZeroFrom(written)
         /\ written <= OV5640_ram_buffer_length
    /\ pc \in {"image_check", "image_write"} =>
         /\ ~capture /\ ~passing
         /\ OV5640_ram_buffer_length = flen /\ HoldsFrame(flen)

RgbInStep ==
  pc \in {"rgb_clear", "rgb_wait"} /\ Undisturbed /\ ~halted =>
    \/ Nothing
    \/ Arriving /\ flen = ImageWords
    \/ Dropped /\ written < ImageWords
    \/ Arrived /\ flen = ImageWords

RgbCaptured ==
  captured /\ Undisturbed /\ pc \in {"rgb_check", "rgb_write"} =>
    /\ HoldsFrame(ImageWords)
    /\ capture => passing
    /\ passing => fpos = flen

\* Everything holds until an RGB snapshot is given up with its transfer running.
Basic == DP!DInv /\ Flags /\ Counting /\ Words /\ Quiet /\ Control /\ Halting
Frames == Cleared /\ JpegInStep /\ KnownLength /\ JpegCaptured /\ RgbInStep /\ RgbCaptured
CInv == rgbTimedOut \/ (Basic /\ Frames)

(***************************************************************************)
(* Lengths.                                                                *)
(***************************************************************************)

\* The search for the last used word of a buffer ends at one.
LEMMA MaxOfBounded ==
  ASSUME NEW L \in Nat, NEW S \in SUBSET (0 .. L), S # {}
  PROVE  Max(S) \in S /\ \A n \in S : Max(S) >= n
<1> DEFINE T == {k \in 0 .. L : L - k \in S}
<1>1. T \subseteq Nat /\ T # {}
  <2>1. PICK n \in S : TRUE
    OBVIOUS
  <2>2. L - n \in 0 .. L /\ L - (L - n) = n
    OBVIOUS
  <2>3. L - n \in T
    BY <2>2
  <2>4. T \subseteq Nat
    OBVIOUS
  <2> QED
    BY <2>3, <2>4, Zenon
<1>2. IsWellFoundedOn(OpToRel(<, Nat), Nat)
  BY NatLessThanWellFounded
<1>3. PICK k \in T : \A j \in T : ~(<<j, k>> \in OpToRel(<, Nat))
  BY <1>1, <1>2, WFMin, Zenon
<1>4. \A j \in T : ~(j < k)
  BY <1>1, <1>3, Zenon DEF OpToRel
<1>5. \A n \in S : L - k >= n
  <2> SUFFICES ASSUME NEW n \in S PROVE L - k >= n
    OBVIOUS
  <2>1. L - n \in T
    <3>1. L - n \in 0 .. L /\ L - (L - n) = n
      OBVIOUS
    <3> QED
      BY <3>1
  <2>2. ~(L - n < k)
    BY <1>4, <2>1
  <2> QED
    BY <2>2
<1>6. L - k \in S
  OBVIOUS
<1> QED
  BY <1>5, <1>6 DEF Max

(***************************************************************************)
(* What a step does, as far as the invariant speaks of it.                 *)
(***************************************************************************)

\* The driver's theorems speak of the driver the commands call.
LEMMA SameDriver ==
  /\ Dma!DmaItem = DP!DmaItem /\ Dma!DmaBlockSwap = DP!DmaBlockSwap
  /\ Dma!DmaBlockLast = DP!DmaBlockLast /\ Dma!DmaError = DP!DmaError
  /\ Dma!Isr = DP!Isr /\ Dma!Next = DP!Next
  /\ Dma!Init = DP!Init /\ Dma!TypeOK = DP!TypeOK
  /\ Dma!Splits = DP!Splits /\ Dma!OpenBlocks = DP!OpenBlocks
  /\ Dma!RgbBlocks = DP!RgbBlocks /\ Dma!RgbBlockWords = DP!RgbBlockWords
<1>1. /\ Dma!DmaItem = DP!DmaItem /\ Dma!DmaBlockSwap = DP!DmaBlockSwap
      /\ Dma!DmaBlockLast = DP!DmaBlockLast /\ Dma!DmaError = DP!DmaError
  BY DEF Dma!DmaItem, Dma!DmaBlockSwap, Dma!DmaBlockLast, Dma!DmaError, Dma!DmaBlock,
         Dma!DmaTransfer, Dma!Target, Dma!driverVars, Dma!appVars,
         DP!DmaItem, DP!DmaBlockSwap, DP!DmaBlockLast, DP!DmaError, DP!DmaBlock,
         DP!DmaTransfer, DP!Target, DP!driverVars, DP!appVars
<1>2. Dma!Isr = DP!Isr
  BY DEF Dma!Isr, Dma!dcmi_dma_shuffle_isr, Dma!dcmi_dma_shuffle_isr_open_ended,
         Dma!IsrError, Dma!IsrRetarget, Dma!ShuffleDone, Dma!OpenEndedOverrun,
         Dma!IsrEntry, Dma!dma_avail, Dma!dma_error, Dma!dmaStreamDisable,
         Dma!driverVars, Dma!appVars,
         DP!Isr, DP!dcmi_dma_shuffle_isr, DP!dcmi_dma_shuffle_isr_open_ended,
         DP!IsrError, DP!IsrRetarget, DP!ShuffleDone, DP!OpenEndedOverrun,
         DP!IsrEntry, DP!dma_avail, DP!dma_error, DP!dmaStreamDisable,
         DP!driverVars, DP!appVars
<1>3. /\ Dma!Splits = DP!Splits /\ Dma!OpenBlocks = DP!OpenBlocks
      /\ Dma!RgbBlocks = DP!RgbBlocks /\ Dma!RgbBlockWords = DP!RgbBlockWords
  BY DEF Dma!Splits, Dma!OpenBlocks, Dma!RgbBlocks, Dma!RgbBlockWords, Dma!Min,
         DP!Splits, DP!OpenBlocks, DP!RgbBlocks, DP!RgbBlockWords, DP!Min
<1>4. Dma!Client = DP!Client
  BY <1>3
  DEF Dma!Client, Dma!dcmi_dma_init, Dma!dcmi_dma_init_open_ended,
      Dma!ProgramAndArm, Dma!dcmi_dma_open_ended_stop,
      Dma!ClearSamplingFinished, Dma!ThreadRuns, Dma!dcmi_dma_arm,
      Dma!dmaStreamAllocate, Dma!dmaStreamSetTransactionSize,
      Dma!dmaStreamDisable, Dma!Modes, Dma!driverVars, Dma!appVars,
      Dma!streamVars,
      DP!Client, DP!dcmi_dma_init, DP!dcmi_dma_init_open_ended,
      DP!ProgramAndArm, DP!dcmi_dma_open_ended_stop,
      DP!ClearSamplingFinished, DP!ThreadRuns, DP!dcmi_dma_arm,
      DP!dmaStreamAllocate, DP!dmaStreamSetTransactionSize,
      DP!dmaStreamDisable, DP!Modes, DP!driverVars, DP!appVars, DP!streamVars
<1>5. Dma!Next = DP!Next
  BY <1>1, <1>2, <1>4 DEF Dma!Next, DP!Next, Dma!Hardware, DP!Hardware
<1>6. Dma!Init = DP!Init /\ Dma!TypeOK = DP!TypeOK
  BY DEF Dma!Init, DP!Init, Dma!TypeOK, DP!TypeOK, Dma!Modes, DP!Modes,
         Dma!Handlers, DP!Handlers
<1> QED
  BY <1>1, <1>2, <1>3, <1>5, <1>6

\* A word is stored where the stream points, and counted on both sides.
LEMMA WordEffect ==
  ASSUME FrameWord
  PROVE  /\ passing /\ fpos < flen /\ en
         /\ Dma!DmaItem \/ Dma!DmaBlockSwap \/ Dma!DmaBlockLast
         /\ fpos' = fpos + 1 /\ written' = written + 1
         /\ OV5640_ram_buffer' = [a \in Addresses |->
               IF a = ptr THEN <<frame, fpos>> ELSE OV5640_ram_buffer[a]]
         /\ UNCHANGED <<num_blocks, block_size, phase, samplingFinished, halted,
                        isr, errif>>
         /\ UNCHANGED <<pc, captured, OV5640_ram_buffer_length, config, capture,
                        passing, frame, flen, rgbTimedOut, overrun, lateFrame,
                        dmaFault>>
BY DEF FrameWord, history, Dma!DmaItem, Dma!DmaBlockSwap, Dma!DmaBlockLast,
       Dma!DmaBlock, Dma!DmaTransfer, Dma!driverVars, Dma!appVars

\* An interrupt stores nothing; it reports the frame, halts, or goes on.
LEMMA InterruptEffect ==
  ASSUME Interrupt
  PROVE  /\ tcif /\ ~halted /\ ~tcif'
         /\ UNCHANGED <<num_blocks, block_size, phase, isr, written, dmaFault>>
         /\ UNCHANGED <<pc, captured, OV5640_ram_buffer, OV5640_ram_buffer_length,
                        config, capture, passing, frame, flen, fpos, rgbTimedOut,
                        overrun, lateFrame>>
         /\ \/ ~en' /\ samplingFinished' /\ ~halted' /\ isr = "shuffle"
               /\ ~errif' /\ blocks_done + 1 = num_blocks
            \/ /\ UNCHANGED <<en, samplingFinished>>
               /\ \/ UNCHANGED <<halted, errif>>
                  \/ halted' /\ errif /\ ~errif'
                  \/ /\ halted' /\ blocks_done + 1 = num_blocks /\ ~errif
                     /\ UNCHANGED errif
BY DEF Interrupt, bufVars, cameraVars, history, Dma!Isr, Dma!dcmi_dma_shuffle_isr,
       Dma!dcmi_dma_shuffle_isr_open_ended, Dma!IsrError, Dma!IsrRetarget,
       Dma!ShuffleDone, Dma!OpenEndedOverrun, Dma!IsrEntry, Dma!dma_avail,
       Dma!dma_error, Dma!dmaStreamDisable, Dma!driverVars, Dma!appVars

\* A hardware error latches a flag and may disable the stream.
LEMMA ErrorEffect ==
  ASSUME StreamError
  PROVE  /\ en /\ errif' /\ dmaFault'
         /\ UNCHANGED <<num_blocks, block_size, phase, samplingFinished, halted,
                        isr, tcif, written>>
         /\ UNCHANGED <<pc, captured, OV5640_ram_buffer, OV5640_ram_buffer_length,
                        config, capture, passing, frame, flen, fpos, rgbTimedOut,
                        overrun, lateFrame>>
BY DEF StreamError, bufVars, cameraVars, Dma!DmaError, Dma!driverVars, Dma!appVars

\* Arming an idle stream starts a transfer with nothing stored.
LEMMA ArmEffect ==
  ASSUME Arm
  PROVE  /\ ~tcif /\ ~halted /\ ~tcif' /\ ~halted'
         /\ phase \in {"rgb", "jpeg"} /\ phase' = "idle" /\ written' = 0
         /\ ~overrun' /\ ~lateFrame'
         /\ isr' = IF isr = "none"
                   THEN IF phase = "rgb" THEN "shuffle" ELSE "open_ended"
                   ELSE isr
         /\ UNCHANGED <<num_blocks, block_size, samplingFinished, errif>>
         /\ UNCHANGED <<captured, OV5640_ram_buffer, OV5640_ram_buffer_length,
                        config, capture, passing, frame, flen, fpos, rgbTimedOut,
                        dmaFault>>
BY DEF Arm, bufVars, cameraVars, Dma!ProgramAndArm, Dma!ThreadRuns, Dma!Modes,
       Dma!dmaStreamAllocate, Dma!dcmi_dma_arm, Dma!appVars

\* The steps that leave the driver and its stream alone.
LEMMA DriverAlone ==
  ASSUME \/ FrameStart \/ FifoOverrun \/ FrameEnd \/ Shell \/ ClearBuffer
         \/ OV5640_InitDCMI \/ OV5640_InitDCMI_RGB \/ WaitForCapture
         \/ SnapshotResult \/ WaitForSampling \/ CheckFs \/ FileWritten
  PROVE  UNCHANGED dmaVars
BY DEF FrameStart, FifoOverrun, FrameEnd, Shell, cmd_cam_init, cmd_image,
       cmd_image_rgb, ClearBuffer, OV5640_InitDCMI, OV5640_InitDCMI_RGB, InitDCMI,
       WaitForCapture, SnapshotResult, WaitForSampling, CheckFs, FileWritten

(***************************************************************************)
(* The commands keep the driver's contract.                                *)
(***************************************************************************)

\* Every step of the system is a step of the driver, its stream and a client
\* that starts a transfer only on an idle stream.
LEMMA KeepsContract ==
  ASSUME Quiet, [Next]_vars
  PROVE  [Dma!Next]_(Dma!vars)
<1>1. UNCHANGED dmaVars => UNCHANGED Dma!vars
  BY DEF dmaVars, Dma!vars, Dma!driverVars, Dma!appVars, Dma!streamVars
<1>2. CASE FrameWord \/ StreamError \/ Interrupt
  BY <1>2 DEF FrameWord, StreamError, Interrupt, Dma!Next, Dma!Hardware
<1>3. CASE OV5640_InitDMA \/ OV5640_InitDMA_RGB
  <2>1. ASSUME pc \in {"image_init", "rgb_init"} PROVE ~en
    BY <2>1 DEF Quiet, Running
  <2> QED
    BY <1>3, <2>1
    DEF OV5640_InitDMA, OV5640_InitDMA_RGB, Goto, Arm, Dma!Next, Dma!Client
<1>4. CASE StopTransfer \/ ClearFlag
  BY <1>4 DEF StopTransfer, ClearFlag, Dma!Next, Dma!Client
<1>5. CASE UNCHANGED vars
  BY <1>1, <1>5 DEF vars
<1> QED
  BY <1>1, <1>2, <1>3, <1>4, <1>5, DriverAlone DEF Next, Environment, Command

\* So the driver's own invariant holds in every state of the system.
LEMMA DriverStep ==
  ASSUME DP!DInv, Quiet, [Next]_vars
  PROVE  DP!DInv'
<1>1. [DP!Next]_(DP!vars)
  BY KeepsContract, SameDriver
  DEF Dma!vars, Dma!driverVars, Dma!appVars, Dma!streamVars,
      DP!vars, DP!driverVars, DP!appVars, DP!streamVars
<1> QED
  BY <1>1, CameraAssumption, DP!DInductive

\* What the driver's invariant says about the words of a frame.
LEMMA DriverFacts ==
  ASSUME CodeSizes, DP!DInv
  PROVE  /\ written \in Nat /\ ptr \in Nat
         /\ block_size \in Nat /\ num_blocks \in Nat /\ blocks_done \in Nat
         /\ en /\ ~halted => ptr = written
         /\ en => phase = "idle" /\ ptr < block_size * num_blocks + block_size
         /\ tcif => phase = "idle"
         /\ tcif /\ blocks_done + 1 = num_blocks =>
              written >= block_size * num_blocks
         /\ block_size * num_blocks \in Nat
         /\ num_blocks > 0 => block_size <= block_size * num_blocks
<1> USE CameraAssumption DEF DP!DInv, DP!IInv
<1>1. /\ written \in Nat /\ ptr \in Nat /\ ndtr \in Nat /\ reload \in Nat
      /\ block_size \in Nat /\ num_blocks \in Nat /\ blocks_done \in Nat
      /\ m0ar \in Nat /\ m1ar \in Nat
  BY DEF DP!TypeOK
<1>2. /\ block_size * num_blocks \in Nat
      /\ num_blocks > 0 => block_size <= block_size * num_blocks
  <2>1. num_blocks > 0 => block_size * 1 <= block_size * num_blocks
    BY <1>1, DP!BlocksAscend
  <2> QED
    BY <1>1, <2>1
<1>3. IsrTimely /\ DP!Splits # {}
  BY SameDriver DEF CodeSizes
<1>4. en /\ ~halted => ptr = written
  BY <1>3 DEF DP!InStep
<1>5. (en => phase = "idle") /\ (tcif => phase = "idle")
  BY DEF DP!QuietInit
<1>6. ASSUME en PROVE ptr < block_size * num_blocks + block_size
  <2>1. ndtr > 0 /\ ptr + ndtr <= DP!Target(ct) + block_size
    BY <1>5, <1>6 DEF DP!Targets, DP!Geometry
  <2>2. CASE dbm
    <3>1. DP!Target(ct) <= block_size * num_blocks /\ DP!Target(ct) \in Nat
      BY <1>1, <1>6, <2>2 DEF DP!Targets, DP!Target
    <3> QED
      BY <1>1, <1>2, <2>1, <3>1
  <2>3. CASE ~dbm
    <3>1. DP!Target(ct) = 0
      BY <1>6, <2>3 DEF DP!Targets, DP!Target
    <3> QED
      BY <1>1, <1>2, <2>1, <3>1
  <2> QED
    BY <2>2, <2>3 DEF DP!TypeOK
<1>7. ASSUME tcif, blocks_done + 1 = num_blocks
      PROVE  written >= block_size * num_blocks
  <2>1. written + ndtr >= block_size * (blocks_done + DP!Pending) + reload
    BY <1>3, <1>5, <1>7 DEF DP!Counted
  <2>2. ndtr <= reload /\ blocks_done + DP!Pending = num_blocks
    BY <1>7 DEF DP!Geometry, DP!Pending
  <2> QED
    BY <1>1, <1>2, <2>1, <2>2
<1> QED
  BY <1>1, <1>2, <1>4, <1>5, <1>6, <1>7

\* A stop reports a length inside the buffer, and one that covers what was
\* stored unless the handler of an RGB transfer has ended the transfer.
LEMMA StopEffect ==
  ASSUME CodeSizes, DP!DInv, Control, StopTransfer
  PROVE  /\ ~en' /\ ~tcif /\ ~halted /\ ~tcif' /\ ~halted' /\ ~errif'
         /\ OV5640_ram_buffer_length' \in 0 .. BufWords
         /\ (isr # "shuffle" \/ written <= Share) =>
              written <= OV5640_ram_buffer_length'
         /\ UNCHANGED <<num_blocks, block_size, phase, isr, samplingFinished,
                        written>>
         /\ UNCHANGED <<captured, OV5640_ram_buffer, config, capture, passing,
                        frame, flen, fpos, rgbTimedOut, overrun, lateFrame,
                        dmaFault>>
         /\ pc = "image_stop" /\ pc' = "image_done"
<1> USE CameraAssumption
<1>1. /\ ~en' /\ ~tcif /\ ~halted /\ ~tcif' /\ ~halted' /\ ~errif'
      /\ UNCHANGED <<num_blocks, block_size, phase, isr, samplingFinished, written>>
      /\ UNCHANGED <<captured, OV5640_ram_buffer, config, capture, passing, frame,
                     flen, fpos, rgbTimedOut, overrun, lateFrame, dmaFault>>
      /\ pc = "image_stop" /\ pc' = "image_done" /\ phase = "idle"
      /\ OV5640_ram_buffer_length' = DP!HigherTarget
  BY DEF StopTransfer, Goto, Dma!ThreadRuns, Dma!dcmi_dma_open_ended_stop,
         Dma!dmaStreamDisable, Dma!appVars, cameraVars, history, DP!HigherTarget
<1>2. num_blocks = DP!OpenBlocks /\ block_size = OpenBlockWords /\ num_blocks > 0
  BY <1>1, SameDriver DEF Control, JpegGeometry, CodeSizes
<1>3. /\ DP!TypeOK /\ DP!Progress /\ DP!Finished /\ DP!Fits
      /\ reload = block_size /\ DP!Splits # {} /\ IsrTimely
      /\ block_size * num_blocks = Share /\ Share <= BufWords
  BY <1>1, <1>2, SameDriver
  DEF DP!DInv, DP!IInv, DP!Geometry, CodeSizes, Share, DP!Fits
<1>4. CASE blocks_done = num_blocks
  <2>1. DP!HigherTarget = Share /\ isr = "shuffle"
    BY <1>1, <1>2, <1>3, <1>4 DEF DP!Finished
  <2> QED
    BY <1>1, <1>3, <2>1, DriverFacts
<1>5. CASE blocks_done < num_blocks
  <2>1. DP!Underway
    BY <1>1, <1>3, <1>5 DEF DP!Underway
  <2>2. /\ block_size * (blocks_done + 1) = block_size * blocks_done + block_size
        /\ block_size * blocks_done \in Nat
        /\ block_size * (blocks_done + 1) <= block_size * num_blocks
    BY <1>5, DriverFacts, DP!NextBlock, DP!BlocksAscend
  <2>3. DP!HigherTarget \in written .. Share
    <3>1. CASE dbm
      <4>1. /\ DP!Target(ct) = block_size * blocks_done
            /\ DP!Target(1 - ct) = block_size * (blocks_done + 1)
            /\ written + ndtr = DP!Target(ct) + block_size
        BY <1>1, <1>3, <2>1, <3>1, DriverFacts DEF DP!Progress, DP!Pending
      <4>2. DP!HigherTarget = block_size * (blocks_done + 1)
        BY <2>2, <4>1, <1>3, DriverFacts DEF DP!HigherTarget, DP!Target, DP!TypeOK
      <4> QED
        BY <1>3, <2>2, <4>1, <4>2, DriverFacts DEF DP!TypeOK
    <3>2. CASE ~dbm
      <4>1. m0ar = 0 /\ m1ar = block_size /\ written <= block_size
        BY <2>1, <1>3, <3>2 DEF DP!Progress
      <4> QED
        BY <1>2, <1>3, <4>1, DriverFacts DEF DP!HigherTarget
    <3> QED
      BY <3>1, <3>2, <1>3 DEF DP!TypeOK
  <2> QED
    BY <1>1, <1>3, <2>3, DriverFacts
<1> QED
  <2>1. blocks_done <= num_blocks
    BY <1>1, <1>2, <1>3 DEF DP!Finished
  <2> QED
    BY <1>4, <1>5, <2>1, DriverFacts

(***************************************************************************)
(* The parts of the invariant that hold in every transfer.                 *)
(***************************************************************************)

\* Truth values stay truth values.
LEMMA FlagsStep ==
  ASSUME Flags, DP!DInv, [Next]_vars
  PROVE  Flags'
<1>1. en \in BOOLEAN
  BY DEF DP!DInv, DP!IInv, DP!TypeOK
<1>2. CASE Environment
  BY <1>1, <1>2, Zenon
  DEF Flags, Environment, FrameStart, FrameWord, FifoOverrun, FrameEnd, StreamError,
      Interrupt, cameraVars, history
<1>3. CASE Shell
  BY <1>3, Zenon
  DEF Flags, Shell, cmd_cam_init, cmd_image, cmd_image_rgb, TransmitConfig,
      cameraVars, history
<1>4. CASE Command
  <2>1. CASE OV5640_InitDCMI \/ OV5640_InitDCMI_RGB
    <3>1. lateFrame' \in BOOLEAN
      <4>1. lateFrame' = (written > 0)
        BY <2>1, Zenon DEF OV5640_InitDCMI, OV5640_InitDCMI_RGB, InitDCMI
      <4>2. (written > 0) \in BOOLEAN
        OBVIOUS
      <4> QED
        BY <4>1, <4>2, Zenon
    <3> QED
      BY <2>1, <3>1, Zenon DEF Flags, OV5640_InitDCMI, OV5640_InitDCMI_RGB, InitDCMI
  <2>2. CASE ClearBuffer \/ OV5640_InitDMA \/ OV5640_InitDMA_RGB \/ ClearFlag
    BY <2>2, Zenon
    DEF Flags, ClearBuffer, OV5640_InitDMA, OV5640_InitDMA_RGB, Arm, ClearFlag,
        cameraVars, history
  <2>3. CASE WaitForCapture \/ WaitForSampling \/ StopTransfer
    BY <2>3, Zenon
    DEF Flags, WaitForCapture, WaitForSampling, StopTransfer, cameraVars, history
  <2>4. CASE SnapshotResult \/ CheckFs \/ FileWritten
    BY <2>4, Zenon DEF Flags, SnapshotResult, CheckFs, FileWritten, cameraVars, history
  <2> QED
    BY <1>4, <2>1, <2>2, <2>3, <2>4 DEF Command
<1>5. CASE UNCHANGED vars
  BY <1>5 DEF vars, cameraVars, history, Flags
<1> QED
  BY <1>2, <1>3, <1>4, <1>5 DEF Next

\* The camera's counters stay in range, and a frame that passes has a number.
LEMMA CountingStep ==
  ASSUME Counting, [Next]_vars
  PROVE  Counting'
<1> USE CameraAssumption DEF Counting
<1>1. CASE FrameStart
  BY <1>1 DEF FrameStart, FrameLengths
<1>2. CASE FrameWord
  BY <1>2, WordEffect
<1>3. CASE FifoOverrun \/ FrameEnd
  BY <1>3 DEF FifoOverrun, FrameEnd
<1>4. CASE StreamError \/ Interrupt
  BY <1>4, ErrorEffect, InterruptEffect
<1>5. CASE Shell
  BY <1>5 DEF Shell, cmd_cam_init, cmd_image, cmd_image_rgb, TransmitConfig, cameraVars
<1>6. CASE Command
  BY <1>6
  DEF Command, ClearBuffer, OV5640_InitDMA, OV5640_InitDMA_RGB, Arm, OV5640_InitDCMI,
      OV5640_InitDCMI_RGB, InitDCMI, WaitForCapture, StopTransfer, SnapshotResult,
      ClearFlag, WaitForSampling, CheckFs, FileWritten, cameraVars
<1>7. CASE UNCHANGED vars
  BY <1>7 DEF vars, cameraVars
<1> QED
  BY <1>1, <1>2, <1>3, <1>4, <1>5, <1>6, <1>7 DEF Next, Environment

\* The shell thread, the init call in progress and the geometry belong together.
LEMMA ControlStep ==
  ASSUME CodeSizes, Control, DP!DInv, [Next]_vars
  PROVE  Control'
<1> USE DEF Control
<1>1. CASE FrameStart \/ FifoOverrun \/ FrameEnd
  BY <1>1 DEF FrameStart, FifoOverrun, FrameEnd, dmaVars
<1>2. CASE FrameWord \/ StreamError \/ Interrupt
  BY <1>2, WordEffect, ErrorEffect, InterruptEffect
<1>3. CASE Shell
  BY <1>3
  DEF Shell, cmd_cam_init, cmd_image, cmd_image_rgb, TransmitConfig, cameraVars, Goto,
      dmaVars, ImageSteps, RgbSteps, JpegGeometry, RgbGeometry
<1>4. CASE OV5640_InitDMA \/ OV5640_InitDMA_RGB
  <2>1. ASSUME Goto("image_init", "image_arm"), Dma!dcmi_dma_init_open_ended,
               UNCHANGED cameraVars
        PROVE  Control'
    BY <2>1
    DEF Goto, Dma!dcmi_dma_init_open_ended, Dma!streamVars, cameraVars, ImageSteps,
        RgbSteps, JpegGeometry, RgbGeometry
  <2>2. ASSUME Goto("rgb_init", "rgb_arm"), Dma!dcmi_dma_init, UNCHANGED cameraVars
        PROVE  Control'
    BY <2>2
    DEF Goto, Dma!dcmi_dma_init, Dma!streamVars, cameraVars, ImageSteps,
        RgbSteps, JpegGeometry, RgbGeometry
  <2>3. ASSUME Goto("image_arm", "image_dcmi") \/ Goto("rgb_arm", "rgb_dcmi"), Arm
        PROVE  Control'
    BY <2>3, ArmEffect DEF Goto, ImageSteps, RgbSteps, JpegGeometry, RgbGeometry
  <2> QED
    BY <1>4, <2>1, <2>2, <2>3 DEF OV5640_InitDMA, OV5640_InitDMA_RGB
<1>5. CASE StopTransfer
  BY <1>5, StopEffect DEF ImageSteps, RgbSteps, JpegGeometry, RgbGeometry
<1>6. CASE ClearFlag
  BY <1>6
  DEF ClearFlag, Goto, Dma!ClearSamplingFinished, Dma!driverVars, Dma!streamVars,
      cameraVars, ImageSteps, RgbSteps, JpegGeometry, RgbGeometry
<1>7. CASE ClearBuffer \/ OV5640_InitDCMI \/ OV5640_InitDCMI_RGB \/ WaitForCapture
           \/ SnapshotResult \/ WaitForSampling \/ CheckFs \/ FileWritten
  BY <1>7
  DEF ClearBuffer, OV5640_InitDCMI, OV5640_InitDCMI_RGB, InitDCMI, WaitForCapture,
      SnapshotResult, WaitForSampling, CheckFs, FileWritten, Goto, cameraVars,
      dmaVars, ImageSteps, RgbSteps, JpegGeometry, RgbGeometry
<1>8. CASE UNCHANGED vars
  BY <1>8 DEF vars, dmaVars, cameraVars
<1> QED
  BY <1>1, <1>2, <1>3, <1>4, <1>5, <1>6, <1>7, <1>8 DEF Next, Environment, Command

\* Only a step of a transfer's own command enables the stream, and a command
\* leaves a transfer behind only by giving an RGB snapshot up.
LEMMA QuietStep ==
  ASSUME CodeSizes, Quiet, Control, DP!DInv, [Next]_vars, ~rgbTimedOut'
  PROVE  Quiet'
<1> USE DEF Quiet
<1>1. CASE FrameStart \/ FifoOverrun \/ FrameEnd
  BY <1>1 DEF FrameStart, FifoOverrun, FrameEnd, dmaVars
<1>2. CASE FrameWord \/ StreamError
  BY <1>2, WordEffect, ErrorEffect
<1>3. CASE Interrupt
  <2>1. pc \in Running /\ pc' = pc
    BY <1>3, InterruptEffect
  <2>2. ASSUME pc = "rgb_wait", samplingFinished'
        PROVE  ~en' /\ ~tcif' /\ ~halted' /\ written' >= ImageWords
    <3>1. ~samplingFinished
      BY <1>3, <2>2, InterruptEffect
    <3>2. /\ ~en' /\ ~tcif' /\ ~halted' /\ written' = written
          /\ tcif /\ blocks_done + 1 = num_blocks
      BY <1>3, <2>2, <3>1, InterruptEffect
    <3>3. block_size * num_blocks = ImageWords
      BY <2>2, SameDriver, CameraAssumption, DP!RgbGeometry
      DEF Control, RgbGeometry, CodeSizes
    <3> QED
      BY <3>2, <3>3, DriverFacts
  <2> QED
    BY <2>1, <2>2 DEF Running
<1>4. CASE Shell
  BY <1>4 DEF Shell, cmd_cam_init, cmd_image, cmd_image_rgb, Goto, dmaVars, Running
<1>5. CASE OV5640_InitDMA \/ OV5640_InitDMA_RGB
  <2>1. CASE Arm
    BY <1>5, <2>1, ArmEffect
    DEF OV5640_InitDMA, OV5640_InitDMA_RGB, Goto, Running, Dma!dcmi_dma_init_open_ended,
        Dma!dcmi_dma_init, Dma!streamVars, Dma!appVars
  <2>2. CASE ~Arm
    BY <1>5, <2>2
    DEF OV5640_InitDMA, OV5640_InitDMA_RGB, Goto, Running,
        Dma!dcmi_dma_init_open_ended, Dma!dcmi_dma_init, Dma!streamVars, Dma!appVars
  <2> QED
    BY <2>1, <2>2
<1>6. CASE StopTransfer
  BY <1>6, StopEffect
<1>7. CASE ClearFlag
  BY <1>7 DEF ClearFlag, Goto, Dma!ClearSamplingFinished, Running
<1>8. CASE WaitForSampling
  <2>1. samplingFinished
    BY <1>8 DEF WaitForSampling
  <2> QED
    BY <1>8, <2>1 DEF WaitForSampling, Goto, dmaVars
<1>9. CASE ClearBuffer \/ OV5640_InitDCMI \/ OV5640_InitDCMI_RGB \/ WaitForCapture
           \/ SnapshotResult \/ CheckFs \/ FileWritten
  BY <1>9
  DEF ClearBuffer, OV5640_InitDCMI, OV5640_InitDCMI_RGB, InitDCMI, WaitForCapture,
      SnapshotResult, CheckFs, FileWritten, Goto, dmaVars, Running
<1>10. CASE UNCHANGED vars
  BY <1>10 DEF vars, dmaVars
<1> QED
  BY <1>1, <1>2, <1>3, <1>4, <1>5, <1>6, <1>7, <1>8, <1>9, <1>10
  DEF Next, Environment, Command

\* The firmware halts for an error flag, or with all blocks of a transfer full.
LEMMA HaltingStep ==
  ASSUME CodeSizes, Halting, Quiet, Control, DP!DInv, [Next]_vars
  PROVE  Halting'
<1> USE DEF Halting
<1>1. CASE FrameWord
  BY <1>1, WordEffect, DriverFacts
<1>2. CASE StreamError
  BY <1>2, ErrorEffect
<1>3. CASE Interrupt
  BY <1>3, InterruptEffect, DriverFacts
<1>4. CASE OV5640_InitDMA \/ OV5640_InitDMA_RGB
  <2>1. CASE Arm
    BY <1>4, <2>1, ArmEffect
  <2>2. CASE ~Arm
    BY <1>4, <2>2
    DEF OV5640_InitDMA, OV5640_InitDMA_RGB, Goto, Dma!ThreadRuns, history,
        Dma!dcmi_dma_init_open_ended, Dma!dcmi_dma_init, Dma!streamVars, Dma!appVars
  <2> QED
    BY <2>1, <2>2
<1>5. CASE StopTransfer
  BY <1>5, StopEffect
<1>6. CASE ClearFlag
  BY <1>6
  DEF ClearFlag, Dma!ClearSamplingFinished, Dma!driverVars, Dma!streamVars, history
<1>7. CASE FrameStart \/ FifoOverrun \/ FrameEnd \/ Shell \/ ClearBuffer
           \/ OV5640_InitDCMI \/ OV5640_InitDCMI_RGB \/ WaitForCapture
           \/ SnapshotResult \/ WaitForSampling \/ CheckFs \/ FileWritten
           \/ UNCHANGED vars
  <2>1. UNCHANGED dmaVars
    BY <1>7, DriverAlone DEF vars
  <2>2. UNCHANGED dmaFault
    BY <1>7
    DEF FrameStart, FifoOverrun, FrameEnd, Shell, cmd_cam_init, cmd_image,
        cmd_image_rgb, ClearBuffer, OV5640_InitDCMI, OV5640_InitDCMI_RGB, InitDCMI,
        WaitForCapture, SnapshotResult, WaitForSampling, CheckFs, FileWritten,
        history, vars
  <2> QED
    BY <2>1, <2>2 DEF dmaVars
<1> QED
  BY <1>1, <1>2, <1>3, <1>4, <1>5, <1>6, <1>7 DEF Next, Environment, Command

\* The buffer keeps its size, and a reported length stays inside it.
LEMMA WordsStep ==
  ASSUME CodeSizes, Words, Counting, Control, DP!DInv, [Next]_vars
  PROVE  Words'
<1> USE CameraAssumption DEF Words
<1>1. CASE FrameWord
  <2>1. frame \in -1 .. MaxFrames
    BY DEF Counting
  <2> QED
    BY <1>1, <2>1, WordEffect
<1>2. CASE StreamError \/ Interrupt
  BY <1>2, ErrorEffect, InterruptEffect
<1>3. CASE ClearBuffer
  BY <1>3 DEF ClearBuffer, Zero
<1>4. CASE StopTransfer
  BY <1>4, StopEffect
<1>5. CASE SnapshotResult
  <2>1. CASE captured
    <3> DEFINE used == {n \in 1 .. OV5640_ram_buffer_length :
                          OV5640_ram_buffer[n - 1] # Zero}
    <3>1. OV5640_ram_buffer_length' = Max({0} \cup used) /\ UNCHANGED OV5640_ram_buffer
      BY <1>5, <2>1 DEF SnapshotResult
    <3>2. {0} \cup used \subseteq 0 .. OV5640_ram_buffer_length
      OBVIOUS
    <3> HIDE DEF used
    <3>3. Max({0} \cup used) \in {0} \cup used
      <4>1. OV5640_ram_buffer_length \in Nat /\ {0} \cup used # {}
        OBVIOUS
      <4> QED
        BY <3>2, <4>1, MaxOfBounded
    <3> QED
      BY <3>1, <3>2, <3>3
  <2>2. CASE ~captured
    BY <1>5, <2>2 DEF SnapshotResult, NoCameraFound, Addresses
  <2> QED
    BY <2>1, <2>2
<1>6. CASE FrameStart \/ FifoOverrun \/ FrameEnd \/ Shell \/ OV5640_InitDMA
           \/ OV5640_InitDMA_RGB \/ OV5640_InitDCMI \/ OV5640_InitDCMI_RGB
           \/ WaitForCapture \/ ClearFlag \/ WaitForSampling \/ CheckFs
           \/ FileWritten \/ UNCHANGED vars
  <2>1. UNCHANGED bufVars
    BY <1>6
    DEF FrameStart, FifoOverrun, FrameEnd, Shell, cmd_cam_init, cmd_image,
        cmd_image_rgb, OV5640_InitDMA, OV5640_InitDMA_RGB, Arm, OV5640_InitDCMI,
        OV5640_InitDCMI_RGB, InitDCMI, WaitForCapture, ClearFlag, WaitForSampling,
        CheckFs, FileWritten, vars
  <2> QED
    BY <2>1 DEF bufVars
<1> QED
  BY <1>1, <1>2, <1>3, <1>4, <1>5, <1>6 DEF Next, Environment, Command

(***************************************************************************)
(* The parts about the frame in the buffer.                                *)
(***************************************************************************)

\* With the stream off and the camera interface done, nothing moves.
LEMMA NothingMoves ==
  ASSUME ~en, ~tcif, Environment
  PROVE  /\ FrameStart \/ FifoOverrun \/ FrameEnd
         /\ capture \/ passing
BY WordEffect, ErrorEffect, InterruptEffect
DEF Environment, FrameStart, FifoOverrun, FrameEnd

\* The environment neither moves the shell thread nor forgets a disturbance.
LEMMA EnvironmentEffect ==
  ASSUME Environment
  PROVE  /\ UNCHANGED <<pc, captured, isr, config, lateFrame, rgbTimedOut>>
         /\ UNCHANGED <<num_blocks, block_size, OV5640_ram_buffer_length>>
         /\ ~overrun' => ~overrun
         /\ ~halted' => ~halted
         /\ capture' => capture
<1>1. CASE FrameStart \/ FifoOverrun \/ FrameEnd
  <2>1. ~overrun' => ~overrun
    BY <1>1, Zenon DEF FrameStart, FifoOverrun, FrameEnd, history
  <2>2. /\ UNCHANGED <<pc, captured, config, lateFrame, rgbTimedOut, dmaVars, bufVars>>
        /\ capture' => capture
    BY <1>1 DEF FrameStart, FifoOverrun, FrameEnd, history
  <2> QED
    BY <2>1, <2>2 DEF dmaVars, bufVars
<1> QED
  BY <1>1, WordEffect, ErrorEffect, InterruptEffect DEF Environment

\* The next word of a frame goes right behind the words before it.
LEMMA NextWord ==
  ASSUME CodeSizes, Basic, FrameWord, ~halted, Arriving => written < BufWords
  PROVE  /\ Arriving => Arriving'
         /\ ZeroFrom(written) => ZeroFrom(written)'
<1>1. /\ passing /\ en /\ fpos' = fpos + 1 /\ written' = written + 1
      /\ UNCHANGED <<capture, passing, frame>>
      /\ OV5640_ram_buffer' = [a \in Addresses |->
            IF a = written THEN <<frame, fpos>> ELSE OV5640_ram_buffer[a]]
  BY WordEffect, DriverFacts DEF Basic
<1>2. written \in Nat
  BY DriverFacts DEF Basic
<1>3. ASSUME Arriving PROVE Arriving'
  <2>1. HoldsFrame(written)'
    <3> SUFFICES ASSUME NEW a \in 0 .. written PROVE OV5640_ram_buffer'[a] = <<frame, a>>
      <4>1. 0 .. written' - 1 = 0 .. written /\ frame' = frame
        BY <1>1, <1>2
      <4> QED
        BY <4>1 DEF HoldsFrame
    <3>1. a \in Addresses
      BY <1>2, <1>3, CameraAssumption DEF Addresses
    <3>2. CASE a = written
      BY <1>1, <1>3, <3>1, <3>2 DEF Arriving
    <3>3. CASE a # written
      BY <1>1, <1>2, <1>3, <3>1, <3>3 DEF Arriving, HoldsFrame
    <3> QED
      BY <3>2, <3>3
  <2> QED
    BY <1>1, <1>2, <1>3, <2>1 DEF Arriving
<1>4. ASSUME ZeroFrom(written) PROVE ZeroFrom(written)'
  BY <1>1, <1>2, <1>4 DEF ZeroFrom, Addresses
<1> QED
  BY <1>3, <1>4

\* How a transfer that nothing disturbs goes from one situation to another.
LEMMA SituationStep ==
  ASSUME CodeSizes, Basic, Environment, Undisturbed', ~halted',
         Arriving /\ fpos < flen => written < BufWords \/ ~en
  PROVE  /\ Nothing => Nothing' \/ (Arriving' /\ flen' \in FrameLengths)
         /\ Arriving => \/ Arriving' /\ flen' = flen
                        \/ Dropped' /\ written' = written /\ written < flen
                        \/ Arrived' /\ flen' = flen
         /\ Dropped => Dropped' /\ written' = written
         /\ Arrived => Arrived' /\ flen' = flen
         /\ ZeroFrom(written) => ZeroFrom(written)'
<1>1. CASE FrameStart
  <2>1. /\ capture /\ capture' /\ ~passing /\ passing' /\ fpos' = 0
        /\ flen' \in FrameLengths /\ written' = written /\ en' = en
        /\ OV5640_ram_buffer' = OV5640_ram_buffer
    BY <1>1 DEF FrameStart, dmaVars, bufVars
  <2>2. flen' > 0
    BY <2>1, CameraAssumption DEF FrameLengths
  <2>3. Nothing => Arriving'
    BY <2>1 DEF Nothing, Arriving, HoldsFrame
  <2>4. Dropped => Dropped'
    BY <2>1, <2>2 DEF Dropped
  <2> QED
    BY <2>1, <2>3, <2>4 DEF Arriving, Arrived, ZeroFrom
<1>2. CASE FrameWord
  <2>1. passing /\ fpos < flen /\ en /\ flen' = flen /\ ~halted
    BY <1>2, WordEffect
  <2>2. Arriving => written < BufWords
    BY <2>1
  <2> QED
    BY <1>2, <2>1, <2>2, NextWord DEF Nothing, Dropped, Arrived
<1>3. CASE FifoOverrun
  <2>1. /\ passing /\ ~passing' /\ fpos < flen /\ ~en /\ ~en'
        /\ UNCHANGED <<capture, flen, fpos, written, OV5640_ram_buffer>>
    BY <1>3 DEF FifoOverrun, Undisturbed, dmaVars, bufVars
  <2> QED
    BY <2>1 DEF Nothing, Arriving, Dropped, Arrived, ZeroFrom
<1>4. CASE FrameEnd
  <2>1. /\ passing /\ ~passing' /\ fpos = flen /\ ~capture' /\ frame >= 1
        /\ UNCHANGED <<flen, fpos, frame, written, en, OV5640_ram_buffer>>
    BY <1>4 DEF FrameEnd, dmaVars, bufVars, Basic, Counting
  <2>2. Arriving => Arrived'
    BY <2>1 DEF Arriving, Arrived, HoldsFrame
  <2>3. ~Dropped
    BY <2>1 DEF Dropped, Basic, Counting
  <2> QED
    BY <2>1, <2>2, <2>3 DEF Nothing, Arrived, ZeroFrom
<1>5. CASE StreamError \/ Interrupt
  <2>1. /\ UNCHANGED <<capture, passing, frame, flen, fpos, written,
                       OV5640_ram_buffer>>
        /\ ~en => ~en'
    BY <1>5, ErrorEffect, InterruptEffect
  <2> QED
    BY <2>1 DEF Nothing, Arriving, Dropped, Arrived, HoldsFrame, ZeroFrom
<1> QED
  BY <1>1, <1>2, <1>3, <1>4, <1>5 DEF Environment

\* Where a step of the shell thread leads.
LEMMA Moves ==
  ASSUME Shell \/ Command
  PROVE  /\ ~tcif /\ ~halted
         /\ \/ pc' \in {"shell", "image", "rgb_init"}
            \/ ClearBuffer /\ pc = "image" /\ pc' = "image_init"
            \/ /\ OV5640_InitDMA /\ pc = "image_init" /\ pc' = "image_arm"
               /\ Dma!dcmi_dma_init_open_ended /\ UNCHANGED bufVars
            \/ OV5640_InitDMA /\ pc = "image_arm" /\ pc' = "image_dcmi" /\ Arm
            \/ OV5640_InitDCMI /\ pc = "image_dcmi" /\ pc' = "image_wait"
            \/ WaitForCapture /\ pc = "image_wait" /\ pc' = "image_stop"
            \/ StopTransfer /\ pc = "image_stop" /\ pc' = "image_done"
            \/ SnapshotResult /\ pc = "image_done" /\ pc' = "image_check"
            \/ CheckFs /\ pc = "image_check" /\ pc' = "image_write"
            \/ OV5640_InitDMA_RGB /\ pc' \in {"rgb_arm", "rgb_dcmi"}
            \/ OV5640_InitDCMI_RGB /\ pc = "rgb_dcmi" /\ pc' = "rgb_clear"
            \/ ClearFlag /\ pc = "rgb_clear" /\ pc' = "rgb_wait"
            \/ WaitForSampling /\ pc = "rgb_wait" /\ pc' = "rgb_check"
            \/ CheckFs /\ pc = "rgb_check" /\ pc' = "rgb_write"
BY DEF Shell, cmd_cam_init, cmd_image, cmd_image_rgb, Command, ClearBuffer,
       OV5640_InitDMA, OV5640_InitDMA_RGB, OV5640_InitDCMI, OV5640_InitDCMI_RGB,
       WaitForCapture, StopTransfer, SnapshotResult, ClearFlag, WaitForSampling,
       CheckFs, FileWritten, Goto, Dma!ThreadRuns

\* A step that changes no variable keeps all of these parts.
LEMMA FramesStutter == ASSUME Frames, UNCHANGED vars PROVE Frames'
BY DEF Frames, vars, dmaVars, bufVars, cameraVars, history, Cleared, JpegInStep,
       KnownLength, JpegCaptured, RgbInStep, RgbCaptured, Nothing, Arriving,
       Dropped, Arrived, HoldsFrame, ZeroFrom, Undisturbed

\* The memset is still in force when the stream is armed.
LEMMA ClearedStep ==
  ASSUME CodeSizes, Basic, Cleared, Environment \/ Shell \/ Command
  PROVE  Cleared'
<1>1. CASE Environment
  <2>1. CASE FrameWord
    <3>1. pc' = pc /\ en /\ written' = written + 1 /\ written \in Nat
      BY <2>1, WordEffect, DriverFacts DEF Basic
    <3> QED
      BY <3>1 DEF Cleared, Basic, Quiet, Running
  <2>2. CASE ~FrameWord
    <3>1. UNCHANGED <<pc, written, OV5640_ram_buffer>>
      BY <1>1, <2>2, ErrorEffect, InterruptEffect
      DEF Environment, FrameStart, FifoOverrun, FrameEnd, dmaVars, bufVars
    <3> QED
      BY <3>1 DEF Cleared, ZeroFrom
  <2> QED
    BY <2>1, <2>2
<1>2. CASE Shell \/ Command
  <2>1. CASE ClearBuffer
    BY <2>1 DEF ClearBuffer, Goto, Cleared, ZeroFrom
  <2>2. CASE pc = "image_init" /\ pc' = "image_arm" /\ UNCHANGED bufVars
    BY <2>2 DEF Cleared, ZeroFrom, bufVars
  <2>3. CASE pc = "image_arm" /\ pc' = "image_dcmi" /\ Arm
    BY <2>3, ArmEffect DEF Cleared, ZeroFrom
  <2> QED
    BY <1>2, <2>1, <2>2, <2>3, Moves DEF Cleared
<1> QED
  BY <1>1, <1>2

\* The buffer has room for every word of an undisturbed frame.
LEMMA RoomForFrame ==
  ASSUME CodeSizes, Basic, en, pc \in {"image_wait", "image_stop"}, ~halted
  PROVE  written < Share + OpenBlockWords /\ Share + OpenBlockWords <= BufWords
<1>1. /\ Dma!OpenBlocks \in Nat
      /\ OpenBlockWords * (Dma!OpenBlocks + 1) <= BufWords
  BY SameDriver, CameraAssumption, DP!OpenGeometry
<1>2. /\ OpenBlockWords * (Dma!OpenBlocks + 1) = Share + OpenBlockWords
      /\ Share \in Nat
  BY <1>1, CameraAssumption, DP!NextBlock DEF Share
<1>3. block_size * num_blocks = Share /\ block_size = OpenBlockWords
  BY DEF Basic, Control, JpegGeometry, Share
<1> QED
  BY <1>1, <1>2, <1>3, DriverFacts DEF Basic

\* While a JPEG snapshot waits, its frame is in one of the four situations.
LEMMA JpegInStepStep ==
  ASSUME CodeSizes, Basic, Cleared, JpegInStep, Environment \/ Shell \/ Command
  PROVE  JpegInStep'
<1> USE CameraAssumption
<1>1. CASE Environment
  <2> SUFFICES ASSUME pc' \in {"image_wait", "image_stop"}, Undisturbed', ~halted'
               PROVE  /\ (Nothing \/ Arriving \/ Dropped \/ Arrived)'
                      /\ ZeroFrom(written)'
                      /\ written' <= Share + OpenBlockWords
                      /\ pc' = "image_stop" /\ captured' => ~capture'
    BY DEF JpegInStep
  <2>1. /\ pc' = pc /\ captured' = captured /\ (capture' => capture)
        /\ Undisturbed /\ ~halted
    BY <1>1, EnvironmentEffect DEF Undisturbed
  <2>2. /\ Nothing \/ Arriving \/ Dropped \/ Arrived
        /\ ZeroFrom(written) /\ written <= Share + OpenBlockWords
        /\ pc = "image_stop" /\ captured => ~capture
    BY <2>1 DEF JpegInStep
  <2>3. en => written < BufWords /\ written < Share + OpenBlockWords
    <3>1. ASSUME en PROVE written < Share + OpenBlockWords /\ Share + OpenBlockWords <= BufWords
      BY <2>1, <3>1, RoomForFrame
    <3>2. written \in Nat /\ Share \in Int
      BY DriverFacts, SameDriver, DP!OpenGeometry DEF Basic, Share
    <3> QED
      BY <3>1, <3>2
  <2>4. written' <= Share + OpenBlockWords
    <3>1. CASE FrameWord
      <4>1. written' = written + 1 /\ en /\ written \in Nat /\ Share \in Int
        BY <3>1, WordEffect, DriverFacts, SameDriver, DP!OpenGeometry DEF Basic, Share
      <4> QED
        BY <4>1, <2>3
    <3>2. CASE ~FrameWord
      BY <1>1, <2>2, <3>2, ErrorEffect, InterruptEffect
      DEF Environment, FrameStart, FifoOverrun, FrameEnd, dmaVars
    <3> QED
      BY <3>1, <3>2
  <2>5. /\ (Nothing \/ Arriving \/ Dropped \/ Arrived)'
        /\ ZeroFrom(written)'
    BY <1>1, <2>2, <2>3, SituationStep
  <2> QED
    BY <2>1, <2>2, <2>4, <2>5
<1>2. CASE OV5640_InitDCMI
  <2>1. /\ pc = "image_dcmi" /\ pc' = "image_wait"
        /\ capture' /\ ~passing' /\ (lateFrame' = (written > 0))
        /\ UNCHANGED <<written, OV5640_ram_buffer>>
    BY <1>2 DEF OV5640_InitDCMI, InitDCMI, Goto, dmaVars, bufVars
  <2>2. CASE written = 0
    <3>1. Nothing' /\ ZeroFrom(written)'
      BY <2>1, <2>2 DEF Nothing, Cleared, ZeroFrom
    <3>2. 0 <= Share + OpenBlockWords
      BY SameDriver, DP!OpenGeometry, DP!NextBlock DEF Share
    <3> QED
      BY <2>1, <2>2, <3>1, <3>2 DEF JpegInStep
  <2>3. CASE written # 0
    <3>1. written > 0
      BY <2>3, DriverFacts DEF Basic
    <3>2. lateFrame'
      BY <2>1, <3>1
    <3> QED
      BY <3>2 DEF JpegInStep, Undisturbed
  <2> QED
    BY <2>2, <2>3
<1>3. CASE WaitForCapture
  <2>1. UNCHANGED <<dmaVars, bufVars, cameraVars, history>> /\ captured' = ~capture
        /\ pc = "image_wait" /\ pc' = "image_stop"
    BY <1>3 DEF WaitForCapture, Goto
  <2>2. captured' => ~capture'
    BY <2>1 DEF cameraVars
  <2> QED
    BY <2>1, <2>2
    DEF dmaVars, bufVars, cameraVars, history, JpegInStep, Nothing, Arriving,
        Dropped, Arrived, HoldsFrame, ZeroFrom, Undisturbed
<1>4. CASE Shell \/ Command
  BY <1>2, <1>3, <1>4, Moves DEF JpegInStep
<1> QED
  BY <1>1, <1>4

\* A frame has one of the lengths the camera's modes have.
LEMMA KnownLengthStep ==
  ASSUME CodeSizes, Basic, KnownLength, Environment \/ Shell \/ Command
  PROVE  KnownLength'
<1> DEFINE Known(n) == n \in 1 .. MaxJpegWords
                       \/ (n = ImageWords /\ "image_rgb" \in Commands)
<1>1. CASE Environment
  <2> SUFFICES ASSUME pc' \in {"image_wait", "image_stop"}, passing' \/ Arrived'
               PROVE  Known(flen')
    BY DEF KnownLength
  <2>1. pc \in {"image_wait", "image_stop"}
    BY <1>1, EnvironmentEffect
  <2>2. passing \/ Arrived => Known(flen)
    BY <2>1 DEF KnownLength
  <2>3. CASE FrameStart
    BY <2>3 DEF FrameStart, FrameLengths, Basic, Control
  <2>4. CASE FrameWord \/ FifoOverrun \/ FrameEnd
    BY <2>2, <2>4, WordEffect DEF FifoOverrun, FrameEnd
  <2>5. CASE StreamError \/ Interrupt
    <3>1. UNCHANGED <<capture, passing, frame, flen, fpos, written, OV5640_ram_buffer>>
      BY <2>5, ErrorEffect, InterruptEffect
    <3> QED
      BY <2>2, <3>1 DEF Arrived, HoldsFrame
  <2> QED
    BY <1>1, <2>3, <2>4, <2>5 DEF Environment
<1>2. CASE OV5640_InitDCMI
  BY <1>2 DEF OV5640_InitDCMI, InitDCMI, KnownLength, Arrived
<1>3. CASE WaitForCapture
  BY <1>3
  DEF WaitForCapture, Goto, dmaVars, bufVars, cameraVars, KnownLength, Arrived,
      HoldsFrame
<1>4. CASE Shell \/ Command
  BY <1>2, <1>3, <1>4, Moves DEF KnownLength
<1> QED
  BY <1>1, <1>4

\* The trailing zeros are cut off: what is left is the frame.
LEMMA Trimmed ==
  ASSUME CodeSizes, Basic, SnapshotResult, captured, Arrived, ZeroFrom(written),
         written <= OV5640_ram_buffer_length
  PROVE  OV5640_ram_buffer_length' = written
<1> DEFINE used == {n \in 1 .. OV5640_ram_buffer_length :
                      OV5640_ram_buffer[n - 1] # Zero}
<1>1. /\ written \in Nat /\ BufWords \in Nat /\ frame \in Nat
      /\ OV5640_ram_buffer_length \in 0 .. BufWords
  BY DriverFacts, CameraAssumption DEF Basic, Words, Counting
<1>2. OV5640_ram_buffer_length' = Max({0} \cup used)
  BY DEF SnapshotResult
<1>3. \A n \in {0} \cup used : n <= written
  <2> SUFFICES ASSUME NEW n \in used PROVE n <= written
    BY <1>1
  <2>1. n \in 1 .. OV5640_ram_buffer_length /\ OV5640_ram_buffer[n - 1] # Zero
    OBVIOUS
  <2>2. n - 1 \in Addresses
    BY <1>1, <2>1 DEF Addresses
  <2>3. ~(n - 1 >= written)
    BY <2>1, <2>2 DEF ZeroFrom
  <2> QED
    BY <1>1, <2>1, <2>3
<1>4. written \in {0} \cup used
  <2> SUFFICES ASSUME written # 0 PROVE written \in used
    OBVIOUS
  <2>1. OV5640_ram_buffer[written - 1] = <<frame, written - 1>>
    BY <1>1 DEF Arrived, HoldsFrame
  <2>2. <<frame, written - 1>> # Zero
    BY <1>1 DEF Arrived, Zero
  <2>3. written \in 1 .. OV5640_ram_buffer_length
    BY <1>1
  <2> QED
    BY <2>1, <2>2, <2>3
<1>5. {0} \cup used \subseteq 0 .. OV5640_ram_buffer_length
  BY <1>1
<1> HIDE DEF used
<1>6. /\ Max({0} \cup used) \in {0} \cup used
      /\ \A n \in {0} \cup used : Max({0} \cup used) >= n
  <2>1. OV5640_ram_buffer_length \in Nat /\ {0} \cup used # {}
    BY <1>1
  <2> QED
    BY <1>5, <2>1, MaxOfBounded
<1>7. Max({0} \cup used) <= written /\ Max({0} \cup used) >= written
  BY <1>3, <1>4, <1>6
<1>8. Max({0} \cup used) \in Nat
  BY <1>1, <1>5, <1>6
<1> QED
  BY <1>1, <1>2, <1>7, <1>8

\* A JPEG snapshot that reports success holds its frame, and keeps it.
LEMMA JpegCapturedStep ==
  ASSUME CodeSizes, Basic, JpegInStep, KnownLength, JpegCaptured,
         Environment \/ Shell \/ Command
  PROVE  JpegCaptured'
<1>1. CASE Environment
  <2>0. captured' = captured /\ pc' = pc /\ (Undisturbed' => Undisturbed)
    BY <1>1, EnvironmentEffect DEF Undisturbed
  <2> SUFFICES ASSUME captured', Undisturbed',
                      pc' \in {"image_done", "image_check", "image_write"}
               PROVE  FALSE
    BY DEF JpegCaptured
  <2>1. captured /\ Undisturbed /\ pc' = pc
    BY <2>0
  <2>2. ~en /\ ~tcif
    BY <2>1 DEF Basic, Quiet, Running
  <2>3. ~capture /\ ~passing
    BY <2>1 DEF JpegCaptured, Arrived
  <2> QED
    BY <1>1, <2>2, <2>3, NothingMoves
<1>2. CASE StopTransfer
  <2>0. /\ captured' = captured /\ (Undisturbed' => Undisturbed)
        /\ ~halted /\ pc = "image_stop"
        /\ UNCHANGED <<written, OV5640_ram_buffer, capture, passing, frame, flen,
                       fpos>>
    BY <1>2, StopEffect DEF Basic, Undisturbed
  <2> SUFFICES ASSUME captured', Undisturbed'
               PROVE  /\ (Arrived /\ ZeroFrom(written))'
                      /\ written' <= OV5640_ram_buffer_length'
    BY <1>2, StopEffect DEF JpegCaptured, Basic
  <2>1. /\ captured /\ Undisturbed /\ ~halted /\ pc = "image_stop"
        /\ UNCHANGED <<written, OV5640_ram_buffer, capture, passing, frame, flen,
                       fpos>>
    BY <2>0
  <2>2. /\ Arrived /\ ZeroFrom(written) /\ written <= Share + OpenBlockWords
    BY <2>1 DEF JpegInStep, Nothing, Arriving, Dropped
  <2>3. isr # "shuffle" \/ written <= Share
    <3> SUFFICES ASSUME isr = "shuffle" PROVE written <= Share
      OBVIOUS
    <3>1. "image_rgb" \in Commands
      BY DEF Basic, Control
    <3>2. flen = written /\ (flen \in 1 .. MaxJpegWords \/ flen = ImageWords)
      BY <2>1, <2>2 DEF KnownLength, Arrived
    <3>3. Share \in Int /\ written \in Nat
      BY DriverFacts, CameraAssumption, SameDriver, DP!OpenGeometry DEF Basic, Share
    <3> QED
      BY <2>2, <3>1, <3>2, <3>3, CameraAssumption DEF CodeSizes
  <2>4. written' <= OV5640_ram_buffer_length'
    BY <1>2, <2>3, StopEffect DEF Basic
  <2> QED
    BY <2>1, <2>2, <2>4 DEF Arrived, HoldsFrame, ZeroFrom
<1>3. CASE SnapshotResult
  <2> SUFFICES ASSUME captured', Undisturbed'
               PROVE  /\ ~capture' /\ ~passing'
                      /\ OV5640_ram_buffer_length' = flen' /\ HoldsFrame(flen)'
    BY <1>3 DEF JpegCaptured, SnapshotResult, Goto
  <2>1. /\ captured /\ Undisturbed /\ pc = "image_done"
        /\ UNCHANGED <<OV5640_ram_buffer, capture, passing, frame, flen>>
    BY <1>3 DEF SnapshotResult, Goto, cameraVars, history, Undisturbed
  <2>2. Arrived /\ OV5640_ram_buffer_length' = written
    BY <1>3, <2>1, Trimmed DEF JpegCaptured
  <2> QED
    BY <2>1, <2>2 DEF Arrived, HoldsFrame
<1>4. CASE CheckFs /\ pc = "image_check" /\ pc' = "image_write"
  BY <1>4
  DEF CheckFs, JpegCaptured, bufVars, cameraVars, history, Undisturbed, HoldsFrame
<1>5. CASE Shell \/ Command
  BY <1>2, <1>3, <1>4, <1>5, Moves DEF JpegCaptured
<1> QED
  BY <1>1, <1>5

\* While an RGB snapshot waits, its frame is in one of the four situations.
LEMMA RgbInStepStep ==
  ASSUME CodeSizes, Basic, RgbInStep, Environment \/ Shell \/ Command
  PROVE  RgbInStep'
<1> USE CameraAssumption
<1>1. CASE Environment
  <2> SUFFICES ASSUME pc' \in {"rgb_clear", "rgb_wait"}, Undisturbed', ~halted'
               PROVE  (\/ Nothing
                       \/ Arriving /\ flen = ImageWords
                       \/ Dropped /\ written < ImageWords
                       \/ Arrived /\ flen = ImageWords)'
    BY DEF RgbInStep
  <2>1. pc' = pc /\ Undisturbed /\ ~halted
    BY <1>1, EnvironmentEffect DEF Undisturbed
  <2>2. /\ FrameStart => flen' = ImageWords
        /\ written \in Nat /\ fpos \in Nat
    <3>1. FrameStart => config = "rgb"
      BY <2>1 DEF FrameStart, Basic, Control, RgbSteps
    <3> QED
      BY <3>1, DriverFacts DEF FrameStart, FrameLengths, Basic, Counting
  <2>3. CASE Nothing
    <3>1. Nothing' \/ (Arriving' /\ flen' \in FrameLengths)
      BY <1>1, <2>3, SituationStep DEF Nothing, Arriving
    <3>2. passing' => FrameStart
      BY <1>1, <2>3, WordEffect, ErrorEffect, InterruptEffect
      DEF Nothing, Environment, FifoOverrun, FrameEnd
    <3> QED
      BY <2>2, <3>1, <3>2 DEF Arriving
  <2>4. CASE Arriving /\ flen = ImageWords
    <3>1. fpos < flen => written < BufWords
      BY <2>2, <2>4 DEF Arriving, CodeSizes
    <3>2. \/ Arriving' /\ flen' = flen
          \/ Dropped' /\ written' = written /\ written < flen
          \/ Arrived' /\ flen' = flen
      BY <1>1, <2>4, <3>1, SituationStep
    <3> QED
      BY <2>4, <3>2
  <2>5. CASE Dropped /\ written < ImageWords
    <3>1. ~en
      BY <2>5 DEF Dropped
    <3> QED
      BY <1>1, <2>5, <3>1, SituationStep
  <2>6. CASE Arrived /\ flen = ImageWords
    BY <1>1, <2>6, SituationStep DEF Arrived, Arriving
  <2> QED
    BY <2>1, <2>3, <2>4, <2>5, <2>6 DEF RgbInStep
<1>2. CASE OV5640_InitDCMI_RGB
  <2>1. /\ capture' /\ ~passing' /\ (lateFrame' = (written > 0)) /\ written' = written
    BY <1>2 DEF OV5640_InitDCMI_RGB, InitDCMI, dmaVars
  <2>2. CASE written = 0
    BY <2>1, <2>2 DEF RgbInStep, Nothing
  <2>3. CASE written # 0
    <3>1. written > 0
      BY <2>3, DriverFacts DEF Basic
    <3>2. lateFrame'
      BY <2>1, <3>1
    <3> QED
      BY <3>2 DEF RgbInStep, Undisturbed
  <2> QED
    BY <2>2, <2>3
<1>3. CASE ClearFlag
  BY <1>3
  DEF ClearFlag, Goto, Dma!ClearSamplingFinished, Dma!driverVars, Dma!streamVars,
      bufVars, cameraVars, history, RgbInStep, Nothing, Arriving, Dropped, Arrived,
      HoldsFrame, Undisturbed
<1>4. CASE Shell \/ Command
  BY <1>2, <1>3, <1>4, Moves DEF RgbInStep
<1> QED
  BY <1>1, <1>4

\* An RGB snapshot that reports success holds its frame, and keeps it.
LEMMA RgbCapturedStep ==
  ASSUME CodeSizes, Basic, RgbInStep, RgbCaptured, ~rgbTimedOut',
         Environment \/ Shell \/ Command
  PROVE  RgbCaptured'
<1> USE CameraAssumption
<1>1. CASE Environment
  <2>1. captured' = captured /\ pc' = pc /\ (Undisturbed' => Undisturbed)
    BY <1>1, EnvironmentEffect DEF Undisturbed
  <2> SUFFICES ASSUME captured', Undisturbed', pc' \in {"rgb_check", "rgb_write"}
               PROVE  (HoldsFrame(ImageWords) /\ (capture => passing)
                         /\ (passing => fpos = flen))'
    BY DEF RgbCaptured
  <2>2. ~en /\ ~tcif
    BY <2>1 DEF Basic, Quiet, Running
  <2>3. HoldsFrame(ImageWords) /\ (capture => passing) /\ (passing => fpos = flen)
    BY <2>1 DEF RgbCaptured
  <2>4. FrameEnd
    <3>1. FrameStart \/ FifoOverrun \/ FrameEnd
      BY <1>1, <2>2, NothingMoves
    <3>2. ~FrameStart
      BY <2>3 DEF FrameStart
    <3>3. ~FifoOverrun
      <4>1. FifoOverrun => passing /\ fpos < flen
        BY DEF FifoOverrun
      <4>2. flen \in Nat
        BY DEF Basic, Counting
      <4> QED
        BY <2>3, <4>1, <4>2
    <3> QED
      BY <3>1, <3>2, <3>3
  <2>5. ~capture' /\ ~passing' /\ UNCHANGED <<frame, OV5640_ram_buffer>>
    BY <2>4 DEF FrameEnd, bufVars
  <2> QED
    BY <2>3, <2>5 DEF HoldsFrame
<1>2. CASE WaitForSampling
  <2>1. /\ samplingFinished /\ pc = "rgb_wait" /\ UNCHANGED <<overrun, lateFrame>>
        /\ UNCHANGED <<capture, passing, frame, flen, fpos, OV5640_ram_buffer>>
    BY <1>2 DEF WaitForSampling, Goto, cameraVars, bufVars
  <2>2. ~halted /\ written >= ImageWords /\ written \in Nat /\ fpos \in 0 .. flen
        /\ flen \in Nat
    BY <2>1, DriverFacts DEF Basic, Quiet, Counting
  <2> SUFFICES ASSUME Undisturbed
               PROVE  /\ HoldsFrame(ImageWords) /\ (capture => passing)
                      /\ passing => fpos = flen
    BY <2>1 DEF RgbCaptured, HoldsFrame, Undisturbed
  <2>3. \/ Arriving /\ flen = ImageWords
        \/ Arrived /\ flen = ImageWords
    BY <2>1, <2>2 DEF RgbInStep, Nothing
  <2> QED
    BY <2>2, <2>3 DEF Arriving, Arrived
<1>3. CASE CheckFs /\ pc = "rgb_check" /\ pc' = "rgb_write"
  BY <1>3
  DEF CheckFs, RgbCaptured, bufVars, cameraVars, history, Undisturbed, HoldsFrame
<1>4. CASE Shell \/ Command
  BY <1>2, <1>3, <1>4, Moves DEF RgbCaptured
<1> QED
  BY <1>1, <1>4

(***************************************************************************)
(* The theorems.                                                           *)
(***************************************************************************)

\* The invariant holds when the shell starts.
LEMMA InitCInv == Init => CInv
<1> SUFFICES ASSUME Init PROVE Basic /\ Frames
  BY DEF CInv
<1>1. DP!DInv
  <2>1. DP!Init
    BY SameDriver DEF Init
  <2> QED
    BY <2>1, CameraAssumption, DP!InitDInv
<1>2. Flags
  BY Zenon DEF Init, Flags
<1>3. Counting /\ Words
  BY CameraAssumption DEF Init, Counting, Words, Zero, Addresses
<1>4. Quiet /\ Control /\ Halting
  BY DEF Init, Dma!Init, Quiet, Control, Halting, Running, ImageSteps, RgbSteps,
         JpegGeometry, RgbGeometry
<1>5. Frames
  BY DEF Init, Frames, Cleared, JpegInStep, KnownLength, JpegCaptured, RgbInStep,
         RgbCaptured
<1> QED
  BY <1>1, <1>2, <1>3, <1>4, <1>5 DEF Basic

\* Every step keeps it, and with it the driver's contract, unless the step
\* gives an RGB snapshot up.
LEMMA CInductive ==
  ASSUME CodeSizes, CInv, [Next]_vars
  PROVE  CInv'
<1>1. CASE rgbTimedOut
  <2>1. rgbTimedOut'
    BY <1>1, EnvironmentEffect, ArmEffect
    DEF Next, vars, history, Shell, cmd_cam_init, cmd_image, cmd_image_rgb, Command,
        ClearBuffer, OV5640_InitDMA, OV5640_InitDMA_RGB, OV5640_InitDCMI,
        OV5640_InitDCMI_RGB, InitDCMI, WaitForCapture, StopTransfer, SnapshotResult,
        ClearFlag, WaitForSampling, CheckFs, FileWritten
  <2> QED
    BY <2>1 DEF CInv
<1>2. CASE ~rgbTimedOut
  <2> SUFFICES ASSUME ~rgbTimedOut' PROVE Basic' /\ Frames'
    BY DEF CInv
  <2>1. Basic /\ Frames
    BY <1>2 DEF CInv
  <2>2. Basic'
    BY <2>1, DriverStep, FlagsStep, CountingStep, WordsStep, QuietStep, ControlStep,
       HaltingStep
    DEF Basic
  <2>3. CASE Environment \/ Shell \/ Command
    <3>1. /\ Cleared /\ JpegInStep /\ KnownLength /\ JpegCaptured
          /\ RgbInStep /\ RgbCaptured
      BY <2>1 DEF Frames
    <3>2. Cleared' /\ KnownLength'
      BY <2>1, <2>3, <3>1, ClearedStep, KnownLengthStep
    <3>3. JpegInStep' /\ JpegCaptured'
      BY <2>1, <2>3, <3>1, JpegInStepStep, JpegCapturedStep
    <3>4. RgbInStep' /\ RgbCaptured'
      BY <2>1, <2>3, <3>1, RgbInStepStep, RgbCapturedStep
    <3> QED
      BY <2>2, <3>2, <3>3, <3>4 DEF Frames
  <2> QED
    BY <2>1, <2>2, <2>3, FramesStutter DEF Next
<1> QED
  BY <1>1, <1>2

\* The invariant holds throughout.
THEOREM Invariance ==
  ASSUME CodeSizes
  PROVE  Spec => []CInv
BY InitCInv, CInductive, PTL DEF Spec

\* A snapshot that reports success leaves exactly one frame in the buffer, from
\* its first word to its last, and a JPEG snapshot reports its exact length,
\* unless the FIFO overran or an earlier snapshot left its transfer or its
\* CAPTURE bit behind (ov5640.c 1690-1705, 1753-1775).
THEOREM CapturedFrameIsWhole ==
  ASSUME CodeSizes
  PROVE  Spec => []WholeFrame
<1>1. CInv => WholeFrame
  BY DEF CInv, Frames, JpegCaptured, RgbCaptured, Undisturbed, WholeFrame,
         CapturedWholeFrame
<1> QED
  BY <1>1, Invariance, PTL

\* The image does not change while it is written to the card
\* (main.c 200-212, 274-284).
THEOREM StableWhileWritten ==
  ASSUME CodeSizes
  PROVE  Spec => BufferStable
<1>1. CInv /\ [Next]_vars =>
        [(pc \in {"image_write", "rgb_write"} /\ pc' = pc /\ ~rgbTimedOut)
            => UNCHANGED bufVars]_vars
  <2> SUFFICES ASSUME CInv, Next, pc \in {"image_write", "rgb_write"}, pc' = pc,
                      ~rgbTimedOut
               PROVE  UNCHANGED bufVars
    BY DEF vars
  <2>1. ~en /\ ~tcif
    BY DEF CInv, Basic, Quiet, Running
  <2>2. Environment
    BY Moves DEF Next
  <2> QED
    BY <2>1, <2>2, NothingMoves DEF FrameStart, FifoOverrun, FrameEnd
<1> QED
  BY <1>1, Invariance, PTL DEF Spec, BufferStable

(***************************************************************************)
(* Where the words go.  A buffer of one image has no room for the block    *)
(* that the stream turns to behind the last one, so nothing may come then. *)
(***************************************************************************)

\* The words that this snapshot can still let in.
Coming == IF passing THEN flen - fpos ELSE IF capture THEN ImageWords ELSE 0

Room ==
  /\ pc \in {"rgb_init", "rgb_arm"} /\ passing => flen - fpos <= ImageWords
  /\ pc \in {"rgb_dcmi", "rgb_clear", "rgb_wait"} /\ Undisturbed /\ en =>
       written + Coming <= ImageWords

\* A word makes room for itself, a new frame is as long as the image, and what
\* takes the rest of a frame away leaves no more to come or is a disturbance.
LEMMA RoomEnvironment ==
  ASSUME CodeSizes, Basic, Room, Environment
  PROVE  Room'
<1> USE CameraAssumption
<1>1. /\ UNCHANGED <<pc, lateFrame>> /\ (~overrun' => ~overrun)
      /\ written \in Nat /\ fpos \in Nat /\ flen \in Nat /\ fpos <= flen
      /\ ImageWords \in Nat
  BY EnvironmentEffect, DriverFacts DEF Basic, Counting
<1>2. pc \in {"rgb_init", "rgb_arm"} => ~en /\ ~tcif
  BY DEF Basic, Quiet, Running
<1>3. CASE FrameStart
  <2>1. ASSUME pc \in RgbSteps PROVE flen' = ImageWords
    <3>1. config = "rgb"
      BY <1>3, <2>1 DEF FrameStart, Basic, Control
    <3> QED
      BY <1>3, <3>1 DEF FrameStart, FrameLengths
  <2>2. /\ capture /\ ~passing /\ passing' /\ fpos' = 0
        /\ UNCHANGED <<en, written, capture, overrun>>
    BY <1>3 DEF FrameStart, dmaVars, history
  <2> QED
    BY <1>1, <2>1, <2>2 DEF Room, Coming, Undisturbed, RgbSteps
<1>4. CASE FrameWord
  <2>1. /\ passing /\ passing' /\ fpos' = fpos + 1 /\ written' = written + 1 /\ en
        /\ UNCHANGED <<flen, overrun>>
    BY <1>4, WordEffect
  <2> QED
    BY <1>1, <1>2, <2>1 DEF Room, Coming, Undisturbed
<1>5. CASE FifoOverrun
  <2>1. ~passing' /\ UNCHANGED <<en, written, capture>> /\ (en => overrun')
    BY <1>5 DEF FifoOverrun, dmaVars
  <2> QED
    BY <2>1 DEF Room, Undisturbed
<1>6. CASE FrameEnd
  <2>1. /\ passing /\ fpos = flen /\ ~passing' /\ ~capture'
        /\ UNCHANGED <<en, written, overrun>>
    BY <1>6 DEF FrameEnd, dmaVars, history
  <2> QED
    BY <1>1, <2>1 DEF Room, Coming, Undisturbed
<1>7. CASE StreamError
  <2>1. en /\ UNCHANGED <<written, passing, capture, flen, fpos, overrun>>
    BY <1>7, ErrorEffect
  <2> QED
    BY <1>1, <2>1 DEF Room, Coming, Undisturbed
<1>8. CASE Interrupt
  <2>1. (en' => en) /\ UNCHANGED <<written, passing, capture, flen, fpos, overrun>>
    BY <1>8, InterruptEffect
  <2> QED
    BY <1>1, <2>1 DEF Room, Coming, Undisturbed
<1> QED
  BY <1>3, <1>4, <1>5, <1>6, <1>7, <1>8 DEF Environment

\* The camera is configured, the stream armed and CAPTURE set with an image's
\* worth of words to come at most.
LEMMA RoomThread ==
  ASSUME CodeSizes, Basic, Room, Shell \/ Command
  PROVE  Room'
<1> USE CameraAssumption
<1>1. /\ written \in Nat /\ fpos \in Nat /\ flen \in Nat /\ fpos <= flen
      /\ ImageWords \in Nat
  BY DriverFacts DEF Basic, Counting
<1>2. CASE cmd_image_rgb
  <2>1. pc' = "rgb_init" /\ passing' = passing /\ fpos' = fpos /\ (passing => flen' = fpos)
    BY <1>2 DEF cmd_image_rgb, Goto, TransmitConfig
  <2> QED
    BY <1>1, <2>1 DEF Room
<1>3. CASE OV5640_InitDMA_RGB
  <2>1. CASE pc = "rgb_init"
    <3>1. pc' = "rgb_arm" /\ UNCHANGED <<passing, flen, fpos>>
      BY <1>3, <2>1 DEF OV5640_InitDMA_RGB, Goto, cameraVars
    <3> QED
      BY <2>1, <3>1 DEF Room
  <2>2. CASE pc = "rgb_arm"
    <3>1. pc' = "rgb_dcmi" /\ Arm
      BY <1>3, <2>2 DEF OV5640_InitDMA_RGB, Goto
    <3>2. written' = 0 /\ UNCHANGED <<passing, flen, fpos, capture>>
      BY <3>1, ArmEffect
    <3> QED
      BY <1>1, <2>2, <3>1, <3>2 DEF Room, Coming
  <2> QED
    BY <1>3, <2>1, <2>2 DEF OV5640_InitDMA_RGB, Goto
<1>4. CASE OV5640_InitDCMI_RGB
  <2>1. /\ pc' = "rgb_clear" /\ capture' /\ ~passing' /\ (lateFrame' = (written > 0))
        /\ written' = written
    BY <1>4 DEF OV5640_InitDCMI_RGB, InitDCMI, Goto, dmaVars
  <2>2. CASE written = 0
    BY <1>1, <2>1, <2>2 DEF Room, Coming
  <2>3. CASE written # 0
    <3>1. written > 0
      BY <1>1, <2>3
    <3>2. lateFrame'
      BY <2>1, <3>1
    <3> QED
      BY <2>1, <3>2 DEF Room, Undisturbed
  <2> QED
    BY <2>2, <2>3
<1>5. CASE ClearFlag
  BY <1>5
  DEF ClearFlag, Goto, Dma!ClearSamplingFinished, Dma!driverVars, Dma!streamVars,
      cameraVars, history, Room, Coming, Undisturbed
<1>6. CASE pc' \notin {"rgb_init", "rgb_arm", "rgb_dcmi", "rgb_clear", "rgb_wait"}
  BY <1>6 DEF Room
<1>7. pc' = "rgb_init" => cmd_image_rgb
  BY DEF Shell, cmd_cam_init, cmd_image, Command, ClearBuffer, OV5640_InitDMA,
         OV5640_InitDCMI, WaitForCapture, StopTransfer, SnapshotResult,
         OV5640_InitDMA_RGB, OV5640_InitDCMI_RGB, ClearFlag, WaitForSampling, CheckFs,
         FileWritten, Goto
<1> QED
  BY <1>2, <1>3, <1>4, <1>5, <1>6, <1>7, Moves

\* No word is stored outside the buffer, with an RGB buffer of exactly one image
\* (ov5640.c 2168) and also behind the assertion that leaves the stream running,
\* unless a part of a frame came in before the one that is captured.
THEOREM StoredInBuffer ==
  ASSUME CodeSizes
  PROVE  Spec => StoresInBuffer
<1> DEFINE SInv == rgbTimedOut \/ (Room /\ DP!Parked)
<1>1. Init => SInv
  BY DEF Init, Room, DP!Parked, Dma!Init
<1>2. CInv /\ SInv /\ [Next]_vars => SInv'
  <2> SUFFICES ASSUME CInv, SInv, [Next]_vars, ~rgbTimedOut' PROVE Room' /\ DP!Parked'
    OBVIOUS
  <2>1. ~rgbTimedOut
    BY EnvironmentEffect, ArmEffect
    DEF Next, vars, history, Shell, cmd_cam_init, cmd_image, cmd_image_rgb, Command,
        ClearBuffer, OV5640_InitDMA, OV5640_InitDMA_RGB, OV5640_InitDCMI,
        OV5640_InitDCMI_RGB, InitDCMI, WaitForCapture, StopTransfer, SnapshotResult,
        ClearFlag, WaitForSampling, CheckFs, FileWritten
  <2>2. Basic /\ Room /\ DP!Parked
    BY <2>1 DEF CInv
  <2>3. Room'
    <3>1. CASE UNCHANGED vars
      BY <2>2, <3>1 DEF vars, dmaVars, cameraVars, history, Room, Coming, Undisturbed
    <3> QED
      BY <2>2, <3>1, RoomEnvironment, RoomThread DEF Next
  <2>4. DP!Parked'
    <3>1. [DP!Next]_(DP!vars)
      BY <2>2, KeepsContract, SameDriver
      DEF Basic, Dma!vars, Dma!driverVars, Dma!appVars, Dma!streamVars,
          DP!vars, DP!driverVars, DP!appVars, DP!streamVars
    <3>2. IsrTimely /\ DP!Splits # {} /\ DP!DInv
      BY <2>2, SameDriver DEF CodeSizes, Basic
    <3> QED
      BY <2>2, <3>1, <3>2, CameraAssumption, DP!ParkedStep
  <2> QED
    BY <2>3, <2>4
<1>3. CInv /\ SInv =>
        [FrameWord /\ ~rgbTimedOut /\ (pc \in RgbSteps => ~overrun /\ ~lateFrame)
           => ptr < BufWords]_vars
  <2> SUFFICES ASSUME CInv, SInv, FrameWord, ~rgbTimedOut,
                      pc \in RgbSteps => ~overrun /\ ~lateFrame
               PROVE  ptr < BufWords
    OBVIOUS
  <2>1. Basic /\ Room /\ DP!Parked /\ DP!DInv
    BY DEF CInv, Basic
  <2>2. en /\ passing /\ fpos < flen
    BY WordEffect
  <2>3. /\ written \in Nat /\ ptr \in Nat /\ fpos \in Nat /\ flen \in Nat
        /\ ptr < block_size * num_blocks + block_size
        /\ block_size * num_blocks \in Nat /\ block_size \in Nat
    BY <2>1, <2>2, DriverFacts DEF Basic, Counting
  <2>4. CASE pc \in {"image_dcmi", "image_wait", "image_stop"}
    <3>1. num_blocks = DP!OpenBlocks /\ block_size = OpenBlockWords
      BY <2>1, <2>4, SameDriver DEF Basic, Control, JpegGeometry
    <3>2. DP!OpenBlocks \in Nat /\ OpenBlockWords * (DP!OpenBlocks + 1) <= BufWords
      BY CameraAssumption, DP!OpenGeometry
    <3>3. OpenBlockWords * (DP!OpenBlocks + 1) = OpenBlockWords * DP!OpenBlocks + OpenBlockWords
      BY <3>2, CameraAssumption, DP!NextBlock
    <3> QED
      BY <2>3, <3>1, <3>2, <3>3, CameraAssumption
  <2>5. CASE pc \in {"rgb_dcmi", "rgb_clear", "rgb_wait"}
    <3>1. written + (flen - fpos) <= ImageWords
      BY <2>1, <2>2, <2>5 DEF Room, Coming, Undisturbed, RgbSteps
    <3>2. written < ImageWords
      BY <2>2, <2>3, <3>1, CameraAssumption
    <3>3. IsrTimely /\ DP!Splits # {} /\ ImageWords <= BufWords
      BY SameDriver DEF CodeSizes
    <3>4. block_size * num_blocks = ImageWords
      BY <2>1, <2>5, <3>3, CameraAssumption, SameDriver, DP!RgbGeometry
      DEF Basic, Control, RgbGeometry
    <3>5. ptr < ImageWords
      BY <2>1, <2>2, <3>2, <3>3, <3>4, CameraAssumption, DP!StoredInImage
    <3> QED
      BY <2>3, <3>3, <3>5, CameraAssumption
  <2> QED
    BY <2>1, <2>2, <2>4, <2>5 DEF Basic, Quiet, Running
<1> HIDE DEF SInv
<1> QED
  BY <1>1, <1>2, <1>3, Invariance, PTL DEF Spec, StoresInBuffer

(***************************************************************************)
(* A shell whose user types only cam_init and image.                       *)
(***************************************************************************)

\* Then no RGB snapshot is ever given up.
LEMMA JpegOnly ==
  ASSUME CodeSizes, "image_rgb" \notin Commands
  PROVE  Spec => [](~rgbTimedOut /\ CInv)
<1>1. Init => ~rgbTimedOut
  BY DEF Init
<1>2. CInv /\ ~rgbTimedOut /\ [Next]_vars => ~rgbTimedOut'
  <2> SUFFICES ASSUME CInv, ~rgbTimedOut, [Next]_vars PROVE ~rgbTimedOut'
    OBVIOUS
  <2>1. pc # "rgb_wait"
    BY DEF CInv, Basic, Control, RgbSteps
  <2> QED
    BY <2>1, EnvironmentEffect, ArmEffect
    DEF Next, vars, history, Shell, cmd_cam_init, cmd_image, cmd_image_rgb, Command,
        ClearBuffer, OV5640_InitDMA, OV5640_InitDMA_RGB, OV5640_InitDCMI,
        OV5640_InitDCMI_RGB, InitDCMI, WaitForCapture, StopTransfer, SnapshotResult,
        ClearFlag, WaitForSampling, CheckFs, FileWritten, Goto
<1> QED
  BY <1>1, <1>2, Invariance, PTL DEF Spec

\* The camera commands and the driver keep their state in range.
THEOREM TypeCorrect ==
  ASSUME CodeSizes, "image_rgb" \notin Commands
  PROVE  Spec => []TypeOK
<1>1. ~rgbTimedOut /\ CInv => TypeOK
  <2> SUFFICES ASSUME Basic PROVE TypeOK
    BY DEF CInv
  <2>1. Dma!TypeOK
    BY SameDriver DEF Basic, DP!DInv, DP!IInv
  <2> QED
    BY <2>1 DEF Basic, Flags, Counting, Words, Control, TypeOK
<1> QED
  BY <1>1, JpegOnly, PTL

\* The firmware halts only for a hardware error or for a JPEG frame that has
\* used up its share of the buffer (dcmi_dma.c 99).
THEOREM HaltsOnlyForErrors ==
  ASSUME CodeSizes, "image_rgb" \notin Commands
  PROVE  Spec => []HaltMeansError
<1>1. ~rgbTimedOut /\ CInv => HaltMeansError
  <2> SUFFICES ASSUME Basic, halted PROVE HaltMeansError
    BY DEF CInv, HaltMeansError
  <2>1. pc \in JpegGeometry
    BY DEF Basic, Quiet, Control, Running, RgbSteps, JpegGeometry
  <2> QED
    BY <2>1 DEF Basic, Control, Halting, HaltMeansError
<1> QED
  BY <1>1, JpegOnly, PTL

\* The commands keep the driver's contract: seen from the driver, the system
\* is a behaviour of its specification.
THEOREM ContractKept ==
  ASSUME CodeSizes, "image_rgb" \notin Commands
  PROVE  Spec => DmaContract
<1>1. Init => Dma!Init
  BY DEF Init
<1>2. ~rgbTimedOut /\ CInv /\ [Next]_vars => [Dma!Next]_(Dma!vars)
  BY KeepsContract DEF CInv, Basic
<1> QED
  BY <1>1, <1>2, JpegOnly, PTL DEF Spec, DmaContract, Dma!Spec
=============================================================================
