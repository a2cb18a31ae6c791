------------------------------- MODULE Camera ------------------------------
(***************************************************************************)
(* The capture path of the firmware: the shell commands cam_init, image    *)
(* and image_rgb (main.c), the snapshot routines behind them (ov5640.c),   *)
(* the DCMI camera interface and the camera, composed with the DMA driver. *)
(*                                                                         *)
(* The shell thread runs one command at a time and is a sequence of steps  *)
(* between the places where it blocks or prints; the camera, the stream    *)
(* and its interrupt interleave with all of them.  Buffer contents are     *)
(* tags: word p of frame f is <<f, p>>.                                    *)
(***************************************************************************)
EXTENDS Integers, Sequences, FiniteSetsExt

CONSTANTS
  BufWords, ImageWords, MinBlockWords, MaxBlockWords, OpenBlockWords,
  MaxWords, IsrTimely,   \* see DcmiDma
  Commands,              \* the camera commands typed at the shell
  MaxJpegWords,          \* bound: longest JPEG frame
  MaxFrames,             \* bound: frames the camera sends
  HwErrors,              \* DMA bus and FIFO errors happen
  Overruns               \* memory contention can overrun the DCMI FIFO

ASSUME CameraAssumption ==
  /\ BufWords \in Nat /\ ImageWords \in Nat \ {0}
  /\ MinBlockWords \in Nat \ {0} /\ MaxBlockWords \in Nat
  /\ OpenBlockWords \in 1 .. BufWords
  /\ MaxWords \in Nat
  /\ IsrTimely \in BOOLEAN
  /\ Commands \subseteq {"cam_init", "image", "image_rgb"}
  /\ MaxJpegWords \in Nat /\ MaxFrames \in Nat
  /\ HwErrors \in BOOLEAN /\ Overruns \in BOOLEAN

VARIABLES
  num_blocks, block_size, blocks_done, stream_control_register,
  dcmi_dma_words_received, phase, samplingFinished, halted, isr, en, dbm, ct,
  m0ar, m1ar, ndtr, reload, ptr, tcif, errif, written,  \* see DcmiDma
  pc,        \* where the shell thread is
  captured,  \* the last snapshot returned true
  OV5640_ram_buffer, OV5640_ram_buffer_length,
  config,    \* the mode the camera's registers were last written for
  capture,   \* the CAPTURE bit of DCMI_CR
  passing,   \* the DCMI is passing the words of a frame on
  frame,     \* number of the last frame that started
  flen, fpos,    \* its length, and the words of it sent so far
  rgbTimedOut,   \* history: an RGB snapshot has timed out
  overrun,       \* history: the FIFO overran since the last arm
  lateFrame,     \* history: a CAPTURE bit left set by an earlier snapshot let
                 \* words of a frame in before this snapshot set its own
  dmaFault       \* history: the stream has seen a hardware error

Dma == INSTANCE DcmiDma

dmaVars    == <<num_blocks, block_size, blocks_done, stream_control_register,
                dcmi_dma_words_received, phase, samplingFinished, halted, isr,
                en, dbm, ct, m0ar, m1ar, ndtr, reload, ptr, tcif, errif,
                written>>
bufVars    == <<OV5640_ram_buffer, OV5640_ram_buffer_length>>
cameraVars == <<config, capture, passing, frame, flen, fpos>>
history    == <<rgbTimedOut, overrun, lateFrame, dmaFault>>
vars == <<dmaVars, pc, captured, bufVars, cameraVars, history>>

Zero == <<0, 0>>
NoCameraFound == <<-1, 0>>
Addresses == 0 .. BufWords - 1

\* Commands, and the steps of the two that capture an image.
ImageSteps == {"image", "image_init", "image_arm", "image_dcmi", "image_wait",
               "image_stop", "image_done", "image_check", "image_write"}
RgbSteps == {"rgb_init", "rgb_arm", "rgb_dcmi", "rgb_clear", "rgb_wait",
             "rgb_check", "rgb_write"}

(***************************************************************************)
(* The camera and the DCMI (external).                                     *)
(***************************************************************************)

FrameLengths == IF config = "rgb" THEN {ImageWords} ELSE 1 .. MaxJpegWords

\* In snapshot mode the DCMI waits for the start of a frame.
FrameStart ==
  /\ capture /\ ~passing /\ config # "none" /\ frame < MaxFrames
  /\ passing' = TRUE
  /\ frame' = frame + 1
  /\ fpos' = 0
  /\ flen' \in FrameLengths
  /\ UNCHANGED <<dmaVars, pc, captured, bufVars, config, capture, history>>

\* A word goes through the stream into the buffer.
FrameWord ==
  /\ passing /\ fpos < flen /\ en
  /\ Dma!DmaItem \/ Dma!DmaBlockSwap \/ Dma!DmaBlockLast
  /\ fpos' = fpos + 1
  /\ OV5640_ram_buffer' = [a \in Addresses |->
        IF a = ptr THEN <<frame, fpos>> ELSE OV5640_ram_buffer[a]]
  /\ UNCHANGED <<pc, captured, OV5640_ram_buffer_length, config, capture,
                 passing, frame, flen, history>>

\* Nobody takes the words: the FIFO overruns and is reset, the rest of the
\* frame is dropped and the DCMI waits for the next one.
FifoOverrun ==
  /\ passing /\ fpos < flen
  /\ ~en \/ Overruns
  /\ passing' = FALSE
  /\ overrun' = (overrun \/ en)
  /\ UNCHANGED <<dmaVars, pc, captured, bufVars, config, capture, frame, flen,
                 fpos, rgbTimedOut, lateFrame, dmaFault>>

\* The end of the frame clears CAPTURE.
FrameEnd ==
  /\ passing /\ fpos = flen
  /\ passing' = FALSE
  /\ capture' = FALSE
  /\ UNCHANGED <<dmaVars, pc, captured, bufVars, config, frame, flen, fpos,
                 history>>

StreamError ==
  /\ HwErrors
  /\ Dma!DmaError
  /\ dmaFault' = TRUE
  /\ UNCHANGED <<pc, captured, bufVars, cameraVars, rgbTimedOut, overrun,
                 lateFrame>>

Interrupt ==
  /\ Dma!Isr
  /\ UNCHANGED <<pc, captured, bufVars, cameraVars, history>>

Environment == FrameStart \/ FrameWord \/ FifoOverrun \/ FrameEnd
               \/ StreamError \/ Interrupt

(***************************************************************************)
(* The shell thread.                                                       *)
(***************************************************************************)

Goto(from, to) == Dma!ThreadRuns /\ pc = from /\ pc' = to

\* Powering the camera up resets it: the frame it was sending ends here.  The
\* results of the register writes are ignored, so a camera that does not answer
\* is left without a mode.
TransmitConfig(mode) ==
  /\ config' \in {mode, "none"}
  /\ flen' = IF passing THEN fpos ELSE flen
  /\ UNCHANGED <<capture, passing, frame, fpos>>

\* Arming the stream starts a new transfer.
Arm ==
  /\ Dma!ProgramAndArm
  /\ overrun' = FALSE
  /\ lateFrame' = FALSE
  /\ UNCHANGED <<captured, bufVars, cameraVars, rgbTimedOut, dmaFault>>

\* OV5640_InitDCMI and OV5640_InitDCMI_RGB: assigning DCMI_CR clears ENABLE,
\* which drops a frame in progress; then ENABLE and CAPTURE are set.
InitDCMI ==
  /\ passing' = FALSE
  /\ capture' = TRUE
  /\ lateFrame' = (written > 0)
  /\ UNCHANGED <<dmaVars, captured, bufVars, config, frame, flen, fpos,
                 rgbTimedOut, overrun, dmaFault>>

cmd_cam_init ==
  /\ "cam_init" \in Commands
  /\ Goto("shell", "shell")
  /\ TransmitConfig("jpeg")
  /\ UNCHANGED <<dmaVars, captured, bufVars, history>>

cmd_image ==
  /\ "image" \in Commands
  /\ Goto("shell", "image")
  /\ UNCHANGED <<dmaVars, captured, bufVars, cameraVars, history>>

\* Slip: the memset is left out.
KeepBuffer ==
  /\ Goto("image", "image_init")
  /\ UNCHANGED <<dmaVars, captured, bufVars, cameraVars, history>>

\* OV5640_Snapshot2RAM clears the whole buffer first.
ClearBuffer ==
  /\ Goto("image", "image_init")
  /\ OV5640_ram_buffer' = [a \in Addresses |-> Zero]
  /\ UNCHANGED <<dmaVars, captured, OV5640_ram_buffer_length, cameraVars,
                 history>>

OV5640_InitDMA ==
  \/ /\ Goto("image_init", "image_arm")
     /\ Dma!dcmi_dma_init_open_ended
     /\ UNCHANGED <<captured, bufVars, cameraVars, history>>
  \/ /\ Goto("image_arm", "image_dcmi")
     /\ Arm

OV5640_InitDCMI ==
  /\ Goto("image_dcmi", "image_wait")
  /\ InitDCMI

\* Slip: the wait has no time limit.
WaitForCaptureForever ==
  /\ Goto("image_wait", "image_stop")
  /\ ~capture
  /\ captured' = TRUE
  /\ UNCHANGED <<dmaVars, bufVars, cameraVars, history>>

\* The wait ends when CAPTURE is clear, or after five seconds.
WaitForCapture ==
  /\ Goto("image_wait", "image_stop")
  /\ captured' = ~capture
  /\ UNCHANGED <<dmaVars, bufVars, cameraVars, history>>

StopTransfer ==
  /\ Goto("image_stop", "image_done")
  /\ Dma!dcmi_dma_open_ended_stop
  /\ OV5640_ram_buffer_length' = dcmi_dma_words_received'
  /\ UNCHANGED <<captured, OV5640_ram_buffer, cameraVars, history>>

\* The trailing zeros of a captured frame are cut off; a placeholder image
\* takes the place of one that was not captured.
SnapshotResult ==
  /\ Goto("image_done", "image_check")
  /\ \/ /\ captured
        /\ OV5640_ram_buffer_length' =
             Max({0} \cup {n \in 1 .. OV5640_ram_buffer_length :
                              OV5640_ram_buffer[n - 1] # Zero})
        /\ UNCHANGED OV5640_ram_buffer
     \/ /\ ~captured
        /\ OV5640_ram_buffer' =
             [OV5640_ram_buffer EXCEPT ![0] = NoCameraFound]
        /\ OV5640_ram_buffer_length' = 1
  /\ UNCHANGED <<dmaVars, captured, cameraVars, history>>

\* cmd_image gives up without a file system and otherwise writes the file and
\* starts over; fs_ready belongs to the main thread, so either may happen.
CheckFs ==
  /\ \/ Goto("image_check", "shell") \/ Goto("image_check", "image_write")
     \/ Goto("rgb_check", "shell") \/ Goto("rgb_check", "rgb_write")
  /\ UNCHANGED <<dmaVars, captured, bufVars, cameraVars, history>>

\* write_jpeg or write_rgb has returned.
FileWritten ==
  /\ Goto("image_write", "image") \/ Goto("rgb_write", "shell")
  /\ UNCHANGED <<dmaVars, captured, bufVars, cameraVars, history>>

\* OV5640_init_RGB writes the camera's registers before it arms the stream.
cmd_image_rgb ==
  /\ "image_rgb" \in Commands
  /\ Goto("shell", "rgb_init")
  /\ TransmitConfig("rgb")
  /\ UNCHANGED <<dmaVars, captured, bufVars, history>>

OV5640_InitDMA_RGB ==
  \/ /\ Goto("rgb_init", "rgb_arm")
     /\ Dma!dcmi_dma_init
     /\ UNCHANGED <<captured, bufVars, cameraVars, history>>
  \/ /\ Goto("rgb_arm", "rgb_dcmi")
     /\ Arm

OV5640_InitDCMI_RGB ==
  /\ Goto("rgb_dcmi", "rgb_clear")
  /\ InitDCMI

\* Only now is samplingFinished cleared.
ClearFlag ==
  /\ Goto("rgb_clear", "rgb_wait")
  /\ Dma!ClearSamplingFinished
  /\ UNCHANGED <<captured, bufVars, cameraVars, history>>

\* The wait ends with samplingFinished; the clock is read again afterwards, so
\* a finished frame may still count as timed out.  Nothing is stopped then.
WaitForSampling ==
  /\ Goto("rgb_wait", "rgb_check")
  /\ \/ samplingFinished /\ captured' = TRUE /\ UNCHANGED rgbTimedOut
     \/ captured' = FALSE /\ rgbTimedOut' = TRUE
  /\ UNCHANGED <<dmaVars, bufVars, cameraVars, overrun, lateFrame, dmaFault>>

Shell == cmd_cam_init \/ cmd_image \/ cmd_image_rgb

Command ==
  \/ ClearBuffer \/ OV5640_InitDMA \/ OV5640_InitDCMI \/ WaitForCapture
  \/ StopTransfer \/ SnapshotResult
  \/ OV5640_InitDMA_RGB \/ OV5640_InitDCMI_RGB \/ ClearFlag \/ WaitForSampling
  \/ CheckFs \/ FileWritten

Init ==
  /\ Dma!Init
  /\ pc = "shell" /\ captured = FALSE
  /\ OV5640_ram_buffer = [a \in Addresses |-> Zero]
  /\ OV5640_ram_buffer_length = 0
  /\ config = "none" /\ capture = FALSE /\ passing = FALSE
  /\ frame = 0 /\ flen = 0 /\ fpos = 0
  /\ rgbTimedOut = FALSE /\ overrun = FALSE
  /\ lateFrame = FALSE /\ dmaFault = FALSE

Next == Environment \/ Shell \/ Command

\* Interrupts are served and a command that was started runs on.  The camera,
\* the user and hardware errors are under no obligation.
Fairness == WF_vars(Interrupt) /\ WF_vars(Command)

Spec == Init /\ [][Next]_vars /\ Fairness

(***************************************************************************)
(* Properties.                                                             *)
(***************************************************************************)

TypeOK ==
  /\ Dma!TypeOK
  /\ pc \in {"shell"} \cup ImageSteps \cup RgbSteps
  /\ captured \in BOOLEAN
  /\ \A a \in Addresses : OV5640_ram_buffer[a][1] \in -1 .. MaxFrames
  /\ OV5640_ram_buffer_length \in 0 .. BufWords
  /\ config \in {"none", "jpeg", "rgb"}
  /\ capture \in BOOLEAN /\ passing \in BOOLEAN
  /\ frame \in 0 .. MaxFrames /\ fpos \in 0 .. flen
  /\ rgbTimedOut \in BOOLEAN /\ overrun \in BOOLEAN
  /\ lateFrame \in BOOLEAN /\ dmaFault \in BOOLEAN

\* The first n words of the buffer are those of the last frame.
HoldsFrame(n) == \A a \in 0 .. n - 1 : OV5640_ram_buffer[a] = <<frame, a>>

\* A snapshot that reports success leaves exactly one frame in the buffer,
\* from its first word to its last, and the JPEG snapshot its exact length
\* (ov5640.c 1690-1705, 1753-1775).
CapturedWholeFrame ==
  /\ captured /\ pc \in {"image_check", "image_write"} =>
       OV5640_ram_buffer_length = flen /\ HoldsFrame(flen)
  /\ captured /\ pc \in {"rgb_check", "rgb_write"} => HoldsFrame(ImageWords)

\* The same, as long as the DCMI FIFO did not overrun, no RGB snapshot was
\* given up with its transfer still running, and no frame came in through a
\* CAPTURE bit that a timed-out snapshot had left set.
WholeFrame == overrun \/ rgbTimedOut \/ lateFrame \/ CapturedWholeFrame

\* The image does not change under write_jpeg or write_rgb: the transfer that
\* delivered it is over (main.c 200-212, 274-284).  Nothing is said once an RGB
\* snapshot has been given up with its transfer still running: that stream goes
\* on storing (ov5640.c 1697-1705).
BufferStable ==
  [][(pc \in {"image_write", "rgb_write"} /\ pc' = pc /\ ~rgbTimedOut)
       => UNCHANGED bufVars]_vars

\* The DMA stores nothing outside the buffer although the buffer is one RGB
\* image long and the stream already points behind it while the interrupt of
\* the last block is pending (dcmi_dma.c 52-70, ov5640.c 2168): a JPEG frame
\* never, and an RGB frame unless a part of another one came in before it.
StoresInBuffer ==
  [][FrameWord /\ ~rgbTimedOut /\ (pc \in RgbSteps => ~overrun /\ ~lateFrame)
       => ptr < BufWords]_vars

\* The firmware halts only for a hardware error or when an open-ended
\* transfer has used up its share of the buffer: "We are in fact out of
\* buffer" (dcmi_dma.c 99).
HaltMeansError ==
  halted => dmaFault \/ written >= OpenBlockWords * Dma!OpenBlocks

\* The commands keep the driver's contract: the DMA driver and its stream
\* behave as specified, whatever the camera does.
DmaContract == Dma!Spec

\* A snapshot ends, also when the camera sends nothing, the stream has stopped
\* or the FIFO keeps overrunning (ov5640.c 1694-1697, 1745-1752).
SnapshotEnds ==
  /\ pc = "image" ~> pc = "image_check" \/ halted
  /\ pc = "rgb_init" ~> pc = "rgb_check" \/ halted
=============================================================================
