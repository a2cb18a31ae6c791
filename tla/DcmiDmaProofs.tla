--------------------------- MODULE DcmiDmaProofs ---------------------------
(***************************************************************************)
(* Proofs about the camera DMA driver, for every buffer, image and block   *)
(* size and for every length of the incoming frame.                        *)
(***************************************************************************)
EXTENDS DcmiDma, NaturalsInduction, WellFoundedInduction, TLAPS

(***************************************************************************)
(* The inductive invariant.                                                *)
(***************************************************************************)

\* One if the interrupt of a completed block is still pending.
Pending == IF tcif THEN 1 ELSE 0

\* Between the two halves of an init call nothing moves.
QuietInit == phase # "idle" => ~en /\ ~tcif

\* The geometry leaves room for the block behind the last one.
Geometry ==
  /\ OverAllocated => block_size * (num_blocks + 1) <= BufWords
  /\ phase = "idle" => reload = block_size
  /\ phase = "idle" => (stream_control_register = "double" <=> num_blocks > 1)
  /\ ndtr <= reload

\* Where an enabled stream writes.
Targets ==
  en => /\ ndtr > 0
        /\ ptr + ndtr <= Target(ct) + reload
        /\ ~dbm => ct = 0 /\ m0ar = 0
        /\ dbm => /\ num_blocks > 1
                  /\ m0ar <= block_size * num_blocks
                  /\ m1ar <= block_size * num_blocks
                  /\ ~halted => blocks_done < num_blocks

\* The driver never counts a block that is not full.
Counted ==
  phase = "idle" =>
     written + ndtr >= block_size * (blocks_done + Pending) + reload

\* With timely interrupts the driver's count and the stream agree.
InStep ==
  IsrTimely /\ en /\ ~halted =>
     /\ ptr = written
     /\ ptr + ndtr = Target(ct) + reload
     /\ dbm => Target(ct) = block_size * (blocks_done + Pending)
     /\ dbm /\ ~tcif => Target(1 - ct) = block_size * (blocks_done + 1)

\* The part of the type invariant that is about truth values.
Flags ==
  /\ samplingFinished \in BOOLEAN /\ halted \in BOOLEAN
  /\ en \in BOOLEAN /\ dbm \in BOOLEAN
  /\ tcif \in BOOLEAN /\ errif \in BOOLEAN

IInv == TypeOK /\ QuietInit /\ Geometry /\ Targets /\ Counted /\ InStep

(***************************************************************************)
(* Arithmetic.                                                             *)
(***************************************************************************)

\* The address of the block behind block i.
LEMMA NextBlock ==
  ASSUME NEW b \in Nat, NEW i \in Nat
  PROVE  /\ b * (i + 1) = b * i + b
         /\ b * (i + 2) = b * (i + 1) + b
         /\ b * i \in Nat /\ b * (i + 1) \in Nat /\ b * (i + 2) \in Nat
OBVIOUS

\* Blocks are laid out in ascending order.
LEMMA BlocksAscend ==
  ASSUME NEW b \in Nat, NEW i \in Nat, NEW j \in Nat, i <= j
  PROVE  b * i <= b * j
<1>1. PICK d \in Nat : j = i + d
  OBVIOUS
<1>2. b * j = b * i + b * d
  BY <1>1
<1>3. b * d \in Nat /\ b * i \in Nat
  OBVIOUS
<1> QED
  BY <1>2, <1>3

\* The open-ended geometry keeps one block in reserve.
LEMMA OpenGeometry ==
  /\ OpenBlocks \in Nat
  /\ OpenBlockWords * (OpenBlocks + 1) <= BufWords
<1> DEFINE q == BufWords \div OpenBlockWords
<1>1. /\ q \in Int
      /\ OpenBlockWords * q <= BufWords
      /\ BufWords < OpenBlockWords * q + OpenBlockWords
  BY SizesAssumption
<1>2. q >= 1
  <2> SUFFICES ASSUME q <= 0 PROVE FALSE
    BY <1>1
  <2>1. OpenBlockWords * q <= 0
    BY <1>1, SizesAssumption
  <2> QED
    BY <1>1, <2>1, SizesAssumption
<1> QED
  BY <1>1, <1>2 DEF OpenBlocks

\* The search of dcmi_dma_init ends at a split whenever there is one.
LEMMA RgbGeometry ==
  ASSUME Splits # {}
  PROVE  /\ RgbBlocks \in Splits
         /\ RgbBlocks \in Nat /\ RgbBlockWords \in Nat
         /\ RgbBlockWords * RgbBlocks = ImageWords
<1>1. Splits \subseteq Nat
  BY DEF Splits
<1>2. IsWellFoundedOn(OpToRel(<, Nat), Nat)
  BY NatLessThanWellFounded
<1>3. PICK n \in Splits : \A m \in Splits : ~(<<m, n>> \in OpToRel(<, Nat))
  BY <1>1, <1>2, WFMin, Zenon
<1>4. \A m \in Splits : n <= m
  <2>1. \A m \in Splits : ~(m < n)
    BY <1>1, <1>3, Zenon DEF OpToRel
  <2> QED
    BY <1>1, <2>1
<1>5. RgbBlocks \in Splits
  BY <1>4 DEF RgbBlocks, Min
<1> QED
  BY <1>5, SizesAssumption DEF Splits, RgbBlockWords

(***************************************************************************)
(* The invariant is inductive: one lemma for each kind of step.            *)
(***************************************************************************)

\* The reset state of dcmi_dma.c's statics satisfies the invariant.
LEMMA InitIInv == Init => IInv
<1> SUFFICES ASSUME Init PROVE IInv
  OBVIOUS
<1>1. TypeOK
  <2>1. Flags
    BY Zenon DEF Init, Flags
  <2> QED
    BY <2>1, SizesAssumption DEF Init, TypeOK, Modes, Handlers, Flags
<1>2. QuietInit
  BY DEF Init, QuietInit
<1>3. Geometry
  BY SizesAssumption DEF Init, Geometry
<1>4. Targets /\ InStep
  BY DEF Init, Targets, InStep
<1>5. Counted
  BY DEF Init, Counted, Pending
<1> QED
  BY <1>1, <1>2, <1>3, <1>4, <1>5 DEF IInv

\* The stream stores a word that does not fill its block.
LEMMA ItemStep == IInv /\ DmaItem => IInv'
<1> SUFFICES ASSUME IInv, DmaItem PROVE IInv'
  OBVIOUS
<1> USE DEF DmaItem, DmaTransfer, driverVars, appVars
<1> USE SizesAssumption DEF IInv
<1>1. TypeOK'
  <2>1. Flags'
    BY Zenon DEF TypeOK, Flags
  <2> QED
    BY <2>1 DEF TypeOK, Flags
<1>2. QuietInit'
  BY DEF QuietInit
<1>3. Geometry'
  BY DEF Geometry, TypeOK
<1>4. Targets'
  BY DEF Targets, TypeOK, Target
<1>5. Counted'
  BY DEF Counted, TypeOK, Pending
<1>6. InStep'
  BY DEF InStep, TypeOK, Pending, Target
<1> QED
  BY <1>1, <1>2, <1>3, <1>4, <1>5, <1>6

\* A full block: the stream swaps targets and raises its interrupt.
LEMMA SwapStep == IInv /\ DmaBlockSwap => IInv'
<1> SUFFICES ASSUME IInv, DmaBlockSwap PROVE IInv'
  OBVIOUS
<1> USE DEF DmaBlockSwap, DmaBlock, DmaTransfer, driverVars, appVars
<1> USE SizesAssumption DEF IInv
<1>1. TypeOK'
  <2>1. Flags'
    BY Zenon DEF TypeOK, Flags
  <2> QED
    BY <2>1 DEF TypeOK, Flags, Target
<1>2. QuietInit'
  BY DEF QuietInit
<1>3. Geometry'
  BY DEF Geometry, TypeOK
<1>4. phase = "idle" /\ reload = block_size
  BY DEF QuietInit, Geometry
<1>5. /\ block_size * (blocks_done + 1) = block_size * blocks_done + block_size
      /\ block_size * (blocks_done + 1) \in Nat
      /\ block_size * blocks_done \in Nat
  BY NextBlock DEF TypeOK
<1>6. Target(ct)' = Target(1 - ct) /\ Target(1 - ct) \in Nat
  BY DEF TypeOK, Target
<1>7. Targets'
  <2>1. ndtr' > 0 /\ ptr' + ndtr' <= Target(ct)' + reload'
    BY <1>6 DEF Targets, Geometry, TypeOK
  <2> QED
    BY <2>1 DEF Targets, TypeOK
<1>8. Counted'
  <2>1. written + 1 >= block_size * (blocks_done + Pending) + block_size
    BY <1>4 DEF Counted
  <2>2. block_size * (blocks_done + Pending) >= block_size * blocks_done
        /\ block_size * (blocks_done + Pending) \in Nat
    BY <1>5 DEF Pending, TypeOK
  <2>3. written + 1 >= block_size * (blocks_done + 1)
    BY <1>5, <2>1, <2>2 DEF TypeOK
  <2> QED
    BY <1>4, <1>5, <2>3 DEF Counted, Pending, TypeOK
<1>9. InStep'
  <2> SUFFICES ASSUME IsrTimely, ~halted PROVE InStep'
    BY DEF InStep
  <2>1. /\ ptr = written /\ ptr + 1 = Target(ct) + block_size
        /\ Target(ct) = block_size * blocks_done
        /\ Target(1 - ct) = block_size * (blocks_done + 1)
    BY <1>4 DEF InStep, Pending, TypeOK
  <2>2. ptr' = written' /\ ptr' = block_size * (blocks_done + 1)
    BY <1>5, <2>1 DEF TypeOK
  <2>3. Pending' = 1
    BY DEF Pending
  <2> QED
    BY <1>4, <1>5, <1>6, <2>1, <2>2, <2>3 DEF InStep, TypeOK
<1> QED
  BY <1>1, <1>2, <1>3, <1>7, <1>8, <1>9

\* The only block of a transfer without double buffering.
LEMMA LastStep == IInv /\ DmaBlockLast => IInv'
<1> SUFFICES ASSUME IInv, DmaBlockLast PROVE IInv'
  OBVIOUS
<1> USE DEF DmaBlockLast, DmaBlock, DmaTransfer, driverVars, appVars
<1> USE SizesAssumption DEF IInv
<1>1. TypeOK'
  <2>1. Flags'
    BY Zenon DEF TypeOK, Flags
  <2> QED
    BY <2>1 DEF TypeOK, Flags
<1>2. phase = "idle" /\ reload = block_size
  BY DEF QuietInit, Geometry
<1>3. QuietInit' /\ Geometry'
  BY <1>2 DEF QuietInit, Geometry, TypeOK
<1>4. Targets' /\ InStep'
  BY DEF Targets, InStep
<1>5. Counted'
  <2>1. written + 1 >= block_size * (blocks_done + Pending) + block_size
    BY <1>2 DEF Counted
  <2>2. /\ block_size * (blocks_done + 1) = block_size * blocks_done + block_size
        /\ block_size * (blocks_done + 1) \in Nat
        /\ block_size * blocks_done \in Nat
    BY NextBlock DEF TypeOK
  <2>3. block_size * (blocks_done + Pending) >= block_size * blocks_done
        /\ block_size * (blocks_done + Pending) \in Nat
    BY <2>2 DEF Pending, TypeOK
  <2>4. written + 1 >= block_size * (blocks_done + 1)
    BY <2>1, <2>2, <2>3 DEF TypeOK
  <2> QED
    BY <1>2, <2>2, <2>4 DEF Counted, Pending, TypeOK
<1> QED
  BY <1>1, <1>3, <1>4, <1>5

\* Errors of the stream, seen or not yet seen by the driver.
LEMMA ErrorStep ==
  ASSUME IInv, NEW h, DmaError \/ IsrError(h)
  PROVE  IInv'
<1> USE DEF IInv
<1>1. CASE DmaError
  <2> USE <1>1 DEF DmaError, driverVars, appVars
  <2>1. Flags'
    BY Zenon DEF TypeOK, Flags
  <2>2. TypeOK'
    BY <2>1 DEF TypeOK, Flags
  <2>3. QuietInit' /\ Geometry'
    BY DEF QuietInit, Geometry
  <2>4. Targets'
    BY DEF Targets, Target
  <2>5. Counted' /\ InStep'
    BY DEF Counted, InStep, Pending, Target
  <2> QED
    BY <2>2, <2>3, <2>4, <2>5
<1>2. CASE IsrError(h)
  <2> USE <1>2 DEF IsrError, IsrEntry, dma_error, driverVars
  <2>1. Flags'
    BY Zenon DEF TypeOK, Flags
  <2>2. TypeOK'
    BY <2>1 DEF TypeOK, Flags
  <2>3. QuietInit' /\ Geometry'
    BY DEF QuietInit, Geometry
  <2>4. Targets'
    BY DEF Targets, Target
  <2>5. InStep'
    BY DEF InStep
  <2>6. Counted'
    <3>1. block_size * (blocks_done + 1) = block_size * blocks_done + block_size
          /\ block_size * blocks_done \in Nat
      BY NextBlock DEF TypeOK
    <3>2. block_size * (blocks_done + Pending)' <= block_size * (blocks_done + Pending)
      BY <3>1 DEF Pending, TypeOK
    <3> QED
      BY <3>1, <3>2, SizesAssumption DEF Counted, Pending, TypeOK
  <2> QED
    BY <2>2, <2>3, <2>4, <2>5, <2>6
<1> QED
  BY <1>1, <1>2

\* Either handler points the idle target at the block after next.
LEMMA RetargetStep ==
  ASSUME IInv, NEW h, IsrRetarget(h)
  PROVE  IInv'
<1> USE DEF IInv, IsrRetarget, IsrEntry, appVars
<1>1. phase = "idle"
  BY DEF QuietInit, TypeOK
<1>2. /\ block_size * (blocks_done + 2) \in Nat
      /\ block_size * (blocks_done + 1) \in Nat
  BY NextBlock DEF TypeOK
<1>3. TypeOK'
  <2>1. Flags'
    BY Zenon DEF TypeOK, Flags
  <2> QED
    BY <1>2, <2>1 DEF TypeOK, Flags
<1>4. QuietInit' /\ Geometry'
  BY <1>1 DEF QuietInit, Geometry
<1>5. Target(ct)' = Target(ct)
  BY DEF Target, TypeOK
<1>6. Target(1 - ct)' = block_size * (blocks_done + 2)
  BY DEF Target, TypeOK
<1>7. Targets'
  <2> SUFFICES ASSUME en PROVE Targets'
    BY DEF Targets
  <2>1. CASE dbm
    <3>1. num_blocks > 1 /\ blocks_done < num_blocks
      BY <2>1 DEF Targets
    <3>2. blocks_done + 2 <= num_blocks
      BY <3>1 DEF TypeOK
    <3>3. block_size * (blocks_done + 2) <= block_size * num_blocks
      BY <3>2, BlocksAscend DEF TypeOK
    <3>4. /\ m0ar' <= block_size * num_blocks
          /\ m1ar' <= block_size * num_blocks
      BY <2>1, <3>3 DEF Targets
    <3>5. blocks_done' < num_blocks'
      BY <3>2 DEF TypeOK
    <3> QED
      BY <2>1, <1>5, <3>1, <3>4, <3>5 DEF Targets
  <2>2. CASE ~dbm
    BY <2>2, <1>5 DEF Targets
  <2> QED
    BY <2>1, <2>2
<1>8. (blocks_done + Pending)' = blocks_done + Pending
  BY DEF Pending, TypeOK
<1>9. Counted'
  BY <1>8 DEF Counted
<1>10. InStep'
  <2> SUFFICES ASSUME IsrTimely, en PROVE InStep'
    BY DEF InStep
  <2>1. blocks_done' + 1 = blocks_done + 2
    BY DEF TypeOK
  <2>2. dbm => Target(1 - ct)' = block_size' * (blocks_done' + 1)
    BY <1>6, <2>1
  <2>3. dbm => Target(ct)' = block_size' * (blocks_done + Pending)'
    BY <1>5, <1>8 DEF InStep
  <2> QED
    BY <1>5, <2>2, <2>3 DEF InStep
<1> QED
  BY <1>3, <1>4, <1>7, <1>9, <1>10

\* The last block: the frame is reported, or the overrun is.
LEMMA EndStep == IInv /\ (ShuffleDone \/ OpenEndedOverrun) => IInv'
<1> SUFFICES ASSUME IInv, ShuffleDone \/ OpenEndedOverrun PROVE IInv'
  OBVIOUS
<1> USE DEF IInv, ShuffleDone, OpenEndedOverrun, IsrEntry, dma_avail, dma_error,
            dmaStreamDisable
<1>1. phase = "idle"
  BY DEF QuietInit, TypeOK
<1>2. TypeOK'
  <2>1. Flags'
    BY Zenon DEF TypeOK, Flags
  <2> QED
    BY <2>1 DEF TypeOK, Flags
<1>3. QuietInit' /\ Geometry'
  BY <1>1 DEF QuietInit, Geometry
<1>4. Targets'
  BY DEF Targets, Target
<1>5. (blocks_done + Pending)' = blocks_done + Pending
  BY DEF Pending, TypeOK
<1>6. Counted'
  BY <1>5 DEF Counted
<1>7. InStep'
  BY DEF InStep
<1> QED
  BY <1>2, <1>3, <1>4, <1>6, <1>7

\* Both init calls compute a geometry that fits, while the stream is idle.
LEMMA GeometryStep ==
  IInv /\ ~en /\ (dcmi_dma_init \/ dcmi_dma_init_open_ended) => IInv'
<1> SUFFICES ASSUME IInv, ~en, dcmi_dma_init \/ dcmi_dma_init_open_ended
             PROVE  IInv'
  OBVIOUS
<1> USE DEF IInv, ThreadRuns, appVars, streamVars
<1>1. /\ num_blocks' \in Nat /\ block_size' \in Nat
      /\ OverAllocated => block_size' * (num_blocks' + 1) <= BufWords
  <2>1. CASE dcmi_dma_init
    <3>1. RgbBlockWords * (RgbBlocks + 1) = ImageWords + RgbBlockWords
      BY <2>1, RgbGeometry, NextBlock DEF dcmi_dma_init
    <3> QED
      BY <2>1, <3>1, RgbGeometry DEF dcmi_dma_init, OverAllocated
  <2>2. CASE dcmi_dma_init_open_ended
    BY <2>2, OpenGeometry, SizesAssumption DEF dcmi_dma_init_open_ended
  <2> QED
    BY <2>1, <2>2
<1>2. /\ phase' \in Modes
      /\ UNCHANGED <<blocks_done, stream_control_register,
                     dcmi_dma_words_received, written>>
      /\ UNCHANGED <<samplingFinished, halted>>
      /\ UNCHANGED <<isr, en, dbm, ct, m0ar, m1ar, ndtr, reload, ptr, tcif,
                     errif>>
      /\ ~tcif
  BY DEF dcmi_dma_init, dcmi_dma_init_open_ended, Modes
<1>3. TypeOK'
  <2>1. Flags'
    BY <1>2, Zenon DEF TypeOK, Flags
  <2> QED
    BY <1>1, <1>2, <2>1 DEF TypeOK, Flags
<1>4. QuietInit'
  BY <1>2 DEF QuietInit
<1>5. phase' # "idle"
  BY <1>2 DEF Modes
<1>6. Geometry'
  BY <1>1, <1>2, <1>5 DEF Geometry
<1>7. Targets' /\ InStep' /\ Counted'
  BY <1>2, <1>5 DEF Targets, InStep, Counted
<1> QED
  BY <1>3, <1>4, <1>6, <1>7

\* Arming starts a transfer at block 0, with block 1 as the other target.
LEMMA ArmTargets ==
  ASSUME IInv, dcmi_dma_arm, UNCHANGED <<num_blocks, block_size>>,
         NEW items \in Nat, NEW size \in Nat, items <= size,
         ndtr' = items, reload' = size,
         stream_control_register' = "double" => num_blocks > 1
  PROVE  Targets'
<1> SUFFICES ASSUME en' PROVE Targets'
  BY DEF Targets
<1>1. ndtr' > 0 /\ ptr' + ndtr' <= Target(ct)' + reload'
  <2>1. ndtr' > 0
    BY Zenon DEF dcmi_dma_arm
  <2>2. ptr' = 0 /\ Target(ct)' = 0
    BY DEF dcmi_dma_arm, Target
  <2> QED
    BY <2>1, <2>2
<1>2. ~dbm' => ct' = 0 /\ m0ar' = 0
  BY DEF dcmi_dma_arm
<1>3. ASSUME dbm'
      PROVE  /\ num_blocks' > 1
             /\ m0ar' <= block_size' * num_blocks'
             /\ m1ar' <= block_size' * num_blocks'
             /\ blocks_done' < num_blocks'
  <2>1. num_blocks > 1 /\ blocks_done' = 0 /\ m0ar' = 0 /\ m1ar' = block_size
    BY <1>3 DEF dcmi_dma_arm
  <2>2. block_size * 1 <= block_size * num_blocks
    BY <2>1, BlocksAscend DEF IInv, TypeOK
  <2>3. block_size * num_blocks >= block_size
    BY <2>2 DEF IInv, TypeOK
  <2> QED
    BY <2>1, <2>3 DEF IInv, TypeOK
<1> QED
  BY <1>1, <1>2, <1>3 DEF Targets

\* Programming and arming the stream (dcmi_dma.c 149-165, 226-233).
LEMMA ArmStep == IInv /\ ProgramAndArm => IInv'
<1> SUFFICES ASSUME IInv, ProgramAndArm PROVE IInv'
  OBVIOUS
<1> USE DEF ProgramAndArm, ThreadRuns, appVars
<1>1. ~en /\ ~tcif /\ phase \in Modes
  BY DEF IInv, QuietInit, Modes
<1>2. ndtr' = block_size /\ reload' = block_size
  BY <1>1 DEF dmaStreamSetTransactionSize
<1>3. isr' \in {"none"} \cup Handlers
  BY <1>1 DEF dmaStreamAllocate, IInv, TypeOK, Handlers
<1>4. TypeOK'
  <2>1. Flags'
    BY Zenon DEF IInv, TypeOK, Flags, dcmi_dma_arm
  <2> QED
    BY <1>2, <1>3, <2>1, SizesAssumption
       DEF IInv, TypeOK, Flags, dcmi_dma_arm, Modes
<1>5. QuietInit'
  BY DEF QuietInit
<1>6. stream_control_register' = "double" <=> num_blocks > 1
  OBVIOUS
<1>7. Geometry'
  BY <1>2, <1>6 DEF IInv, TypeOK, Geometry
<1>8. Targets'
  BY <1>2, <1>6, ArmTargets DEF IInv, TypeOK
<1>9. block_size * 0 = 0 /\ block_size * (0 + 1) = block_size
  BY DEF IInv, TypeOK
<1>10. Counted'
  <2>1. Pending' = 0 /\ blocks_done' = 0 /\ written' = 0
    BY <1>1 DEF Pending, dcmi_dma_arm
  <2>2. block_size' * (blocks_done + Pending)' = 0 /\ block_size \in Nat
    BY <1>9, <2>1 DEF IInv, TypeOK
  <2> QED
    BY <1>2, <2>1, <2>2 DEF Counted
<1>11. InStep'
  <2>1. /\ ptr' = written' /\ ptr' + ndtr' = Target(ct)' + reload'
        /\ Target(ct)' = 0 /\ Target(1 - ct)' = block_size
    BY <1>2 DEF IInv, TypeOK, dcmi_dma_arm, Target
  <2>2. block_size' * (blocks_done + Pending)' = 0
    BY <1>1, <1>9 DEF dcmi_dma_arm, Pending
  <2>3. block_size' * (blocks_done + 1)' = block_size
    BY <1>1, <1>9 DEF dcmi_dma_arm
  <2> QED
    BY <2>1, <2>2, <2>3 DEF InStep
<1> QED
  BY <1>4, <1>5, <1>7, <1>8, <1>10, <1>11 DEF IInv

\* Stopping a transfer (dcmi_dma.c 206-223), and clearing samplingFinished.
LEMMA StopStep ==
  IInv /\ (dcmi_dma_open_ended_stop \/ ClearSamplingFinished) => IInv'
<1> SUFFICES ASSUME IInv, dcmi_dma_open_ended_stop \/ ClearSamplingFinished
             PROVE  IInv'
  OBVIOUS
<1> USE DEF IInv, dcmi_dma_open_ended_stop, ClearSamplingFinished, ThreadRuns,
            dmaStreamDisable, driverVars, appVars, streamVars
<1>1. TypeOK'
  <2>1. Flags'
    BY Zenon DEF TypeOK, Flags
  <2> QED
    BY <2>1 DEF TypeOK, Flags
<1>2. QuietInit' /\ Geometry'
  BY DEF QuietInit, Geometry
<1>3. Targets' /\ InStep' /\ Counted'
  BY DEF Targets, InStep, Counted, Pending, Target
<1> QED
  BY <1>1, <1>2, <1>3

\* Every step of the stream, its handlers and the threads keeps the invariant.
LEMMA Inductive == IInv /\ [Next]_vars => IInv'
<1> SUFFICES ASSUME IInv, [Next]_vars PROVE IInv'
  OBVIOUS
<1>1. CASE Hardware
  BY <1>1, ItemStep, SwapStep, LastStep, ErrorStep DEF Hardware
<1>2. CASE Isr
  BY <1>2, ErrorStep, RetargetStep, EndStep
     DEF Isr, dcmi_dma_shuffle_isr, dcmi_dma_shuffle_isr_open_ended
<1>3. CASE Client
  BY <1>3, GeometryStep, ArmStep, StopStep DEF Client
<1>4. CASE UNCHANGED vars
  <2> USE <1>4 DEF vars, driverVars, appVars, streamVars
  <2>1. TypeOK' /\ QuietInit' /\ Geometry'
    BY DEF IInv, TypeOK, QuietInit, Geometry
  <2>2. Targets' /\ Counted' /\ InStep'
    BY DEF IInv, Targets, Counted, InStep, Pending, Target
  <2> QED
    BY <2>1, <2>2 DEF IInv
<1> QED
  BY <1>1, <1>2, <1>3, <1>4 DEF Next

(***************************************************************************)
(* The theorems.                                                           *)
(***************************************************************************)

\* The invariant holds of every behaviour of the driver and its stream.
THEOREM Invariance == Spec => []IInv
<1> QED
  BY InitIInv, Inductive, PTL DEF Spec

\* Every variable of dcmi_dma.c and of the stream keeps its type.
THEOREM TypeCorrect == Spec => []TypeOK
<1>1. IInv => TypeOK
  BY DEF IInv
<1> QED
  BY <1>1, Invariance, PTL

\* Whatever the sizes are, an over-allocated buffer is never overrun: neither
\* late interrupts (dcmi_dma.c 52-70) nor the stream that dma_error's assertion
\* leaves enabled (dcmi_dma.c 100-102) store outside it.
THEOREM MemorySafety == Spec => []MemorySafe
<1>1. IInv => MemorySafe
  <2> SUFFICES ASSUME IInv, OverAllocated, en PROVE ptr < BufWords
    BY DEF MemorySafe
  <2> USE SizesAssumption DEF IInv
  <2>1. reload = block_size
    BY DEF QuietInit, Geometry
  <2>2. /\ block_size * (num_blocks + 1) = block_size * num_blocks + block_size
        /\ block_size * num_blocks \in Nat
    BY NextBlock DEF TypeOK
  <2>3. Target(ct) <= block_size * num_blocks /\ Target(ct) \in Nat
    BY <2>2 DEF Targets, Target, TypeOK
  <2>4. ptr + ndtr <= block_size * (num_blocks + 1) /\ ndtr > 0
    BY <2>1, <2>2, <2>3 DEF Targets, TypeOK
  <2>5. block_size * (num_blocks + 1) <= BufWords
    BY DEF Geometry
  <2> QED
    BY <2>2, <2>4, <2>5 DEF TypeOK
<1> QED
  BY <1>1, Invariance, PTL

\* With timely interrupts the items are stored one behind the other: the
\* retargeting of the idle target (dcmi_dma.c 48-70) neither skips nor repeats
\* a block.
THEOREM Contiguity == Spec => []Contiguous
<1>1. IInv => Contiguous
  BY DEF IInv, InStep, Contiguous
<1> QED
  BY <1>1, Invariance, PTL

\* The comment at dcmi_dma.c 49-50 holds whenever no interrupt is pending.
THEOREM CommentHolds == Spec => []BlockInTransfer
<1>1. IInv => BlockInTransfer
  <2> SUFFICES ASSUME IInv, IsrTimely, en, dbm, ~tcif, ~halted
               PROVE  /\ Target(ct) = block_size * blocks_done
                      /\ Target(1 - ct) = block_size * (blocks_done + 1)
    BY DEF BlockInTransfer
  <2>1. blocks_done + Pending = blocks_done
    BY DEF IInv, TypeOK, Pending
  <2> QED
    BY <2>1 DEF IInv, InStep
<1> QED
  BY <1>1, Invariance, PTL

\* dma_avail is called only when every block of the frame has been stored
\* (dcmi_dma.c 52-57), even if interrupts were merged.
THEOREM DoneNotEarly == Spec => NeverDoneEarly
<1>1. IInv /\ [Next]_vars =>
        [~samplingFinished /\ samplingFinished' =>
           written >= block_size * num_blocks]_vars
  <2> SUFFICES ASSUME IInv, [Next]_vars, ~samplingFinished, samplingFinished'
               PROVE  written >= block_size * num_blocks
    OBVIOUS
  <2>1. ShuffleDone
    BY Zenon DEF Next, Hardware, Isr, Client, DmaItem, DmaBlockSwap, DmaBlockLast,
       DmaBlock, DmaTransfer, DmaError, dcmi_dma_shuffle_isr,
       dcmi_dma_shuffle_isr_open_ended, IsrError, IsrRetarget, ShuffleDone,
       OpenEndedOverrun, dma_error, dcmi_dma_init, dcmi_dma_init_open_ended,
       ProgramAndArm, dcmi_dma_open_ended_stop,
       ClearSamplingFinished, appVars, vars
  <2>2. phase = "idle" /\ isr = "shuffle" /\ tcif
    BY <2>1 DEF ShuffleDone, IsrEntry, IInv, QuietInit, TypeOK
  <2>3. blocks_done + Pending = num_blocks
    BY <2>1, <2>2 DEF ShuffleDone, Pending
  <2>4. written + ndtr >= block_size * num_blocks + reload /\ ndtr <= reload
    BY <2>2, <2>3 DEF IInv, Counted, Geometry
  <2>5. block_size * num_blocks \in Nat
    BY NextBlock DEF IInv, TypeOK
  <2> QED
    BY <2>4, <2>5, SizesAssumption DEF IInv, TypeOK
<1> QED
  BY <1>1, Invariance, PTL DEF Spec, NeverDoneEarly

(***************************************************************************)
(* The length that a stop reports.  InStep speaks of an enabled stream     *)
(* only; a transfer that a bus error or an earlier stop has disabled can   *)
(* be stopped, too.                                                        *)
(***************************************************************************)

\* The blocks lie inside the buffer.
Fits == ImageWords <= BufWords => block_size * num_blocks <= BufWords

\* A timely transfer that is not over, enabled or not.
Underway ==
  IsrTimely /\ ~halted /\ phase = "idle" /\ blocks_done < num_blocks

\* Its items reach as far as the current target has been filled.
Progress ==
  Underway =>
    /\ dbm => /\ written + ndtr = Target(ct) + reload
              /\ Target(ct) = block_size * (blocks_done + Pending)
              /\ Target(1 - ct) =
                   block_size * (IF tcif THEN blocks_done ELSE blocks_done + 1)
    /\ ~dbm => /\ num_blocks = 1 /\ m0ar = 0 /\ m1ar = block_size
               /\ written <= block_size

\* The end of the data as a stop reports it.
HigherTarget == IF m1ar > m0ar THEN m1ar ELSE m0ar

\* A timely transfer ends with its last block, and then only the handler of a
\* frame of known size has ended it.
Finished ==
  IsrTimely /\ ~halted /\ phase = "idle" /\ num_blocks > 0 =>
    /\ blocks_done <= num_blocks
    /\ blocks_done = num_blocks =>
         /\ ~en /\ ~tcif /\ isr = "shuffle"
         /\ HigherTarget = block_size * num_blocks

DInv == IInv /\ Progress /\ Finished /\ Fits

\* The stream moves an item.
LEMMA HardwareProgress == IInv /\ Progress /\ Hardware => Progress'
<1> SUFFICES ASSUME IInv, Progress, Hardware, Underway' PROVE Progress'
  BY DEF Progress
<1> USE SizesAssumption
<1>1. /\ UNCHANGED <<num_blocks, block_size, blocks_done, phase, halted, dbm, m0ar,
                     m1ar, reload>>
      /\ en
  BY DEF Hardware, DmaItem, DmaBlockSwap, DmaBlockLast, DmaBlock, DmaTransfer,
         DmaError, driverVars, appVars
<1>2. Underway /\ reload = block_size
  BY <1>1 DEF Underway, IInv, Geometry
<1>3. /\ block_size * (blocks_done + 1) = block_size * blocks_done + block_size
      /\ block_size * blocks_done \in Nat
  BY NextBlock DEF IInv, TypeOK
<1>4. CASE DmaItem
  <2>1. /\ written' = written + 1 /\ ndtr' = ndtr - 1 /\ ndtr > 1
        /\ UNCHANGED <<ct, tcif>>
    BY <1>4 DEF DmaItem, DmaTransfer
  <2>2. ~dbm => written + ndtr = reload
    BY <1>1, <1>2 DEF IInv, InStep, Targets, Target, Underway, TypeOK
  <2>3. ~dbm => written' <= block_size
    BY <1>2, <2>1, <2>2 DEF IInv, TypeOK
  <2>4. dbm => written' + ndtr' = written + ndtr
    BY <2>1 DEF IInv, TypeOK
  <2> QED
    BY <1>1, <1>2, <2>1, <2>3, <2>4 DEF Progress, Target, Pending
<1>5. CASE DmaBlockSwap
  <2>1. /\ written' = written + 1 /\ ndtr' = reload /\ ndtr = 1 /\ ~tcif /\ tcif'
        /\ ct' = 1 - ct /\ dbm
    BY <1>2, <1>5 DEF DmaBlockSwap, DmaBlock, DmaTransfer, Underway
  <2>2. Target(ct)' = Target(1 - ct)
    BY <1>1, <2>1 DEF Target, IInv, TypeOK
  <2>3. /\ Target(1 - ct) = block_size * (blocks_done + 1)
        /\ Target(ct) = block_size * blocks_done
        /\ written + 1 = Target(ct) + reload
    BY <1>2, <2>1 DEF Progress, Pending, IInv, TypeOK
  <2>4. blocks_done' + Pending' = blocks_done + 1
    BY <1>1, <2>1 DEF Pending
  <2>5. written' + ndtr' = Target(ct)' + reload'
    BY <1>1, <1>2, <1>3, <2>1, <2>2, <2>3 DEF IInv, TypeOK
  <2>6. Target(1 - ct)' = Target(ct)
    BY <1>1, <2>1 DEF Target, IInv, TypeOK
  <2> QED
    BY <1>1, <2>1, <2>2, <2>3, <2>4, <2>5, <2>6 DEF Progress
<1>6. CASE DmaBlockLast
  <2>1. written' = written + 1 /\ ndtr = 1 /\ ~dbm
    BY <1>6 DEF DmaBlockLast, DmaBlock, DmaTransfer
  <2>2. written + 1 = reload
    BY <1>1, <1>2, <2>1 DEF IInv, InStep, Targets, Target, Underway, TypeOK
  <2> QED
    BY <1>1, <1>2, <2>1, <2>2 DEF Progress, IInv, TypeOK
<1>7. CASE DmaError
  BY <1>1, <1>2, <1>7 DEF DmaError, Progress, Target, Pending
<1> QED
  BY <1>4, <1>5, <1>6, <1>7 DEF Hardware

\* A handler that goes on points the idle target at the block after next.
LEMMA IsrProgress == IInv /\ Progress /\ Isr => Progress'
<1> SUFFICES ASSUME IInv, Progress, Isr, Underway' PROVE Progress'
  BY DEF Progress
<1>1. PICK h \in Handlers : IsrRetarget(h)
  <2>1. ~halted' /\ blocks_done' < num_blocks'
    BY DEF Underway
  <2> QED
    BY <2>1
    DEF Isr, dcmi_dma_shuffle_isr, dcmi_dma_shuffle_isr_open_ended, IsrError,
        dma_error, ShuffleDone, OpenEndedOverrun, Handlers, IInv, TypeOK
<1>2. /\ tcif /\ ~tcif' /\ blocks_done' = blocks_done + 1
      /\ UNCHANGED <<num_blocks, block_size, phase, halted, dbm, ct, ndtr, reload,
                     written>>
  BY <1>1 DEF IsrRetarget, IsrEntry, appVars
<1>3. Underway
  BY <1>2 DEF Underway, IInv, TypeOK
<1>4. Target(ct)' = Target(ct)
  BY <1>1, <1>2 DEF IsrRetarget, Target, IInv, TypeOK
<1>5. Target(1 - ct)' = block_size * (blocks_done + 2)
  BY <1>1, <1>2 DEF IsrRetarget, Target, IInv, TypeOK
<1>6. /\ blocks_done' + Pending' = blocks_done + Pending
      /\ blocks_done' + 1 = blocks_done + 2
  BY <1>2 DEF Pending, IInv, TypeOK
<1>7. ASSUME ~dbm PROVE FALSE
  <2>1. num_blocks = 1
    BY <1>3, <1>7 DEF Progress
  <2> QED
    BY <1>2, <2>1 DEF Underway, IInv, TypeOK
<1>8. /\ written' + ndtr' = Target(ct)' + reload'
      /\ Target(ct)' = block_size' * (blocks_done' + Pending')
  BY <1>2, <1>3, <1>4, <1>6, <1>7 DEF Progress
<1>9. Target(1 - ct)' = block_size' * (blocks_done' + 1)
  BY <1>2, <1>5, <1>6
<1> QED
  BY <1>2, <1>7, <1>8, <1>9 DEF Progress

\* A thread starts a transfer or leaves the one it has.
LEMMA ClientProgress == IInv /\ Progress /\ Client => Progress'
<1> SUFFICES ASSUME IInv, Progress, Client, Underway' PROVE Progress'
  BY DEF Progress
<1>1. CASE dcmi_dma_init \/ dcmi_dma_init_open_ended
  BY <1>1 DEF dcmi_dma_init, dcmi_dma_init_open_ended, Underway
<1>2. CASE ProgramAndArm
  <2>1. ~en /\ ~tcif
    BY <1>2 DEF ProgramAndArm, IInv, QuietInit, Modes
  <2>2. /\ ndtr' = block_size /\ reload' = block_size
        /\ ct' = 0 /\ m0ar' = 0 /\ m1ar' = block_size /\ written' = 0
        /\ blocks_done' = 0 /\ tcif' = tcif
        /\ UNCHANGED <<num_blocks, block_size>>
    BY <1>2, <2>1 DEF ProgramAndArm, dcmi_dma_arm, dmaStreamSetTransactionSize
  <2>3. ~dbm' => num_blocks' = 1
    <3>1. dbm' <=> num_blocks > 1
      BY <1>2 DEF ProgramAndArm, dcmi_dma_arm
    <3> QED
      BY <2>2, <3>1 DEF Underway, IInv, TypeOK
  <2>4. Target(ct)' = 0 /\ Target(1 - ct)' = block_size /\ Pending' = 0
    BY <2>1, <2>2 DEF Target, Pending
  <2>5. block_size * 0 = 0 /\ block_size * (0 + 1) = block_size /\ 0 <= block_size
    BY DEF IInv, TypeOK
  <2> QED
    BY <2>1, <2>2, <2>3, <2>4, <2>5 DEF Progress
<1>3. CASE dcmi_dma_open_ended_stop
  <2>1. UNCHANGED <<num_blocks, block_size, blocks_done, phase, halted, dbm, ct, m0ar,
                    m1ar, ndtr, reload, written>>
    BY <1>3 DEF dcmi_dma_open_ended_stop, appVars
  <2>2. ~tcif /\ ~tcif'
    BY <1>3 DEF dcmi_dma_open_ended_stop, ThreadRuns, dmaStreamDisable
  <2> QED
    BY <2>1, <2>2 DEF Progress, Underway, Target, Pending
<1>4. CASE ClearSamplingFinished
  BY <1>4
  DEF ClearSamplingFinished, driverVars, streamVars, Progress, Underway, Target,
      Pending
<1> QED
  BY <1>1, <1>2, <1>3, <1>4 DEF Client

\* Only the two init calls change the geometry.
LEMMA FitsStep == IInv /\ Fits /\ [Next]_vars => Fits'
<1> SUFFICES ASSUME IInv, Fits, [Next]_vars PROVE Fits'
  OBVIOUS
<1>1. CASE dcmi_dma_init
  BY <1>1, RgbGeometry DEF dcmi_dma_init, Fits
<1>2. CASE dcmi_dma_init_open_ended
  <2>1. OpenBlockWords * OpenBlocks <= BufWords
    <3>1. OpenBlockWords \in Nat /\ OpenBlocks \in Nat
      BY OpenGeometry, SizesAssumption
    <3>2. OpenBlockWords * (OpenBlocks + 1) = OpenBlockWords * OpenBlocks + OpenBlockWords
          /\ OpenBlockWords * OpenBlocks \in Nat
      BY <3>1, NextBlock
    <3> QED
      BY <3>1, <3>2, OpenGeometry, SizesAssumption
  <2> QED
    BY <1>2, <2>1 DEF dcmi_dma_init_open_ended, Fits
<1>3. CASE ~dcmi_dma_init /\ ~dcmi_dma_init_open_ended
  <2>1. UNCHANGED <<num_blocks, block_size>>
    BY <1>3
    DEF Next, Hardware, Isr, Client, DmaItem, DmaBlockSwap, DmaBlockLast, DmaBlock,
        DmaTransfer, DmaError, dcmi_dma_shuffle_isr,
        dcmi_dma_shuffle_isr_open_ended, IsrError, IsrRetarget, ShuffleDone,
        OpenEndedOverrun, ProgramAndArm,
        dcmi_dma_open_ended_stop, ClearSamplingFinished, driverVars, vars
  <2> QED
    BY <2>1 DEF Fits
<1> QED
  BY <1>1, <1>2, <1>3

\* The last handler of a transfer disables the stream or halts the CPU.
LEMMA FinishedStep == IInv /\ Progress /\ Finished /\ [Next]_vars => Finished'
<1> SUFFICES ASSUME IInv, Progress, Finished, [Next]_vars, IsrTimely,
                    ~halted', phase' = "idle", num_blocks' > 0
             PROVE  /\ blocks_done' <= num_blocks'
                    /\ blocks_done' = num_blocks' =>
                         /\ ~en' /\ ~tcif' /\ isr' = "shuffle"
                         /\ HigherTarget' = block_size' * num_blocks'
  BY DEF Finished
<1>1. CASE Hardware
  <2>1. /\ en
        /\ UNCHANGED <<num_blocks, block_size, blocks_done, phase, halted>>
    BY <1>1
    DEF Hardware, DmaItem, DmaBlockSwap, DmaBlockLast, DmaBlock, DmaTransfer,
        DmaError, driverVars, appVars
  <2> QED
    BY <2>1 DEF Finished
<1>2. CASE Isr
  <2>1. CASE ShuffleDone
    <3>1. /\ tcif /\ isr = "shuffle" /\ blocks_done + 1 = num_blocks
          /\ blocks_done' = blocks_done + 1 /\ ~en' /\ ~tcif'
          /\ UNCHANGED <<num_blocks, block_size, isr, m0ar, m1ar, phase, halted>>
      BY <2>1 DEF ShuffleDone, IsrEntry, dmaStreamDisable, dma_avail
    <3>2. Underway
      BY <3>1 DEF Underway, IInv, TypeOK
    <3>3. /\ block_size * (blocks_done + 1) = block_size * blocks_done + block_size
          /\ block_size * blocks_done \in Nat /\ block_size \in Nat
      BY NextBlock DEF IInv, TypeOK
    <3>4. HigherTarget = block_size * num_blocks
      <4>1. CASE dbm
        <5>1. /\ Target(ct) = block_size * num_blocks
              /\ Target(1 - ct) = block_size * blocks_done
          BY <3>1, <3>2, <4>1 DEF Progress, Pending
        <5> QED
          BY <3>1, <3>3, <5>1 DEF HigherTarget, Target, IInv, TypeOK
      <4>2. CASE ~dbm
        <5>1. m0ar = 0 /\ m1ar = block_size /\ num_blocks = 1
          BY <3>2, <4>2 DEF Progress
        <5> QED
          BY <3>3, <5>1 DEF HigherTarget
      <4> QED
        BY <4>1, <4>2 DEF IInv, TypeOK
    <3> QED
      BY <3>1, <3>4 DEF HigherTarget
  <2>2. CASE \E h \in Handlers : IsrRetarget(h)
    <3>1. /\ tcif /\ blocks_done' = blocks_done + 1 /\ blocks_done + 1 # num_blocks
          /\ UNCHANGED <<num_blocks, phase, halted>>
      BY <2>2 DEF IsrRetarget, IsrEntry, appVars
    <3> QED
      BY <3>1 DEF Finished, IInv, TypeOK
  <2> QED
    BY <1>2, <2>1, <2>2
    DEF Isr, dcmi_dma_shuffle_isr, dcmi_dma_shuffle_isr_open_ended, IsrError,
        dma_error, OpenEndedOverrun, Handlers
<1>3. CASE Client
  <2>1. CASE ProgramAndArm
    BY <2>1 DEF ProgramAndArm, dcmi_dma_arm, IInv, TypeOK
  <2>2. CASE dcmi_dma_open_ended_stop
    BY <2>2
    DEF dcmi_dma_open_ended_stop, dmaStreamDisable, appVars, Finished, HigherTarget
  <2>3. CASE ClearSamplingFinished
    BY <2>3
    DEF ClearSamplingFinished, driverVars, streamVars, Finished, HigherTarget
  <2> QED
    BY <1>3, <2>1, <2>2, <2>3
    DEF Client, dcmi_dma_init, dcmi_dma_init_open_ended
<1>4. CASE UNCHANGED vars
  BY <1>4 DEF vars, driverVars, appVars, streamVars, Finished, HigherTarget
<1> QED
  BY <1>1, <1>2, <1>3, <1>4 DEF Next

\* The extended invariant is inductive, too.
LEMMA DInductive == DInv /\ [Next]_vars => DInv'
<1>1. IInv /\ Progress /\ UNCHANGED vars => Progress'
  BY DEF vars, driverVars, appVars, streamVars, Progress, Underway, Target,
         Pending
<1> QED
  BY <1>1, Inductive, HardwareProgress, IsrProgress, ClientProgress, FinishedStep,
     FitsStep
  DEF Next, DInv

\* It holds when the driver has not been used yet.
LEMMA InitDInv == Init => DInv
BY InitIInv, SizesAssumption DEF Init, DInv, Progress, Underway, Finished, Fits

\* Stopping an open-ended transfer reports a length that covers everything that
\* was stored and that stays inside the buffer, whatever stopped the stream
\* before (dcmi_dma.c 206-223).
THEOREM StopLength ==
  ASSUME ImageWords <= BufWords
  PROVE  Spec => StopCoversFrame
<1>1. DInv =>
        [dcmi_dma_open_ended_stop /\ IsrTimely /\ blocks_done < num_blocks
         => dcmi_dma_words_received' \in written .. BufWords]_vars
  <2> SUFFICES ASSUME DInv, dcmi_dma_open_ended_stop, IsrTimely,
                      blocks_done < num_blocks
               PROVE  dcmi_dma_words_received' \in written .. BufWords
    OBVIOUS
  <2> USE SizesAssumption DEF DInv
  <2>1. Underway /\ ~tcif /\ phase = "idle"
    BY DEF Underway, dcmi_dma_open_ended_stop, ThreadRuns
  <2>2. dcmi_dma_words_received' = IF m1ar > m0ar THEN m1ar ELSE m0ar
    BY DEF dcmi_dma_open_ended_stop
  <2>3. /\ block_size * (blocks_done + 1) = block_size * blocks_done + block_size
        /\ block_size * blocks_done \in Nat
    BY NextBlock DEF IInv, TypeOK
  <2>4. block_size * (blocks_done + 1) <= block_size * num_blocks
    BY BlocksAscend DEF IInv, TypeOK
  <2>5. block_size * (blocks_done + 1) <= BufWords
    BY <2>3, <2>4 DEF Fits, IInv, TypeOK
  <2>6. CASE dbm
    <3>1. /\ Target(ct) = block_size * blocks_done
          /\ Target(1 - ct) = block_size * (blocks_done + 1)
          /\ written + ndtr = Target(ct) + reload /\ reload = block_size
      BY <2>1, <2>6 DEF Progress, Pending, IInv, TypeOK, Geometry
    <3>2. dcmi_dma_words_received' = block_size * (blocks_done + 1)
      BY <2>2, <2>3, <3>1 DEF Target, IInv, TypeOK
    <3> QED
      BY <2>3, <2>5, <3>1, <3>2 DEF IInv, TypeOK
  <2>7. CASE ~dbm
    <3>1. m0ar = 0 /\ m1ar = block_size /\ written <= block_size /\ num_blocks = 1
      BY <2>1, <2>7 DEF Progress
    <3>2. blocks_done = 0
      BY <3>1 DEF IInv, TypeOK
    <3>3. block_size <= BufWords
      BY <2>3, <2>5, <3>2 DEF IInv, TypeOK
    <3> QED
      BY <2>2, <3>1, <3>3 DEF IInv, TypeOK
  <2> QED
    BY <2>6, <2>7 DEF IInv, TypeOK
<1> QED
  BY <1>1, InitDInv, DInductive, PTL DEF Spec, StopCoversFrame

(***************************************************************************)
(* The stream that dma_error's assertion leaves running: nobody moves its  *)
(* targets any more, and both are blocks that it has reached.              *)
(***************************************************************************)

Reached(a) == \E i \in Nat : a = block_size * i /\ block_size * i <= written

Parked == en /\ dbm /\ halted => Reached(m0ar) /\ Reached(m1ar)

\* The handler halts with the stream in step, and afterwards only the stream
\* itself goes on.
LEMMA ParkedStep ==
  ASSUME IsrTimely, DInv, Parked, [Next]_vars
  PROVE  Parked'
<1> SUFFICES ASSUME en', dbm', halted' PROVE Reached(m0ar)' /\ Reached(m1ar)'
  BY DEF Parked
<1> USE SizesAssumption
<1>1. /\ block_size \in Nat /\ blocks_done \in Nat /\ written \in Nat /\ ndtr \in Nat
      /\ m0ar \in Nat /\ m1ar \in Nat /\ ct \in {0, 1} /\ num_blocks \in Nat
      /\ reload \in Nat
  BY DEF DInv, IInv, TypeOK
<1>2. CASE Hardware
  <2>1. /\ UNCHANGED <<block_size, m0ar, m1ar, dbm, halted>> /\ en
        /\ written' \in {written, written + 1}
    BY <1>2 DEF Hardware, DmaItem, DmaBlockSwap, DmaBlockLast, DmaBlock, DmaTransfer,
                DmaError, driverVars, appVars
  <2>2. Reached(m0ar) /\ Reached(m1ar)
    BY <2>1 DEF Parked
  <2>3. ASSUME NEW a, Reached(a)
        PROVE  \E i \in Nat : a = block_size * i /\ block_size * i <= written'
    <3>1. PICK i \in Nat : a = block_size * i /\ block_size * i <= written
      BY <2>3 DEF Reached
    <3>2. block_size * i \in Nat
      BY <1>1
    <3> QED
      BY <1>1, <2>1, <3>1, <3>2
  <2> QED
    BY <2>1, <2>2, <2>3 DEF Reached
<1>3. CASE Isr
  <2>1. /\ tcif /\ ~halted /\ UNCHANGED <<block_size, m0ar, m1ar, dbm, en, written>>
    BY <1>3
    DEF Isr, dcmi_dma_shuffle_isr, dcmi_dma_shuffle_isr_open_ended, IsrError,
        IsrRetarget, ShuffleDone, OpenEndedOverrun, IsrEntry, dma_error, dma_avail,
        dmaStreamDisable, driverVars, appVars
  <2>2. Underway /\ reload = block_size /\ ndtr <= reload
    BY <2>1 DEF Underway, DInv, IInv, QuietInit, Geometry, Targets
  <2>3. /\ Target(ct) = block_size * (blocks_done + 1) /\ written + ndtr = Target(ct) + reload
        /\ Target(1 - ct) = block_size * blocks_done
    BY <2>1, <2>2 DEF DInv, Progress, Pending
  <2>4. /\ block_size * (blocks_done + 1) = block_size * blocks_done + block_size
        /\ block_size * blocks_done \in Nat /\ block_size * (blocks_done + 1) \in Nat
    BY <1>1, NextBlock
  <2>5. Target(ct) <= written /\ Target(1 - ct) <= written
    BY <1>1, <2>2, <2>3, <2>4
  <2>6. Reached(Target(ct)) /\ Reached(Target(1 - ct))
    <3>1. \A i \in Nat : block_size * i <= written => Reached(block_size * i)
      BY DEF Reached
    <3>2. blocks_done + 1 \in Nat
      BY <1>1
    <3>3. Reached(block_size * (blocks_done + 1)) /\ Reached(block_size * blocks_done)
      BY <1>1, <2>3, <2>5, <3>1, <3>2
    <3> QED
      BY <2>3, <3>3
  <2>7. Reached(m0ar) /\ Reached(m1ar)
    BY <1>1, <2>6 DEF Target
  <2> QED
    BY <2>1, <2>7 DEF Reached
<1>4. CASE Client
  BY <1>4
  DEF Client, dcmi_dma_init, dcmi_dma_init_open_ended,
      ProgramAndArm, dcmi_dma_open_ended_stop, ClearSamplingFinished, ThreadRuns,
      appVars
<1>5. CASE UNCHANGED vars
  BY <1>5 DEF vars, driverVars, appVars, streamVars, Parked, Reached
<1> QED
  BY <1>2, <1>3, <1>4, <1>5 DEF Next

\* An item of an image that is not complete is stored inside the image, also
\* behind an assertion.
LEMMA StoredInImage ==
  ASSUME IsrTimely, DInv, Parked, en, written < block_size * num_blocks
  PROVE  ptr < block_size * num_blocks
<1> USE SizesAssumption
<1>1. /\ block_size \in Nat /\ written \in Nat /\ ndtr \in Nat /\ ptr \in Nat
      /\ m0ar \in Nat /\ m1ar \in Nat /\ ct \in {0, 1} /\ num_blocks \in Nat
      /\ reload \in Nat /\ dbm \in BOOLEAN
  BY DEF DInv, IInv, TypeOK
<1>2. ndtr > 0 /\ ptr + ndtr <= Target(ct) + block_size
  BY DEF DInv, IInv, QuietInit, Geometry, Targets
<1>3. CASE ~halted
  BY <1>3 DEF DInv, IInv, InStep
<1>4. ASSUME NEW i \in Nat, Target(ct) = block_size * i, block_size * i <= written
      PROVE  ptr < block_size * num_blocks
  <2>1. /\ block_size * (i + 1) = block_size * i + block_size
        /\ block_size * i \in Nat /\ block_size * num_blocks \in Nat
    BY <1>1, NextBlock
  <2>2. i + 1 <= num_blocks
    <3> SUFFICES ASSUME num_blocks <= i PROVE FALSE
      BY <1>1
    <3>1. block_size * num_blocks <= block_size * i
      BY <1>1, BlocksAscend
    <3> QED
      BY <1>1, <1>4, <2>1, <3>1
  <2>3. block_size * (i + 1) <= block_size * num_blocks
    BY <1>1, <2>2, BlocksAscend
  <2> QED
    BY <1>1, <1>2, <1>4, <2>1, <2>3
<1>5. CASE halted /\ dbm
  <2>1. Reached(Target(ct))
    BY <1>1, <1>5 DEF Parked, Target
  <2> QED
    BY <1>4, <2>1 DEF Reached
<1>6. CASE ~dbm
  <2>1. Target(ct) = block_size * 0 /\ block_size * 0 <= written
    BY <1>1, <1>6 DEF DInv, IInv, Targets, Target
  <2> QED
    BY <1>4, <2>1
<1> QED
  BY <1>3, <1>5, <1>6
=============================================================================
