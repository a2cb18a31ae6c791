----------------------------- MODULE MemcpyDma -----------------------------
(***************************************************************************)
(* memcpy_dma.c and its caller membench_run: the stream is allocated for   *)
(* one copy and released after it.  A copy moves whole words by DMA, in    *)
(* pieces of at most max_block words, and the last bytes by the CPU.       *)
(* Byte k of the source is k; a byte of the destination that has not been  *)
(* written is Old.                                                         *)
(***************************************************************************)
EXTENDS Integers

CONSTANTS
  max_block,  \* the most words of a DMA transfer (65535)
  MaxSize     \* bound: bytes of a copy

ASSUME CopyAssumption == max_block \in Nat \ {0} /\ MaxSize \in Nat

VARIABLES
  allocated,  \* the stream has an owner
  asserted,   \* the assertion of memcpy_dma_start has failed
  size,       \* bytes to copy
  words,      \* words left to copy
  dest,
  step

copyVars == <<allocated, asserted, size, words, dest, step>>

WordBytes == 4
Old == -1
Untouched == [k \in 0 .. MaxSize - 1 |-> Old]

memcpy_dma_start ==
  /\ step = "idle" /\ ~asserted
  /\ asserted' = allocated
  /\ allocated' = TRUE
  /\ \E n \in 0 .. MaxSize : size' = n /\ words' = n \div WordBytes
  /\ dest' = Untouched
  /\ step' = IF allocated THEN "idle" ELSE "blocks"

\* dmaStartMemCopy and dmaWaitCompletion: n words from the start of the source
\* to the start of the destination.
DmaCopy(n) ==
  dest' = [k \in DOMAIN dest |-> IF k < n * WordBytes THEN k ELSE dest[k]]

\* Slip: the words that are left are not counted.
CopyBlockUncounted ==
  /\ step = "blocks" /\ words > max_block
  /\ DmaCopy(max_block)
  /\ UNCHANGED <<allocated, asserted, size, words, step>>

\* The loop: both addresses stay what they were.
CopyBlock ==
  /\ step = "blocks" /\ words > max_block
  /\ DmaCopy(max_block)
  /\ words' = words - max_block
  /\ UNCHANGED <<allocated, asserted, size, step>>

\* Slip: a full last block is left out.
CopyLastShort ==
  /\ step = "blocks" /\ words <= max_block
  /\ DmaCopy(words % max_block)
  /\ step' = "bytes"
  /\ UNCHANGED <<allocated, asserted, size, words>>

CopyLast ==
  /\ step = "blocks" /\ words <= max_block
  /\ DmaCopy(words)
  /\ step' = "bytes"
  /\ UNCHANGED <<allocated, asserted, size, words>>

\* The remainder is copied to the end of the destination.
CopyBytes ==
  /\ step = "bytes"
  /\ dest' = [k \in DOMAIN dest |->
                IF k < size /\ k >= size - (size % WordBytes) THEN k ELSE dest[k]]
  /\ step' = "stop"
  /\ UNCHANGED <<allocated, asserted, size, words>>

\* Slip: the stream keeps its owner.
StopKeepsStream ==
  /\ step = "stop"
  /\ step' = "idle"
  /\ UNCHANGED <<allocated, asserted, size, words, dest>>

memcpy_dma_stop ==
  /\ step = "stop"
  /\ allocated' = FALSE
  /\ step' = "idle"
  /\ UNCHANGED <<asserted, size, words, dest>>

CopyInit ==
  /\ allocated = FALSE /\ asserted = FALSE
  /\ size = 0 /\ words = 0 /\ dest = Untouched
  /\ step = "idle"

CopyNext ==
  \/ memcpy_dma_start \/ CopyBlock \/ CopyLast \/ CopyBytes \/ memcpy_dma_stop

(***************************************************************************)
(* Properties.                                                             *)
(***************************************************************************)

\* A copy that fits into one transfer, as every copy of the firmware does
\* (int_buf has 64 KiB), is memcpy: each byte below size and none above it
\* (memcpy_dma.c 85-104).  Longer ones repeat their beginning.
CopyIsMemcpy ==
  step = "stop" /\ size \div WordBytes <= max_block =>
    \A k \in DOMAIN dest : dest[k] = IF k < size THEN k ELSE Old

\* "stream already allocated" (memcpy_dma.c 72) is never reported, however
\* often membench runs.
NeverAllocatedTwice == ~asserted
=============================================================================
