----------------------------- MODULE MCDcmiDma -----------------------------
(* Instances of the DMA driver for TLC. *)
EXTENDS DcmiDma
=============================================================================
