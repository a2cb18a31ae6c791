-------------------------- MODULE MCCaptureTimeout -------------------------
(* Instance of the waiting loops for TLC. *)
EXTENDS CaptureTimeout
=============================================================================
