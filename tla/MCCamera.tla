----------------------------- MODULE MCCamera ------------------------------
(* Instances of the capture path for TLC. *)
EXTENDS Camera
=============================================================================
