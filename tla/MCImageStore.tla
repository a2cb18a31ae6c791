---------------------------- MODULE MCImageStore ---------------------------
(* Instance of the image store for TLC. *)
EXTENDS ImageStore
=============================================================================
