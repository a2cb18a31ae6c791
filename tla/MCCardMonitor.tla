--------------------------- MODULE MCCardMonitor ---------------------------
(* Instances of the card monitor for TLC. *)
EXTENDS CardMonitor
=============================================================================
