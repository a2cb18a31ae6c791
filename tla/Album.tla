------------------------------- MODULE Album -------------------------------
(***************************************************************************)
(* What the image store promises a reader of the card: images appear one   *)
(* at a time and whole, in the order in which they were taken, each under  *)
(* a name above all names before it, and never change afterwards.  An      *)
(* image may be missing: a write can fail and the power can be cut.        *)
(***************************************************************************)
EXTENDS Integers

CONSTANTS Names, MaxShots

VARIABLES
  album,  \* the image under each name, None where there is none
  shot    \* images taken so far

None == 0

Take ==
  /\ shot < MaxShots
  /\ shot' = shot + 1
  /\ UNCHANGED album

\* The image taken last is stored, once.
Keep(n) ==
  /\ shot > 0
  /\ \A m \in Names : album[m] # None => m < n /\ album[m] # shot
  /\ album' = [album EXCEPT ![n] = shot]
  /\ UNCHANGED shot

Init == album = [n \in Names |-> None] /\ shot = 0

Next == Take \/ \E n \in Names : Keep(n)

Spec == Init /\ [][Next]_<<album, shot>>
=============================================================================
