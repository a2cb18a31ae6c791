------------------------------ MODULE MCConsole ----------------------------
(* Instance of the console commands for TLC. *)
EXTENDS Console

\* A card with nested directories, a flat one, and one with a path that does
\* not fit into the buffer.
MCTrees ==
  {("" :> <<"f", "a", "g">> @@ "a" :> <<"h", "b", "k">> @@ "b" :> <<"m">>),
   ("" :> <<"f", "a", "b", "g">> @@ "a" :> <<>> @@ "b" :> <<"h">>),
   ("" :> <<"f", "a">> @@ "a" :> <<"long">> @@ "long" :> <<"h">>)}
MCNameLength == [n \in {"f", "g", "h", "k", "m", "a", "b", "long"} |->
                   IF n = "long" THEN 4 ELSE 1]

\* 25 C and 127.9375 C, a temperature below zero; light above 2^15; one g in
\* both directions, the smallest and the largest acceleration.
MCTmpReg == << <<<<25, 0>>, <<127, 240>>, <<0, 16>>>>,
               <<<<231, 0>>, <<0, 240>>, <<30, 128>>>> >>
MCTmp == [w \in 1 .. 2 |-> [n \in 0 .. 2 |-> MCTmpReg[w][n + 1]]]
MCLtr == << (0 :> <<52, 18>> @@ 1 :> <<255, 255>>),
            (0 :> <<0, 128>> @@ 1 :> <<1, 0>>) >>
MCMpu == << [x |-> <<64, 0>>, y |-> <<192, 0>>, z |-> <<255, 255>>],
            [x |-> <<128, 0>>, y |-> <<127, 255>>, z |-> <<0, 17>>] >>
=============================================================================
