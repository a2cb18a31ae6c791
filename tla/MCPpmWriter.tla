---------------------------- MODULE MCPpmWriter ----------------------------
(* Instances of the PPM writer for TLC. *)
EXTENDS PpmWriter

\* A blue, a red and a mixed colour.
SomePixels == {<<31, 0>>, <<0, 248>>, <<227, 127>>}
=============================================================================
