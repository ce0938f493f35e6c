--------------------------- MODULE MCCustomTest ---------------------------
(* CustomTest for TLC: the constants of the specification are its bounds.   *)
EXTENDS CustomTest
=============================================================================
