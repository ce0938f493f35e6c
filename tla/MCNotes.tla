------------------------------ MODULE MCNotes ------------------------------
(* Notes for TLC: the bounds are constants of the specification itself.     *)
EXTENDS Notes
=============================================================================
