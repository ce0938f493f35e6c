----------------------------- MODULE MCSession -----------------------------
(* Session for TLC: the handlers are interchangeable.                      *)
EXTENDS Session

Symmetry == Permutations(Slots)
=============================================================================
