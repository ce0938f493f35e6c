--------------------------- MODULE MCResultStore ---------------------------
(* ResultStore for TLC: the bounds are constants of the specification       *)
(* itself; the operators below are the mutated forms of its definitions.    *)
EXTENDS ResultStore
=============================================================================
