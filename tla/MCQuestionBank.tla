--------------------------- MODULE MCQuestionBank --------------------------
(* QuestionBank for TLC: one text typed with and without a blank at its end,*)
(* and how it is trimmed; handlers of an administrator are interchangeable. *)
EXTENDS QuestionBank, TLC

CONSTANTS A, ABlank

BlankTrim == A :> A @@ ABlank :> A @@ Empty :> Empty

Symmetry == Permutations(Admins) \union Permutations(Calls)
=============================================================================
