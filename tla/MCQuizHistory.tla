--------------------------- MODULE MCQuizHistory ---------------------------
(* QuizHistory for TLC: the bounds are constants of the specification       *)
(* itself.                                                                  *)
EXTENDS QuizHistory
=============================================================================
