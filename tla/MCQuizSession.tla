--------------------------- MODULE MCQuizSession ---------------------------
(* QuizSession for TLC: the bounds are constants of the specification       *)
(* itself.                                                                  *)
EXTENDS QuizSession
=============================================================================
