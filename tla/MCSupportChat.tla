--------------------------- MODULE MCSupportChat ---------------------------
(* SupportChat for TLC: the bounds are constants of the specification       *)
(* itself.                                                                  *)
EXTENDS SupportChat
=============================================================================
