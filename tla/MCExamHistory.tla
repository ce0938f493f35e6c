--------------------------- MODULE MCExamHistory ---------------------------
(* ExamHistory for TLC: who is signed in on which device.                   *)
EXTENDS ExamHistory, TLC

CONSTANTS d1, d2, u1

\* One user with two devices.
SharedAccount == d1 :> u1 @@ d2 :> u1
=============================================================================
