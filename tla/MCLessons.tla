------------------------------ MODULE MCLessons -------------------------------
(* A bounded instance of Lessons for TLC. *)
EXTENDS Lessons

\* Every number around 0 and around the limits.
TestNumbers == -11 .. 10
=============================================================================
