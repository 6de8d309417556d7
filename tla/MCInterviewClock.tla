-------------------------- MODULE MCInterviewClock --------------------------
(* A small instance of InterviewClock for TLC.                             *)
EXTENDS InterviewClock, TLC

Symmetry == Permutations(Suspects)
=============================================================================
