-------------------------- MODULE MCInterviewTurns --------------------------
(* Small instances of InterviewTurns for TLC.                              *)
EXTENDS InterviewTurns, TLC

\* Requests, suspects and invocations are interchangeable; seats are not.
Symmetry == Permutations(Requests) \cup Permutations(Suspects)
            \cup Permutations(Askers) \cup Permutations(Editors)
=============================================================================
