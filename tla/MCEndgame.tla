----------------------------- MODULE MCEndgame ------------------------------
(* A small instance of Endgame for TLC: the whole ending under two         *)
(* impatient hosts, with changes of mind and withdrawn votes between the   *)
(* reads of a reveal.                                                      *)
EXTENDS Endgame, TLC

CONSTANTS s1, s2

MCTriggers == <<s1, s2>>
Symmetry == Permutations(Detectives) \cup Permutations(Ballots) \cup Permutations(Hosts)
=============================================================================
