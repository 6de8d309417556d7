------------------------------ MODULE MCLobby -------------------------------
(* A small instance of Lobby for TLC.                                      *)
EXTENDS Lobby, TLC

Symmetry == Permutations(Browsers) \cup Permutations(Devices)
=============================================================================
