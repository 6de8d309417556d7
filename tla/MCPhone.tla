------------------------------ MODULE MCPhone -------------------------------
(* Three seats, two suspects for the first of whom an exhibit is offered,  *)
(* and one typed text.                                                     *)
EXTENDS Phone, TLC
CONSTANTS s1, s2, x
MCPresentable == [s \in {s1, s2} |-> IF s = s1 THEN {x} ELSE {}]
MCTexts == {<<0>>}
=============================================================================
