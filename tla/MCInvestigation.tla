-------------------------- MODULE MCInvestigation ---------------------------
(* A case for Investigation with the shape of the one that is shipped: a   *)
(* briefing, evidence that opens the interrogation, two suspects, two      *)
(* research files, two reports on the first suspect, an exhibit that needs *)
(* one of them, and an exhibit that the second suspect gives away.         *)
EXTENDS Investigation

CONSTANTS a, b, keepsake

Scene(type, round, suspect, before, shows) ==
  [type |-> type, round |-> round, suspect |-> suspect, prerequisites |-> before, shows |-> shows]

MCChapters == <<
  Scene("narrative", 1, NoSuspect, {}, {}),
  Scene("evidence-reveal", 1, NoSuspect, {1}, {5}),
  Scene("narrative", 1, NoSuspect, {2}, {}),
  Scene("evidence-reveal", 2, NoSuspect, {3}, {}),
  Scene("interview", 2, a, {4}, {}),
  Scene("interview", 2, b, {4}, {4}),
  Scene("phone-hack", 3, NoSuspect, {5, 6}, {}),
  Scene("evidence-reveal", 4, NoSuspect, {7}, {1, 2, 3}),
  Scene("accusation", 4, NoSuspect, {8}, {}) >>

MCRequires  == [e \in 1 .. 5 |-> IF e = 3 THEN {1} ELSE {}]
MCReportOn  == [e \in {1, 2} |-> a]
MCSpeaker   == [c \in {keepsake} |-> b]
MCGives     == [c \in {keepsake} |-> 4]
MCThreshold == [c \in {keepsake} |-> 2]

\* The case meets what the theorems ask.
ASSUME MCCaseFits == QuietEntrance /\ Chained /\ Guided
=============================================================================
