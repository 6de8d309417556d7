-------------------------- MODULE MCAnswerPipeline --------------------------
(* A suspect like the constable of the case that is shipped: a report (1)  *)
(* supersedes his account, and a confession, which takes two good          *)
(* questions with both exhibits on the table, supersedes that; a memo (3)  *)
(* comes by pressure alone.                                                *)
EXTENDS AnswerPipeline

CONSTANTS confession, memo

MCRequires  == [e \in 1 .. 3 |-> IF e = 2 THEN {1} ELSE {}]
MCReportOn  == [e \in {1} |-> Suspect]
MCTier      == [c \in Conditions |-> IF c = memo THEN "pressure" ELSE "compound"]
MCGate      == [c \in Conditions |-> IF c = memo THEN {} ELSE {1, 2}]
MCGives     == [c \in Conditions |-> IF c = memo THEN 3 ELSE Nothing]
MCThreshold == [c \in Conditions |-> 2]

Posture(needs, bars, shown, unshown, prepared) ==
  [needs |-> needs, bars |-> bars, shown |-> shown, unshown |-> unshown,
   account |-> TRUE, answers |-> prepared]

MCLayers == <<
  Posture({}, {confession}, {}, {1}, {}),
  Posture({}, {confession}, {1}, {},
          {[about |-> "case", shown |-> {}], [about |-> "other", shown |-> {2}]}),
  Posture({confession}, {}, {}, {}, {}) >>

MCAlibis == <<confession>>
=============================================================================
