------------------------------ MODULE Verdict -------------------------------
(***************************************************************************)
(* What the accusation promises the room: votes may change until the       *)
(* ending is announced, which takes everybody's vote; the announcement     *)
(* counts the votes as they stand at that moment; and the ending is then   *)
(* told step by step to its end.  Everything happens at once: nobody reads *)
(* now and writes later.                                                   *)
(***************************************************************************)
EXTENDS Integers, FiniteSets

CONSTANTS Detectives, Suspects, NoVote,
          Triggers     \* the suspects of the endings, in the case's order

VARIABLES
  status, phase,
  path,      \* the ending that was announced, or 0
  step,      \* how far it has been told
  votes

vars == <<status, phase, path, step, votes>>

Init ==
  /\ status = "in_progress" /\ phase = "accusation"
  /\ path = 0 /\ step = 0
  /\ votes = [d \in Detectives |-> NoVote]

Tally(s) == Cardinality({d \in Detectives : votes[d] = s})

\* Ending i comes before ending j: more votes, or as many and an earlier place.
Beats(i, j) ==
  \/ Tally(Triggers[i]) > Tally(Triggers[j])
  \/ Tally(Triggers[i]) = Tally(Triggers[j]) /\ i < j

Cast(d, c) ==
  /\ status = "in_progress" /\ phase = "accusation"
  /\ votes' = [votes EXCEPT ![d] = c]
  /\ UNCHANGED <<status, phase, path, step>>

Announce(i) ==
  /\ status = "in_progress" /\ phase = "accusation"
  /\ Detectives # {} /\ \A d \in Detectives : votes[d] # NoVote
  /\ \A j \in DOMAIN Triggers \ {i} : Beats(i, j)
  /\ phase' = "reveal" /\ path' = i
  /\ UNCHANGED <<status, step, votes>>

Tell ==
  /\ status = "in_progress" /\ phase = "reveal" /\ step < 2
  /\ step' = step + 1
  /\ UNCHANGED <<status, phase, path, votes>>

Conclude ==
  /\ status = "in_progress" /\ phase = "reveal" /\ step = 2
  /\ status' = "finished"
  /\ UNCHANGED <<phase, path, step, votes>>

Interrupt ==
  /\ \/ status = "in_progress" /\ status' = "paused"
     \/ status = "paused" /\ status' = "in_progress"
     \/ status # "finished" /\ status' = "finished"
  /\ UNCHANGED <<phase, path, step, votes>>

Next ==
  \/ \E d \in Detectives, c \in Suspects \cup {NoVote} : Cast(d, c)
  \/ \E i \in DOMAIN Triggers : Announce(i)
  \/ Tell \/ Conclude \/ Interrupt

Spec == Init /\ [][Next]_vars
=============================================================================
