----------------------------- MODULE Countdown ------------------------------
(***************************************************************************)
(* What the two interview clocks promise.  Time passes second by second:   *)
(* while an interview runs and nobody waits for an answer, each second is  *)
(* taken from the suspect's time and from the microphone's, down to zero.  *)
(* Nothing else takes time away or moves an unspent microphone.            *)
(***************************************************************************)
EXTENDS Integers

CONSTANTS Suspects, Nobody, Budget, Share, Extra

VARIABLES
  stage,     \* the suspect being interviewed, or Nobody
  running,   \* the clocks are running (when nobody waits for an answer)
  holder,    \* the player with the microphone
  left,      \* seconds left for each suspect
  share,     \* seconds left with the microphone
  waiting    \* an answer is being generated

vars == <<stage, running, holder, left, share, waiting>>

Less(n) == IF n = 0 THEN 0 ELSE n - 1

Init ==
  /\ running => stage # Nobody
  /\ left = [s \in Suspects |-> Budget]
  /\ share = Share
  /\ waiting = FALSE

\* A second passes; the wait for an answer may time out with it.
Second ==
  /\ IF running /\ ~ waiting
     THEN left' = [left EXCEPT ![stage] = Less(@)] /\ share' = Less(share)
     ELSE UNCHANGED <<left, share>>
  /\ waiting' => waiting
  /\ UNCHANGED <<stage, running, holder>>

\* The host starts, stops, pauses or resumes interviews, and an answer that was
\* awaited when the game is stopped is given up.  Nobody gains or loses time.
Direct ==
  /\ running' => stage' # Nobody
  /\ waiting => ~ running'
  /\ waiting' = FALSE
  /\ UNCHANGED <<holder, left, share>>

\* Somebody hands the microphone over, and the game may start running again.
Pass ==
  /\ ~ waiting
  /\ holder' # holder /\ share' = Share
  /\ running' => stage # Nobody
  /\ running => running'
  /\ UNCHANGED <<stage, left, waiting>>

\* The clock hands a spent microphone over, while there is time to ask.
Rotates == /\ running /\ share = 0 /\ left[stage] > 0
           /\ holder' # holder /\ share' = Share

\* A question is accepted while there is time to ask; the microphone that its
\* asker holds may have come round in the same step.
Ask ==
  /\ ~ waiting /\ stage # Nobody /\ left[stage] > 0
  /\ Rotates \/ UNCHANGED <<holder, share>>
  /\ waiting' = TRUE /\ running' = TRUE
  /\ UNCHANGED <<stage, left>>

Rotate == ~ waiting /\ Rotates /\ UNCHANGED <<stage, running, left, waiting>>

\* The answer arrives, or is given up.
Answer == waiting /\ waiting' = FALSE /\ UNCHANGED <<stage, running, holder, left, share>>

Extend ==
  /\ ~ waiting /\ stage # Nobody
  /\ left' = [left EXCEPT ![stage] = @ + Extra]
  /\ running => running'
  /\ UNCHANGED <<stage, holder, share, waiting>>

Next == Second \/ Direct \/ Pass \/ Rotate \/ Ask \/ Answer \/ Extend

Spec == Init /\ [][Next]_vars
=============================================================================
