----------------------------- MODULE TurnLedger -----------------------------
(***************************************************************************)
(* What the interview turns promise: the game is a sequence of versions,   *)
(* at most one request holds it at a time, and while one does the version  *)
(* does not move.  A request either publishes one answer, computed from    *)
(* the version it was granted on, or gives the game back.                  *)
(***************************************************************************)
EXTENDS Naturals

CONSTANTS Requests, Nobody

VARIABLES
  version,   \* versions of the game so far
  holder,    \* the request that holds the game, or Nobody
  granted,   \* the version on which it was granted
  answered   \* requests whose answer is published

vars == <<version, holder, granted, answered>>

Init == version = 1 /\ holder = Nobody /\ granted = 0 /\ answered = {}

\* A control, or the microphone moving on, makes a new version; a control that
\* stops the game does so over the head of the holder.
Change ==
  /\ version' = version + 1
  /\ holder' = Nobody /\ granted' = 0
  /\ UNCHANGED answered

\* The microphone may move on in the same step that grants the game.
Grant(r) ==
  /\ holder = Nobody
  /\ r \notin answered
  /\ version' \in {version, version + 1}
  /\ holder' = r /\ granted' = version'
  /\ UNCHANGED answered

Publish ==
  /\ holder # Nobody
  /\ granted = version
  /\ answered' = answered \cup {holder}
  /\ version' = version + 1
  /\ holder' = Nobody /\ granted' = 0

GiveBack ==
  /\ holder # Nobody
  /\ holder' = Nobody /\ granted' = 0
  /\ UNCHANGED <<version, answered>>

Next == Change \/ (\E r \in Requests : Grant(r)) \/ Publish \/ GiveBack

Spec == Init /\ [][Next]_vars
=============================================================================
