--------------------------- MODULE InterviewClock ---------------------------
(***************************************************************************)
(* The interview clocks as the database keeps them: nothing counts down.   *)
(* A row stores what was left when it was last touched and an anchor, the  *)
(* moment from which time is to be charged; a trigger charges it before    *)
(* every update.  A pending turn pauses the clocks by an anchor that lies  *)
(* in the future, at the end of its lease.                                 *)
(*                                                                         *)
(* An action is one database transaction.  now() is the transaction's own  *)
(* time, so when a transaction touches the row several times only the      *)
(* first touch charges anything and the last one sets the anchor: Settle   *)
(* stands for them all.                                                    *)
(***************************************************************************)
EXTENDS Integers

CONSTANTS
  Suspects, Detectives,
  NoSuspect,  \* null in current_interview_suspect_id
  Budget,     \* seconds for each suspect: 480
  Share,      \* seconds with the microphone: 90
  Lease,      \* seconds to answer a question: 120
  Extra,      \* seconds the host can add: 120
  MaxTime,    \* bound on the time
  MaxClock    \* bound on what the host adds

ASSUME SeatsAssumption == Detectives \subseteq Nat \ {0}
ASSUME NobodyAssumption == NoSuspect \notin Suspects
ASSUME SecondsAssumption == /\ Budget \in Nat \ {0} /\ Share \in Nat \ {0}
                            /\ Lease \in Nat \ {0} /\ Extra \in Nat

VARIABLES
  now,
  status, suspect, mic,   \* the sessions row ...
  clocks, anchor, seconds,  \* ... and its interview_clocks, _anchor, microphone_seconds
  lease                   \* lease_until of the pending turn, or NoLease

session == <<status, suspect, mic, clocks, anchor, seconds>>
vars == <<now, session, lease>>

NoPlayer == 0
NoAnchor == 0
NoLease  == 0
NoClock  == -1     \* the suspect has no entry in interview_clocks

Players == Detectives \cup {NoPlayer}
OnStage == Suspects \cup {NoSuspect}

TypeOK ==
  /\ now \in Nat \ {0}
  /\ status \in {"in_progress", "paused", "finished"}
  /\ suspect \in OnStage /\ mic \in Players
  /\ clocks \in [Suspects -> Nat \cup {NoClock}]
  /\ anchor \in Nat /\ seconds \in Nat /\ lease \in Nat

\* Interviews have opened.  A game that was under way when the clocks were
\* introduced has a suspect on stage, no anchor and no clocks.
Init ==
  /\ now = 1
  /\ status = "in_progress" /\ suspect \in OnStage /\ mic = NoPlayer
  /\ clocks = [s \in Suspects |-> NoClock]
  /\ anchor = NoAnchor /\ seconds = Share /\ lease = NoLease

-----------------------------------------------------------------------------
(* The trigger, settle_interview_clock.                                    *)

Floor(n) == IF n > 0 THEN n ELSE 0

Runs    == status = "in_progress" /\ suspect # NoSuspect /\ anchor # NoAnchor
Elapsed == IF Runs THEN Floor(now - anchor) ELSE 0

\* What a clock says, where a missing one is full.
Reading(c, s) == IF c[s] = NoClock THEN Budget ELSE c[s]

\* The running clock is charged.
Charged == IF Runs THEN [clocks EXCEPT ![suspect] = Floor(Reading(clocks, suspect) - Elapsed)]
           ELSE clocks

\* A suspect who comes on stage has a clock.
Opened(c) == IF suspect' # NoSuspect
             THEN [c EXCEPT ![suspect'] = Reading(c, suspect')]
             ELSE c

Settle(c, until) ==
  /\ clocks' = Opened(c)
  /\ seconds' = IF mic' # mic THEN Share ELSE Floor(seconds - Elapsed)
  /\ anchor' = IF status' # "in_progress" \/ suspect' = NoSuspect THEN NoAnchor
               ELSE IF until > now THEN until ELSE now

-----------------------------------------------------------------------------
(* What the projection of interviewTime shows on every screen.             *)

Remaining(s) == IF Runs /\ s = suspect THEN Floor(Reading(clocks, s) - Elapsed)
                ELSE Reading(clocks, s)
Left         == [s \in Suspects |-> Remaining(s)]
Microphone   == Floor(seconds - Elapsed)
Waiting      == Runs /\ anchor > now

-----------------------------------------------------------------------------

Held == lease > now

PassSecond == now < MaxTime /\ now' = now + 1 /\ UNCHANGED <<session, lease>>

\* The next detective by seat, wrapping; the holder is never chosen.
IsNextSeat(p) ==
  LET others == Detectives \ {mic}
      above  == {d \in others : d > mic}
      pool   == IF above # {} THEN above ELSE others
  IN  p \in pool /\ \A d \in pool : p <= d

\* tick_interview_clock: what it does to the microphone when it must write.
TickTouches == anchor = NoAnchor \/ clocks[suspect] = NoClock
TickRotates == /\ ~ TickTouches
               /\ seconds <= Elapsed /\ Reading(clocks, suspect) > Elapsed
TickMic == IF TickRotates /\ Detectives \ {mic} # {} THEN IsNextSeat(mic') ELSE mic' = mic

Interviewing == status = "in_progress" /\ suspect # NoSuspect

\* A read that finds nothing to do changes nothing, and is a stuttering step.
TickClock ==
  /\ Interviewing /\ ~ Held
  /\ TickTouches \/ TickRotates
  /\ mic' \in Players /\ TickMic
  /\ IF TickTouches \/ mic' # mic
     THEN UNCHANGED <<status, suspect>> /\ Settle(Charged, NoLease)
     ELSE UNCHANGED session
  /\ UNCHANGED <<now, lease>>

\* begin_interview_turn: the clock ticks, the time and the microphone are
\* checked, expired turns are failed and a lease is granted.
BeginTurn(p) ==
  /\ Interviewing /\ ~ Held
  /\ mic' \in Players /\ TickMic
  /\ Remaining(suspect) > 0
  /\ mic' = p
  /\ lease' = now + Lease
  /\ UNCHANGED <<now, status, suspect>>
  /\ Settle(Charged, lease')

\* commit_game_update with a turn: the answer arrives in time.
CompleteTurn ==
  /\ Held
  /\ lease' = NoLease
  /\ UNCHANGED <<now, status, suspect, mic>>
  /\ Settle(Charged, NoLease)

\* Mutant of FailTurn: the turn is closed without touching the sessions row.
FailTurnQuietly ==
  /\ lease # NoLease
  /\ lease' = NoLease
  /\ UNCHANGED <<now, session>>

\* The worker gives the turn up; its lease may have expired by then.
FailTurn ==
  /\ lease # NoLease
  /\ lease' = NoLease
  /\ UNCHANGED <<now, status, suspect, mic>>
  /\ Settle(Charged, NoLease)

\* commit_game_update for a control, which waits for the pending answer ...
Commits(c) == ~ Held /\ lease' = NoLease /\ UNCHANGED now /\ Settle(c, NoLease)
\* ... or cancels it.
Cancels == lease' = NoLease /\ UNCHANGED now /\ Settle(Charged, NoLease)

\* Another suspect, the same one again, or the research files.
SetStage(s) ==
  /\ status = "in_progress"
  /\ suspect' = s
  /\ UNCHANGED <<status, mic>>
  /\ Commits(Charged)

SetMicrophone(p) ==
  /\ status = "in_progress"
  /\ mic' = p
  /\ UNCHANGED <<status, suspect>>
  /\ Commits(Charged)

Pause  == status = "in_progress" /\ status' = "paused" /\ UNCHANGED <<suspect, mic>> /\ Cancels
Resume == status = "paused" /\ status' = "in_progress" /\ UNCHANGED <<suspect, mic>> /\ Commits(Charged)
End    == status # "finished" /\ status' = "finished" /\ UNCHANGED <<suspect, mic>> /\ Cancels

\* Mutant of Extend: the seconds are added before the clock is charged.
ExtendUnsettled ==
  /\ status \in {"in_progress", "paused"} /\ suspect # NoSuspect
  /\ ~ Held
  /\ Remaining(suspect) + Extra <= MaxClock
  /\ UNCHANGED <<now, status, suspect, mic, lease>>
  /\ Settle([clocks EXCEPT ![suspect] = Floor(Reading(clocks, suspect) + Extra - Elapsed)], NoLease)

\* extend_interview_clock settles first, then adds; it fails no expired turn.
Extend ==
  /\ status \in {"in_progress", "paused"} /\ suspect # NoSuspect
  /\ ~ Held
  /\ Remaining(suspect) + Extra <= MaxClock
  /\ UNCHANGED <<now, status, suspect, mic, lease>>
  /\ Settle([Charged EXCEPT ![suspect] = Reading(Charged, suspect) + Extra], NoLease)

Next ==
  \/ PassSecond
  \/ TickClock
  \/ \E p \in Detectives : BeginTurn(p)
  \/ CompleteTurn \/ FailTurn
  \/ \E s \in OnStage : SetStage(s)
  \/ \E p \in Players : SetMicrophone(p)
  \/ Pause \/ Resume \/ End \/ Extend

Spec == Init /\ [][Next]_vars

-----------------------------------------------------------------------------
(* Properties.                                                             *)

\* The anchor lies in the future exactly while a turn is pending, and then at
\* the end of its lease: the clocks never stand still for a turn that is over,
\* never run while an answer is generated, and a lost worker holds them up for
\* one lease at most.
AnchorIsLease ==
  /\ anchor > now => anchor = lease
  /\ Held => Runs /\ anchor = lease
  /\ lease <= now + Lease

\* What the clocks show is what is charged: the row's clocks, projected, count
\* like two clocks that tick every second.
Ideal == INSTANCE Countdown WITH
           Nobody  <- NoSuspect,
           stage   <- suspect,
           running <- Runs,
           holder  <- mic,
           left    <- Left,
           share   <- Microphone,
           waiting <- Waiting

ImplementsCountdown == Ideal!Spec

\* Only seconds take time from a suspect, one at a time and from the suspect on
\* stage alone, and none while an answer is generated: however often a read, a
\* retry or a control settles the row, no second is charged twice.
SpentOnce ==
  /\ \A s \in Suspects :
       \/ Left'[s] >= Left[s]
       \/ PassSecond /\ s = suspect /\ ~ Held /\ Left'[s] + 1 = Left[s]
  /\ PassSecond => \A s \in Suspects : Left'[s] <= Left[s]
NoSecondTwice == [][SpentOnce]_vars
=============================================================================
