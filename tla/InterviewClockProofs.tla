------------------------ MODULE InterviewClockProofs ------------------------
(***************************************************************************)
(* Proofs about InterviewClock: the lazily settled clocks implement the    *)
(* ticking ones, for any number of suspects and detectives and any         *)
(* budgets.                                                                *)
(***************************************************************************)
EXTENDS InterviewClock, TLAPS

USE SeatsAssumption, NobodyAssumption, SecondsAssumption

ClockInv == TypeOK /\ AnchorIsLease

-----------------------------------------------------------------------------
(* What one run of the trigger does.                                       *)

\* Elapsed time and the readings are natural numbers.
LEMMA ReadingsType ==
  ASSUME TypeOK
  PROVE  /\ Elapsed \in Nat /\ Microphone \in Nat
         /\ \A s \in Suspects : Reading(clocks, s) \in Nat /\ Remaining(s) \in Nat
BY DEF TypeOK, Elapsed, Floor, Microphone, Reading, Remaining, NoClock

\* Nothing has elapsed at an anchor that has not passed.
LEMMA NothingElapsed ==
  ASSUME NEW t \in Nat, NEW a \in Nat, a >= t
  PROVE  Floor(t - a) = 0
BY DEF Floor

\* Charging the running clock stores what was left of it.
LEMMA ChargedStoresRemaining ==
  ASSUME TypeOK
  PROVE  /\ Charged \in [Suspects -> Nat \cup {NoClock}]
         /\ \A s \in Suspects : Reading(Charged, s) = Remaining(s)
<1>1. CASE Runs
  <2>1. suspect \in Suspects /\ Floor(Reading(clocks, suspect) - Elapsed) \in Nat
    BY <1>1, ReadingsType DEF Runs, TypeOK, OnStage, Floor
  <2>2. Charged = [clocks EXCEPT ![suspect] = Floor(Reading(clocks, suspect) - Elapsed)]
    BY <1>1 DEF Charged
  <2> QED
    BY <1>1, <2>1, <2>2 DEF Reading, Remaining, NoClock, TypeOK
<1>2. CASE ~ Runs
  BY <1>2 DEF Charged, Reading, Remaining, TypeOK
<1> QED
  BY <1>1, <1>2

\* A transaction that settles the row stores clocks c, and nothing is charged to
\* them until the anchor has passed.
LEMMA SettleEffect ==
  ASSUME TypeOK, NEW c \in [Suspects -> Nat \cup {NoClock}], NEW until \in Nat, Settle(c, until),
         now' = now, status' \in {"in_progress", "paused", "finished"},
         suspect' \in OnStage, mic' \in Players
  PROVE  /\ clocks' \in [Suspects -> Nat \cup {NoClock}] /\ anchor' \in Nat /\ seconds' \in Nat
         /\ \A s \in Suspects : (Remaining(s))' = Reading(c, s)
         /\ Runs' <=> status' = "in_progress" /\ suspect' # NoSuspect
         /\ Microphone' = IF mic' # mic THEN Share ELSE Microphone
         /\ Waiting' <=> Runs' /\ until > now
         /\ Runs' => anchor' = IF until > now THEN until ELSE now
         /\ ~ Runs' => anchor' = NoAnchor
<1>1. seconds' \in Nat /\ seconds' = IF mic' # mic THEN Share ELSE Microphone
  BY ReadingsType DEF Settle, Microphone
<1>2. anchor' \in Nat /\ (anchor' # NoAnchor => anchor' >= now)
  BY DEF Settle, TypeOK, NoAnchor
<1>3. Elapsed' = 0
  <2>1. anchor' # NoAnchor => anchor' >= now'
    BY <1>2
  <2>2. now' \in Nat /\ anchor' \in Nat
    BY <1>2 DEF TypeOK
  <2>3. anchor' # NoAnchor => Floor(now' - anchor') = 0
    BY <2>1, <2>2, NothingElapsed
  <2>4. Elapsed' = IF Runs' THEN Floor(now' - anchor') ELSE 0
    BY DEF Elapsed
  <2>5. Runs' => anchor' # NoAnchor
    BY DEF Runs, NoAnchor
  <2> QED
    BY <2>3, <2>4, <2>5
<1>4. /\ clocks' \in [Suspects -> Nat \cup {NoClock}]
      /\ \A s \in Suspects : Reading(clocks', s) = Reading(c, s) /\ Reading(c, s) \in Nat
  BY DEF Settle, Opened, Reading, NoClock, OnStage
<1>5. \A s \in Suspects : (Remaining(s))' = Reading(clocks', s)
  BY <1>3, <1>4 DEF Remaining, Reading, Floor
<1>6. Microphone' = seconds'
  BY <1>1, <1>3 DEF Microphone, Floor
<1>7. /\ Runs' <=> status' = "in_progress" /\ suspect' # NoSuspect
      /\ Runs' => anchor' = IF until > now THEN until ELSE now
      /\ ~ Runs' => anchor' = NoAnchor
  BY DEF Settle, Runs, TypeOK, NoAnchor
<1>8. Waiting' <=> Runs' /\ until > now
  BY <1>7 DEF Waiting, TypeOK
<1> QED
  BY <1>1, <1>2, <1>4, <1>5, <1>6, <1>7, <1>8

-----------------------------------------------------------------------------
(* The inductive invariant.                                                *)

\* Which transactions settle the row, on which clocks and with which lease.
Transaction(c, until) ==
  /\ UNCHANGED now
  /\ status' \in {"in_progress", "paused", "finished"} /\ suspect' \in OnStage /\ mic' \in Players
  /\ lease' \in Nat /\ until \in Nat
  /\ Settle(c, until)

\* A transaction keeps the types, and the anchor in step with the lease, when it
\* ends with the lease it settles for.
LEMMA TransactionKeeps ==
  ASSUME ClockInv, NEW c \in [Suspects -> Nat \cup {NoClock}], NEW until, Transaction(c, until),
         lease' > now <=> until > now,
         until > now => until = lease' /\ status' = "in_progress" /\ suspect' # NoSuspect,
         lease' <= now + Lease
  PROVE  ClockInv'
<1>1. TypeOK'
  BY SettleEffect DEF ClockInv, TypeOK, Transaction
<1>2. AnchorIsLease'
  BY SettleEffect DEF ClockInv, TypeOK, Transaction, AnchorIsLease, Held, NoAnchor
<1> QED
  BY <1>1, <1>2 DEF ClockInv

\* Every step is a second, a transaction, or a read that changes nothing.
LEMMA InvNext == ClockInv /\ [Next]_vars => ClockInv'
<1> SUFFICES ASSUME ClockInv, [Next]_vars PROVE ClockInv'
  OBVIOUS
<1> USE DEF ClockInv
<1>0. Charged \in [Suspects -> Nat \cup {NoClock}] /\ NoLease \in Nat /\ NoLease <= now /\ now \in Nat
      /\ lease \in Nat
  BY ChargedStoresRemaining DEF TypeOK, NoLease
<1>1. CASE PassSecond
  BY <1>1 DEF PassSecond, TypeOK, AnchorIsLease, session, Held, Runs
<1>2. CASE TickClock
  <2>1. CASE UNCHANGED session
    BY <1>2, <2>1 DEF TickClock, TypeOK, AnchorIsLease, session, Held, Runs
  <2>2. CASE UNCHANGED <<status, suspect>> /\ Settle(Charged, NoLease)
    BY <1>0, <1>2, <2>2, TransactionKeeps
       DEF TickClock, Transaction, TypeOK, AnchorIsLease, Held
  <2> QED
    BY <1>2, <2>1, <2>2 DEF TickClock
<1>3. ASSUME NEW p \in Detectives, BeginTurn(p) PROVE ClockInv'
  <2>1. lease' = now + Lease /\ lease' \in Nat /\ lease' > now
    BY <1>0, <1>3 DEF BeginTurn
  <2> QED
    BY <1>0, <1>3, <2>1, TransactionKeeps
       DEF BeginTurn, Transaction, TypeOK, AnchorIsLease, Interviewing
<1>4. CASE CompleteTurn \/ FailTurn
  BY <1>0, <1>4, TransactionKeeps DEF CompleteTurn, FailTurn, Transaction, TypeOK
<1>5. ASSUME NEW s \in OnStage, SetStage(s) PROVE ClockInv'
  BY <1>0, <1>5, TransactionKeeps DEF SetStage, Commits, Transaction, TypeOK
<1>6. ASSUME NEW p \in Players, SetMicrophone(p) PROVE ClockInv'
  BY <1>0, <1>6, TransactionKeeps DEF SetMicrophone, Commits, Transaction, TypeOK
<1>7. CASE Pause \/ Resume \/ End
  BY <1>0, <1>7, TransactionKeeps DEF Pause, Resume, End, Commits, Cancels, Transaction, TypeOK
<1>8. CASE Extend
  <2> DEFINE c == [Charged EXCEPT ![suspect] = Reading(Charged, suspect) + Extra]
  <2>1. c \in [Suspects -> Nat \cup {NoClock}]
    BY <1>0, <1>8, ChargedStoresRemaining, ReadingsType DEF Extend, TypeOK, OnStage
  <2> QED
    <3>1. Transaction(c, NoLease)
      BY <1>0, <1>8 DEF Extend, Transaction, TypeOK
    <3>2. lease' = lease /\ lease <= now
      BY <1>0, <1>8 DEF Extend, Held
    <3> HIDE DEF c
    <3> QED
      BY <1>0, <2>1, <3>1, <3>2, TransactionKeeps
<1>9. CASE UNCHANGED vars
  BY <1>9 DEF vars, session, TypeOK, AnchorIsLease, Held, Runs
<1> QED
  BY <1>1, <1>2, <1>3, <1>4, <1>5, <1>6, <1>7, <1>8, <1>9 DEF Next

\* The clocks start in step.
LEMMA InvInit == Init => ClockInv
BY DEF Init, ClockInv, TypeOK, AnchorIsLease, Held, NoAnchor, NoLease, NoClock, NoPlayer, Players

\* Types, and the anchor in the future exactly while a lease is live, in every
\* reachable state.
THEOREM ClockInvariant == Spec => []ClockInv
BY InvInit, InvNext, PTL DEF Spec

\* The clocks pause for a pending turn, for one lease at most (AnchorIsLease).
THEOREM AnchorFollowsLease == Spec => []AnchorIsLease
BY ClockInvariant, PTL DEF ClockInv

\* Every reachable state is well typed (TypeOK).
THEOREM ClockTypes == Spec => []TypeOK
BY ClockInvariant, PTL DEF ClockInv

-----------------------------------------------------------------------------
(* The refinement.                                                         *)

IdealStep == [Ideal!Next]_(Ideal!vars)

\* Running and waiting are truth values.
LEMMA Flags == /\ Runs \in BOOLEAN /\ Waiting \in BOOLEAN
               /\ Runs' \in BOOLEAN /\ Waiting' \in BOOLEAN
BY DEF Runs, Waiting

\* Somebody waits exactly while a lease is live.
LEMMA WaitingIsHeld == ASSUME ClockInv PROVE Waiting <=> Held
BY DEF ClockInv, TypeOK, AnchorIsLease, Waiting, Held

\* A transaction that stores what was charged takes no time from anybody.
LEMMA ChargedKeepsTime ==
  ASSUME ClockInv, NEW until, Transaction(Charged, until)
  PROVE  /\ Left' = Left
         /\ Runs' <=> status' = "in_progress" /\ suspect' # NoSuspect
         /\ Microphone' = IF mic' # mic THEN Share ELSE Microphone
         /\ Waiting' <=> Runs' /\ until > now
<1>1. Charged \in [Suspects -> Nat \cup {NoClock}] /\ \A s \in Suspects : Reading(Charged, s) = Remaining(s)
  BY ChargedStoresRemaining DEF ClockInv
<1> QED
  BY <1>1, SettleEffect DEF ClockInv, Transaction, Left

\* A second on the wall is a second of the countdown.
LEMMA SecondStep == ASSUME ClockInv, PassSecond PROVE Ideal!Second
<1>1. now \in Nat /\ now' = now + 1 /\ anchor \in Nat /\ seconds \in Nat
  BY DEF PassSecond, ClockInv, TypeOK
<1>2. Runs' = Runs /\ UNCHANGED <<suspect, mic, clocks, anchor, seconds>>
  BY DEF PassSecond, session, Runs
<1>3. CASE Runs /\ ~ Waiting
  <2>1. Elapsed' = Elapsed + 1 /\ Elapsed \in Nat
    BY <1>1, <1>2, <1>3 DEF Waiting, Elapsed, Floor
  <2>2. suspect \in Suspects
    BY <1>3 DEF Runs, ClockInv, TypeOK, OnStage
  <2>3. \A s \in Suspects : Reading(clocks, s) \in Nat
    BY ReadingsType DEF ClockInv
  <2>4. \A s \in Suspects : (Remaining(s))' = IF s = suspect THEN Ideal!Less(Remaining(s)) ELSE Remaining(s)
    BY <1>2, <1>3, <2>1, <2>2, <2>3 DEF Remaining, Reading, Floor, Ideal!Less
  <2>5. Microphone' = Ideal!Less(Microphone)
    BY <1>1, <1>2, <2>1 DEF Microphone, Floor, Ideal!Less
  <2>6. ~ Waiting'
    BY <1>1, <1>2, <1>3 DEF Waiting
  <2> QED
    BY <1>2, <1>3, <2>2, <2>4, <2>5, <2>6 DEF Ideal!Second, Left
<1>4. CASE ~ (Runs /\ ~ Waiting)
  <2>1. Elapsed' = 0 /\ Elapsed = 0
    BY <1>1, <1>2, <1>4 DEF Elapsed, Floor, Waiting
  <2>2. Microphone' = Microphone /\ \A s \in Suspects : (Remaining(s))' = Remaining(s)
    BY <1>2, <2>1 DEF Microphone, Remaining, Reading
  <2>3. Waiting' => Waiting
    BY <1>1, <1>2 DEF Waiting
  <2> QED
    BY <1>2, <1>4, <2>2, <2>3 DEF Ideal!Second, Left
<1> QED
  BY <1>3, <1>4

\* A microphone that the tick moves was spent, while there was time to ask.
LEMMA TickMovesSpentMic ==
  ASSUME ClockInv, Interviewing, TickMic, mic' # mic
  PROVE  Runs /\ Microphone = 0 /\ Left[suspect] > 0
<1>1. TickRotates
  BY DEF TickMic
<1>2. Runs /\ suspect \in Suspects
  BY <1>1 DEF TickRotates, TickTouches, Interviewing, Runs, ClockInv, TypeOK, OnStage
<1>3. Elapsed \in Nat /\ seconds \in Nat /\ Reading(clocks, suspect) \in Nat
  BY <1>2, ReadingsType DEF ClockInv, TypeOK
<1>4. seconds <= Elapsed /\ Reading(clocks, suspect) > Elapsed
  BY <1>1 DEF TickRotates
<1> QED
  BY <1>2, <1>3, <1>4 DEF Microphone, Remaining, Left, Floor

\* A tick that writes is a step of the countdown.
LEMMA TickStep == ASSUME ClockInv, TickClock PROVE IdealStep
<1>1. CASE UNCHANGED session
  BY <1>1 DEF TickClock, session, IdealStep, Ideal!vars, Runs, Left, Remaining, Reading, Elapsed,
              Microphone, Waiting
<1>2. CASE UNCHANGED <<status, suspect>> /\ Settle(Charged, NoLease)
  <2>1. Transaction(Charged, NoLease)
    BY <1>2 DEF TickClock, Transaction, ClockInv, TypeOK, NoLease
  <2>2. /\ Left' = Left /\ Runs' /\ ~ Waiting' /\ ~ Waiting
        /\ Microphone' = IF mic' # mic THEN Share ELSE Microphone
    BY <1>2, <2>1, ChargedKeepsTime, WaitingIsHeld
       DEF TickClock, Interviewing, ClockInv, TypeOK, NoLease
  <2>3. CASE mic' = mic
    BY <1>2, <2>2, <2>3 DEF TickClock, Interviewing, IdealStep, Ideal!Next, Ideal!Direct
  <2>4. CASE mic' # mic
    BY <1>2, <2>2, <2>4, TickMovesSpentMic, Flags
       DEF TickClock, IdealStep, Ideal!Next, Ideal!Rotate, Ideal!Rotates
  <2> QED
    BY <2>3, <2>4
<1> QED
  BY <1>1, <1>2 DEF TickClock

\* A question is accepted while there is time, by the holder of the microphone.
LEMMA BeginStep == ASSUME ClockInv, NEW p \in Detectives, BeginTurn(p) PROVE IdealStep
<1>1. lease' = now + Lease /\ lease' \in Nat /\ lease' > now /\ now \in Nat
  BY DEF BeginTurn, ClockInv, TypeOK
<1>2. Transaction(Charged, lease')
  BY <1>1 DEF BeginTurn, Transaction, ClockInv, TypeOK
<1>3. /\ Left' = Left /\ Runs' /\ Waiting' /\ ~ Waiting
      /\ Microphone' = IF mic' # mic THEN Share ELSE Microphone
  BY <1>1, <1>2, ChargedKeepsTime, WaitingIsHeld DEF BeginTurn, Interviewing
<1>4. suspect # NoSuspect /\ Left[suspect] > 0
  BY DEF BeginTurn, Interviewing, Left, ClockInv, TypeOK, OnStage
<1>5. mic' # mic => Runs /\ Microphone = 0
  BY TickMovesSpentMic DEF BeginTurn
<1> QED
  BY <1>3, <1>4, <1>5 DEF BeginTurn, IdealStep, Ideal!Next, Ideal!Ask, Ideal!Rotates

\* The end of a turn resumes the countdown where it stopped.
LEMMA EndOfTurnStep == ASSUME ClockInv, CompleteTurn \/ FailTurn PROVE IdealStep
<1>1. Transaction(Charged, NoLease) /\ UNCHANGED <<status, suspect, mic>>
  BY DEF CompleteTurn, FailTurn, Transaction, ClockInv, TypeOK, NoLease
<1>2. Left' = Left /\ Microphone' = Microphone /\ ~ Waiting'
  BY <1>1, ChargedKeepsTime DEF ClockInv, TypeOK, NoLease
<1>3. Runs' <=> status = "in_progress" /\ suspect # NoSuspect
  BY <1>1, ChargedKeepsTime
<1>4. CASE Held
  <2>1. Waiting /\ Runs /\ (Runs' <=> Runs)
    BY <1>3, <1>4, WaitingIsHeld DEF ClockInv, AnchorIsLease, Runs
  <2> QED
    BY <1>1, <1>2, <2>1 DEF IdealStep, Ideal!Next, Ideal!Answer
<1>5. CASE ~ Held
  BY <1>1, <1>2, <1>3, <1>5, WaitingIsHeld DEF IdealStep, Ideal!Next, Ideal!Direct
<1> QED
  BY <1>4, <1>5

\* The host's controls take no time from anybody.
LEMMA ControlStep ==
  ASSUME ClockInv, Transaction(Charged, NoLease), mic' = mic,
         Held => status' # "in_progress"
  PROVE  IdealStep
<1>1. /\ Left' = Left /\ Microphone' = Microphone /\ ~ Waiting'
      /\ Runs' <=> status' = "in_progress" /\ suspect' # NoSuspect
  BY ChargedKeepsTime DEF ClockInv, TypeOK, NoLease
<1> QED
  BY <1>1, WaitingIsHeld DEF IdealStep, Ideal!Next, Ideal!Direct

\* Handing over the microphone gives its new holder a full share.
LEMMA MicrophoneStep == ASSUME ClockInv, NEW p \in Players, SetMicrophone(p) PROVE IdealStep
<1>1. Transaction(Charged, NoLease) /\ UNCHANGED <<status, suspect>> /\ ~ Held
  BY DEF SetMicrophone, Commits, Transaction, ClockInv, TypeOK, NoLease
<1>2. CASE mic' = mic
  BY <1>1, <1>2, ControlStep
<1>3. CASE mic' # mic
  <2>1. /\ Left' = Left /\ Microphone' = Share /\ ~ Waiting' /\ ~ Waiting
        /\ Runs' <=> status' = "in_progress" /\ suspect' # NoSuspect
    BY <1>1, <1>3, ChargedKeepsTime, WaitingIsHeld DEF ClockInv, TypeOK, NoLease
  <2>2. Runs => Runs'
    BY <1>1, <2>1 DEF Runs
  <2>3. Runs' => suspect # NoSuspect
    BY <1>1, <2>1
  <2> QED
    BY <1>1, <1>3, <2>1, <2>2, <2>3, Flags DEF IdealStep, Ideal!Next, Ideal!Pass
<1> QED
  BY <1>2, <1>3

\* Added time is added to what was left, not to what was stored.
LEMMA ExtendStep == ASSUME ClockInv, Extend PROVE IdealStep
<1> DEFINE c == [Charged EXCEPT ![suspect] = Reading(Charged, suspect) + Extra]
<1>1. suspect \in Suspects /\ Charged \in [Suspects -> Nat \cup {NoClock}]
  BY ChargedStoresRemaining DEF Extend, ClockInv, TypeOK, OnStage
<1>2. \A s \in Suspects : Reading(Charged, s) = Remaining(s) /\ Remaining(s) \in Nat
  BY ChargedStoresRemaining, ReadingsType DEF ClockInv
<1>3. c \in [Suspects -> Nat \cup {NoClock}]
  BY <1>1, <1>2
<1>4. \A s \in Suspects :
        Reading(c, s) = IF s = suspect THEN Remaining(s) + Extra ELSE Remaining(s)
  <2> SUFFICES ASSUME NEW s \in Suspects
               PROVE Reading(c, s) = IF s = suspect THEN Remaining(s) + Extra ELSE Remaining(s)
    OBVIOUS
  <2>1. c[s] = IF s = suspect THEN Remaining(s) + Extra ELSE Charged[s]
    BY <1>1, <1>2
  <2>2. s = suspect => c[s] # NoClock
    BY <1>2, <2>1 DEF NoClock
  <2> QED
    BY <1>2, <2>1, <2>2 DEF Reading
<1>5. /\ Settle(c, NoLease) /\ UNCHANGED <<now, status, suspect, mic>> /\ ~ Held
      /\ NoLease \in Nat
  BY DEF Extend, NoLease
<1> HIDE DEF c
<1>6. /\ \A s \in Suspects : (Remaining(s))' = Reading(c, s)
      /\ Microphone' = Microphone /\ ~ Waiting'
      /\ Runs' <=> status = "in_progress" /\ suspect # NoSuspect
  BY <1>3, <1>5, SettleEffect DEF ClockInv, TypeOK, NoLease
<1>7. Left' = [Left EXCEPT ![suspect] = @ + Extra]
  BY <1>1, <1>4, <1>6 DEF Left
<1>8. Runs => Runs'
  BY <1>6 DEF Runs
<1> QED
  BY <1>1, <1>5, <1>6, <1>7, <1>8, WaitingIsHeld, Flags
     DEF IdealStep, Ideal!Next, Ideal!Extend

\* The lazily settled clocks implement the ticking ones (ImplementsCountdown).
THEOREM ClocksImplementCountdown == Spec => ImplementsCountdown
<1>1. Init => Ideal!Init
  BY DEF Init, Ideal!Init, Runs, Left, Remaining, Reading, Microphone, Elapsed, Floor, Waiting, NoAnchor
<1>2. ClockInv /\ [Next]_vars => [Ideal!Next]_(Ideal!vars)
  <2> SUFFICES ASSUME ClockInv, [Next]_vars PROVE IdealStep
    BY DEF IdealStep
  <2>1. CASE PassSecond
    BY <2>1, SecondStep DEF IdealStep, Ideal!Next
  <2>2. CASE TickClock
    BY <2>2, TickStep
  <2>3. ASSUME NEW p \in Detectives, BeginTurn(p) PROVE IdealStep
    BY <2>3, BeginStep
  <2>4. CASE CompleteTurn \/ FailTurn
    BY <2>4, EndOfTurnStep
  <2>5. ASSUME NEW s \in OnStage, SetStage(s) PROVE IdealStep
    BY <2>5, ControlStep DEF SetStage, Commits, Transaction, ClockInv, TypeOK, NoLease
  <2>6. ASSUME NEW p \in Players, SetMicrophone(p) PROVE IdealStep
    BY <2>6, MicrophoneStep
  <2>7. CASE Pause \/ Resume \/ End
    BY <2>7, ControlStep
       DEF Pause, Resume, End, Commits, Cancels, Transaction, ClockInv, TypeOK, NoLease
  <2>8. CASE Extend
    BY <2>8, ExtendStep
  <2>9. CASE UNCHANGED vars
    BY <2>9 DEF vars, session, IdealStep, Ideal!vars, Runs, Left, Remaining, Reading, Elapsed,
                Microphone, Waiting
  <2> QED
    BY <2>1, <2>2, <2>3, <2>4, <2>5, <2>6, <2>7, <2>8, <2>9 DEF Next
<1> QED
  BY <1>1, <1>2, ClockInvariant, PTL DEF Spec, ImplementsCountdown, Ideal!Spec

-----------------------------------------------------------------------------
(* No second is charged twice.                                             *)

\* What is not a second takes no time from anybody.
LEMMA TransactionsTakeNothing ==
  ASSUME ClockInv, Next, ~ PassSecond, NEW s \in Suspects
  PROVE  Left'[s] >= Left[s]
<1>1. Left[s] \in Nat
  BY ReadingsType DEF ClockInv, Left
<1>2. CASE Left' = Left
  BY <1>1, <1>2
<1>3. NoLease \in Nat /\ now \in Nat
  BY DEF NoLease, ClockInv, TypeOK
<1>4. CASE TickClock
  <2>1. CASE UNCHANGED session
    BY <1>2, <1>4, <2>1 DEF TickClock, session, Left, Remaining, Reading, Elapsed, Runs
  <2>2. CASE UNCHANGED <<status, suspect>> /\ Settle(Charged, NoLease)
    <3>1. Transaction(Charged, NoLease)
      BY <1>3, <1>4, <2>2 DEF TickClock, Transaction, ClockInv, TypeOK
    <3>2. QED
      BY <1>2, <3>1, ChargedKeepsTime
  <2>3. QED
    BY <1>4, <2>1, <2>2 DEF TickClock
<1>5. ASSUME NEW p \in Detectives, BeginTurn(p) PROVE Left' = Left
  <2>1. lease' \in Nat
    BY <1>3, <1>5 DEF BeginTurn
  <2>2. Transaction(Charged, lease')
    BY <1>5, <2>1 DEF BeginTurn, Transaction, ClockInv, TypeOK
  <2>3. QED
    BY <2>2, ChargedKeepsTime
<1>6. CASE CompleteTurn \/ FailTurn \/ Pause \/ Resume \/ End
  <2>1. Transaction(Charged, NoLease)
    BY <1>3, <1>6
       DEF CompleteTurn, FailTurn, Pause, Resume, End, Commits, Cancels, Transaction, ClockInv, TypeOK
  <2>2. QED
    BY <1>2, <2>1, ChargedKeepsTime
<1>7. ASSUME (\E x \in OnStage : SetStage(x)) \/ (\E p \in Players : SetMicrophone(p))
      PROVE  Left' = Left
  <2>1. Transaction(Charged, NoLease)
    BY <1>3, <1>7 DEF SetStage, SetMicrophone, Commits, Transaction, ClockInv, TypeOK
  <2>2. QED
    BY <2>1, ChargedKeepsTime
<1>8. CASE Extend
  <2>1. suspect \in Suspects /\ Charged \in [Suspects -> Nat \cup {NoClock}]
    BY <1>8, ChargedStoresRemaining DEF Extend, ClockInv, TypeOK, OnStage
  <2>2. \A x \in Suspects : Reading(Charged, x) = Remaining(x) /\ Remaining(x) \in Nat
    BY ChargedStoresRemaining, ReadingsType DEF ClockInv
  <2> DEFINE c == [Charged EXCEPT ![suspect] = Reading(Charged, suspect) + Extra]
  <2>3. c \in [Suspects -> Nat \cup {NoClock}]
    BY <2>1, <2>2
  <2>4. Reading(c, s) >= Remaining(s)
    <3>1. CASE s = suspect
      <4>1. c[s] = Remaining(s) + Extra
        BY <2>1, <2>2, <3>1
      <4>2. c[s] \in Nat /\ c[s] >= Remaining(s)
        BY <2>1, <2>2, <4>1
      <4>3. c[s] # NoClock
        BY <4>2 DEF NoClock
      <4>4. QED
        BY <4>2, <4>3 DEF Reading
    <3>2. CASE s # suspect
      <4>1. Reading(c, s) = Remaining(s)
        BY <2>1, <2>2, <3>2 DEF Reading
      <4>2. QED
        BY <2>2, <4>1
    <3>3. QED
      BY <3>1, <3>2
  <2>5. Settle(c, NoLease) /\ UNCHANGED <<now, status, suspect, mic>>
    BY <1>8 DEF Extend
  <2> HIDE DEF c
  <2>6. (Remaining(s))' = Reading(c, s)
    BY <1>3, <2>3, <2>5, SettleEffect DEF ClockInv, TypeOK
  <2>7. QED
    BY <2>4, <2>6 DEF Left
<1>9. QED
  BY <1>2, <1>4, <1>5, <1>6, <1>7, <1>8 DEF Next

\* Only seconds are charged, each once, to the suspect on stage, and none while an
\* answer is generated (NoSecondTwice), for all budgets, leases and numbers of
\* suspects and detectives and whatever transactions settle the row in between.
THEOREM SecondsAreChargedOnce == Spec => NoSecondTwice
<1>1. ClockInv /\ [Next]_vars => [SpentOnce]_vars
  <2> SUFFICES ASSUME ClockInv, Next
               PROVE  SpentOnce
    OBVIOUS
  <2>1. CASE ~ PassSecond
    BY <2>1, TransactionsTakeNothing DEF SpentOnce
  <2>2. CASE PassSecond
    <3>1. \A s \in Suspects : Left[s] \in Nat
      BY ReadingsType DEF ClockInv, Left
    <3>2. Ideal!Second
      BY <2>2, SecondStep
    <3>3. CASE Runs /\ ~ Waiting
      <4>1. \A s \in Suspects : Left'[s] = IF s = suspect THEN Ideal!Less(Left[s]) ELSE Left[s]
        BY <3>2, <3>3 DEF Ideal!Second, Left
      <4>2. ~ Held
        BY <3>3, WaitingIsHeld
      <4>3. QED
        BY <2>2, <3>1, <4>1, <4>2 DEF SpentOnce, Ideal!Less
    <3>4. CASE ~ (Runs /\ ~ Waiting)
      <4>1. Left' = Left
        BY <3>2, <3>4 DEF Ideal!Second
      <4>2. QED
        BY <3>1, <4>1 DEF SpentOnce
    <3>5. QED
      BY <3>3, <3>4
  <2>3. QED
    BY <2>1, <2>2
<1>2. QED
  BY <1>1, ClockInvariant, PTL DEF Spec, NoSecondTwice
=============================================================================
