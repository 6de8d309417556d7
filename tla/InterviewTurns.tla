--------------------------- MODULE InterviewTurns ---------------------------
(***************************************************************************)
(* The interview turn: one session row guarded by a revision, the table of *)
(* interview turns with their leases and attempt tokens, and the server    *)
(* invocations that work on both.  An invocation reads the row, computes   *)
(* for as long as it likes, and writes with one database call; invocations *)
(* interleave freely, fail, or die.  Time appears only as the expiry of a  *)
(* lease and of the microphone; InterviewClock has the seconds.            *)
(*                                                                         *)
(* The module starts when the interrogation opens (transitionSessionPhase) *)
(* and ends with the accusation: that is the window in which turns exist.  *)
(***************************************************************************)
EXTENDS Naturals, FiniteSets

CONSTANTS
  Detectives,   \* seat numbers of the players who are not observers
  Suspects,
  Evidence,
  Questions,    \* question texts, with the exhibit they present
  Requests,     \* request ids that phones make up (UUIDs)
  Askers,       \* concurrent invocations of the interview route
  Editors,      \* concurrent invocations of the host and player controls
  NoSuspect,    \* null in current_interview_suspect_id
  NoRequest,
  MaxRevision,  \* bound on the revision
  MaxAttempts   \* bound on the attempts begun

ASSUME DetectivesAssumption == Detectives \subseteq Nat \ {0}
ASSUME NullsAssumption == NoSuspect \notin Suspects /\ NoRequest \notin Requests
ASSUME BoundsAssumption == MaxRevision \in Nat /\ MaxAttempts \in Nat

VARIABLES
  \* the sessions row
  status, phase, suspect, mic, evidence, revision,
  turns,        \* the interview_turns table, by request id
  attempts,     \* attempt ids handed out so far
  published,    \* the exchanges in the messages table
  ask, edit     \* the server invocations in progress

row  == <<status, phase, suspect, mic, evidence, revision>>
vars == <<row, turns, attempts, published, ask, edit>>

NoPlayer == 0   \* null microphone; coalesce(seat_number, 0) in the rotation

Players     == Detectives \cup {NoPlayer}
OnStage     == Suspects \cup {NoSuspect}
Inputs      == [player : Detectives, question : Questions]
NoInput     == [player |-> NoPlayer, question |-> NoRequest]
AnyInput    == Inputs \cup {NoInput}
Statuses    == {"in_progress", "paused", "finished"}
Phases      == {"interrogation", "accusation"}
TurnStatus  == {"none", "pending", "completed", "failed", "cancelled"}

Snapshot == [revision : Nat, status : Statuses, phase : Phases,
             suspect : OnStage, mic : Players, evidence : SUBSET Evidence]

\* "suspect" is history: who was on stage when the lease was granted.  The
\* table has no such column and the request hash does not cover it.
Turn == [status : TurnStatus, live : BOOLEAN, revision : Nat, attempt : Nat,
         input : AnyInput, suspect : OnStage]

NoTurn == [status |-> "none", live |-> FALSE, revision |-> 0, attempt |-> 0,
           input |-> NoInput, suspect |-> NoSuspect]

Exchange == [id : Requests, input : AnyInput, attempt : Nat,
             suspect : OnStage, revision : Nat]

AskSteps  == {"idle", "begun", "thinking", "committed", "replied"}
EditSteps == {"idle", "scene", "file", "help", "mic", "pause", "resume", "end",
              "accuse", "extend"}

NoSnapshot == [revision |-> 0, status |-> "finished", phase |-> "accusation",
               suspect |-> NoSuspect, mic |-> NoPlayer, evidence |-> {}]

AskRecord  == [at : AskSteps, id : Requests \cup {NoRequest}, input : AnyInput,
               attempt : Nat, saw : Snapshot]
EditRecord == [at : EditSteps, actor : Players, suspect : OnStage,
               player : Players, saw : Snapshot]

IdleAsk  == [at |-> "idle", id |-> NoRequest, input |-> NoInput, attempt |-> 0,
             saw |-> NoSnapshot]
IdleEdit == [at |-> "idle", actor |-> NoPlayer, suspect |-> NoSuspect,
             player |-> NoPlayer, saw |-> NoSnapshot]

TypeOK ==
  /\ status \in Statuses /\ phase \in Phases /\ suspect \in OnStage
  /\ mic \in Players /\ evidence \subseteq Evidence /\ revision \in Nat
  /\ turns \in [Requests -> Turn]
  /\ attempts \in Nat
  /\ published \subseteq Exchange
  /\ ask \in [Askers -> AskRecord]
  /\ \A h \in Askers : ask[h].at # "idle" => ask[h].id \in Requests
  /\ edit \in [Editors -> EditRecord]

-----------------------------------------------------------------------------
(* Questions the database calls ask of the tables. *)

Pending(id) == turns[id].status = "pending"
Live(id)    == Pending(id) /\ turns[id].live
TurnHeld    == \E id \in Requests : Live(id)

InterviewOpen == /\ status = "in_progress"
                 /\ phase = "interrogation"
                 /\ suspect # NoSuspect

FailExpired == [id \in Requests |-> IF Pending(id) /\ ~ turns[id].live
                                    THEN [turns[id] EXCEPT !.status = "failed"]
                                    ELSE turns[id]]
\* Mutant: stopping the game forgets the question in progress.
CancelHeldForgets == FailExpired

CancelHeld  == [id \in Requests |->
                  IF ~ Pending(id) THEN turns[id]
                  ELSE [turns[id] EXCEPT
                          !.status = IF turns[id].live THEN "cancelled" ELSE "failed"]]

Init ==
  /\ status = "in_progress" /\ phase = "interrogation" /\ suspect = NoSuspect
  /\ mic = NoPlayer /\ evidence = {} /\ revision = 1
  /\ turns = [id \in Requests |-> NoTurn]
  /\ attempts = 0
  /\ published = {}
  /\ ask = [h \in Askers |-> IdleAsk]
  /\ edit = [h \in Editors |-> IdleEdit]

-----------------------------------------------------------------------------
(* tick_interview_clock, part of every read of the session.                *)

\* The next detective by seat, wrapping; the holder is never chosen.
IsNextSeat(p) ==
  LET others == Detectives \ {mic}
      above  == {d \in others : d > mic}
      pool   == IF above # {} THEN above ELSE others
  IN  p \in pool /\ \A d \in pool : p <= d

\* The ninety seconds have run out: the microphone moves on.
Rotate ==
  /\ status = "in_progress" /\ suspect # NoSuspect
  /\ ~ TurnHeld
  /\ revision < MaxRevision
  /\ \E p \in Detectives : IsNextSeat(p) /\ mic' = p
  /\ revision' = revision + 1

Tick == Rotate \/ UNCHANGED <<mic, revision>>

\* What a read made in this step returns: the row as the tick left it.
RowRead == [revision |-> revision', status |-> status, phase |-> phase,
            suspect |-> suspect, mic |-> mic', evidence |-> evidence]

Poll ==
  /\ Rotate
  /\ UNCHANGED <<status, phase, suspect, evidence, turns, attempts, published, ask, edit>>

-----------------------------------------------------------------------------
(* The interview route: executeInterview.                                  *)

\* Mutant: the expired turn of another request is left pending.
BeginBesideExpired(h, id, in) ==
  /\ ask[h].at = "idle"
  /\ Tick
  /\ turns[id].status = "none" \/ turns[id].input = in
  /\ turns[id].status # "completed"
  /\ InterviewOpen /\ mic' = in.player
  /\ ~ TurnHeld
  /\ attempts < MaxAttempts
  /\ attempts' = attempts + 1
  /\ turns' = [turns EXCEPT ![id] =
                 [status |-> "pending", live |-> TRUE, revision |-> revision',
                  attempt |-> attempts', input |-> in, suspect |-> suspect]]
  /\ ask' = [ask EXCEPT ![h] = [at |-> "begun", id |-> id, input |-> in,
                                attempt |-> attempts', saw |-> NoSnapshot]]
  /\ UNCHANGED <<status, phase, suspect, evidence, published, edit>>

\* Mutant: a request already answered is begun again.
BeginAgain(h, id, in) ==
  /\ ask[h].at = "idle"
  /\ Tick
  /\ turns[id].status = "none" \/ turns[id].input = in
  /\ InterviewOpen /\ mic' = in.player
  /\ ~ TurnHeld
  /\ attempts < MaxAttempts
  /\ attempts' = attempts + 1
  /\ turns' = [FailExpired EXCEPT ![id] =
                 [status |-> "pending", live |-> TRUE, revision |-> revision',
                  attempt |-> attempts', input |-> in, suspect |-> suspect]]
  /\ ask' = [ask EXCEPT ![h] = [at |-> "begun", id |-> id, input |-> in,
                                attempt |-> attempts', saw |-> NoSnapshot]]
  /\ UNCHANGED <<status, phase, suspect, evidence, published, edit>>

\* begin_interview_turn grants a lease: it fails the expired turns, and takes
\* or takes over the request id under a fresh attempt.
Begin(h, id, in) ==
  /\ ask[h].at = "idle"
  /\ Tick
  /\ turns[id].status = "none" \/ turns[id].input = in
  /\ turns[id].status # "completed"
  /\ InterviewOpen /\ mic' = in.player
  /\ ~ TurnHeld
  /\ attempts < MaxAttempts
  /\ attempts' = attempts + 1
  /\ turns' = [FailExpired EXCEPT ![id] =
                 [status |-> "pending", live |-> TRUE, revision |-> revision',
                  attempt |-> attempts', input |-> in, suspect |-> suspect]]
  /\ ask' = [ask EXCEPT ![h] = [at |-> "begun", id |-> id, input |-> in,
                                attempt |-> attempts', saw |-> NoSnapshot]]
  /\ UNCHANGED <<status, phase, suspect, evidence, published, edit>>

\* Mutant: the request hash is not compared.
ReplayAnyInput(h, id, in) ==
  /\ ask[h].at = "idle"
  /\ Tick
  /\ turns[id].status = "completed"
  /\ ask' = [ask EXCEPT ![h] = [at |-> "replied", id |-> id, input |-> in,
                                attempt |-> turns[id].attempt, saw |-> NoSnapshot]]
  /\ UNCHANGED <<status, phase, suspect, evidence, turns, attempts, published, edit>>

\* begin_interview_turn finds the request answered and returns the saved result.
Replay(h, id, in) ==
  /\ ask[h].at = "idle"
  /\ Tick
  /\ turns[id].status = "completed" /\ turns[id].input = in
  /\ ask' = [ask EXCEPT ![h] = [at |-> "replied", id |-> id, input |-> in,
                                attempt |-> turns[id].attempt, saw |-> NoSnapshot]]
  /\ UNCHANGED <<status, phase, suspect, evidence, turns, attempts, published, edit>>

\* getInterviewContext and the checks on what it read; the answer is then
\* drafted, validated and judged from this snapshot.
ReadContext(h) ==
  /\ ask[h].at = "begun"
  /\ Tick
  /\ InterviewOpen
  /\ ask' = [ask EXCEPT ![h].at = "thinking", ![h].saw = RowRead]
  /\ UNCHANGED <<status, phase, suspect, evidence, turns, attempts, published, edit>>

\* Mutant: the attempt token is not compared.
TurnCommitsUnfenced(h) ==
  /\ ask[h].saw.revision = revision
  /\ status = "in_progress"
  /\ Live(ask[h].id) /\ turns[ask[h].id].revision = revision

\* commit_game_update's conditions for a commit that carries a turn.
TurnCommits(h) ==
  LET a == ask[h]
      t == turns[a.id]
  IN  /\ a.saw.revision = revision
      /\ status = "in_progress"
      /\ Live(a.id) /\ t.revision = revision /\ t.attempt = a.attempt

CommitTurn(h) ==
  /\ ask[h].at = "thinking"
  /\ TurnCommits(h)
  /\ revision < MaxRevision
  /\ \E new \in SUBSET Evidence : evidence' = ask[h].saw.evidence \cup new
  /\ mic' = ask[h].saw.mic
  /\ revision' = revision + 1
  /\ published' = published \cup
       {[id |-> ask[h].id, input |-> ask[h].input, attempt |-> ask[h].attempt,
         suspect |-> ask[h].saw.suspect, revision |-> revision']}
  /\ turns' = [turns EXCEPT ![ask[h].id].status = "completed"]
  /\ ask' = [ask EXCEPT ![h].at = "committed", ![h].saw = NoSnapshot]
  /\ UNCHANGED <<status, phase, suspect, attempts, edit>>

\* The row is read once more after the commit, then the route answers.
Reread(h) ==
  /\ ask[h].at = "committed"
  /\ Tick
  /\ ask' = [ask EXCEPT ![h].at = "replied"]
  /\ UNCHANGED <<status, phase, suspect, evidence, turns, attempts, published, edit>>

\* A check, a model call, a query, the commit or the last read throws, and the
\* catch block gives the turn up if this attempt still holds it.
Catch(h) ==
  /\ ask[h].at \in {"begun", "thinking", "committed"}
  /\ turns' = IF Pending(ask[h].id) /\ turns[ask[h].id].attempt = ask[h].attempt
              THEN [turns EXCEPT ![ask[h].id].status = "failed"]
              ELSE turns
  /\ ask' = [ask EXCEPT ![h] = IdleAsk]
  /\ UNCHANGED <<row, attempts, published, edit>>

\* The route responds, or the platform kills the invocation at any step.
AskEnds(h) ==
  /\ ask[h].at # "idle"
  /\ ask' = [ask EXCEPT ![h] = IdleAsk]
  /\ UNCHANGED <<row, turns, attempts, published, edit>>

\* A hundred and twenty seconds have passed since the lease was granted.
LeaseExpires(id) ==
  /\ Live(id)
  /\ turns' = [turns EXCEPT ![id].live = FALSE]
  /\ UNCHANGED <<row, attempts, published, ask, edit>>

-----------------------------------------------------------------------------
(* The controls.  Each reads the row, checks it, and commits later.        *)

ReadFor(e, step, actor, s, p) ==
  /\ edit[e].at = "idle"
  /\ Tick
  /\ edit' = [edit EXCEPT ![e] = [at |-> step, actor |-> actor, suspect |-> s,
                                  player |-> p, saw |-> RowRead]]
  /\ UNCHANGED <<status, phase, suspect, evidence, turns, attempts, published, ask>>

InInterrogation == status = "in_progress" /\ phase = "interrogation"

\* setSessionScene; "actor" is NoPlayer for the host.
ReadScene(e, actor, s) ==
  /\ InInterrogation
  /\ ReadFor(e, "scene", actor, s, NoPlayer)
  /\ actor = NoPlayer \/ mic' = actor

\* advanceInvestigationFile, or setSessionScene back to the entry chapter.
ReadFile(e) == InInterrogation /\ ReadFor(e, "file", NoPlayer, NoSuspect, NoPlayer)

\* applyHostHelp.
ReadHelp(e) == InterviewOpen /\ ReadFor(e, "help", NoPlayer, NoSuspect, NoPlayer)

\* Mutant: a detective may claim a microphone that is not free.
ReadMicTaken(e, actor, p) ==
  /\ InInterrogation
  /\ ReadFor(e, "mic", actor, NoSuspect, p)
  /\ actor = NoPlayer \/ mic' = actor \/ p = actor

\* setSessionInterviewer: the holder passes it, or a free one is claimed.
ReadMic(e, actor, p) ==
  /\ InInterrogation
  /\ ReadFor(e, "mic", actor, NoSuspect, p)
  /\ \/ actor = NoPlayer
     \/ mic' = actor
     \/ mic' = NoPlayer /\ p = actor

ReadPause(e)  == status = "in_progress" /\ ReadFor(e, "pause", NoPlayer, NoSuspect, NoPlayer)
ReadResume(e) == status = "paused" /\ ReadFor(e, "resume", NoPlayer, NoSuspect, NoPlayer)
ReadEnd(e)    == status # "finished" /\ ReadFor(e, "end", NoPlayer, NoSuspect, NoPlayer)

\* transitionSessionPhase to the accusation.
ReadAccuse(e) == InInterrogation /\ ReadFor(e, "accuse", NoPlayer, NoSuspect, NoPlayer)

\* extendInterview reads only for the revision.
ReadExtend(e) == ReadFor(e, "extend", NoPlayer, NoSuspect, NoPlayer)

-----------------------------------------------------------------------------
(* commit_game_update for the controls.                                    *)

\* Mutant: the revision is not compared.
FreshEnough(e) == status # "finished"

\* The row is the one that was read, and the game goes on.
Fresh(e) == edit[e].saw.revision = revision /\ status # "finished"

Finishes(e) ==
  /\ revision < MaxRevision
  /\ revision' = revision + 1
  /\ edit' = [edit EXCEPT ![e] = IdleEdit]
  /\ UNCHANGED <<attempts, published, ask>>

\* Mutant: a control does not wait for the question in progress.
CommitRegardless(e, step) ==
  /\ edit[e].at = step
  /\ Fresh(e)
  /\ turns' = FailExpired
  /\ Finishes(e)

CommitPlain(e, step) ==
  /\ edit[e].at = step
  /\ Fresh(e) /\ ~ TurnHeld
  /\ turns' = FailExpired
  /\ Finishes(e)

CommitCancelling(e, step) ==
  /\ edit[e].at = step
  /\ Fresh(e)
  /\ turns' = CancelHeld
  /\ Finishes(e)

Discover(e) == \E new \in SUBSET Evidence : evidence' = edit[e].saw.evidence \cup new

CommitScene(e) ==
  /\ CommitPlain(e, "scene")
  /\ suspect' = edit[e].suspect
  /\ Discover(e)
  /\ UNCHANGED <<status, phase, mic>>

CommitFile(e) ==
  /\ CommitPlain(e, "file")
  /\ suspect' = NoSuspect
  /\ Discover(e)
  /\ UNCHANGED <<status, phase, mic>>

CommitHelp(e) ==
  /\ CommitPlain(e, "help")
  /\ Discover(e)
  /\ UNCHANGED <<status, phase, suspect, mic>>

CommitMic(e) ==
  /\ CommitPlain(e, "mic")
  /\ mic' = edit[e].player
  /\ UNCHANGED <<status, phase, suspect, evidence>>

CommitPause(e) ==
  /\ CommitCancelling(e, "pause")
  /\ status' = "paused"
  /\ UNCHANGED <<phase, suspect, mic, evidence>>

CommitResume(e) ==
  /\ CommitPlain(e, "resume")
  /\ status' = "in_progress"
  /\ UNCHANGED <<phase, suspect, mic, evidence>>

CommitEnd(e) ==
  /\ CommitCancelling(e, "end")
  /\ status' = "finished"
  /\ UNCHANGED <<phase, suspect, mic, evidence>>

CommitAccuse(e) ==
  /\ CommitPlain(e, "accuse")
  /\ phase' = "accusation" /\ suspect' = NoSuspect
  /\ Discover(e)
  /\ UNCHANGED <<status, mic>>

\* extend_interview_clock has its own conditions, and fails no expired turn.
CommitExtend(e) ==
  /\ edit[e].at = "extend"
  /\ edit[e].saw.revision = revision
  /\ status \in {"in_progress", "paused"} /\ suspect # NoSuspect
  /\ ~ TurnHeld
  /\ Finishes(e)
  /\ UNCHANGED <<status, phase, suspect, mic, evidence, turns>>

\* The commit is refused, or the invocation dies: either way it leaves no trace.
EditGivesUp(e) ==
  /\ edit[e].at # "idle"
  /\ edit' = [edit EXCEPT ![e] = IdleEdit]
  /\ UNCHANGED <<row, turns, attempts, published, ask>>

-----------------------------------------------------------------------------

AskStep(h) ==
  \/ \E id \in Requests, in \in Inputs : Begin(h, id, in) \/ Replay(h, id, in)
  \/ ReadContext(h) \/ CommitTurn(h) \/ Reread(h)
  \/ Catch(h) \/ AskEnds(h)

EditRead(e) ==
  \/ \E actor \in Players, s \in Suspects : ReadScene(e, actor, s)
  \/ \E actor \in Players, p \in Players : ReadMic(e, actor, p)
  \/ ReadFile(e) \/ ReadHelp(e) \/ ReadPause(e) \/ ReadResume(e)
  \/ ReadEnd(e) \/ ReadAccuse(e) \/ ReadExtend(e)

EditCommit(e) ==
  \/ CommitScene(e) \/ CommitFile(e) \/ CommitHelp(e) \/ CommitMic(e)
  \/ CommitPause(e) \/ CommitResume(e) \/ CommitEnd(e) \/ CommitAccuse(e)
  \/ CommitExtend(e)

Next ==
  \/ Poll
  \/ \E h \in Askers : AskStep(h)
  \/ \E id \in Requests : LeaseExpires(id)
  \/ \E e \in Editors : EditRead(e) \/ EditCommit(e) \/ EditGivesUp(e)

Spec == Init /\ [][Next]_vars

-----------------------------------------------------------------------------
(* Properties.                                                             *)

\* One question at a time: never two pending turns in the table, not even an
\* abandoned one beside its replacement (the partial unique index would fail
\* the insert, and the phone would see a server error).
OneTurnAtATime == \A a, b \in Requests : Pending(a) /\ Pending(b) => a = b

\* A live lease pins the game: until it is released nobody rotates the
\* microphone, changes the suspect, the scene or the phase, pauses, or moves
\* the revision the worker will commit against.  Nothing else protects the
\* minute or two that an answer takes to generate.
LeasePinsRow ==
  \A id \in Requests : Live(id) =>
    /\ InterviewOpen
    /\ turns[id].revision = revision
    /\ turns[id].input.player = mic
    /\ turns[id].suspect = suspect

RowMatches(saw) ==
  /\ saw.status = status /\ saw.phase = phase /\ saw.suspect = suspect
  /\ saw.mic = mic /\ saw.evidence = evidence

\* Equal revisions mean equal rows: a snapshot that passes the revision check
\* is the current row, so what was checked and computed from it still holds.
\* Every write that forgets to move the revision breaks this for some reader.
SnapshotsAreTrue ==
  /\ \A h \in Askers : ask[h].at = "thinking" =>
        /\ ask[h].saw.revision <= revision
        /\ ask[h].saw.revision = revision => RowMatches(ask[h].saw)
  /\ \A e \in Editors : edit[e].at # "idle" =>
        /\ edit[e].saw.revision <= revision
        /\ edit[e].saw.revision = revision => RowMatches(edit[e].saw)

\* A request is answered at most once, however often the phone retries it and
\* however many workers take it over after an expired lease.
AnsweredOnce == \A x, y \in published : x.id = y.id => x = y

\* The turn table and the transcript agree: a turn is completed exactly when
\* its exchange is in the transcript, as the attempt that holds the turn
\* computed it, for the input it was begun with, in the interview in which the
\* lease was granted.
CompletedIsPublished ==
  \A id \in Requests :
    turns[id].status = "completed" <=>
      \E x \in published : /\ x.id = id
                           /\ x.attempt = turns[id].attempt
                           /\ x.input = turns[id].input
                           /\ x.suspect = turns[id].suspect

\* What a phone is told is what the transcript holds: first answers and replayed
\* ones carry an exchange that was published for the same request and input.
RepliesArePublished ==
  \A h \in Askers : ask[h].at \in {"committed", "replied"} =>
    \E x \in published : /\ x.id = ask[h].id
                         /\ x.input = ask[h].input
                         /\ x.attempt = ask[h].attempt

\* The parts of the inductive invariant that no one would ask for on their own:
\* attempt numbers are handed out once, an attempt that holds a turn has the
\* turn's input, and an exchange stays tied to the turn it completed.
AttemptsAreKnown ==
  /\ \A id \in Requests : turns[id].attempt <= attempts
  /\ \A h \in Askers : ask[h].attempt <= attempts
AttemptNamesWorker ==
  \A h \in Askers :
    /\ ask[h].at # "idle"
    /\ turns[ask[h].id].attempt = ask[h].attempt
    => turns[ask[h].id].input = ask[h].input
PublishedIsCompleted ==
  \A x \in published :
    /\ turns[x.id].status = "completed"
    /\ turns[x.id].attempt = x.attempt
    /\ turns[x.id].input = x.input
    /\ turns[x.id].suspect = x.suspect

\* A control still carries what it checked when it read the row.
EditsWereChecked ==
  \A e \in Editors :
    /\ edit[e].at \in {"scene", "file", "help", "mic", "pause", "accuse"} =>
         edit[e].saw.status = "in_progress"
    /\ edit[e].actor # NoPlayer =>
         \/ edit[e].at \in {"scene", "mic"} /\ edit[e].saw.mic = edit[e].actor
         \/ /\ edit[e].at = "mic" /\ edit[e].saw.mic = NoPlayer
            /\ edit[e].player = edit[e].actor

TurnsInv ==
  /\ TypeOK
  /\ OneTurnAtATime /\ LeasePinsRow /\ SnapshotsAreTrue
  /\ AnsweredOnce /\ CompletedIsPublished /\ RepliesArePublished
  /\ AttemptsAreKnown /\ AttemptNamesWorker /\ PublishedIsCompleted
  /\ EditsWereChecked

\* No discovery is lost to a concurrent write: every commit overwrites the
\* evidence list with one computed from its snapshot.
EvidenceKept == [][evidence \subseteq evidence']_vars

\* A game that is paused stays as it was until somebody resumes it, and a
\* finished one for good: no answer, discovery, scene or microphone change
\* that was under way when the host stopped the game lands afterwards.
StoppedGameIsStill ==
  [][ /\ status # "in_progress" =>
           UNCHANGED <<phase, suspect, mic, evidence, published>>
      /\ status = "finished" => UNCHANGED row ]_vars

ActsAsHolder ==
  \A e \in Editors :
    edit[e].actor # NoPlayer /\ EditCommit(e) =>
      \/ mic = edit[e].actor
      \/ mic = NoPlayer /\ mic' = edit[e].actor

\* A detective's control takes effect only while that detective holds the
\* microphone, or claims it while it is free; the check was made on a snapshot.
OnlyTheHolderActs == [][ActsAsHolder]_vars

-----------------------------------------------------------------------------
(* The refinement: what the tables promise to the rest of the game.        *)

Holder  == IF TurnHeld THEN CHOOSE id \in Requests : Live(id) ELSE NoRequest

Ledger == INSTANCE TurnLedger WITH
            Nobody   <- NoRequest,
            version  <- revision,
            holder   <- Holder,
            granted  <- IF TurnHeld THEN turns[Holder].revision ELSE 0,
            answered <- {x.id : x \in published}

\* The turns implement the ledger: each step of theirs is a step of the ledger
\* or leaves it alone.
ImplementsLedger == Ledger!Spec
=============================================================================
