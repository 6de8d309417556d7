------------------------------ MODULE Endgame -------------------------------
(***************************************************************************)
(* The accusation and the reveal.  Each phone commits its vote against the *)
(* revision it read and retries when another commit got there first; the   *)
(* host's reveal reads the row, then the votes, and commits the ending     *)
(* they chose against the row's revision; the ending then advances step by *)
(* step.  Requests interleave freely and may die at any step.              *)
(***************************************************************************)
EXTENDS Integers, FiniteSets, Sequences

CONSTANTS
  Detectives,   \* players who are not observers; nobody becomes one any more
  Suspects,
  Triggers,     \* the suspects of the case's endings, in the case's order
  Ballots,      \* vote requests
  Hosts,        \* requests from the host's controls
  NoVote,
  MaxTries,     \* attempts of one vote request: 10
  MaxRevision   \* bound on the revision

ASSUME TriggersAssumption == Triggers \in Seq(Suspects) /\ Triggers # <<>>
ASSUME DetectivesFinite == IsFiniteSet(Detectives)
ASSUME NoVoteAssumption == NoVote \notin Suspects \cup Detectives
ASSUME TriesAssumption == MaxTries \in Nat \ {0} /\ MaxRevision \in Nat

VARIABLES
  status, phase, path, step, revision,   \* the sessions row
  votes,                                 \* the accusation_votes table
  ballot, host                           \* the requests in progress

row  == <<status, phase, path, step, revision>>
vars == <<row, votes, ballot, host>>

NoPath == 0
Choices == Suspects \cup {NoVote}
Paths   == DOMAIN Triggers

Ballot == [at : {"idle", "reading", "saving", "crowded_out"},
           who : Detectives \cup {NoVote}, choice : Choices,
           saw : Nat, tries : 0 .. MaxTries, since : Nat]
Host   == [at : {"idle", "voters", "reveal", "next", "pause", "resume", "end"},
           saw : Nat, step : 0 .. 2, votes : [Detectives -> Choices]]

TypeOK ==
  /\ status \in {"in_progress", "paused", "finished"}
  /\ phase \in {"accusation", "reveal"}
  /\ path \in Paths \cup {NoPath} /\ step \in 0 .. 2
  /\ revision \in Nat
  /\ votes \in [Detectives -> Choices]
  /\ ballot \in [Ballots -> Ballot]
  /\ host \in [Hosts -> Host]

NoVotes == [d \in Detectives |-> NoVote]

IdleBallot == [at |-> "idle", who |-> NoVote, choice |-> NoVote, saw |-> 0, tries |-> 0,
               since |-> 0]
IdleHost == [at |-> "idle", saw |-> 0, step |-> 0, votes |-> NoVotes]

Init ==
  /\ status = "in_progress" /\ phase = "accusation"
  /\ path = NoPath /\ step = 0 /\ revision = 1
  /\ votes = NoVotes
  /\ ballot = [b \in Ballots |-> IdleBallot]
  /\ host = [h \in Hosts |-> IdleHost]

-----------------------------------------------------------------------------
(* What the votes decide.                                                  *)

Tally(v, s) == Cardinality({d \in Detectives : v[d] = s})

AllVoted(v) == Detectives # {} /\ \A d \in Detectives : v[d] # NoVote

\* Mutant: the sort is not stable, and of endings with as many votes the last wins.
WinnerOfTheLast(v) ==
  CHOOSE i \in Paths :
    \A j \in Paths : \/ Tally(v, Triggers[j]) < Tally(v, Triggers[i])
                     \/ Tally(v, Triggers[j]) = Tally(v, Triggers[i]) /\ j <= i

\* The first of a stable sort of the endings by falling tally.
Winner(v) ==
  CHOOSE i \in Paths :
    \A j \in Paths : \/ Tally(v, Triggers[j]) < Tally(v, Triggers[i])
                     \/ Tally(v, Triggers[j]) = Tally(v, Triggers[i]) /\ i <= j

-----------------------------------------------------------------------------
(* setAccusationVote.                                                      *)

VotingOpen == status = "in_progress" /\ phase = "accusation"

SubmitVote(b, d, c) ==
  /\ ballot[b].at = "idle"
  /\ ballot' = [ballot EXCEPT ![b] = [at |-> "reading", who |-> d, choice |-> c, saw |-> 0,
                                      tries |-> 0, since |-> revision]]
  /\ UNCHANGED <<row, votes, host>>

ReadForVote(b) ==
  /\ ballot[b].at = "reading"
  /\ VotingOpen
  /\ ballot' = [ballot EXCEPT ![b].at = "saving", ![b].saw = revision]
  /\ UNCHANGED <<row, votes, host>>

\* Mutant: a vote does not move the revision.
SaveVoteUnversioned(b) ==
  /\ ballot[b].at = "saving"
  /\ ballot[b].saw = revision /\ VotingOpen
  /\ votes' = [votes EXCEPT ![ballot[b].who] = ballot[b].choice]
  /\ ballot' = [ballot EXCEPT ![b] = IdleBallot]
  /\ UNCHANGED <<row, host>>

SaveVote(b) ==
  /\ ballot[b].at = "saving"
  /\ ballot[b].saw = revision /\ VotingOpen
  /\ revision < MaxRevision
  /\ votes' = [votes EXCEPT ![ballot[b].who] = ballot[b].choice]
  /\ revision' = revision + 1
  /\ ballot' = [ballot EXCEPT ![b] = IdleBallot]
  /\ UNCHANGED <<status, phase, path, step, host>>

\* Mutant: the vote is retried against the row it was refused for.
RetryStale(b) ==
  /\ ballot[b].at = "saving"
  /\ ballot[b].saw # revision
  /\ ballot' = [ballot EXCEPT ![b].at = IF ballot[b].tries + 1 < MaxTries THEN "saving" ELSE "crowded_out",
                              ![b].tries = @ + 1]
  /\ UNCHANGED <<row, votes, host>>

\* PT409: somebody else committed first, so the row is read again, a bounded
\* number of times.
VoteConflicts(b) ==
  /\ ballot[b].at = "saving"
  /\ ballot[b].saw # revision
  /\ ballot' = [ballot EXCEPT ![b].at = IF ballot[b].tries + 1 < MaxTries THEN "reading" ELSE "crowded_out",
                              ![b].tries = @ + 1]
  /\ UNCHANGED <<row, votes, host>>

\* The game is paused, over or revealed when the row is read; the phone is told
\* to retry; or the request dies.
VoteStops(b) ==
  /\ ballot[b].at # "idle"
  /\ ballot' = [ballot EXCEPT ![b] = IdleBallot]
  /\ UNCHANGED <<row, votes, host>>

-----------------------------------------------------------------------------
(* The host's controls.                                                    *)

HostReads(h, next) ==
  /\ host[h].at = "idle"
  /\ host' = [host EXCEPT ![h].at = next, ![h].saw = revision, ![h].step = step]
  /\ UNCHANGED <<row, votes, ballot>>

\* revealSession reads the row ...
ReadForReveal(h) == VotingOpen /\ HostReads(h, "voters")

\* ... then the votes, in a query of its own.
ReadVotes(h) ==
  /\ host[h].at = "voters"
  /\ AllVoted(votes)
  /\ host' = [host EXCEPT ![h].at = "reveal", ![h].votes = votes]
  /\ UNCHANGED <<row, votes, ballot>>

\* advanceSessionChapter during the reveal; pauseSession, resumeSession, endSession.
ReadForNext(h)   == status = "in_progress" /\ phase = "reveal" /\ HostReads(h, "next")
ReadForPause(h)  == status = "in_progress" /\ HostReads(h, "pause")
ReadForResume(h) == status = "paused" /\ HostReads(h, "resume")
ReadForEnd(h)    == status # "finished" /\ HostReads(h, "end")

\* Mutant: the revision is not compared.
HostOverwrites(h, next) ==
  /\ host[h].at = next
  /\ status # "finished"
  /\ revision < MaxRevision
  /\ revision' = revision + 1
  /\ host' = [host EXCEPT ![h] = IdleHost]
  /\ UNCHANGED <<votes, ballot>>

\* commit_game_update.
HostCommits(h, next) ==
  /\ host[h].at = next
  /\ host[h].saw = revision /\ status # "finished"
  /\ revision < MaxRevision
  /\ revision' = revision + 1
  /\ host' = [host EXCEPT ![h] = IdleHost]
  /\ UNCHANGED <<votes, ballot>>

Reveal(h) ==
  /\ HostCommits(h, "reveal")
  /\ phase' = "reveal" /\ path' = Winner(host[h].votes) /\ step' = 0
  /\ UNCHANGED status

NextStep(h) ==
  /\ HostCommits(h, "next")
  /\ IF host[h].step < 2
     THEN step' = host[h].step + 1 /\ UNCHANGED status
     ELSE status' = "finished" /\ UNCHANGED step
  /\ UNCHANGED <<phase, path>>

Pause(h)  == HostCommits(h, "pause") /\ status' = "paused" /\ UNCHANGED <<phase, path, step>>
Resume(h) == HostCommits(h, "resume") /\ status' = "in_progress" /\ UNCHANGED <<phase, path, step>>
End(h)    == HostCommits(h, "end") /\ status' = "finished" /\ UNCHANGED <<phase, path, step>>

\* Not everybody has voted, the commit is refused, or the request dies.
HostGivesUp(h) ==
  /\ host[h].at # "idle"
  /\ host' = [host EXCEPT ![h] = IdleHost]
  /\ UNCHANGED <<row, votes, ballot>>

-----------------------------------------------------------------------------

VoteStep(b) ==
  \/ \E d \in Detectives, c \in Choices : SubmitVote(b, d, c)
  \/ ReadForVote(b) \/ SaveVote(b) \/ VoteConflicts(b) \/ VoteStops(b)

HostStep(h) ==
  \/ ReadForReveal(h) \/ ReadVotes(h) \/ ReadForNext(h)
  \/ ReadForPause(h) \/ ReadForResume(h) \/ ReadForEnd(h)
  \/ Reveal(h) \/ NextStep(h) \/ Pause(h) \/ Resume(h) \/ End(h) \/ HostGivesUp(h)

Next == (\E b \in Ballots : VoteStep(b)) \/ (\E h \in Hosts : HostStep(h))

Spec == Init /\ [][Next]_vars

-----------------------------------------------------------------------------
(* Properties.                                                             *)

\* The ending is the one the final votes chose, and everybody had voted: no vote
\* that was cast, changed or withdrawn while the reveal was being prepared is
\* overlooked, although row and votes are read one after the other.
RevealFollowsVotes == phase = "reveal" => AllVoted(votes) /\ path = Winner(votes)

\* A vote request is crowded out only by real competition: every conflict it met
\* was caused by another commit of its own, made after the request arrived.
ConflictsAreReal ==
  \A b \in Ballots :
    /\ ballot[b].tries <= revision - ballot[b].since
    /\ ballot[b].at = "crowded_out" => ballot[b].tries = MaxTries

\* The ending only moves forward, a step at a time, and each step is taken from
\* the step that the host saw: two hurried taps never skip the confrontation and
\* show the solution.
StepByStep ==
  /\ phase = "reveal" => phase' = "reveal" /\ path' = path /\ step' \in {step, step + 1}
  /\ \A h \in Hosts : NextStep(h) => host[h].step = step
EndingMovesForward == [][StepByStep]_vars

\* Requests that read now and commit later, overtake each other and die amount to
\* votes, an announcement and an ending that happen at once.
Ideal == INSTANCE Verdict
ImplementsVerdict == Ideal!Spec
=============================================================================
