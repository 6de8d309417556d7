--------------------------- MODULE EndgameProofs ----------------------------
(***************************************************************************)
(* Proofs about Endgame, for any detectives, suspects and endings, any     *)
(* number of concurrent requests and any bounds.                           *)
(***************************************************************************)
EXTENDS Endgame, LeastAndGreatest, FiniteSetTheorems, TLAPS

USE TriggersAssumption, NoVoteAssumption, TriesAssumption

-----------------------------------------------------------------------------
(* The votes choose an ending.                                             *)

\* A tally counts detectives.
LEMMA TallyBounded ==
  ASSUME NEW v, NEW s
  PROVE  Tally(v, s) \in Nat /\ Tally(v, s) <= Cardinality(Detectives)
<1> DEFINE voters == {d \in Detectives : v[d] = s}
<1>1. voters \subseteq Detectives
  OBVIOUS
<1> HIDE DEF voters
<1>2. IsFiniteSet(voters) /\ Cardinality(voters) <= Cardinality(Detectives)
  BY <1>1, DetectivesFinite, FS_Subset
<1>3. Cardinality(voters) \in Nat
  BY <1>2, FS_CardinalityType
<1> QED
  BY <1>2, <1>3 DEF Tally, voters

\* Whatever the votes are, the one that they choose is an ending of the case, and
\* each other one has fewer votes, or as many and a later place.
LEMMA WinnerWins ==
  ASSUME NEW v
  PROVE  /\ Winner(v) \in Paths
         /\ \A j \in Paths : \/ Tally(v, Triggers[j]) < Tally(v, Triggers[Winner(v)])
                             \/ /\ Tally(v, Triggers[j]) = Tally(v, Triggers[Winner(v)])
                                /\ Winner(v) <= j
<1> DEFINE n == Cardinality(Detectives)
           missing(j) == n - Tally(v, Triggers[j])
           all == {missing(j) : j \in Paths}
<1>1. n \in Nat
  BY DetectivesFinite, FS_CardinalityType
<1>2. \A j \in Paths : Tally(v, Triggers[j]) \in Nat /\ missing(j) \in Nat
  <2> TAKE j \in Paths
  <2>1. Tally(v, Triggers[j]) \in Nat /\ Tally(v, Triggers[j]) <= n
    BY TallyBounded
  <2> QED
    BY <1>1, <2>1
<1>3. Paths \subseteq Nat /\ Paths # {}
  <2>1. Len(Triggers) \in Nat /\ Paths = 1 .. Len(Triggers)
    BY DEF Paths
  <2>2. Len(Triggers) # 0
    OBVIOUS
  <2>3. 1 \in Paths
    BY <2>1, <2>2
  <2> QED
    BY <2>1, <2>3
<1>4. PICK least \in all : \A k \in all : least <= k
  <2>1. all \in SUBSET Nat /\ all # {}
    BY <1>2, <1>3
  <2> HIDE DEF all
  <2> QED
    BY <2>1, LeastNatural
<1> DEFINE best == {j \in Paths : missing(j) = least}
<1>5. PICK i \in best : \A j \in best : i <= j
  <2>1. best \in SUBSET Nat /\ best # {}
    BY <1>3
  <2> HIDE DEF best
  <2> QED
    BY <2>1, LeastNatural
<1>6. ASSUME NEW j \in Paths
      PROVE  \/ Tally(v, Triggers[j]) < Tally(v, Triggers[i])
             \/ Tally(v, Triggers[j]) = Tally(v, Triggers[i]) /\ i <= j
  <2>1. missing(i) <= missing(j)
    BY <1>4, <1>5
  <2>2. missing(i) = missing(j) => i <= j
    BY <1>5
  <2> QED
    BY <1>1, <1>2, <2>1, <2>2
<1> QED
  BY <1>5, <1>6 DEF Winner

-----------------------------------------------------------------------------
(* The invariant.                                                          *)

\* The types, but for the status and the ending, which need the rest.
Types ==
  /\ step \in 0 .. 2
  /\ revision \in Nat
  /\ votes \in [Detectives -> Choices]
  /\ ballot \in [Ballots -> Ballot]
  /\ host \in [Hosts -> Host]

\* What a request of the host still knows when the row is the one it read.
HostKnows(h) ==
  /\ host[h].saw <= revision
  /\ host[h].at = "reveal" => AllVoted(host[h].votes)
  /\ host[h].saw = revision =>
       /\ host[h].at \in {"voters", "reveal", "next", "pause"} => status = "in_progress"
       /\ host[h].at = "resume" => status = "paused"
       /\ host[h].at \in {"voters", "reveal"} => phase = "accusation"
       /\ host[h].at = "reveal" => host[h].votes = votes
       /\ host[h].at = "next" => phase = "reveal" /\ host[h].step = step

\* Every conflict of a vote request lies between its arrival and its last read.
BallotKnows(b) ==
  /\ ballot[b].since <= revision
  /\ ballot[b].tries <= revision - ballot[b].since
  /\ ballot[b].at = "saving" => /\ ballot[b].saw <= revision
                                /\ ballot[b].tries <= ballot[b].saw - ballot[b].since
  /\ ballot[b].at \in {"reading", "saving"} => ballot[b].tries < MaxTries
  /\ ballot[b].at = "crowded_out" => ballot[b].tries = MaxTries

EndgameInv ==
  /\ Types
  /\ RevealFollowsVotes
  /\ phase = "accusation" => step = 0
  /\ \A h \in Hosts : HostKnows(h)
  /\ \A b \in Ballots : BallotKnows(b)

-----------------------------------------------------------------------------
(* Types.                                                                  *)

\* Blank requests are well typed.
LEMMA BlankTypes == IdleBallot \in Ballot /\ IdleHost \in Host /\ NoVotes \in [Detectives -> Choices]
BY DEF IdleBallot, Ballot, IdleHost, Host, NoVotes, Choices

\* Every step keeps the types.
LEMMA TypesNext ==
  ASSUME Types, [Next]_vars
  PROVE  Types'
<1>1. ASSUME NEW b \in Ballots, VoteStep(b) PROVE Types'
  <2>1. ballot[b] \in Ballot /\ ballot[b].tries \in 0 .. MaxTries /\ ballot[b].choice \in Choices
    BY DEF Types, Ballot
  <2>2. ASSUME NEW d \in Detectives, NEW c \in Choices, SubmitVote(b, d, c) PROVE Types'
    BY <2>2 DEF Types, SubmitVote, Ballot, row
  <2>3. CASE ReadForVote(b)
    BY <2>1, <2>3 DEF Types, ReadForVote, Ballot, row
  <2>4. CASE SaveVote(b)
    <3>1. votes' \in [Detectives -> Choices]
      BY <2>1, <2>4 DEF Types, SaveVote
    <3>2. ballot' \in [Ballots -> Ballot]
      BY <2>4, BlankTypes DEF Types, SaveVote
    <3> QED
      BY <2>4, <3>1, <3>2 DEF Types, SaveVote
  <2>5. CASE VoteConflicts(b)
    <3>1. ballot[b].tries + 1 \in 0 .. MaxTries \/ ballot[b].tries = MaxTries
      BY <2>1
    <3> QED
      BY <2>1, <2>5, <3>1 DEF Types, VoteConflicts, Ballot, row
  <2>6. CASE VoteStops(b)
    BY <2>6, BlankTypes DEF Types, VoteStops, row
  <2> QED
    BY <1>1, <2>2, <2>3, <2>4, <2>5, <2>6 DEF VoteStep
<1>2. ASSUME NEW h \in Hosts, HostStep(h) PROVE Types'
  <2>1. host[h] \in Host /\ host[h].step \in 0 .. 2
    BY DEF Types, Host
  <2>2. ASSUME NEW next \in {"voters", "next", "pause", "resume", "end"}, HostReads(h, next)
        PROVE  Types'
    BY <2>1, <2>2 DEF Types, HostReads, Host, row
  <2>3. CASE ReadVotes(h)
    BY <2>1, <2>3 DEF Types, ReadVotes, Host, row
  <2>4. ASSUME NEW next, HostCommits(h, next), step' \in 0 .. 2 PROVE Types'
    BY <2>4, BlankTypes DEF Types, HostCommits
  <2>5. CASE NextStep(h)
    BY <2>1, <2>4, <2>5 DEF NextStep, Types
  <2>6. CASE HostGivesUp(h)
    BY <2>6, BlankTypes DEF Types, HostGivesUp, row
  <2> QED
    BY <1>2, <2>2, <2>3, <2>4, <2>5, <2>6
       DEF HostStep, ReadForReveal, ReadForNext, ReadForPause, ReadForResume, ReadForEnd,
           Reveal, Pause, Resume, End, Types
<1>3. CASE UNCHANGED vars
  BY <1>3 DEF Types, vars, row
<1> QED
  BY <1>1, <1>2, <1>3 DEF Next

-----------------------------------------------------------------------------
(* The inductive invariant.                                                *)

\* The revision counts the changes of the row and of the votes.
LEMMA RevisionCounts ==
  ASSUME Types, [Next]_vars
  PROVE  \/ revision' = revision /\ UNCHANGED <<row, votes>>
         \/ revision' = revision + 1
BY DEF Next, VoteStep, SubmitVote, ReadForVote, SaveVote, VoteConflicts, VoteStops, HostStep,
       ReadForReveal, ReadVotes, ReadForNext, ReadForPause, ReadForResume, ReadForEnd, HostReads,
       Reveal, NextStep, Pause, Resume, End, HostCommits, HostGivesUp, vars, row

\* How one request of the host can change.
HostMoves(h) ==
  \/ host'[h] = host[h]
  \/ host'[h] = IdleHost
  \/ ReadVotes(h) /\ host'[h] = [host[h] EXCEPT !.at = "reveal", !.votes = votes]
  \/ \E next \in {"voters", "next", "pause", "resume", "end"} :
       /\ HostReads(h, next)
       /\ next \in {"voters", "next", "pause"} => status = "in_progress"
       /\ next = "resume" => status = "paused"
       /\ next = "voters" => phase = "accusation"
       /\ next = "next" => phase = "reveal"
       /\ host'[h] = [host[h] EXCEPT !.at = next, !.saw = revision, !.step = step]

\* Every step changes it in one of those ways.
LEMMA HostsMove ==
  ASSUME Types, [Next]_vars, NEW h \in Hosts
  PROVE  HostMoves(h)
<1>1. ASSUME NEW k \in Hosts, HostStep(k), k # h PROVE host'[h] = host[h]
  BY <1>1 DEF HostStep, ReadForReveal, ReadVotes, ReadForNext, ReadForPause, ReadForResume,
              ReadForEnd, HostReads, Reveal, NextStep, Pause, Resume, End, HostCommits,
              HostGivesUp, Types
<1>2. CASE HostStep(h)
  <2>1. ASSUME NEW next \in {"voters", "next", "pause", "resume", "end"}, HostReads(h, next)
        PROVE  host'[h] = [host[h] EXCEPT !.at = next, !.saw = revision, !.step = step]
    BY <2>1 DEF HostReads, Types, Host
  <2>2. ReadVotes(h) => host'[h] = [host[h] EXCEPT !.at = "reveal", !.votes = votes]
    BY DEF ReadVotes, Types, Host
  <2>3. ASSUME NEW next, HostCommits(h, next) PROVE host'[h] = IdleHost
    BY <2>3 DEF HostCommits, Types
  <2>4. HostGivesUp(h) => host'[h] = IdleHost
    BY DEF HostGivesUp, Types
  <2> QED
    BY <1>2, <2>1, <2>2, <2>3, <2>4
       DEF HostMoves, HostStep, ReadForReveal, ReadForNext, ReadForPause, ReadForResume,
           ReadForEnd, Reveal, NextStep, Pause, Resume, End, VotingOpen
<1>3. UNCHANGED host \/ \E k \in Hosts : HostStep(k)
  BY DEF Next, VoteStep, SubmitVote, ReadForVote, SaveVote, VoteConflicts, VoteStops, vars
<1> QED
  BY <1>1, <1>2, <1>3 DEF HostMoves

\* What a request of the host knows stays true while the revision stands.
LEMMA HostKnowsNext ==
  ASSUME EndgameInv, [Next]_vars, NEW h \in Hosts
  PROVE  HostKnows(h)'
<1>1. HostKnows(h) /\ HostMoves(h) /\ host[h] \in Host /\ revision \in Nat
  BY HostsMove DEF EndgameInv, Types
<1>2. \/ revision' = revision /\ UNCHANGED <<row, votes>>
      \/ revision' = revision + 1
  BY RevisionCounts DEF EndgameInv
<1>3. CASE host'[h] = host[h]
  BY <1>1, <1>2, <1>3 DEF HostKnows, Host, row
<1>4. CASE host'[h] = IdleHost
  BY <1>1, <1>2, <1>4 DEF HostKnows, IdleHost
<1>5. CASE ReadVotes(h) /\ host'[h] = [host[h] EXCEPT !.at = "reveal", !.votes = votes]
  <2>1. UNCHANGED <<row, votes>> /\ AllVoted(votes) /\ host[h].at = "voters"
    BY <1>5 DEF ReadVotes
  <2>2. /\ host'[h].at = "reveal" /\ host'[h].votes = votes /\ host'[h].saw = host[h].saw
    BY <1>1, <1>5 DEF Host
  <2> QED
    BY <1>1, <2>1, <2>2 DEF HostKnows, row
<1>6. ASSUME NEW next \in {"voters", "next", "pause", "resume", "end"}, HostReads(h, next),
             next \in {"voters", "next", "pause"} => status = "in_progress",
             next = "resume" => status = "paused",
             next = "voters" => phase = "accusation", next = "next" => phase = "reveal",
             host'[h] = [host[h] EXCEPT !.at = next, !.saw = revision, !.step = step]
      PROVE  HostKnows(h)'
  <2>1. UNCHANGED row /\ host'[h].at = next /\ host'[h].saw = revision /\ host'[h].step = step
    BY <1>1, <1>6 DEF HostReads, Host
  <2> QED
    BY <1>1, <1>6, <2>1 DEF HostKnows, row
<1> QED
  BY <1>1, <1>3, <1>4, <1>5, <1>6 DEF HostMoves

\* What a vote request knows stays true.
LEMMA BallotKnowsNext ==
  ASSUME EndgameInv, [Next]_vars, NEW b \in Ballots
  PROVE  BallotKnows(b)'
<1>1. BallotKnows(b) /\ ballot[b] \in Ballot /\ revision \in Nat /\ ballot[b].tries \in Nat
      /\ ballot[b].since \in Nat /\ ballot[b].saw \in Nat
  BY DEF EndgameInv, Types, Ballot
<1>2. revision' = revision \/ revision' = revision + 1
  BY RevisionCounts DEF EndgameInv
<1>3. CASE ballot'[b] = ballot[b]
  <2>1. revision' \in Nat /\ revision <= revision'
    BY <1>1, <1>2
  <2>2. ballot[b].tries <= revision' - ballot[b].since /\ ballot[b].since <= revision'
    BY <1>1, <2>1 DEF BallotKnows
  <2>3. ballot[b].at = "saving" => ballot[b].saw <= revision'
    BY <1>1, <2>1 DEF BallotKnows
  <2> QED
    BY <1>1, <1>3, <2>2, <2>3 DEF BallotKnows
<1>4. CASE ballot'[b] = IdleBallot
  BY <1>1, <1>2, <1>4 DEF BallotKnows, IdleBallot
<1>5. ASSUME NEW d \in Detectives, NEW c \in Choices, SubmitVote(b, d, c)
      PROVE  BallotKnows(b)'
  <2>1. ballot'[b] = [at |-> "reading", who |-> d, choice |-> c, saw |-> 0, tries |-> 0,
                      since |-> revision]
    BY <1>5 DEF SubmitVote, EndgameInv, Types
  <2> QED
    BY <1>1, <1>5, <2>1 DEF BallotKnows, SubmitVote, row
<1>6. CASE ReadForVote(b)
  <2>1. /\ ballot'[b].at = "saving" /\ ballot'[b].saw = revision
        /\ ballot'[b].since = ballot[b].since /\ ballot'[b].tries = ballot[b].tries
        /\ ballot[b].at = "reading" /\ revision' = revision
    BY <1>1, <1>6 DEF ReadForVote, EndgameInv, Types, Ballot, row
  <2> QED
    BY <1>1, <2>1 DEF BallotKnows
<1>7. CASE VoteConflicts(b)
  <2>1. /\ ballot'[b].at = IF ballot[b].tries + 1 < MaxTries THEN "reading" ELSE "crowded_out"
        /\ ballot'[b].since = ballot[b].since /\ ballot'[b].tries = ballot[b].tries + 1
        /\ ballot[b].at = "saving" /\ ballot[b].saw # revision /\ revision' = revision
    BY <1>1, <1>7 DEF VoteConflicts, EndgameInv, Types, Ballot, row
  <2>2. /\ ballot[b].saw <= revision /\ ballot[b].tries <= ballot[b].saw - ballot[b].since
        /\ ballot[b].tries < MaxTries /\ ballot[b].since <= revision
    BY <1>1, <2>1 DEF BallotKnows
  <2>3. ballot[b].tries + 1 <= revision - ballot[b].since
    BY <1>1, <2>1, <2>2
  <2>4. ballot[b].tries + 1 < MaxTries \/ ballot[b].tries + 1 = MaxTries
    BY <1>1, <2>2
  <2>5. ballot'[b].at # "saving"
    BY <2>1
  <2>6. ballot'[b].at \in {"reading", "saving"} => ballot'[b].tries < MaxTries
    BY <2>1
  <2>7. ballot'[b].at = "crowded_out" => ballot'[b].tries = MaxTries
    BY <2>1, <2>4
  <2> QED
    BY <2>1, <2>2, <2>3, <2>5, <2>6, <2>7 DEF BallotKnows
<1>8. SaveVote(b) \/ VoteStops(b) => ballot'[b] = IdleBallot
  BY DEF SaveVote, VoteStops, EndgameInv, Types
<1>9. \A k \in Ballots : k # b /\ VoteStep(k) => ballot'[b] = ballot[b]
  BY DEF VoteStep, SubmitVote, ReadForVote, SaveVote, VoteConflicts, VoteStops, EndgameInv, Types
<1>10. UNCHANGED ballot \/ \E k \in Ballots : VoteStep(k)
  BY DEF Next, HostStep, ReadForReveal, ReadVotes, ReadForNext, ReadForPause, ReadForResume,
         ReadForEnd, HostReads, Reveal, NextStep, Pause, Resume, End, HostCommits, HostGivesUp,
         vars
<1> QED
  BY <1>3, <1>4, <1>5, <1>6, <1>7, <1>8, <1>9, <1>10 DEF VoteStep

\* A step during the reveal leaves the votes and the ending alone.
LEMMA RevealStands ==
  ASSUME EndgameInv, [Next]_vars, phase = "reveal"
  PROVE  phase' = "reveal" /\ path' = path /\ votes' = votes
<1>1. ASSUME NEW b \in Ballots, VoteStep(b) PROVE UNCHANGED <<phase, path, votes>>
  BY <1>1 DEF VoteStep, SubmitVote, ReadForVote, SaveVote, VotingOpen, VoteConflicts, VoteStops, row
<1>2. ASSUME NEW h \in Hosts, HostStep(h) PROVE UNCHANGED <<phase, path, votes>>
  <2>1. ~ Reveal(h)
    BY DEF Reveal, HostCommits, EndgameInv, HostKnows
  <2> QED
    BY <1>2, <2>1
       DEF HostStep, ReadForReveal, ReadVotes, ReadForNext, ReadForPause, ReadForResume,
           ReadForEnd, HostReads, NextStep, Pause, Resume, End, HostCommits, HostGivesUp, row
<1> QED
  BY <1>1, <1>2 DEF Next, vars, row

\* A step that opens the reveal takes the ending from the votes as they stand.
LEMMA RevealFollowsNext ==
  ASSUME EndgameInv, [Next]_vars
  PROVE  RevealFollowsVotes'
<1>1. CASE phase = "reveal"
  BY <1>1, RevealStands DEF EndgameInv, RevealFollowsVotes, AllVoted, Winner, Tally
<1>2. ASSUME NEW h \in Hosts, Reveal(h) PROVE RevealFollowsVotes'
  <2>1. AllVoted(host[h].votes) /\ host[h].votes = votes /\ votes' = votes
    BY <1>2 DEF Reveal, HostCommits, EndgameInv, HostKnows
  <2>2. path' = Winner(votes') /\ AllVoted(votes')
    BY <1>2, <2>1 DEF Reveal
  <2> QED
    BY <2>2 DEF RevealFollowsVotes, AllVoted, Winner, Tally
<1>3. (\E h \in Hosts : Reveal(h)) \/ phase' = phase
  BY DEF Next, VoteStep, SubmitVote, ReadForVote, SaveVote, VoteConflicts, VoteStops, HostStep,
         ReadForReveal, ReadVotes, ReadForNext, ReadForPause, ReadForResume, ReadForEnd, HostReads,
         NextStep, Pause, Resume, End, HostGivesUp, vars, row
<1> QED
  BY <1>1, <1>2, <1>3 DEF RevealFollowsVotes

\* The ending is not told before it is announced.
LEMMA NothingToldNext ==
  ASSUME EndgameInv, [Next]_vars, phase' = "accusation"
  PROVE  step' = 0
<1>1. phase = "accusation" /\ step = 0
  BY RevealStands DEF EndgameInv, Types, Next, VoteStep, SubmitVote, ReadForVote, SaveVote,
     VoteConflicts, VoteStops, HostStep, ReadForReveal, ReadVotes, ReadForNext, ReadForPause,
     ReadForResume, ReadForEnd, HostReads, Reveal, NextStep, Pause, Resume, End, HostGivesUp,
     vars, row
<1>2. \A h \in Hosts : ~ NextStep(h)
  BY <1>1 DEF NextStep, HostCommits, EndgameInv, HostKnows
<1> QED
  BY <1>1, <1>2 DEF Next, VoteStep, SubmitVote, ReadForVote, SaveVote, VoteConflicts, VoteStops,
     HostStep, ReadForReveal, ReadVotes, ReadForNext, ReadForPause, ReadForResume, ReadForEnd,
     HostReads, Reveal, Pause, Resume, End, HostGivesUp, vars, row

\* The accusation opens with nothing known.
LEMMA EndgameInit == Init => EndgameInv
BY BlankTypes DEF Init, EndgameInv, Types, RevealFollowsVotes, HostKnows, BallotKnows, IdleHost,
                  IdleBallot

\* Every step keeps the invariant.
LEMMA EndgameNext == EndgameInv /\ [Next]_vars => EndgameInv'
BY TypesNext, RevealFollowsNext, NothingToldNext, HostKnowsNext, BallotKnowsNext DEF EndgameInv

\* The invariant holds in every reachable state.
THEOREM EndgameInvariant == Spec => []EndgameInv
BY EndgameInit, EndgameNext, PTL DEF Spec

-----------------------------------------------------------------------------
(* What follows.                                                           *)

\* What every step does to the status, the phase and the ending.
LEMMA RowTypesNext ==
  ASSUME TypeOK, [Next]_vars
  PROVE  /\ status' \in {"in_progress", "paused", "finished"}
         /\ phase' \in {"accusation", "reveal"}
         /\ path' \in Paths \cup {NoPath}
<1>1. ASSUME NEW h \in Hosts, Reveal(h)
      PROVE  path' \in Paths /\ phase' = "reveal" /\ status' = status
  BY <1>1, WinnerWins DEF Reveal
<1>2. ASSUME NEW h \in Hosts, NextStep(h) \/ Pause(h) \/ Resume(h) \/ End(h)
      PROVE  status' \in {"in_progress", "paused", "finished"} /\ UNCHANGED <<phase, path>>
  BY <1>2 DEF NextStep, Pause, Resume, End, TypeOK
<1>3. \/ UNCHANGED <<status, phase, path>>
      \/ \E h \in Hosts : Reveal(h) \/ NextStep(h) \/ Pause(h) \/ Resume(h) \/ End(h)
  BY DEF Next, VoteStep, SubmitVote, ReadForVote, SaveVote, VoteConflicts, VoteStops, HostStep,
         ReadForReveal, ReadVotes, ReadForNext, ReadForPause, ReadForResume, ReadForEnd, HostReads,
         HostGivesUp, vars, row
<1> QED
  BY <1>1, <1>2, <1>3 DEF TypeOK

\* Row, votes and requests keep their types (TypeOK); the ending is one of the
\* case's, because the endings have a best one whatever the votes are.
THEOREM EndgameTypes == Spec => []TypeOK
<1>1. Init => TypeOK
  BY EndgameInit DEF Init, TypeOK, EndgameInv, Types
<1>2. TypeOK /\ [Next]_vars => TypeOK'
  <2> SUFFICES ASSUME TypeOK, [Next]_vars PROVE TypeOK'
    OBVIOUS
  <2>1. Types
    BY DEF Types, TypeOK
  <2>2. Types'
    BY <2>1, TypesNext
  <2> QED
    BY <2>2, RowTypesNext DEF Types, TypeOK, Paths
<1> QED
  BY <1>1, <1>2, PTL DEF Spec

\* The ending is the one that everybody's final votes chose (RevealFollowsVotes).
THEOREM EndingFollowsVotes == Spec => []RevealFollowsVotes
BY EndgameInvariant, PTL DEF EndgameInv

\* A vote gives up only in the face of real competition (ConflictsAreReal).
THEOREM RealConflicts == Spec => []ConflictsAreReal
<1>1. EndgameInv => ConflictsAreReal
  BY DEF EndgameInv, BallotKnows, ConflictsAreReal
<1> QED
  BY <1>1, EndgameInvariant, PTL

\* The ending moves forward, one seen step at a time (EndingMovesForward).
THEOREM EndingForward == Spec => EndingMovesForward
<1>1. ASSUME EndgameInv, [Next]_vars PROVE StepByStep
  <2>1. ASSUME NEW h \in Hosts, NextStep(h) PROVE host[h].step = step /\ step' \in {step, step + 1}
    BY <1>1, <2>1 DEF NextStep, HostCommits, EndgameInv, HostKnows
  <2>2. (\E h \in Hosts : NextStep(h) \/ Reveal(h)) \/ step' = step
    BY <1>1 DEF Next, VoteStep, SubmitVote, ReadForVote, SaveVote, VoteConflicts, VoteStops, HostStep,
           ReadForReveal, ReadVotes, ReadForNext, ReadForPause, ReadForResume, ReadForEnd,
           HostReads, Pause, Resume, End, HostGivesUp, vars, row
  <2>3. phase = "reveal" => \A h \in Hosts : ~ Reveal(h)
    BY <1>1 DEF Reveal, HostCommits, EndgameInv, HostKnows
  <2> QED
    BY <1>1, <2>1, <2>2, <2>3, RevealStands DEF StepByStep
<1>2. EndgameInv /\ [Next]_vars => [StepByStep]_vars
  BY <1>1
<1> QED
  BY <1>2, EndgameInvariant, PTL DEF Spec, EndingMovesForward

-----------------------------------------------------------------------------
(* The requests implement an ending that happens at once.                  *)

\* A vote request is nothing, or a vote that is cast at once.
LEMMA VotesAreCast ==
  ASSUME EndgameInv, NEW b \in Ballots, VoteStep(b)
  PROVE  Ideal!Next \/ UNCHANGED Ideal!vars
<1>1. CASE SaveVote(b)
  <2>1. ballot[b] \in Ballot /\ ballot[b].at = "saving"
    BY <1>1 DEF EndgameInv, Types, SaveVote
  <2>2. ballot[b].who \in Detectives \cup {NoVote} /\ ballot[b].choice \in Suspects \cup {NoVote}
    BY <2>1 DEF Ballot, Choices
  <2>3. CASE ballot[b].who \in Detectives
    BY <1>1, <2>2, <2>3 DEF SaveVote, VotingOpen, Ideal!Next, Ideal!Cast
  <2>4. CASE ballot[b].who = NoVote
    <3>1. votes \in [Detectives -> Choices] /\ NoVote \notin Detectives
      BY DEF EndgameInv, Types
    <3>2. votes' = votes
      BY <1>1, <2>4, <3>1 DEF SaveVote
    <3> QED
      BY <1>1, <3>2 DEF SaveVote, Ideal!vars
  <2> QED
    BY <2>2, <2>3, <2>4
<1>2. CASE ~ SaveVote(b)
  BY <1>2 DEF VoteStep, SubmitVote, ReadForVote, VoteConflicts, VoteStops, Ideal!vars, row
<1> QED
  BY <1>1, <1>2

\* The reveal announces the ending that leads at that moment.
LEMMA RevealAnnounces ==
  ASSUME EndgameInv, NEW h \in Hosts, Reveal(h)
  PROVE  Ideal!Next
<1>1. /\ status = "in_progress" /\ phase = "accusation" /\ step = 0
      /\ AllVoted(votes) /\ host[h].votes = votes
  BY DEF EndgameInv, Reveal, HostCommits, HostKnows
<1> DEFINE i == Winner(votes)
<1>2. /\ i \in DOMAIN Triggers
      /\ \A j \in Paths : \/ Tally(votes, Triggers[j]) < Tally(votes, Triggers[i])
                          \/ Tally(votes, Triggers[j]) = Tally(votes, Triggers[i]) /\ i <= j
  BY WinnerWins DEF Paths
<1> HIDE DEF i
<1>3. \A s : Ideal!Tally(s) = Tally(votes, s)
  <2> TAKE s
  <2> QED
    BY Zenon DEF Ideal!Tally, Tally, Ideal!Cardinality, Cardinality
<1>4. ASSUME NEW j \in DOMAIN Triggers \ {i} PROVE Ideal!Beats(i, j)
  <2>1. /\ Tally(votes, Triggers[j]) \in Nat /\ Tally(votes, Triggers[i]) \in Nat
        /\ i \in Nat /\ j \in Nat /\ i # j /\ j \in Paths
    BY <1>2, <1>4, TallyBounded DEF Paths
  <2>2. \/ Tally(votes, Triggers[j]) < Tally(votes, Triggers[i])
        \/ Tally(votes, Triggers[j]) = Tally(votes, Triggers[i]) /\ i < j
    BY <1>2, <2>1
  <2> QED
    BY <1>3, <2>1, <2>2 DEF Ideal!Beats
<1>5. phase' = "reveal" /\ path' = i /\ step' = 0 /\ UNCHANGED <<status, votes>>
  BY <1>1 DEF Reveal, HostCommits, i
<1>6. Ideal!Announce(i)
  BY <1>1, <1>4, <1>5 DEF Ideal!Announce, AllVoted
<1> QED
  BY <1>2, <1>6 DEF Ideal!Next

\* Every other control is nothing, or a step of the ending or an interruption of it.
LEMMA ControlsAreSteps ==
  ASSUME EndgameInv, NEW h \in Hosts, HostStep(h), ~ Reveal(h)
  PROVE  Ideal!Next \/ UNCHANGED Ideal!vars
<1>1. CASE NextStep(h)
  <2>1. status = "in_progress" /\ phase = "reveal" /\ host[h].step = step /\ step \in 0 .. 2
    BY <1>1 DEF NextStep, HostCommits, EndgameInv, HostKnows, Types
  <2>2. CASE step < 2
    BY <1>1, <2>1, <2>2 DEF NextStep, HostCommits, Ideal!Next, Ideal!Tell
  <2>3. CASE step = 2
    BY <1>1, <2>1, <2>3 DEF NextStep, HostCommits, Ideal!Next, Ideal!Conclude
  <2> QED
    BY <2>1, <2>2, <2>3
<1>2. CASE Pause(h) \/ Resume(h) \/ End(h)
  <2>1. /\ Pause(h) => status = "in_progress"
        /\ Resume(h) => status = "paused"
        /\ status # "finished"
    BY <1>2 DEF Pause, Resume, End, HostCommits, EndgameInv, HostKnows
  <2> QED
    BY <1>2, <2>1 DEF Pause, Resume, End, HostCommits, Ideal!Next, Ideal!Interrupt
<1>3. CASE ~ (NextStep(h) \/ Pause(h) \/ Resume(h) \/ End(h))
  BY <1>3 DEF HostStep, ReadForReveal, ReadVotes, ReadForNext, ReadForPause, ReadForResume,
              ReadForEnd, HostReads, HostGivesUp, Ideal!vars, row
<1> QED
  BY <1>1, <1>2, <1>3

\* The requests implement the ending that happens at once (ImplementsVerdict):
\* reads and commits that race, conflict and die amount to nothing else.
THEOREM VerdictIsImplemented == Spec => ImplementsVerdict
<1>1. Init => Ideal!Init
  BY DEF Init, Ideal!Init, NoVotes, NoPath
<1>2. ASSUME EndgameInv, [Next]_vars PROVE [Ideal!Next]_(Ideal!vars)
  <2>1. CASE UNCHANGED vars
    BY <2>1 DEF vars, row, Ideal!vars
  <2> QED
    BY <1>2, <2>1, VotesAreCast, RevealAnnounces, ControlsAreSteps DEF Next
<1> QED
  BY <1>1, <1>2, EndgameInvariant, PTL DEF Spec, ImplementsVerdict, Ideal!Spec
=============================================================================
