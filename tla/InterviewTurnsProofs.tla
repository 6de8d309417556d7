------------------------ MODULE InterviewTurnsProofs ------------------------
(***************************************************************************)
(* Proofs about InterviewTurns, for any numbers of detectives, suspects,   *)
(* requests and concurrent invocations, and any bounds.                    *)
(***************************************************************************)
EXTENDS InterviewTurns, TLAPS

USE DetectivesAssumption, NullsAssumption, BoundsAssumption

-----------------------------------------------------------------------------
(* Type correctness.                                                       *)

\* What a read returns is a snapshot of a well-typed row.
LEMMA RowReadType ==
  ASSUME TypeOK, Tick
  PROVE  RowRead \in Snapshot /\ mic' \in Players /\ revision' \in Nat
BY DEF TypeOK, Tick, Rotate, RowRead, Snapshot, Players

\* Expiring and cancelling turns keeps the table well typed.
LEMMA SettledType ==
  ASSUME TypeOK
  PROVE  FailExpired \in [Requests -> Turn] /\ CancelHeld \in [Requests -> Turn]
BY DEF TypeOK, FailExpired, CancelHeld, Pending, Turn, TurnStatus

\* An idle invocation carries well-typed blanks.
LEMMA IdleTypes ==
  NoSnapshot \in Snapshot /\ IdleAsk \in AskRecord /\ IdleEdit \in EditRecord
BY DEF NoSnapshot, Snapshot, IdleAsk, IdleEdit, AskRecord, EditRecord, AskSteps, EditSteps,
       AnyInput, NoInput, Statuses, Phases, OnStage, Players

\* Every step of the interview route keeps the types.
LEMMA AskType ==
  ASSUME TypeOK, NEW h \in Askers, AskStep(h)
  PROVE  TypeOK'
<1>1. ASSUME NEW id \in Requests, NEW in \in Inputs, Begin(h, id, in)
      PROVE  TypeOK'
  BY <1>1, RowReadType, SettledType, IdleTypes
     DEF TypeOK, Begin, Turn, TurnStatus, AskRecord, AskSteps, AnyInput
<1>2. ASSUME NEW id \in Requests, NEW in \in Inputs, Replay(h, id, in)
      PROVE  TypeOK'
  BY <1>2, RowReadType, IdleTypes
     DEF TypeOK, Replay, Turn, AskRecord, AskSteps, AnyInput
<1>3. CASE ReadContext(h)
  BY <1>3, RowReadType DEF TypeOK, ReadContext, AskRecord, AskSteps
<1>4. CASE CommitTurn(h)
  <2> DEFINE x == [id |-> ask[h].id, input |-> ask[h].input, attempt |-> ask[h].attempt,
                   suspect |-> ask[h].saw.suspect, revision |-> revision']
  <2>1. ask[h] \in AskRecord /\ ask[h].id \in Requests /\ ask[h].saw \in Snapshot
    BY <1>4 DEF TypeOK, CommitTurn, AskRecord
  <2>2. revision' \in Nat /\ mic' \in Players /\ evidence' \subseteq Evidence
    BY <1>4, <2>1 DEF TypeOK, CommitTurn, Snapshot
  <2>3. x \in Exchange
    BY <2>1, <2>2 DEF Exchange, AskRecord, Snapshot
  <2>4. turns' \in [Requests -> Turn]
    BY <1>4, <2>1 DEF TypeOK, CommitTurn, Turn, TurnStatus
  <2>5. /\ ask' \in [Askers -> AskRecord]
        /\ \A k \in Askers : ask'[k].at # "idle" => ask'[k].id \in Requests
    BY <1>4, <2>1 DEF TypeOK, CommitTurn, AskRecord, AskSteps, NoSnapshot, Snapshot,
                      Statuses, Phases, OnStage, Players
  <2> QED
    BY <1>4, <2>2, <2>3, <2>4, <2>5 DEF TypeOK, CommitTurn
<1>5. CASE Reread(h)
  BY <1>5, RowReadType DEF TypeOK, Reread, AskRecord, AskSteps
<1>6. CASE Catch(h)
  <2>1. ask[h].id \in Requests
    BY <1>6 DEF TypeOK, Catch
  <2>2. turns' \in [Requests -> Turn]
    BY <1>6, <2>1 DEF TypeOK, Catch, Turn, TurnStatus
  <2> QED
    BY <1>6, <2>2, IdleTypes DEF TypeOK, Catch, row, IdleAsk
<1>7. CASE AskEnds(h)
  BY <1>7, IdleTypes DEF TypeOK, AskEnds, row, IdleAsk
<1> QED
  BY <1>1, <1>2, <1>3, <1>4, <1>5, <1>6, <1>7 DEF AskStep

\* Every read made by a control keeps the types.
LEMMA EditReadType ==
  ASSUME TypeOK, NEW e \in Editors, EditRead(e)
  PROVE  TypeOK'
<1>1. ASSUME NEW step \in EditSteps, NEW actor \in Players, NEW s \in OnStage,
             NEW p \in Players, ReadFor(e, step, actor, s, p)
      PROVE  TypeOK'
  BY <1>1, RowReadType DEF TypeOK, ReadFor, EditRecord
<1>2. NoPlayer \in Players /\ NoSuspect \in OnStage /\ Suspects \subseteq OnStage
  BY DEF Players, OnStage
<1> QED
  BY <1>1, <1>2
     DEF EditRead, EditSteps, ReadScene, ReadMic, ReadFile, ReadHelp, ReadPause, ReadResume,
         ReadEnd, ReadAccuse, ReadExtend

\* Every commit made by a control keeps the types.
LEMMA EditCommitType ==
  ASSUME TypeOK, NEW e \in Editors, EditCommit(e)
  PROVE  TypeOK'
<1>1. edit[e] \in EditRecord /\ edit[e].saw \in Snapshot
  BY DEF TypeOK, EditRecord
<1>2. /\ revision' \in Nat /\ attempts' \in Nat /\ published' \subseteq Exchange
      /\ edit' \in [Editors -> EditRecord]
      /\ UNCHANGED ask
  BY IdleTypes DEF TypeOK, EditCommit, CommitScene, CommitFile, CommitHelp, CommitMic, CommitPause,
                   CommitResume, CommitEnd, CommitAccuse, CommitExtend, CommitPlain,
                   CommitCancelling, Finishes
<1>3. turns' \in [Requests -> Turn]
  BY SettledType DEF TypeOK, EditCommit, CommitScene, CommitFile, CommitHelp, CommitMic,
                     CommitPause, CommitResume, CommitEnd, CommitAccuse, CommitExtend,
                     CommitPlain, CommitCancelling
<1>4. /\ status' \in Statuses /\ phase' \in Phases
      /\ suspect' \in OnStage /\ mic' \in Players
  BY <1>1 DEF TypeOK, EditCommit, CommitScene, CommitFile, CommitHelp, CommitMic, CommitPause,
              CommitResume, CommitEnd, CommitAccuse, CommitExtend, EditRecord, Statuses,
              Phases, OnStage
<1>5. evidence' \subseteq Evidence
  BY <1>1 DEF TypeOK, EditCommit, CommitScene, CommitFile, CommitHelp, CommitMic, CommitPause,
              CommitResume, CommitEnd, CommitAccuse, CommitExtend, Discover, Snapshot
<1> QED
  BY <1>2, <1>3, <1>4, <1>5 DEF TypeOK

\* The types are inductive.
LEMMA NextType == TypeOK /\ [Next]_vars => TypeOK'
<1> SUFFICES ASSUME TypeOK, [Next]_vars PROVE TypeOK'
  OBVIOUS
<1>1. CASE Poll
  BY <1>1, RowReadType DEF TypeOK, Poll, Tick
<1>2. ASSUME NEW h \in Askers, AskStep(h) PROVE TypeOK'
  BY <1>2, AskType
<1>3. ASSUME NEW id \in Requests, LeaseExpires(id) PROVE TypeOK'
  BY <1>3 DEF TypeOK, LeaseExpires, row, Turn
<1>4. ASSUME NEW e \in Editors, EditRead(e) PROVE TypeOK'
  BY <1>4, EditReadType
<1>5. ASSUME NEW e \in Editors, EditCommit(e) PROVE TypeOK'
  BY <1>5, EditCommitType
<1>6. ASSUME NEW e \in Editors, EditGivesUp(e) PROVE TypeOK'
  BY <1>6, IdleTypes DEF TypeOK, EditGivesUp, row
<1>7. CASE UNCHANGED vars
  BY <1>7 DEF TypeOK, vars, row
<1> QED
  BY <1>1, <1>2, <1>3, <1>4, <1>5, <1>6, <1>7 DEF Next

\* The first state is well typed.
LEMMA InitType == Init => TypeOK
BY IdleTypes DEF Init, TypeOK, Turn, TurnStatus, NoTurn, AnyInput, NoInput, OnStage, Players,
                 Statuses, Phases, IdleAsk

\* Every reachable state is well typed (TypeOK), whatever the interleaving.
THEOREM TypeCorrect == Spec => []TypeOK
BY InitType, NextType, PTL DEF Spec

-----------------------------------------------------------------------------
(* What the steps do to the tables.                                        *)

\* A control that commits moves the revision it read and leaves no live lease.
LEMMA EditCommitEffect ==
  ASSUME TypeOK, NEW e \in Editors, EditCommit(e)
  PROVE  /\ edit[e].at # "idle" /\ edit[e].saw.revision = revision
         /\ revision' = revision + 1
         /\ edit' = [edit EXCEPT ![e] = IdleEdit]
         /\ UNCHANGED <<attempts, published, ask>>
         /\ turns' \in {turns, FailExpired, CancelHeld}
         /\ \A id \in Requests : ~ (turns'[id].status = "pending" /\ turns'[id].live)
<1>1. ASSUME NEW step \in EditSteps, CommitPlain(e, step)
      PROVE  /\ edit[e].saw.revision = revision
             /\ revision' = revision + 1 /\ edit' = [edit EXCEPT ![e] = IdleEdit]
             /\ UNCHANGED <<attempts, published, ask>>
             /\ turns' = FailExpired
             /\ \A id \in Requests : ~ (turns'[id].status = "pending" /\ turns'[id].live)
  BY <1>1 DEF CommitPlain, Fresh, Finishes, FailExpired, TurnHeld, Live, Pending, TypeOK, Turn
<1>2. ASSUME NEW step \in EditSteps, CommitCancelling(e, step)
      PROVE  /\ edit[e].saw.revision = revision
             /\ revision' = revision + 1 /\ edit' = [edit EXCEPT ![e] = IdleEdit]
             /\ UNCHANGED <<attempts, published, ask>>
             /\ turns' = CancelHeld
             /\ \A id \in Requests : ~ (turns'[id].status = "pending" /\ turns'[id].live)
  BY <1>2 DEF CommitCancelling, Fresh, Finishes, CancelHeld, Pending, TypeOK, Turn
<1>3. CASE CommitExtend(e)
  BY <1>3 DEF CommitExtend, Finishes, TurnHeld, Live, Pending
<1> QED
  BY <1>1, <1>2, <1>3
     DEF EditCommit, CommitScene, CommitFile, CommitHelp, CommitMic, CommitPause,
         CommitResume, CommitEnd, CommitAccuse, CommitPlain, CommitCancelling, EditSteps

\* A control that reads changes nothing but what the tick changes, and remembers
\* the row as the tick left it.
LEMMA EditReadEffect ==
  ASSUME TypeOK, NEW e \in Editors, EditRead(e)
  PROVE  /\ Tick
         /\ UNCHANGED <<status, phase, suspect, evidence, turns, attempts, published, ask>>
         /\ \A k \in Editors : edit'[k] = edit[k] \/ edit'[k].saw = RowRead
BY DEF TypeOK, EditRead, ReadFor, ReadScene, ReadMic, ReadFile, ReadHelp, ReadPause,
       ReadResume, ReadEnd, ReadAccuse, ReadExtend

\* The revision never goes back, and a row with the same revision is the same row.
LEMMA RevisionIdentifiesRow ==
  ASSUME TypeOK, [Next]_vars
  PROVE  (revision' = revision /\ UNCHANGED row) \/ revision' = revision + 1
<1>1. Tick => (revision' = revision /\ mic' = mic) \/ revision' = revision + 1
  BY DEF Tick, Rotate
<1>2. CASE Poll
  BY <1>2 DEF Poll, Rotate
<1>3. ASSUME NEW h \in Askers, AskStep(h)
      PROVE  (revision' = revision /\ UNCHANGED row) \/ revision' = revision + 1
  BY <1>1, <1>3 DEF AskStep, Begin, Replay, ReadContext, CommitTurn, Reread, Catch, AskEnds, row
<1>4. ASSUME NEW id \in Requests, LeaseExpires(id)
      PROVE  revision' = revision /\ UNCHANGED row
  BY <1>4 DEF LeaseExpires, row
<1>5. ASSUME NEW e \in Editors, EditRead(e) \/ EditCommit(e) \/ EditGivesUp(e)
      PROVE  (revision' = revision /\ UNCHANGED row) \/ revision' = revision + 1
  BY <1>1, <1>5, EditReadEffect, EditCommitEffect DEF EditGivesUp, row
<1>6. CASE UNCHANGED vars
  BY <1>6 DEF vars, row
<1> QED
  BY <1>2, <1>3, <1>4, <1>5, <1>6 DEF Next

-----------------------------------------------------------------------------
(* The inductive invariant, one lemma per conjunct.                        *)

\* How a step can change one turn: it is settled, it expires, its worker
\* completes it, or it is begun under a fresh attempt.
Settles(id) ==
  /\ Pending(id)
  /\ turns'[id].status \in {"failed", "cancelled"}
  /\ turns'[id].attempt = turns[id].attempt
  /\ turns'[id].input = turns[id].input
  /\ turns'[id].suspect = turns[id].suspect
Expires(id) == LeaseExpires(id) /\ turns'[id] = [turns[id] EXCEPT !.live = FALSE]
Completes(h, id) ==
  /\ CommitTurn(h) /\ ask[h].id = id
  /\ turns'[id] = [turns[id] EXCEPT !.status = "completed"]
Takes(h, id, in) ==
  /\ Begin(h, id, in)
  /\ turns'[id] = [status |-> "pending", live |-> TRUE, revision |-> revision',
                   attempt |-> attempts', input |-> in, suspect |-> suspect]
TurnStep(id) ==
  \/ turns'[id] = turns[id] \/ Settles(id) \/ Expires(id)
  \/ \E h \in Askers : Completes(h, id)
  \/ \E h \in Askers, in \in Inputs : Takes(h, id, in)

\* A settled turn is no longer pending, and keeps what it was about.
LEMMA SettledStep ==
  ASSUME TypeOK, turns' \in {turns, FailExpired, CancelHeld}, NEW id \in Requests
  PROVE  turns'[id] = turns[id] \/ Settles(id)
BY DEF TypeOK, FailExpired, CancelHeld, Pending, Turn, Settles

\* Every step of the system changes a turn in one of those ways.
LEMMA TurnMoves ==
  ASSUME TypeOK, [Next]_vars, NEW id \in Requests
  PROVE  TurnStep(id)
<1>1. ASSUME NEW h \in Askers, NEW k \in Requests, NEW in \in Inputs, Begin(h, k, in)
      PROVE  TurnStep(id)
  <2>1. CASE k = id
    BY <1>1, <2>1, SettledType DEF Begin, Takes, TurnStep
  <2>2. CASE k # id
    <3>1. turns'[id] = FailExpired[id]
      BY <1>1, <2>2, SettledType DEF Begin
    <3> QED
      BY <3>1 DEF FailExpired, TypeOK, Turn, Settles, TurnStep, Pending
  <2> QED
    BY <2>1, <2>2
<1>2. ASSUME NEW h \in Askers, CommitTurn(h)
      PROVE  TurnStep(id)
  BY <1>2 DEF CommitTurn, Completes, TypeOK, TurnStep
<1>3. ASSUME NEW h \in Askers, Catch(h)
      PROVE  TurnStep(id)
  BY <1>3 DEF Catch, TypeOK, Turn, Settles, TurnStep, Pending
<1>4. ASSUME NEW h \in Askers, AskStep(h)
      PROVE  TurnStep(id)
  BY <1>1, <1>2, <1>3, <1>4 DEF AskStep, Replay, ReadContext, Reread, AskEnds, TurnStep
<1>5. ASSUME NEW e \in Editors, EditCommit(e)
      PROVE  TurnStep(id)
  BY <1>5, EditCommitEffect, SettledStep DEF TurnStep
<1>6. ASSUME NEW k \in Requests, LeaseExpires(k)
      PROVE  TurnStep(id)
  BY <1>6 DEF LeaseExpires, TypeOK, Expires, TurnStep
<1>7. CASE Poll \/ UNCHANGED vars
  BY <1>7 DEF Poll, vars, TurnStep
<1>8. ASSUME NEW e \in Editors, EditRead(e) \/ EditGivesUp(e)
      PROVE  TurnStep(id)
  BY <1>8, EditReadEffect DEF EditGivesUp, TurnStep
<1> QED
  BY <1>4, <1>5, <1>6, <1>7, <1>8 DEF Next

\* At most one turn is pending.
LEMMA OneTurnInductive ==
  ASSUME TurnsInv, [Next]_vars
  PROVE  OneTurnAtATime'
<1> SUFFICES ASSUME NEW a \in Requests, NEW b \in Requests,
                    turns'[a].status = "pending", turns'[b].status = "pending", a # b
             PROVE  FALSE
  BY DEF OneTurnAtATime, Pending
<1>1. ASSUME NEW id \in Requests, turns'[id].status = "pending", ~ Pending(id)
      PROVE  \A k \in Requests : k # id => turns'[k].status # "pending"
  <2>1. PICK h \in Askers, in \in Inputs : Takes(h, id, in)
    BY <1>1, TurnMoves
       DEF TurnsInv, TypeOK, Turn, TurnStep, Settles, Expires, LeaseExpires, Live, Completes,
           Pending
  <2> QED
    BY <2>1, SettledType DEF TurnsInv, TypeOK, Turn, Takes, Begin, FailExpired, TurnHeld, Live, Pending
<1>2. Pending(a) /\ Pending(b)
  BY <1>1
<1> QED
  BY <1>2 DEF TurnsInv, OneTurnAtATime

\* While a live lease stays in place the session row does not move at all.
LEMMA HeldRowStays ==
  ASSUME TurnsInv, [Next]_vars, NEW id \in Requests, Live(id), turns'[id] = turns[id]
  PROVE  UNCHANGED row
<1>1. Tick => UNCHANGED <<mic, revision>>
  BY DEF Tick, Rotate, TurnHeld
<1>2. CASE Poll
  BY <1>2 DEF Poll, Rotate, TurnHeld
<1>3. ASSUME NEW h \in Askers, AskStep(h)
      PROVE  UNCHANGED row
  <2>1. ~ CommitTurn(h)
    <3> SUFFICES ASSUME CommitTurn(h) PROVE FALSE
      OBVIOUS
    <3>1. ask[h].id \in Requests /\ Live(ask[h].id)
      BY DEF TurnsInv, TypeOK, CommitTurn, TurnCommits
    <3>2. ask[h].id = id
      BY <3>1 DEF TurnsInv, OneTurnAtATime, Live
    <3> QED
      BY <3>1, <3>2 DEF TurnsInv, TypeOK, CommitTurn, Live, Pending, Turn
  <2>2. \A k \in Requests, in \in Inputs : ~ Begin(h, k, in)
    BY DEF Begin, TurnHeld
  <2> QED
    BY <1>1, <1>3, <2>1, <2>2 DEF AskStep, Replay, ReadContext, Reread, Catch, AskEnds, row
<1>4. ASSUME NEW k \in Requests, LeaseExpires(k)
      PROVE  UNCHANGED row
  BY <1>4 DEF LeaseExpires
<1>5. ASSUME NEW e \in Editors, EditCommit(e)
      PROVE  FALSE
  BY <1>5, EditCommitEffect DEF TurnsInv, Live, Pending
<1>6. ASSUME NEW e \in Editors, EditRead(e) \/ EditGivesUp(e)
      PROVE  UNCHANGED row
  BY <1>1, <1>6, EditReadEffect DEF EditGivesUp, row, TurnsInv
<1>7. CASE UNCHANGED vars
  BY <1>7 DEF vars
<1> QED
  BY <1>2, <1>3, <1>4, <1>5, <1>6, <1>7 DEF Next

\* A live lease pins the row.
LEMMA LeasePinsInductive ==
  ASSUME TurnsInv, [Next]_vars
  PROVE  LeasePinsRow'
<1> SUFFICES ASSUME NEW id \in Requests, Live(id)'
             PROVE  /\ InterviewOpen'
                    /\ turns'[id].revision = revision'
                    /\ turns'[id].input.player = mic'
                    /\ turns'[id].suspect = suspect'
  BY DEF LeasePinsRow
<1>1. turns'[id].status = "pending" /\ turns'[id].live
  BY DEF Live, Pending
<1>2. TurnStep(id)
  BY TurnMoves DEF TurnsInv
<1>3. CASE turns'[id] = turns[id]
  <2>1. Live(id)
    BY <1>1, <1>3 DEF Live, Pending
  <2> QED
    BY <1>3, <2>1, HeldRowStays DEF TurnsInv, LeasePinsRow, InterviewOpen, row
<1>4. ASSUME NEW h \in Askers, NEW in \in Inputs, Takes(h, id, in)
      PROVE  /\ InterviewOpen'
             /\ turns'[id].revision = revision'
             /\ turns'[id].input.player = mic'
             /\ turns'[id].suspect = suspect'
  BY <1>4 DEF Takes, Begin, InterviewOpen
<1>5. ~ Settles(id) /\ ~ Expires(id) /\ \A h \in Askers : ~ Completes(h, id)
  BY <1>1 DEF Settles, Expires, Completes, TurnsInv, TypeOK, Turn
<1> QED
  BY <1>2, <1>3, <1>4, <1>5 DEF TurnStep

\* An invocation of the route starts thinking only by reading its context.
LEMMA AskMoves ==
  ASSUME TypeOK, [Next]_vars, NEW h \in Askers, ask'[h].at = "thinking"
  PROVE  ask'[h] = ask[h] \/ ReadContext(h)
<1>1. ASSUME NEW k \in Askers, AskStep(k)
      PROVE  ask'[h] = ask[h] \/ ReadContext(h)
  <2>1. CASE k # h
    BY <1>1, <2>1 DEF TypeOK, AskStep, Begin, Replay, ReadContext, CommitTurn, Reread, Catch, AskEnds
  <2>2. CASE k = h
    BY <1>1, <2>2 DEF TypeOK, AskRecord, AskStep, Begin, Replay, CommitTurn, Reread,
                      Catch, AskEnds, IdleAsk
  <2> QED
    BY <2>1, <2>2
<1>2. (\E k \in Askers : AskStep(k)) \/ UNCHANGED ask
  BY EditCommitEffect, EditReadEffect DEF Next, Poll, LeaseExpires, EditGivesUp, vars
<1> QED
  BY <1>1, <1>2

\* A control's record changes by its own read, or goes idle.
LEMMA EditMoves ==
  ASSUME TypeOK, [Next]_vars, NEW e \in Editors, edit'[e].at # "idle"
  PROVE  edit'[e] = edit[e] \/ \E k \in Editors : EditRead(k)
<1>1. ASSUME NEW k \in Editors, EditCommit(k) \/ EditGivesUp(k)
      PROVE  edit'[e] = edit[e] \/ edit'[e] = IdleEdit
  <2>1. edit' = [edit EXCEPT ![k] = IdleEdit]
    BY <1>1, EditCommitEffect DEF EditGivesUp
  <2> QED
    BY <2>1 DEF TypeOK
<1>2. \/ \E k \in Editors : EditRead(k) \/ EditCommit(k) \/ EditGivesUp(k)
      \/ UNCHANGED edit
  <2>1. ASSUME NEW h \in Askers, AskStep(h) PROVE UNCHANGED edit
    BY <2>1 DEF AskStep, Begin, Replay, ReadContext, CommitTurn, Reread, Catch, AskEnds
  <2> QED
    BY <2>1 DEF Next, Poll, LeaseExpires, vars
<1> QED
  BY <1>1, <1>2 DEF IdleEdit

\* Equal revisions mean equal rows.
LEMMA SnapshotsInductive ==
  ASSUME TurnsInv, [Next]_vars
  PROVE  SnapshotsAreTrue'
<1> DEFINE Agrees(saw) == /\ saw.revision <= revision
                          /\ saw.revision = revision => RowMatches(saw)
           New(saw)    == /\ saw.revision <= revision'
                          /\ saw.revision = revision' =>
                               /\ saw.status = status' /\ saw.phase = phase'
                               /\ saw.suspect = suspect' /\ saw.mic = mic'
                               /\ saw.evidence = evidence'
<1>1. ASSUME NEW saw \in Snapshot, Agrees(saw) PROVE New(saw)
  BY <1>1, RevisionIdentifiesRow DEF TurnsInv, TypeOK, row, RowMatches, Snapshot
<1>2. ASSUME UNCHANGED <<status, phase, suspect, evidence>>, Tick PROVE New(RowRead)
  BY <1>2, RowReadType DEF RowRead, TurnsInv, TypeOK
<1>3. ASSUME NEW h \in Askers, ask'[h].at = "thinking"
      PROVE  New(ask'[h].saw)
  <2>1. CASE ReadContext(h)
    BY <1>2, <1>3, <2>1 DEF ReadContext, TurnsInv, TypeOK, AskRecord
  <2>2. CASE ~ ReadContext(h)
    <3>1. ask'[h] = ask[h]
      BY <1>3, <2>2, AskMoves DEF TurnsInv
    <3> QED
      BY <1>1, <1>3, <3>1 DEF TurnsInv, SnapshotsAreTrue, TypeOK, AskRecord
  <2> QED
    BY <2>1, <2>2
<1>4. ASSUME NEW e \in Editors, edit'[e].at # "idle"
      PROVE  New(edit'[e].saw)
  <2>1. CASE edit'[e] = edit[e]
    BY <1>1, <1>4, <2>1 DEF TurnsInv, SnapshotsAreTrue, TypeOK, EditRecord
  <2>2. CASE edit'[e] # edit[e]
    <3>2. PICK k \in Editors : EditRead(k)
      BY <1>4, <2>2, EditMoves DEF TurnsInv
    <3> QED
      BY <1>2, <2>2, <3>2, EditReadEffect DEF TurnsInv
  <2> QED
    BY <2>1, <2>2
<1> QED
  BY <1>3, <1>4 DEF SnapshotsAreTrue, RowMatches

\* How a step can change an invocation of the route: it goes idle, moves on with
\* the request it has, or takes one up with a lease or a replay.
MovesOn(h) ==
  /\ ReadContext(h) \/ CommitTurn(h) \/ Reread(h)
  /\ ask[h].at # "idle"
  /\ ask'[h].id = ask[h].id /\ ask'[h].input = ask[h].input
  /\ ask'[h].attempt = ask[h].attempt
Leases(h, id, in) ==
  /\ Begin(h, id, in)
  /\ ask'[h] = [at |-> "begun", id |-> id, input |-> in, attempt |-> attempts',
                saw |-> NoSnapshot]
Replays(h, id, in) ==
  /\ Replay(h, id, in)
  /\ ask'[h] = [at |-> "replied", id |-> id, input |-> in,
                attempt |-> turns[id].attempt, saw |-> NoSnapshot]
WorkerStep(h) ==
  \/ ask'[h] = ask[h] \/ ask'[h] = IdleAsk \/ MovesOn(h)
  \/ \E id \in Requests, in \in Inputs : Leases(h, id, in) \/ Replays(h, id, in)

\* Every step of the system changes an invocation in one of those ways.
LEMMA WorkerMoves ==
  ASSUME TypeOK, [Next]_vars, NEW h \in Askers
  PROVE  WorkerStep(h)
<1>1. ASSUME NEW k \in Askers, AskStep(k), k # h
      PROVE  ask'[h] = ask[h]
  BY <1>1 DEF TypeOK, AskStep, Begin, Replay, ReadContext, CommitTurn, Reread, Catch, AskEnds
<1>2. ASSUME NEW id \in Requests, NEW in \in Inputs, Begin(h, id, in)
      PROVE  Leases(h, id, in)
  BY <1>2 DEF TypeOK, Begin, Leases
<1>3. ASSUME NEW id \in Requests, NEW in \in Inputs, Replay(h, id, in)
      PROVE  Replays(h, id, in)
  BY <1>3 DEF TypeOK, Replay, Replays
<1>4. ASSUME ReadContext(h) \/ CommitTurn(h) \/ Reread(h)
      PROVE  MovesOn(h)
  <2>1. ask[h] \in AskRecord /\ ask[h].at # "idle"
    BY <1>4 DEF TypeOK, ReadContext, CommitTurn, Reread
  <2>2. /\ ask'[h].id = ask[h].id /\ ask'[h].input = ask[h].input
        /\ ask'[h].attempt = ask[h].attempt
    <3>1. CASE ReadContext(h)
      BY <2>1, <3>1 DEF TypeOK, AskRecord, ReadContext
    <3>2. CASE CommitTurn(h)
      BY <2>1, <3>2 DEF TypeOK, AskRecord, CommitTurn
    <3>3. CASE Reread(h)
      BY <2>1, <3>3 DEF TypeOK, AskRecord, Reread
    <3> QED
      BY <1>4, <3>1, <3>2, <3>3
  <2> QED
    BY <1>4, <2>1, <2>2 DEF MovesOn
<1>5. ASSUME Catch(h) \/ AskEnds(h) PROVE ask'[h] = IdleAsk
  BY <1>5 DEF TypeOK, Catch, AskEnds
<1>6. (\E k \in Askers : AskStep(k)) \/ UNCHANGED ask
  BY EditCommitEffect, EditReadEffect DEF Next, Poll, LeaseExpires, EditGivesUp, vars
<1>7. CASE AskStep(h)
  BY <1>2, <1>3, <1>4, <1>5, <1>7 DEF AskStep, WorkerStep
<1> QED
  BY <1>1, <1>6, <1>7 DEF WorkerStep

\* Attempts are handed out once, in order.
LEMMA AttemptsMove ==
  ASSUME TypeOK, [Next]_vars
  PROVE  \/ attempts' = attempts + 1 /\ \E h \in Askers, id \in Requests, in \in Inputs : Begin(h, id, in)
         \/ attempts' = attempts
<1>1. ASSUME NEW h \in Askers, AskStep(h)
      PROVE  \/ attempts' = attempts
             \/ /\ attempts' = attempts + 1
                /\ \E id \in Requests, in \in Inputs : Begin(h, id, in)
  BY <1>1 DEF AskStep, Begin, Replay, ReadContext, CommitTurn, Reread, Catch, AskEnds
<1> QED
  BY <1>1, EditCommitEffect, EditReadEffect DEF Next, Poll, LeaseExpires, EditGivesUp, vars

\* Known attempts stay known.
LEMMA AttemptsKnownInductive ==
  ASSUME TurnsInv, [Next]_vars
  PROVE  AttemptsAreKnown'
<1>1. attempts' \in Nat /\ attempts <= attempts'
  BY AttemptsMove DEF TurnsInv, TypeOK
<1>2. ASSUME NEW id \in Requests PROVE turns'[id].attempt <= attempts'
  <2>1. turns'[id].attempt = turns[id].attempt \/ turns'[id].attempt = attempts'
    <3>1. TurnStep(id) /\ turns[id] \in Turn
      BY TurnMoves DEF TurnsInv, TypeOK
    <3>2. Expires(id) => turns'[id].attempt = turns[id].attempt
      BY <3>1 DEF Turn, Expires
    <3>3. \A h \in Askers : Completes(h, id) => turns'[id].attempt = turns[id].attempt
      BY <3>1 DEF Turn, Completes
    <3>4. \A h \in Askers, in \in Inputs : Takes(h, id, in) => turns'[id].attempt = attempts'
      BY DEF Takes
    <3> QED
      BY <3>1, <3>2, <3>3, <3>4 DEF TurnStep, Settles
  <2>2. turns[id].attempt \in Nat /\ turns[id].attempt <= attempts /\ attempts \in Nat
    BY DEF TurnsInv, AttemptsAreKnown, TypeOK, Turn
  <2> QED
    BY <1>1, <2>1, <2>2
<1>3. ASSUME NEW h \in Askers PROVE ask'[h].attempt <= attempts'
  <2>1. CASE ask'[h] = ask[h] \/ ask'[h] = IdleAsk \/ MovesOn(h)
    <3>1. ask'[h].attempt = ask[h].attempt \/ ask'[h].attempt = 0
      BY <2>1 DEF IdleAsk, MovesOn
    <3>2. ask[h].attempt \in Nat /\ ask[h].attempt <= attempts /\ attempts \in Nat
      BY DEF TurnsInv, AttemptsAreKnown, TypeOK, AskRecord
    <3> QED
      BY <1>1, <3>1, <3>2
  <2>2. ASSUME NEW id \in Requests, NEW in \in Inputs, Leases(h, id, in)
        PROVE  ask'[h].attempt <= attempts'
    BY <1>1, <2>2 DEF Leases
  <2>3. ASSUME NEW id \in Requests, NEW in \in Inputs, Replays(h, id, in)
        PROVE  ask'[h].attempt <= attempts'
    BY <1>1, <2>3 DEF Replays, TurnsInv, AttemptsAreKnown, TypeOK, Turn
  <2> QED
    BY <2>1, <2>2, <2>3, WorkerMoves DEF TurnsInv, WorkerStep
<1> QED
  BY <1>2, <1>3 DEF AttemptsAreKnown

\* The attempt of a turn names the input of the invocation that works on it.
LEMMA AttemptNamesInductive ==
  ASSUME TurnsInv, [Next]_vars
  PROVE  AttemptNamesWorker'
<1> SUFFICES ASSUME NEW h \in Askers, ask'[h].at # "idle",
                    turns'[ask'[h].id].attempt = ask'[h].attempt
             PROVE  turns'[ask'[h].id].input = ask'[h].input
  BY DEF AttemptNamesWorker
<1>1. CASE ask'[h] = ask[h] \/ MovesOn(h)
  <2> DEFINE id == ask[h].id
  <2>1. /\ ask[h].at # "idle" /\ ask'[h].id = ask[h].id
        /\ ask'[h].input = ask[h].input /\ ask'[h].attempt = ask[h].attempt
    BY <1>1 DEF MovesOn
  <2>2. id \in Requests /\ TurnStep(id)
    BY <2>1, TurnMoves DEF TurnsInv, TypeOK
  <2>3. ASSUME NEW k \in Askers, NEW in \in Inputs, Takes(k, id, in) PROVE FALSE
    <3>1. turns'[id].attempt = attempts + 1
      BY <2>3 DEF Takes, Begin
    <3> QED
      BY <2>1, <3>1 DEF TurnsInv, AttemptsAreKnown, TypeOK, AskRecord
  <2>4. turns'[id].attempt = turns[id].attempt /\ turns'[id].input = turns[id].input
    BY <2>2, <2>3 DEF TurnStep, Settles, Expires, Completes, TurnsInv, TypeOK, Turn
  <2> QED
    BY <2>1, <2>4 DEF TurnsInv, AttemptNamesWorker
<1>2. ASSUME NEW id \in Requests, NEW in \in Inputs, Leases(h, id, in)
      PROVE  turns'[ask'[h].id].input = ask'[h].input
  BY <1>2, SettledType DEF Begin, Leases, TurnsInv
<1>3. ASSUME NEW id \in Requests, NEW in \in Inputs, Replays(h, id, in)
      PROVE  turns'[ask'[h].id].input = ask'[h].input
  BY <1>3 DEF Replay, Replays
<1> QED
  BY <1>1, <1>2, <1>3, WorkerMoves DEF TurnsInv, WorkerStep, IdleAsk

\* A completed turn is final: no retry, takeover, expiry or cancellation touches
\* the result saved for the request.
LEMMA CompletedIsFinal ==
  ASSUME TypeOK, [Next]_vars, NEW id \in Requests, turns[id].status = "completed"
  PROVE  turns'[id] = turns[id]
<1>1. ~ Settles(id) /\ ~ Expires(id)
  BY DEF Settles, Expires, LeaseExpires, Live, Pending
<1>2. \A h \in Askers : ~ Completes(h, id)
  BY DEF Completes, CommitTurn, TurnCommits, Live, Pending
<1>3. \A h \in Askers, in \in Inputs : ~ Takes(h, id, in)
  BY DEF Takes, Begin
<1> QED
  BY <1>1, <1>2, <1>3, TurnMoves DEF TurnStep

\* Only a commit that carries a turn publishes.
LEMMA PublishedMoves ==
  ASSUME TypeOK, [Next]_vars
  PROVE  published' = published \/ \E h \in Askers : CommitTurn(h)
<1>1. ASSUME NEW h \in Askers, AskStep(h)
      PROVE  published' = published \/ CommitTurn(h)
  BY <1>1 DEF AskStep, Begin, Replay, ReadContext, Reread, Catch, AskEnds
<1> QED
  BY <1>1, EditCommitEffect, EditReadEffect DEF Next, Poll, LeaseExpires, EditGivesUp, vars

\* The exchange that a commit publishes.
Exchanged(h) == [id |-> ask[h].id, input |-> ask[h].input, attempt |-> ask[h].attempt,
                 suspect |-> ask[h].saw.suspect, revision |-> revision']

\* A commit that carries a turn completes a pending one, and publishes the
\* exchange of the attempt, input and suspect it was granted for.
LEMMA CommitTurnEffect ==
  ASSUME TurnsInv, NEW h \in Askers, CommitTurn(h)
  PROVE  LET id == ask[h].id IN
         /\ id \in Requests /\ Pending(id)
         /\ turns'[id].status = "completed" /\ turns'[id].attempt = turns[id].attempt
         /\ turns'[id].input = turns[id].input /\ turns'[id].suspect = turns[id].suspect
         /\ published' = published \cup {Exchanged(h)}
         /\ Exchanged(h).id = id
         /\ Exchanged(h).attempt = turns[id].attempt
         /\ Exchanged(h).input = turns[id].input
         /\ Exchanged(h).suspect = turns[id].suspect
<1> DEFINE id == ask[h].id
<1>1. id \in Requests /\ turns[id] \in Turn
  BY DEF TurnsInv, TypeOK, CommitTurn
<1>2. Live(id) /\ Pending(id) /\ turns[id].attempt = ask[h].attempt /\ ask[h].saw.revision = revision
  BY DEF CommitTurn, TurnCommits, Live
<1>3. turns[id].input = ask[h].input
  BY <1>2 DEF TurnsInv, AttemptNamesWorker, CommitTurn
<1>4. ask[h].saw.suspect = suspect /\ suspect = turns[id].suspect
  BY <1>1, <1>2 DEF TurnsInv, SnapshotsAreTrue, RowMatches, LeasePinsRow, CommitTurn
<1>5. /\ turns'[id].status = "completed" /\ turns'[id].attempt = turns[id].attempt
      /\ turns'[id].input = turns[id].input /\ turns'[id].suspect = turns[id].suspect
  BY <1>1 DEF CommitTurn, Turn, TurnsInv, TypeOK
<1> QED
  BY <1>1, <1>2, <1>3, <1>4, <1>5 DEF Exchanged, CommitTurn

\* An exchange stays tied to the completed turn it answered.
LEMMA PublishedInductive ==
  ASSUME TurnsInv, [Next]_vars
  PROVE  PublishedIsCompleted'
<1>1. ASSUME NEW x \in published
      PROVE  /\ turns'[x.id].status = "completed" /\ turns'[x.id].attempt = x.attempt
             /\ turns'[x.id].input = x.input /\ turns'[x.id].suspect = x.suspect
  <2>1. x.id \in Requests /\ turns[x.id].status = "completed"
    BY DEF TurnsInv, TypeOK, Exchange, PublishedIsCompleted
  <2>2. turns'[x.id] = turns[x.id]
    BY <2>1, CompletedIsFinal DEF TurnsInv
  <2> QED
    BY <2>2 DEF TurnsInv, PublishedIsCompleted
<1>2. ASSUME NEW h \in Askers, CommitTurn(h), NEW x \in published' \ published
      PROVE  /\ turns'[x.id].status = "completed" /\ turns'[x.id].attempt = x.attempt
             /\ turns'[x.id].input = x.input /\ turns'[x.id].suspect = x.suspect
  <2>1. x = Exchanged(h)
    BY <1>2, CommitTurnEffect
  <2> QED
    BY <1>2, <2>1, CommitTurnEffect
<1> QED
  BY <1>1, <1>2, PublishedMoves DEF TurnsInv, PublishedIsCompleted

\* No request is answered twice.
LEMMA AnsweredOnceInductive ==
  ASSUME TurnsInv, [Next]_vars
  PROVE  AnsweredOnce'
<1>1. ASSUME NEW h \in Askers, CommitTurn(h), NEW x \in published
      PROVE  x.id # Exchanged(h).id
  BY <1>1, CommitTurnEffect DEF TurnsInv, PublishedIsCompleted, Pending
<1>2. ASSUME NEW h \in Askers, CommitTurn(h) PROVE published' = published \cup {Exchanged(h)}
  BY <1>2, CommitTurnEffect
<1> QED
  BY <1>1, <1>2, PublishedMoves DEF TurnsInv, AnsweredOnce

\* A turn is completed exactly when its exchange is published.
LEMMA CompletedInductive ==
  ASSUME TurnsInv, [Next]_vars
  PROVE  CompletedIsPublished'
<1>1. ASSUME NEW id \in Requests, turns'[id].status = "completed"
      PROVE  \E x \in published' : /\ x.id = id /\ x.attempt = turns'[id].attempt
                                   /\ x.input = turns'[id].input
                                   /\ x.suspect = turns'[id].suspect
  <2>1. published \subseteq published'
    BY PublishedMoves DEF TurnsInv, CommitTurn
  <2>2. turns[id] \in Turn
    BY DEF TurnsInv, TypeOK
  <2>3. CASE turns'[id] = turns[id]
    BY <1>1, <2>1, <2>3 DEF TurnsInv, CompletedIsPublished
  <2>4. ASSUME NEW h \in Askers, Completes(h, id)
        PROVE  \E x \in published' : /\ x.id = id /\ x.attempt = turns'[id].attempt
                                     /\ x.input = turns'[id].input
                                     /\ x.suspect = turns'[id].suspect
    <3>1. Exchanged(h) \in published'
      BY <2>4, CommitTurnEffect DEF Completes
    <3> QED
      BY <2>4, <3>1, CommitTurnEffect DEF Completes
  <2>5. ~ Settles(id) /\ ~ Expires(id) /\ \A h \in Askers, in \in Inputs : ~ Takes(h, id, in)
    BY <1>1, <2>2 DEF Settles, Expires, LeaseExpires, Live, Pending, Takes, Turn
  <2> QED
    BY <2>3, <2>4, <2>5, TurnMoves DEF TurnsInv, TurnStep
<1>2. ASSUME NEW id \in Requests, NEW x \in published', x.id = id
      PROVE  turns'[id].status = "completed"
  BY <1>2, PublishedInductive DEF PublishedIsCompleted
<1> QED
  BY <1>1, <1>2 DEF CompletedIsPublished

\* Phones are told what was published.
LEMMA RepliesInductive ==
  ASSUME TurnsInv, [Next]_vars
  PROVE  RepliesArePublished'
<1> DEFINE Told(h, tr) == \E x \in tr : /\ x.id = ask'[h].id /\ x.input = ask'[h].input
                                        /\ x.attempt = ask'[h].attempt
<1> SUFFICES ASSUME NEW h \in Askers, ask'[h].at \in {"committed", "replied"}
             PROVE  Told(h, published')
  BY DEF RepliesArePublished
<1>1. published \subseteq published'
  BY PublishedMoves DEF TurnsInv, CommitTurn
<1>2. CASE ask'[h] = ask[h]
  BY <1>1, <1>2 DEF TurnsInv, RepliesArePublished
<1>3. CASE MovesOn(h)
  <2>1. CASE CommitTurn(h)
    BY <1>3, <2>1, CommitTurnEffect DEF MovesOn, Exchanged
  <2>2. CASE Reread(h)
    BY <1>1, <1>3, <2>2 DEF MovesOn, Reread, TurnsInv, RepliesArePublished
  <2>3. ~ ReadContext(h)
    BY DEF ReadContext, TurnsInv, TypeOK, AskRecord
  <2> QED
    BY <1>3, <2>1, <2>2, <2>3 DEF MovesOn
<1>4. ASSUME NEW id \in Requests, NEW in \in Inputs, Replays(h, id, in)
      PROVE  Told(h, published')
  <2>1. PICK x \in published : x.id = id /\ x.attempt = turns[id].attempt /\ x.input = turns[id].input
    BY <1>4 DEF Replays, Replay, TurnsInv, CompletedIsPublished
  <2> QED
    BY <1>1, <1>4, <2>1 DEF Replays, Replay
<1>5. ASSUME NEW id \in Requests, NEW in \in Inputs PROVE ~ Leases(h, id, in)
  BY DEF Leases
<1> QED
  BY <1>2, <1>3, <1>4, <1>5, WorkerMoves DEF TurnsInv, WorkerStep, IdleAsk

\* A control carries the check it made until it commits or gives up.
LEMMA ChecksInductive ==
  ASSUME TypeOK, EditsWereChecked, [Next]_vars
  PROVE  EditsWereChecked'
<1> DEFINE Checked(r) ==
      /\ r.at \in {"scene", "file", "help", "mic", "pause", "accuse"} =>
           r.saw.status = "in_progress"
      /\ r.actor # NoPlayer =>
           \/ r.at \in {"scene", "mic"} /\ r.saw.mic = r.actor
           \/ r.at = "mic" /\ r.saw.mic = NoPlayer /\ r.player = r.actor
<1>1. ASSUME NEW e \in Editors, NEW k \in Editors,
             edit'[k] = edit[k] \/ edit'[k] = IdleEdit
      PROVE  Checked(edit'[k])
  BY <1>1 DEF EditsWereChecked, IdleEdit
<1>2. ASSUME NEW e \in Editors, EditRead(e), NEW k \in Editors PROVE Checked(edit'[k])
  <2>1. CASE k # e
    <3>1. edit'[k] = edit[k]
      BY <1>2, <2>1 DEF TypeOK, EditRead, ReadFor, ReadScene, ReadMic, ReadFile, ReadHelp,
                        ReadPause, ReadResume, ReadEnd, ReadAccuse, ReadExtend
    <3> QED
      BY <1>1, <3>1
  <2>2. ASSUME NEW step \in EditSteps, NEW actor \in Players, NEW s \in OnStage,
               NEW p \in Players, ReadFor(e, step, actor, s, p),
               step \in {"scene", "file", "help", "mic", "pause", "accuse"} => status = "in_progress",
               actor # NoPlayer => \/ step \in {"scene", "mic"} /\ mic' = actor
                                   \/ step = "mic" /\ mic' = NoPlayer /\ p = actor
        PROVE  Checked(edit'[e])
    <3>1. edit'[e] = [at |-> step, actor |-> actor, suspect |-> s, player |-> p, saw |-> RowRead]
      BY <2>2 DEF TypeOK, ReadFor
    <3>2. RowRead.status = status /\ RowRead.mic = mic'
      BY DEF RowRead
    <3> QED
      BY <2>2, <3>1, <3>2
  <2>3. NoPlayer \in Players /\ NoSuspect \in OnStage /\ Suspects \subseteq OnStage
    BY DEF Players, OnStage
  <2> QED
    BY <1>2, <2>1, <2>2, <2>3
       DEF EditRead, EditSteps, ReadScene, ReadMic, ReadFile, ReadHelp, ReadPause, ReadResume,
           ReadEnd, ReadAccuse, ReadExtend, InInterrogation, InterviewOpen
<1>3. ASSUME NEW e \in Editors, EditCommit(e) \/ EditGivesUp(e), NEW k \in Editors
      PROVE  Checked(edit'[k])
  BY <1>1, <1>3, EditCommitEffect DEF EditGivesUp, TypeOK
<1>4. CASE UNCHANGED edit
  BY <1>4 DEF EditsWereChecked
<1>5. UNCHANGED edit \/ \E e \in Editors : EditRead(e) \/ EditCommit(e) \/ EditGivesUp(e)
  BY DEF Next, Poll, AskStep, Begin, Replay, ReadContext, CommitTurn, Reread, Catch, AskEnds,
         LeaseExpires, vars
<1> QED
  BY <1>2, <1>3, <1>4, <1>5 DEF EditsWereChecked

-----------------------------------------------------------------------------
(* The invariant, and what follows from it.                                *)

\* The strengthened invariant holds when the interrogation opens.
LEMMA TurnsInvInit == Init => TurnsInv
BY InitType DEF Init, TurnsInv, OneTurnAtATime, LeasePinsRow, SnapshotsAreTrue, AnsweredOnce,
                CompletedIsPublished, RepliesArePublished, AttemptsAreKnown, AttemptNamesWorker,
                PublishedIsCompleted, EditsWereChecked, NoTurn, IdleAsk, IdleEdit, Live, Pending

\* Every step of every invocation keeps it.
LEMMA TurnsInvNext == TurnsInv /\ [Next]_vars => TurnsInv'
BY NextType, OneTurnInductive, LeasePinsInductive, SnapshotsInductive, AnsweredOnceInductive,
   CompletedInductive, RepliesInductive, AttemptsKnownInductive, AttemptNamesInductive,
   PublishedInductive, ChecksInductive DEF TurnsInv

\* The strengthened invariant (TurnsInv) holds in every reachable state.
THEOREM TurnsInvariant == Spec => []TurnsInv
BY TurnsInvInit, TurnsInvNext, PTL DEF Spec

\* There are never two pending turns (OneTurnAtATime).
THEOREM OneTurn == Spec => []OneTurnAtATime
BY TurnsInvariant, PTL DEF TurnsInv

\* A live lease pins the row, the microphone and the suspect (LeasePinsRow).
THEOREM LeasePins == Spec => []LeasePinsRow
BY TurnsInvariant, PTL DEF TurnsInv

\* A snapshot that passes the revision check is the row (SnapshotsAreTrue).
THEOREM SnapshotsTrue == Spec => []SnapshotsAreTrue
BY TurnsInvariant, PTL DEF TurnsInv

\* Retries, takeovers and late workers never answer a request twice (AnsweredOnce).
THEOREM AnswersOnce == Spec => []AnsweredOnce
BY TurnsInvariant, PTL DEF TurnsInv

\* The turn table agrees with the transcript (CompletedIsPublished).
THEOREM CompletedPublished == Spec => []CompletedIsPublished
BY TurnsInvariant, PTL DEF TurnsInv

\* A phone is only told what the transcript holds (RepliesArePublished).
THEOREM RepliesPublished == Spec => []RepliesArePublished
BY TurnsInvariant, PTL DEF TurnsInv

-----------------------------------------------------------------------------
(* Action properties.                                                      *)

\* A control that commits was computed from the row it overwrites.
LEMMA EditSawRow ==
  ASSUME TurnsInv, NEW e \in Editors, EditCommit(e)
  PROVE  RowMatches(edit[e].saw)
BY EditCommitEffect DEF TurnsInv, SnapshotsAreTrue

\* So was an answer.
LEMMA AskSawRow ==
  ASSUME TurnsInv, NEW h \in Askers, CommitTurn(h)
  PROVE  RowMatches(ask[h].saw)
BY DEF TurnsInv, SnapshotsAreTrue, CommitTurn, TurnCommits

\* What the invocations of the interview route leave alone: only an answer
\* touches the evidence, and none touches the status, the phase or the suspect.
LEMMA AskEffect ==
  ASSUME TurnsInv, NEW h \in Askers, AskStep(h)
  PROVE  /\ UNCHANGED <<status, phase, suspect, edit>>
         /\ \/ Tick /\ UNCHANGED <<evidence, published>>
            \/ UNCHANGED <<row, published>>
            \/ CommitTurn(h)
BY DEF AskStep, Begin, Replay, ReadContext, CommitTurn, Reread, Catch, AskEnds, row

\* The evidence list never shrinks (EvidenceKept).
THEOREM EvidenceIsKept == Spec => EvidenceKept
<1>1. ASSUME TurnsInv, [Next]_vars PROVE evidence \subseteq evidence'
  <2>1. ASSUME NEW h \in Askers, AskStep(h) PROVE evidence \subseteq evidence'
    <3>1. CASE CommitTurn(h)
      <4>1. ask[h].saw.evidence = evidence
        BY <1>1, <3>1, AskSawRow DEF RowMatches
      <4> QED
        BY <3>1, <4>1 DEF CommitTurn
    <3> QED
      BY <1>1, <2>1, <3>1, AskEffect DEF row
  <2>2. ASSUME NEW e \in Editors, EditCommit(e) PROVE evidence \subseteq evidence'
    <3>1. edit[e].saw.evidence = evidence
      BY <1>1, <2>2, EditSawRow DEF RowMatches
    <3> QED
      BY <2>2, <3>1 DEF EditCommit, CommitScene, CommitFile, CommitHelp, CommitMic, CommitPause,
                        CommitResume, CommitEnd, CommitAccuse, CommitExtend, Discover
  <2>3. ASSUME NEW e \in Editors, EditRead(e) PROVE evidence \subseteq evidence'
    BY <1>1, <2>3, EditReadEffect DEF TurnsInv
  <2> QED
    BY <1>1, <2>1, <2>2, <2>3 DEF Next, Poll, LeaseExpires, EditGivesUp, row, vars
<1> QED
  <2>1. TurnsInv /\ [Next]_vars => [evidence \subseteq evidence']_vars
    BY <1>1
  <2> QED
    BY <2>1, TurnsInvariant, PTL DEF Spec, EvidenceKept

\* Nothing lands on a paused or a finished game (StoppedGameIsStill).
THEOREM StoppedIsStill == Spec => StoppedGameIsStill
<1> DEFINE Still == /\ status # "in_progress" =>
                         UNCHANGED <<phase, suspect, mic, evidence, published>>
                    /\ status = "finished" => UNCHANGED row
<1>1. ASSUME TurnsInv, [Next]_vars PROVE Still
  <2>1. Tick => status = "in_progress" \/ UNCHANGED <<mic, revision>>
    BY DEF Tick, Rotate
  <2>2. ASSUME NEW h \in Askers, AskStep(h) PROVE Still
    BY <1>1, <2>1, <2>2, AskEffect DEF CommitTurn, TurnCommits, row
  <2>3. ASSUME NEW e \in Editors, EditCommit(e) PROVE Still
    <3>1. status # "finished" /\ published' = published
      BY <2>3 DEF EditCommit, CommitScene, CommitFile, CommitHelp, CommitMic, CommitPause,
                  CommitResume, CommitEnd, CommitAccuse, CommitExtend, CommitPlain,
                  CommitCancelling, Fresh, Finishes
    <3>2. CASE status = "paused"
      <4>1. edit[e].at \notin {"scene", "file", "help", "mic", "pause", "accuse"}
        BY <1>1, <2>3, <3>2, EditSawRow DEF TurnsInv, EditsWereChecked, RowMatches
      <4> QED
        BY <2>3, <3>1, <3>2, <4>1
           DEF EditCommit, CommitScene, CommitFile, CommitHelp, CommitMic, CommitPause,
               CommitResume, CommitEnd, CommitAccuse, CommitExtend, CommitPlain,
               CommitCancelling
    <3> QED
      BY <3>1, <3>2, <1>1 DEF TurnsInv, TypeOK, Statuses
  <2>4. ASSUME NEW e \in Editors, EditRead(e) PROVE Still
    BY <1>1, <2>1, <2>4, EditReadEffect DEF TurnsInv, row
  <2> QED
    BY <1>1, <2>1, <2>2, <2>3, <2>4 DEF Next, Poll, LeaseExpires, EditGivesUp, row, vars, Tick
<1> QED
  <2>1. TurnsInv /\ [Next]_vars => [Still]_vars
    BY <1>1
  <2> QED
    BY <2>1, TurnsInvariant, PTL DEF Spec, StoppedGameIsStill

\* A detective's control lands only while that detective holds the microphone, or
\* claims a free one (OnlyTheHolderActs).
THEOREM HolderActs == Spec => OnlyTheHolderActs
<1>1. ASSUME TurnsInv, NEW e \in Editors, edit[e].actor # NoPlayer, EditCommit(e)
      PROVE  mic = edit[e].actor \/ (mic = NoPlayer /\ mic' = edit[e].actor)
  <2>1. edit[e].saw.mic = mic
    BY <1>1, EditSawRow DEF RowMatches
  <2>2. edit[e].at = "mic" => mic' = edit[e].player
    BY <1>1 DEF EditCommit, CommitScene, CommitFile, CommitHelp, CommitMic, CommitPause,
                CommitResume, CommitEnd, CommitAccuse, CommitExtend, CommitPlain,
                CommitCancelling
  <2> QED
    BY <1>1, <2>1, <2>2 DEF TurnsInv, EditsWereChecked
<1> QED
  <2>1. TurnsInv /\ [Next]_vars => [ActsAsHolder]_vars
    BY <1>1 DEF ActsAsHolder
  <2> QED
    BY <2>1, TurnsInvariant, PTL DEF Spec, OnlyTheHolderActs

-----------------------------------------------------------------------------
(* The refinement of the turn ledger.                                      *)

\* The request that the ledger says was granted, and on which version.
Granted == IF TurnHeld THEN turns[Holder].revision ELSE 0

\* With one pending turn at most, the holder is the request whose lease is live.
LEMMA HolderIsLive ==
  ASSUME OneTurnAtATime
  PROVE  /\ \A id \in Requests : Live(id) => Holder = id /\ Granted = turns[id].revision
         /\ ~ TurnHeld => Holder = NoRequest /\ Granted = 0
         /\ TurnHeld => Holder \in Requests /\ Live(Holder)
BY DEF OneTurnAtATime, Live, TurnHeld, Holder, Granted

\* The same of the state after a step.
LEMMA HolderIsLiveAfter ==
  ASSUME OneTurnAtATime'
  PROVE  /\ \A id \in Requests : (Live(id))' => Holder' = id /\ Granted' = turns'[id].revision
         /\ ~ TurnHeld' => Holder' = NoRequest /\ Granted' = 0
         /\ TurnHeld' => Holder' \in Requests /\ (Live(Holder))'
BY DEF OneTurnAtATime, Live, TurnHeld, Holder, Granted, Pending

\* A step that keeps the turn table keeps the holder.
LEMMA SameTurnsSameHolder ==
  ASSUME turns' = turns
  PROVE  Holder' = Holder /\ Granted' = Granted /\ TurnHeld' = TurnHeld
BY DEF Holder, Granted, TurnHeld, Live, Pending

\* The ledger's view of the state.
Answered == {x.id : x \in published}

LedgerStep ==
  \/ revision' = revision + 1 /\ Holder' = NoRequest /\ Granted' = 0 /\ Answered' = Answered
  \/ \E r \in Requests :
       /\ Holder = NoRequest /\ r \notin Answered
       /\ revision' \in {revision, revision + 1}
       /\ Holder' = r /\ Granted' = revision'
       /\ Answered' = Answered
  \/ /\ Holder # NoRequest /\ Granted = revision
     /\ Answered' = Answered \cup {Holder}
     /\ revision' = revision + 1
     /\ Holder' = NoRequest /\ Granted' = 0
  \/ /\ Holder # NoRequest /\ Holder' = NoRequest /\ Granted' = 0
     /\ revision' = revision /\ Answered' = Answered
  \/ revision' = revision /\ Holder' = Holder /\ Granted' = Granted /\ Answered' = Answered

\* A read that ticks the clock moves the version only while nobody holds the game.
LEMMA TickStep ==
  ASSUME TurnsInv, Tick, UNCHANGED <<turns, published>>
  PROVE  LedgerStep
<1>1. Answered' = Answered
  BY DEF Answered
<1>2. CASE Rotate
  BY <1>1, <1>2, HolderIsLive, SameTurnsSameHolder DEF Rotate, LedgerStep, TurnsInv
<1>3. CASE UNCHANGED revision
  BY <1>1, <1>3, SameTurnsSameHolder DEF LedgerStep
<1> QED
  BY <1>2, <1>3 DEF Tick

\* Beginning a turn grants the game.
LEMMA BeginStep ==
  ASSUME TurnsInv, OneTurnAtATime', NEW h \in Askers, NEW id \in Requests, NEW in \in Inputs,
         Begin(h, id, in)
  PROVE  LedgerStep
<1>1. Holder = NoRequest
  BY HolderIsLive DEF TurnsInv, Begin
<1>2. turns'[id] = [status |-> "pending", live |-> TRUE, revision |-> revision',
                    attempt |-> attempts', input |-> in, suspect |-> suspect]
  BY SettledType DEF Begin, TurnsInv
<1>3. Holder' = id /\ Granted' = revision'
  BY <1>2, HolderIsLiveAfter DEF Live, Pending
<1>4. id \notin Answered /\ Answered' = Answered
  BY DEF Answered, Begin, TurnsInv, PublishedIsCompleted
<1>5. revision' \in {revision, revision + 1}
  BY DEF Begin, Tick, Rotate
<1> QED
  BY <1>1, <1>3, <1>4, <1>5 DEF LedgerStep

\* Committing an answer publishes it for the holder, on the version granted.
LEMMA CommitStep ==
  ASSUME TurnsInv, OneTurnAtATime', NEW h \in Askers, CommitTurn(h)
  PROVE  LedgerStep
<1> DEFINE id == ask[h].id
<1>1. id \in Requests /\ Live(id) /\ turns[id].revision = revision
  BY DEF TurnsInv, TypeOK, CommitTurn, TurnCommits
<1>2. Holder = id /\ Granted = revision
  BY <1>1, HolderIsLive DEF TurnsInv
<1>3. \A k \in Requests : ~ (Live(k))'
  <2> SUFFICES ASSUME NEW k \in Requests PROVE turns'[k].status # "pending"
    BY DEF Live, Pending
  <2>1. CASE k = id
    BY <2>1, CommitTurnEffect
  <2>2. CASE k # id
    BY <1>1, <2>2 DEF CommitTurn, TurnsInv, TypeOK, OneTurnAtATime, Live, Pending
  <2> QED
    BY <2>1, <2>2
<1>4. Holder' = NoRequest /\ Granted' = 0
  BY <1>3, HolderIsLiveAfter DEF TurnHeld
<1>5. Answered' = Answered \cup {id}
  <2>1. published' = published \cup {Exchanged(h)} /\ Exchanged(h).id = id
    BY CommitTurnEffect
  <2> QED
    BY <2>1 DEF Answered
<1> QED
  BY <1>1, <1>2, <1>4, <1>5 DEF LedgerStep, CommitTurn

\* Losing a lease, by expiry or because its worker gives up, gives the game back
\* when the lease was live, and is invisible when it was not.
LEMMA LoseStep ==
  ASSUME TurnsInv, OneTurnAtATime', UNCHANGED <<revision, published>>,
         NEW id \in Requests, NEW t \in Turn, ~ (t.status = "pending" /\ t.live),
         turns' = [turns EXCEPT ![id] = t]
  PROVE  LedgerStep
<1>1. Answered' = Answered
  BY DEF Answered
<1>2. \A k \in Requests : (Live(k))' <=> k # id /\ Live(k)
  BY DEF Live, Pending, TurnsInv, TypeOK
<1>3. CASE Live(id)
  <2>1. \A k \in Requests : ~ (Live(k))'
    BY <1>2, <1>3 DEF TurnsInv, OneTurnAtATime, Live
  <2>2. Holder' = NoRequest /\ Granted' = 0
    BY <2>1, HolderIsLiveAfter DEF TurnHeld
  <2>3. Holder = id
    BY <1>3, HolderIsLive DEF TurnsInv
  <2> QED
    BY <1>1, <2>2, <2>3 DEF LedgerStep
<1>4. CASE ~ Live(id) /\ TurnHeld
  <2>1. PICK k \in Requests : Live(k)
    BY <1>4 DEF TurnHeld
  <2>2. (Live(k))' /\ turns'[k] = turns[k]
    BY <1>2, <1>4, <2>1 DEF TurnsInv, TypeOK
  <2>3. Holder' = k /\ Holder = k /\ Granted' = turns'[k].revision /\ Granted = turns[k].revision
    BY <2>1, <2>2, HolderIsLive, HolderIsLiveAfter DEF TurnsInv
  <2> QED
    BY <1>1, <2>2, <2>3 DEF LedgerStep
<1>5. CASE ~ TurnHeld
  <2>1. ~ TurnHeld'
    BY <1>2, <1>5 DEF TurnHeld
  <2> QED
    BY <1>1, <1>5, <2>1, HolderIsLive, HolderIsLiveAfter DEF TurnsInv, LedgerStep
<1> QED
  BY <1>3, <1>4, <1>5

\* Every step of the turns is a step of the ledger, or leaves it alone.
LEMMA StepsImplementLedger ==
  ASSUME TurnsInv, TurnsInv', [Next]_vars
  PROVE  LedgerStep
<1>0. OneTurnAtATime'
  BY DEF TurnsInv
<1>1. ASSUME NEW h \in Askers, AskStep(h) PROVE LedgerStep
  <2>1. CASE CommitTurn(h)
    BY <1>0, <2>1, CommitStep
  <2>2. ASSUME NEW id \in Requests, NEW in \in Inputs, Begin(h, id, in) PROVE LedgerStep
    BY <1>0, <2>2, BeginStep
  <2>3. CASE Catch(h)
    <3> DEFINE id == ask[h].id
    <3>1. id \in Requests /\ turns[id] \in Turn /\ UNCHANGED <<revision, published>>
      BY <2>3 DEF Catch, TurnsInv, TypeOK, row
    <3>2. CASE turns' = turns
      BY <2>3, <3>1, <3>2, TickStep DEF Tick, Catch, row
    <3>3. CASE turns' = [turns EXCEPT ![id].status = "failed"]
      <4>1. turns' = [turns EXCEPT ![id] = [turns[id] EXCEPT !.status = "failed"]]
        BY <3>3
      <4>2. [turns[id] EXCEPT !.status = "failed"] \in Turn
        BY <3>1 DEF Turn, TurnStatus
      <4> QED
        BY <1>0, <3>1, <4>1, <4>2, LoseStep DEF Turn
    <3> QED
      BY <2>3, <3>2, <3>3 DEF Catch
  <2>4. CASE AskEnds(h)
    BY <2>4, TickStep DEF AskEnds, Tick, row
  <2>5. ASSUME NEW id \in Requests, NEW in \in Inputs, Replay(h, id, in) PROVE LedgerStep
    BY <2>5, TickStep DEF Replay
  <2>6. CASE ReadContext(h) \/ Reread(h)
    BY <2>6, TickStep DEF ReadContext, Reread
  <2> QED
    BY <1>1, <2>1, <2>2, <2>3, <2>4, <2>5, <2>6 DEF AskStep
<1>2. CASE Poll
  BY <1>2, TickStep DEF Poll, Tick
<1>3. ASSUME NEW id \in Requests, LeaseExpires(id) PROVE LedgerStep
  <2>1. turns' = [turns EXCEPT ![id] = [turns[id] EXCEPT !.live = FALSE]]
    BY <1>3 DEF LeaseExpires
  <2>2. [turns[id] EXCEPT !.live = FALSE] \in Turn /\ UNCHANGED <<revision, published>>
    BY <1>3 DEF Turn, TurnsInv, TypeOK, LeaseExpires, row
  <2>3. ~ [turns[id] EXCEPT !.live = FALSE].live
    BY DEF TurnsInv, TypeOK, Turn
  <2> QED
    BY <1>0, <2>1, <2>2, <2>3, LoseStep
<1>4. ASSUME NEW e \in Editors, EditRead(e) PROVE LedgerStep
  BY <1>4, EditReadEffect, TickStep DEF TurnsInv
<1>5. ASSUME NEW e \in Editors, EditCommit(e) PROVE LedgerStep
  <2>1. \A k \in Requests : ~ (Live(k))'
    BY <1>5, EditCommitEffect DEF TurnsInv, Live, Pending
  <2>2. Holder' = NoRequest /\ Granted' = 0
    BY <1>0, <2>1, HolderIsLiveAfter DEF TurnHeld
  <2> QED
    BY <1>5, <2>2, EditCommitEffect DEF TurnsInv, LedgerStep, Answered
<1>6. ASSUME NEW e \in Editors, EditGivesUp(e) PROVE LedgerStep
  BY <1>6, TickStep DEF EditGivesUp, Tick, row
<1>7. CASE UNCHANGED vars
  BY <1>7, TickStep DEF vars, Tick, row
<1> QED
  BY <1>1, <1>2, <1>3, <1>4, <1>5, <1>6, <1>7 DEF Next

\* The turns implement the ledger (ImplementsLedger).
THEOREM LedgerIsImplemented == Spec => ImplementsLedger
<1>1. Init => Ledger!Init
  BY DEF Init, Ledger!Init, Holder, TurnHeld, Live, Pending, NoTurn
<1>2. TurnsInv /\ TurnsInv' /\ [Next]_vars => [Ledger!Next]_(Ledger!vars)
  BY StepsImplementLedger
     DEF LedgerStep, Ledger!Next, Ledger!Change, Ledger!Grant, Ledger!Publish,
         Ledger!GiveBack, Ledger!vars, Granted, Answered
<1> QED
  BY <1>1, <1>2, TurnsInvariant, PTL DEF Spec, ImplementsLedger, Ledger!Spec
=============================================================================
