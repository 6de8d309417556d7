# PartyGame: models, checks and proofs

PartyGame is a hosted detective game for one room: a TV shows the case, each
detective plays from a phone, and a language model answers as the suspects.
The server is stateless.  Everything that matters is in Postgres, in one
`sessions` row per game and the tables around it; every request reads that row,
works for as long as a model call takes, and writes with one database function.
This directory models that system in TLA+, checks small instances with TLC, and
proves the main results for every size with TLAPS.

`PROJECT.json` maps each definition to its source lines and lists runs, mutants,
hazards, findings and theorems.  File names below are relative to the
repository.

## 1. The system

| component | state it keeps | operations | talks to |
|---|---|---|---|
| **Interview turns** (`src/lib/interview-turn.ts`, `session-store.ts`, migrations `..._p1_game_integrity`, `..._timed_interviews`) | the row (status, phase, suspect, microphone, evidence, `revision`), `interview_turns` with attempt tokens and `lease_until`, `messages` | `begin_interview_turn`, `executeInterview`, `commit_game_update`, every host and player control, the rotation inside `tick_interview_clock` | the model calls, clocks, story |
| **Interview clocks** (`..._timed_interviews.sql`, `interview-clock.ts`) | `interview_clocks`, `interview_clock_anchor`, `microphone_seconds` | the settling trigger, the lease trigger, tick, extend, the projection that screens show | turns |
| **Accusation and reveal** (`setAccusationVote`, `revealSession`, `advanceSessionChapter`) | `accusation_votes`, `endgame_path_id`, `reveal_step` | vote (with up to ten retries), reveal, next | lobby (roster) |
| **Lobby, roster, lifetime** (`create_game_session`, `join_game_session`, `startSession`, pause/resume/end, `gc_expired_sessions`) | `players`, `session_memberships`, `expires_at`; the browser's device cookie and saved seat | create, look up and join, start, pause, resume, end, hourly clean-up | everything that checks membership |
| **Story** (`setSessionScene`, `advanceInvestigationFile`, `transitionSessionPhase`, `investigation-requests.ts`, `interview-rounds.ts`, `interview-planner.ts`, `interview-unlocks.ts`, `host-judgment.ts`) | chapter, case file, `events` (visits, orders, first accounts), `interview_unlock_state` | choose a scene, next and previous, research files, call and recall, answer, host help, open the accusation | turns commit its results |
| **Screens** (`session-realtime.ts`, views) | last snapshot, last transcript, requests in flight | refetch on change, poll, act, merge | lobby and transcript routes |
| **Realtime tokens** (`supabase-client.ts`, `realtime-auth.ts`) | one client per page, a timer per hook | fetch, mint, set, renew, dispose | the token route |
| **Phone** (`PlayerLobbyView.tsx`, `use-speech-to-text.ts`, `game-fetch.ts`) | question draft, exhibit, request id, what was dictated | type, dictate, ask, retry, pass and take the microphone, switch the suspect | interview route |
| **Host's page** (`HostLobbyView.tsx`, `public-case.ts`) | what the projection tells it | offer Continue, research files and the picker of suspects | scene route |
| **Answer pipeline** (`interview-turn.ts`, `interview-graph.ts`, `interview-reply-graph.ts`, `interview-safety.ts`, `interview-planner.ts`) | none between questions | draft, validate, repair once, fall back | model calls |
| **Judges** (`host-judgment.ts`, `adjudicator.ts`, `investigation-requests.ts`, `interview-rounds.ts`) | none | verdicts on conditions, reports ordered, first account, one exhibit to drop | model calls |
| **Access** (`session-auth.ts`, row policies) | cookies | who may act, read and subscribe | all routes |
| **Case** (`engine/`, `public-case.ts`) | files | validate (`validator.mjs`), load, project for clients | all |

What is hard here:

* **Long computations on a snapshot.**  An answer takes a minute or two from
  read to commit.  Controls, polls that rotate the microphone, retries and other
  phones all run in between.  Two mechanisms protect it: a *lease* (one pending
  turn, refused controls) and a *revision* (a commit against an old row fails).
* **Workers that die or are slow.**  A lease expires, another worker takes the
  same request over under a new attempt, and the first one may still be alive.
* **Lost answers.**  Phones and hosts repeat requests; joins and questions must
  be idempotent, votes must retry.  Who a browser is it learns from an answer too.
* **Lazy time.**  No process ticks.  Seconds are charged when the row is next
  touched, and waiting for an answer must not cost any.
* **Two reads that are not one.**  The lobby reads row, players and votes one
  after the other; the next button reads the row twice.
* **Answers out of order.**  A screen polls, refetches on every change event and
  sends actions, all at once; answers overtake each other or are lost.
* **Models that fail or disobey.**  An answer takes up to a dozen calls, each of
  which may fail, be wrong or be refused; only one commit follows, and what it
  records as admitted must be what was said.
* **Two sets of rules.**  The host's page decides what to offer from rounds, one
  chapter id and the public projection; the server decides what to accept from
  types, prerequisites and events.  The phone computes in TypeScript who asks
  next; the database computes it in SQL.
* **Dictation that will not stop.**  Speech recognition delivers results after it
  was told to stop, into a box that may have been sent and cleared.
* **Long legal sequences.**  Whether a call is a first visit, a return or a
  recall follows from events of three kinds written by different requests.

## 2. The modules

### `InterviewTurns`, and its abstraction `TurnLedger`

The core.  A read and the commit that follows it are separate actions, and
anything may come in between; an invocation may fail or vanish after each step.
An asker goes *idle, begun* (lease granted), *thinking* (context read),
*committed* (saved; the final read is still to come) and *replied*; a control
goes from idle to the kind of commit it has decided on, with the row it saw.
`Begin`, `Replay` and the refusals are the branches of `begin_interview_turn`;
the commits share the checks of `commit_game_update`, the revision and the lease
among them.  Time is only
the expiry of a lease and of the microphone.  Every read of the session may
rotate the microphone (`Tick`), as `tick_interview_clock` does.  `turns[id].suspect`
is history: no column has it, and it is what makes `LeasePinsRow` worth stating.

`TurnLedger` says what this amounts to for the rest of the game: a sequence of
versions, held by at most one request, that either publishes one answer on the
version it was granted or gives the game back.  The refinement maps the version
to the revision and the holder to the request with a live lease.

### `InterviewClock`, and its abstraction `Countdown`

The trigger `settle_interview_clock`, the lease trigger, the tick and the
extension, second by second, with the projection of `interviewTime` as its
observable.  `Countdown` is the clock the players believe in: it ticks every
second.  `InterviewClock` implements it through the projection.  Abstraction:
seconds are whole, and an action takes no time.

### `Endgame`, and its abstraction `Verdict`

Votes that retry when another commit was faster (`MaxTries` is 10 in the code),
a reveal that reads the row and then the votes (action by action), and the steps
of the ending.  It starts when the accusation opens.

`Verdict` is what the players are told: votes change until the ending is
announced, the announcement takes a vote of everybody and counts the votes as
they stand, the ending with most votes wins and among equals the first of the
case, and it is told step by step.  Everything there happens at once.  `Endgame`
implements it, with hosts and ballots that read now and commit later.

### `Lobby`

A game from creation to deletion.  A *browser* is the host's or a player's; a
*device* is an identity that the server makes up.  `ensureDevice` takes the device
of the cookie, or a new one for a request that brings none, and the cookie comes
with the answer: a browser whose first answer is lost asks again as another
device.  `cookie` and `told` are what the browser keeps; `maker`, whose request a
device was made up for, is history, and what `OneSeatEach` is about.  A request
that the browser has given up goes on at the server, and its cookie is not taken.
A browser waits for one join at a time (two tabs that join at once are not
modelled, nor cookies that are cleared or run out after thirty days), and requests
of one device that were given up are indistinguishable, hence a set.  The join
code is on the host's page, so joins begin when a browser has the host's cookie
(`CodeIsShown`); codes are not guessed.

Joining takes a row lock but does not move the
revision, so it runs beside controls that have read the row: this is the race
between the last join and the start.  Each creation and each join may lose its
answer; each control is read and commit; time passes and the clean-up runs.  A browser saves
the seat that it was told and resumes with it, and is offered the games that it
belongs to (`GET /api/sessions`): `Links` is that answer.

### `Investigation`

The story.  `InterviewTurns` shows that a commit that succeeds was computed from
the current row (`SnapshotsAreTrue`), so a commit here is one step; the buttons
next and previous, whose two reads are not covered by that, are two.  What a
model decides (verdicts, requested reports, topics covered, an exhibit that
arrives) is any choice that its caller accepts.  Events are kept as what
`investigationProgress` and `initialAccountProgress` make of them.

The host's page is a set of operators over this state: `PublicChapters` is what
`toPublicCase` lets it know, `ContinueOffered`, `FilesOffered`, `PickerShown` and
`Picker` are its own conditions, and `ContinueAccepted` and `MayEnter` are the
server's.  `CanGoOn` relates the two.

What some theorems ask of a case beyond the assumptions (`QuietEntrance`,
`Chained`, `Guided`) is stated at the end of the module, and the case of
`MCInvestigation` is checked to satisfy all three.

### `Screens`

A TV or phone, its snapshot of the lobby and its transcripts, against a server
that is reduced to a revision, the suspect on stage, and a count of the changes
that move no revision (a join, a question that is begun or fails).  Content is
the revision it was read at.  A request is *sent*, an action commits (*acted*),
then the row is read (*row*) and after it the tables (*answered*); then its
answer lands or is lost, whatever else the screen has in flight.  `Newer` is the
guard that all snapshots pass; `Merged` is what `applySnapshot` does with a
session that comes without the case (a question, the microphone), and `AskLands`
also sends the refetch that follows.  Transcripts have no revision and no guard:
an older load that lands last is shown until the next one, which is why nothing
but `Settles` is claimed of them.  Loading the page again starts anew.
The banner of the host's help and the case status load as transcripts do and are
not modelled.

### `RealtimeToken`

All hooks of a page share one Supabase client, but each fetches a token and
renews it on its own timer; the client has whichever was set last.  Time counts
down: to the expiry of the client's token, to a hook's timer, to the end of the
time in which an answer is punctual.  A token that arrives late replaces a newer
one, and its hook may be unmounted while the fetch is under way.  `trouble`
records that an answer or a timer was ever late (phones sleep) or a renewal
failed.  That a token ends with its session, a day after the game was created,
is left out.

### `AnswerPipeline`

What `executeInterview` does between the lease and the commit, for one suspect:
`planUnlocks` (all verdicts at once), the graph of `createReplyGraph` (draft,
validate, at most one repair, deliver or fall back), the classification of
orders and of the first account, the host judge with its recovery path and its
confirmation, and `commit_game_update`.  Each stage is a call that may conclude
anything that its caller accepts, or fail; what a failure means is the `catch`
around it.  Between questions the host may help.  A reply is reduced to what the
properties tell apart: the admissions that it makes and the account of the
incident that it gives (`publicAlibi`, an `alibiAfterBreakingPoint` or the
`accountOverride` of a layer, numbered in the authored order).  What a draft
says is chosen when it is approved.  `Faithful` is what the validator model is
asked to see to; its word is taken, and it may err: then `misjudged` is set, and
the reply is committed all the same.  `heard` and `account` are history, of what
the room was told, and are of no use after such an error, which is why
`HeardIsAdmitted` and `AccountsMoveOn` speak of behaviours without one: what they
check is the code around the validator, the fallback, the repair, the commit and
the contexts that these compute.  Everything else (`QuestionsAreAnswered`,
`AnswersOfTheStory`, `CallsRunOut`, `FallsBack`) holds however it errs.  The
authored cases are assumed to let later accounts supersede earlier ones
(`SupersedingAssumption`); the two suspects of the shipped case that have layers
satisfy it, and `validator.mjs` does not check it.
The list of exhibits that a chapter may restrict a question to is left out: the
exhibit is any of the file.

It implements `Investigation`: with the phase, the chapter and the visits fixed,
every step of the pipeline is a stutter, an `Answer` or a `Help` of the story
(`AnswersOfTheStory`).  So what the story's one step may do to the tables is all
that the chain of calls can do.

### `Phone`

A detective's phone during an interview, against a server that is `TurnLedger`
(which `InterviewTurns` implements) with the input recorded for each request id.
The phone acts on a *view* of the room that polls and answers bring up to date,
its requests wait in `sent` and may be answered late, refused or never seen
again, and it stops waiting after 110 seconds.  `Asks` is `askSuspect` up to the
fetch, with the key that decides whether a pending id is used again; `Hears` is a
result of the recognition with the effect that appends it to the box;
`SpeechEnds` comes some time after the recognition was told to stop.  Words are
numbers: what is typed is 0, what is dictated is counted, so that an echo can be
told from a repetition.  `round` is history: presses on the same content, without
an answer seen in between, are one question.  The host and the clock change the
room at any time that the ledger allows.  `pickNextInterviewer` is beside
`ClockPicks`, the choice of `tick_interview_clock`.

### `CaseCheck`

The validator, from the file to the verdict: reading, schema, cross-checks, and
the recursive search for cycles as a machine with an explicit stack, a `visited`
set and the outer loop over chapters.  A case is reduced to what the checks tell
apart: references are sets of names, declared and mentioned.  The reference that
the search is compared with (`HasCycle`) mentions no search: a set of chapters
each of which waits for another one of it.  Chapters with one id are read as the
validator reads them, the last one counts; the server's `find`
(`session-store.ts:350`) would take the first, and no check refuses such a case.
That an accepted case meets the assumptions of the other modules is not claimed:
several of them (`SupersedingAssumption`, `Guided`, `Chained`) nothing checks.

`LeastAndGreatest` has two lemmas that three of the proof modules need: a set of
naturals that is not empty has a least element, and a finite one a greatest.

The first five modules share the row.  They are not composed into one state space.
`InterviewTurns` has every writer of the row between the opening of the
interrogation and the accusation, with what the others do to the row reduced to
its effect on the columns that it has; the others rely on its result that reads
and commits behave as if atomic, except where they have a reason to split them.

## 3. The runs

| run | instance | what it shows |
|---|---|---|
| `turns` | 2 detectives, 2 suspects, 2 requests, 2 workers, 1 control, 5 revisions, 2 attempts; 477 661 states | one question at a time, answered at most once, nothing lost or applied late; the refinement of `TurnLedger` |
| `clock` | 2 suspects, 3 seats, 3 s per suspect, 2 s per share, lease 2 s, 8 s in all; 29 214 states | stored clocks show what ticking ones would; the refinement of `Countdown` |
| `endgame` | 2 detectives, 1 request of each, 2 hosts, 2 tries, 7 revisions; 587 179 states | the ending follows the final votes; conflicts are real; the refinement of `Verdict` |
| `lobby` | 2 browsers, 4 devices, 1 control, capacity 2; 918 376 states | seats, host, cookies and roster through joins, retries, start, expiry and clean-up; whoever was told a seat keeps a way back to it |
| `rejoin` | as `lobby` | a disagreement, see section 5 |
| `investigation` | 9 chapters, 2 suspects, 2 reports, 1 discovery, 1 tapping request; 19 961 states | reports wait for a recall, exhibits for their requirements, the briefing for its order; what the host's page offers is accepted |
| `screens` | 1 screen, 2 requests in flight, 2 suspects, 3 changes of either kind; 105 365 states | a screen never goes back, shows its actions, and settles on the truth |
| `token` | 2 hooks, a token of 8, margin 4, shortest wait 2, slack 1; 13 166 states | the token outlasts its subscriptions, and heals |
| `pipeline` | 1 suspect, 3 exhibits, 1 report, a confession after two good questions, an exhibit by pressure, 3 layers; 120 620 states | but for errors of the validator model, admissions are told exactly when they are recorded and accounts never go back; questions end; only answers of the story are committed |
| `phone` | 3 seats, 2 suspects, 1 exhibit, 2 presses, 3 versions, 2 dictated words; 3 516 424 states | a question is asked once, an id names one question, nothing dictated is echoed, the next detective is the one announced |
| `check` | 5 331 cases: every graph on 3 chapters, duplicate ids and a missing one among them, and one healthy case spoilt; 93 200 states | a cycle is reported exactly when chapters wait for each other |
| `research` | as `investigation` | a disagreement, see section 5 |

Each module states its type invariant (`TypeOK`, `PhoneTypeOK`, `CheckTypeOK`).
They were checked while the modules were written and are proved, so no run repeats
them.  The same holds of some plain properties that the
proofs carry along or that a run's property implies: `SnapshotsAreTrue`,
`StoppedGameIsStill`, `HostIsFixed`, `ExpiredIsStill`, `MetIsInFile` and
`EndingMovesForward`; and of some that were added for their proofs and held on the
same instances: `NothingIsLost`, `CallsRunOut`, `FallsBack`, `SettledStays`,
`KeepsRenewing`, `NoSecondTwice` and `WorkGoesDown`.  These have a theorem and no run.
Every run sets `CHECK_DEADLOCK FALSE`: games end, and the bounds below stop a
run that has used them up; `token` has no such bound and never stops.

**Bounds.**  `MaxRevision`, `MaxAttempts`, `MaxTime`, `MaxVisits`, `MaxPressure`,
`MaxChanges` are in the guards of the actions that count.  They are large enough that the
interesting cases occur within them:

* Five revisions leave, after the commit that brings a suspect on stage, room
  for a rotation, an answer and a control that conflicts with it.  Two attempts
  are a lease and its takeover.  Two requests are a question and its rival, and
  the expired turn beside a new one.
* Eight seconds with a budget of 3 and a share of 2 see the share run out, the
  allotment run out, both in one charge, a lease that outlives its question, and
  an extension.  `MaxClock` only stops a host who extends for ever.
* Two tries see a vote that succeeds on its retry and one that is crowded out.
  Seven revisions are the shortest way to the finished game; a game that takes
  the time for changes of mind, withdrawals and pauses still has three to spend
  before the reveal.  A vote conflicts with the commits of two hosts; that two
  votes race each other is not in the instance, but in the theorems.
* Two browsers are the host and a guest, four devices the two that they end up
  with and two that were made up for requests whose answers were lost; a capacity
  of two has a full game and, with such a device, an observer.  One control races
  the joins; conflicts of two are the subject of `turns` and `endgame`, and
  of the theorems.  Three units of time with a retention of one let a game expire
  twice, once renewed.
* Three visits are a first visit, a recall and a second recall; a pressure of
  two is a threshold that is reached by a near question and a met one.
* Screens share nothing but the server, and what another screen does is
  `Elsewhere`, so one screen is enough.  Two requests in flight are one that
  overtakes another; three revisions are one on the screen, one in an older
  answer and one in a newer, and a change without a revision comes beside two.
* A threshold of two has a near question before the one that fires, and a gate of
  two exhibits has one shown before the other; a report, an exhibit that requires
  it and one that comes by pressure are a chain and a rival for the judge.
* A margin of four is more than two fetches of up to one, as 60 seconds are more
  than two fetches; eight leave a wait that is longer than the shortest.  Two hooks are one that
  brings an older token and one that believes in a newer.

* Two presses on the phone are a question and its retry, or two questions; three
  versions leave, after an answer, room for a control and a second answer.  Two
  dictated words are one before and one after a question was sent.  Three seats
  are the fewest where the next and the previous one differ.
* Three chapters have every shape that the search distinguishes: a cycle through
  the chapter it starts from, one that is reached through a finished chapter, a
  chapter that requires itself, two with the same id.  The theorems have any
  number.

**Symmetry** is used for browsers, devices, requests, workers and ballots, in runs of
safety properties only.

**Fairness.**  Three runs need it.

* `screens`: the hook starts (with a token or without one), timers fire
  (`setInterval` in every branch of the hooks), the server takes its steps for a
  request, every request ends with an answer or without, and of polls that are
  repeated for ever not all are lost.  The last is strong fairness, of a network
  that works now and then; it is strong for sending too, since a request has to
  wait for a free place in `Calls`, which is a bound of the model.  No action of
  a user is assumed, nor a change event.
* `pipeline`: weak fairness of `Proceed`: a call that was made returns or fails,
  because each has a timeout of 10 to 20 seconds, and the stage after it is code.
  That there is a draft, a database and a worker is not assumed: without them the
  question is abandoned.
* `token`: time passes, timers fire, the route mints, each fetch ends one way or
  the other, and renewals that are repeated for ever do not all fail or arrive
  with a token that has expired on the way.

**Mutants.**  Each property of each run has a variant of one definition, kept
beside it in the module, that makes the mistake a programmer could make there
(a guard dropped, a revision not moved, an off-by-one); with it TLC finds the
property violated.

## 4. The proofs

All for arbitrary constants, from the assumptions named in the modules.

* **`InterviewTurnsProofs`**: `TurnsInv` is inductive.  `LeasePinsRow` alone is
  not: that the row stands still under a lease needs that commits check the
  revision against a snapshot that is true (`SnapshotsAreTrue`), and that the
  worker that commits is the one whose attempt is in the table
  (`AttemptNamesWorker`, `AttemptsAreKnown`).  `PublishedIsCompleted` ties every
  exchange to its turn for good.  From it follow all invariants and action
  properties of the run, and the refinement of `TurnLedger`, step by step.
* **`InterviewClockProofs`**: types and `AnchorIsLease` are inductive together,
  and each step implements one of `Countdown` or stutters; arithmetic of the
  floor at zero is in lemmas.  `NoSecondTwice` says without the abstract clock
  what the trigger is for: settling changes no clock that is shown, so however
  often a row is touched only seconds cost time.
* **`EndgameProofs`**: what a host and a ballot know when they commit
  (`HostKnows`, `BallotKnows`): the votes that a reveal has read are the votes,
  as long as the revision it read is the revision.  Votes are read after the
  row, and this direction is what makes it true.  That the votes choose an ending
  at all (`WinnerIsAPath`, for the types) is that among tallies bounded by the
  number of detectives one is greatest, and among its endings one is first.
  The refinement of `Verdict` is step by step: a vote that is saved is `Cast`, a
  reveal `Announce`s the winner of the votes it read because those are the votes,
  and a step of the ending is told by the one commit that saw the step before.
  The reads, the retries and the conflicts are stutters.
* **`LobbyProofs`**: seats are `1..n`, and controls know that there is a
  detective when they start (`ControlsKnow`).  `WayBack` follows from the
  agreement of memberships and players, as long as the game lasts, and from what
  the browsers know: no device is the cookie of two, and the seat that a browser
  was told is the seat of its device.  `CookieIsKept` is that a browser with a
  cookie has no request of another device that it still waits for.
* **`InvestigationProofs`**: `FileInv` for the case file, for every case.  For
  everything else that the room achieves (`NothingIsLost`: orders keep their
  visit, topics, pressure and discoveries are never taken back, and no tap of the
  briefing that is carried out late undoes a phase) types are enough.  For
  reports, `VisitsInv`: who was ever on stage and has reports has a visit on
  record, and no order is filed under a visit to come.  It holds of cases with a
  *quiet entrance*: neither the first chapter nor the one that opens the
  interrogation is an interview.  That is a hypothesis of the three theorems and
  not an assumption of the model: `EnterPhase` records no visit, so in a case
  that opens with an interview a return to it would count as a visit.  The
  shipped case satisfies it.
  `BriefingIsInOrder` is for cases whose briefing is *chained*, each chapter
  requiring the one before: what was opened then has no gap, so what
  `isChapterUnlocked` takes for visited was opened.  `TheRoomGoesOn` is for cases
  that are *guided*: the hypothesis `Guided` collects what the host's page takes
  for granted (the briefing is round 1 and shown on the board, interviews are
  round 2, the last file has the id that the page compares with).  Both are
  hypotheses that nothing in the code enforces; the shipped case satisfies them.
  For `CaseCheck`, `SearchInv` is the invariant of the depth-first search: the
  stack is a way along prerequisites (`WayInv`), nothing is on it twice
  (`SeenInv`), and as long as nothing was reported no finished chapter is in a
  trap (`Clear`), whatever was visited on the way.  That the search ends, also on a
  graph that is nothing but cycles, is `WorkGoesDown`: each step takes from a
  measure of the chapters not visited, the prerequisites not yet followed in the
  calls on the stack, and the stages to come.  It needs that a case names finitely
  many things (`NamesAssumption`).
* **`AnswerPipelineProofs`**: `IInv` says what each stage knows: what is planned
  comes from an open gate and a verdict (`Planned`), a settled reply fits the
  approved facts unless the validator erred (`ReplyFits`; the fallback always does,
  by `FallbackFaithful`), what the
  judges chose is of the candidates (`Chosen`), and no later account can be
  earlier than the one that was told (`AccountStands`).  The refinement of
  `Investigation` needs a verdict for each condition that explains the plan
  (`StoryVerdict`), and that candidates of the pipeline are candidates of the
  story; `TablesAreTheStory` covers every step that saves nothing.
  Two theorems are the safety half of `QuestionsAreAnswered`: every step of a
  question leaves fewer calls (`CallsRunOut`, with `StepsLeft` as the measure, so
  that one repair and one round of the exhibits is all the going back there is),
  and where the chain has to fall back there is something to fall back on
  (`FallsBack`: a reply that tells exactly what was unlocked, and a first exhibit
  among those to recover).
* **`BrowserProofs`**, of what runs in a page.  The screens: what a request in
  flight knows (`CallKnows`): an answer is at most the present revision, its
  tables are no older than its row, and an action that has committed reads a row
  that has its commit.  With it the guard of the screen is
  enough, and a merge of the session alone leaves the case file covered.
  `SettledStays` is the safety half of `Settles`: a screen that is up to date, with
  nothing old on its way, is not put back by any answer of its own; that the
  revision names the suspect on stage is what it needs of what is in flight.
  The token:
  `Punctual`, of each hook against the client's token.
  A token in an answer has at least a lifetime less the slack, no timer is set
  past the margin of a token that exists, so twice the slack in the margin pays
  for a token that was overtaken and for the fetch that follows the wait.  The
  assumption `Margin > 2 * Slack` is that argument's bill.  `KeepsRenewing` is the
  safety half of `TokenHeals`: no failure and no overtaken answer leaves a
  subscribed hook without a renewal under way or a timer that is set in time.
  The phone: `PhoneInv`.  Every place that knows an id, a round or a content (the
  draft, requests on their way, the turn table, the worker, the transcript)
  agrees with every other one (`PairsInv`, `ClaimsInv`), and no number of the
  future is anywhere; what was dictated is in the box, in the recognition or
  spent, and never in two of them in a way that an append could double
  (`WordsInv`).  `NextIsAnnounced` is arithmetic of places: a seat's place counts
  the seats below it, so the lowest seat above the microphone's has the next
  place, and after the last place comes the first (`PlaceAfter`,
  `PlaceOfTheLast`, `NextSeat`).  The library's principle of the least natural
  takes an operator, so `LeastNatural` (in `LeastAndGreatest`) is derived from the
  well-foundedness of inclusion between finite sets.

Only model-checked: liveness (`Settles`, `TokenHeals`, `QuestionsAreAnswered`),
because fairness and ENABLED are beyond the prover.  What is proved for each is
its safety half, named above; what TLC adds is that the steps are taken.
Every other property of a run has a theorem.

## 5. Where code and documents disagree

* **Research does not go on where it stopped** (`research`).
  `advanceInvestigationFile` looks for the first file after the *current
  chapter*, and an interview makes its own, earlier chapter the current one.
  After every interview the button reopens the first file; with an interview
  between the taps the second is never reached.  The comment above the function
  calls it a "research sequence, independent of free-choice suspect interviews".
* **A first join that is lost makes a second player** (`rejoin`).  The PRD says
  "A `device_id` cookie MUST identify each device for reconnect; closing/reopening
  the page MUST rejoin the same seat." (`docs/PRD.md:194`).  The server makes a device up
  for every request without a cookie (`session-auth.ts:34`), and the browser
  learns it from the answer only; the lasting `deviceId` that the form sends in
  the body (`JoinLobbyForm.tsx:82`) is not read by `api/join`.  Who reloads before
  the first answer, or loses it, joins again as another detective.  The first one
  is a ghost: it takes a place of the capacity and a turn of the rotation, and
  the vote waits for it.

Smaller observations, not run: prerequisites stop at the briefing.  The schema calls
them "Chapter ids that must be completed before this chapter is available."
(`case.schema.json:476`), but `isChapterUnlocked` is asked in the briefing only
(`session-store.ts:353`); in the interrogation, research files and interviews open
whatever they require, and in the shipped case a file that requires six interviews
opens without them.  A creation whose answer is lost, by a browser without a
cookie, leaves a game with a host whom no browser is, until it expires.  Exhibits that are told or ordered ignore
`requiresUnlockedEvidenceIds` (`DiscoveryOrder` excludes them for that reason);
*previous* during the accusation calls the reveal, as *next* does.  The answer
of a failed request carries no code (`api-errors.ts`), so `JoinLobbyForm.tsx:89`,
which would forget a saved seat whose game is gone, never does; the seat is kept
and offered for ever.  The page of the phone sends no suspect with a question: it
is put to whoever is on stage when it arrives.  An exhibit once chosen stays
chosen when another suspect is called for whom it is not offered, and the
question is then refused.  What is dictated after a question was sent is lost
with its answer, or turns a retry into another question; a question that is
changed and changed back, or a page that was left and opened again, gets a new
id, and only then can the same words be asked twice.  The validator takes
neither two exhibits with one id, exhibits that require each other, nor chapters in an order against their prerequisites for an
error; the host's page names rounds 1 and 2 and the chapter `r4-evidence`.

## 6. Not modelled

* The remaining pages and their rendering: scenes, music, the countdown that is
  drawn, the launcher.  They keep nothing that outlives a page.
* The banner of the host's help and the case status on the TV
  (`session-realtime.ts`, `case-status.ts`): they load as transcripts do.
* The fields that `toPublicCase` lets through: an allowlist of data.  The chapters
  among them are modelled, since what can be offered depends on them.
* Row policies, signing, hashing, origin checks: no protocol state.
* Prompts and the parsing of what models write: abstracted to what the callers
  accept.
* Paging of events in `session-store.ts`, whose order within one commit is not
  determined: it needs more than a thousand investigation events in one game.
* The helpers of `round-robin.ts` that count questions: no longer called.
* Printables, assets, scripts and evaluations: file reads and offline tools.

Wishes: the schema of a case beyond one bit, and the event pages.
