------------------------------ MODULE Screens -------------------------------
(***************************************************************************)
(* What a screen shows of the game.  Each screen keeps the last snapshot   *)
(* of the lobby and the transcripts of the suspects it has shown, and      *)
(* brings them up to date with requests that overlap, overtake each other  *)
(* and get lost: polls, refetches after a change event, and the answers to *)
(* its own actions.  A snapshot of the lobby carries a revision, a         *)
(* transcript does not.                                                    *)
(*                                                                         *)
(* Content is abstracted to the revision it was read at.                   *)
(***************************************************************************)
EXTENDS Naturals

CONSTANTS
  Screens,      \* the host's TV and the phones
  Calls,        \* requests that a screen has in flight at once
  Suspects,
  MaxChanges    \* bound on the changes, whether they move the revision or not

ASSUME SuspectsAssumption == Suspects # {}
ASSUME ScreensBoundAssumption == MaxChanges \in Nat

VARIABLES
  revision, stage,  \* the sessions row: its revision, the suspect on stage
  aside,            \* players and turns: changes that do not move the revision
  up,               \* whether the screen has started its polls
  shown,            \* the lobby that the screen shows
  transcript,       \* by suspect, the revision of the messages the screen has
  call              \* the requests in flight

server      == <<revision, stage, aside>>
screensVars == <<server, up, shown, transcript, call>>

\* What getPublicLobbyState returns: the row and the case as of one revision,
\* the tables as of another.
Snapshot == [row : Nat, suspect : Suspects, tables : Nat, aside : Nat]
Lobby    == [row : Nat, suspect : Suspects, case : Nat, tables : Nat, aside : Nat]

Kinds == {"lobby", "load", "action"}
Steps == {"idle", "sent", "acted", "row", "answered"}
Call  == [at : Steps, kind : Kinds, made : Nat, snap : Snapshot]

ScreensTypeOK ==
  /\ revision \in Nat /\ stage \in Suspects /\ aside \in Nat
  /\ up \in [Screens -> BOOLEAN]
  /\ shown \in [Screens -> Lobby]
  /\ transcript \in [Screens -> [Suspects -> Nat]]
  /\ call \in [Screens -> [Calls -> Call]]

Whole(snap) == [row |-> snap.row, suspect |-> snap.suspect, case |-> snap.row,
                tables |-> snap.tables, aside |-> snap.aside]

Anyone   == CHOOSE x \in Suspects : TRUE
Blank(x) == [row |-> 0, suspect |-> x, tables |-> 0, aside |-> 0]
Sent(kind, x) == [at |-> "sent", kind |-> kind, made |-> 0, snap |-> Blank(x)]
Idle     == [Sent("lobby", Anyone) EXCEPT !.at = "idle"]

\* The page arrives with a snapshot that the server rendered.
ScreensInit ==
  /\ revision = 1 /\ stage = Anyone /\ aside = 0
  /\ up = [s \in Screens |-> FALSE]
  /\ shown = [s \in Screens |-> [row |-> 1, suspect |-> stage, case |-> 1,
                                 tables |-> 1, aside |-> 0]]
  /\ transcript = [s \in Screens |-> [x \in Suspects |-> 0]]
  /\ call = [s \in Screens |-> [c \in Calls |-> Idle]]

-----------------------------------------------------------------------------
(* The server.                                                             *)

\* A commit changes the scene or something else, in the row or with it: an answer
\* of the suspect on stage is published, a vote is cast, the microphone moves.
Commits ==
  /\ revision + aside < MaxChanges
  /\ revision' = revision + 1
  /\ stage' \in Suspects
  /\ UNCHANGED aside

\* Somebody else's action.
Elsewhere == Commits /\ UNCHANGED <<up, shown, transcript, call>>

\* A player joins, a question is begun or fails: no revision tells of it.
Aside ==
  /\ revision + aside < MaxChanges
  /\ aside' = aside + 1
  /\ UNCHANGED <<revision, stage, up, shown, transcript, call>>

-----------------------------------------------------------------------------
(* Requests of a screen.                                                   *)

Sends(s, c, request) ==
  /\ call[s][c].at = "idle"
  /\ call' = [call EXCEPT ![s][c] = request]
  /\ UNCHANGED <<server, shown, transcript>>

\* The token request is answered, or is not: the hook polls in both cases.
Start(s) ==
  /\ ~ up[s]
  /\ up' = [up EXCEPT ![s] = TRUE]
  /\ UNCHANGED <<server, shown, transcript, call>>

\* The poll, a change event, or the channel's being subscribed.
Refetch(s, c) == up[s] /\ Sends(s, c, Sent("lobby", Anyone)) /\ UNCHANGED up

\* The transcript of the suspect on the screen: its effect loads it at once.
Load(s, c) == Sends(s, c, Sent("load", shown[s].suspect)) /\ UNCHANGED up

\* A button: a control of the host, a vote, a question, the microphone.
Act(s, c) == Sends(s, c, Sent("action", Anyone)) /\ UNCHANGED up

\* Mutant: the answer is the row that the action was decided on.
ActionCommitsBlind(s, c) ==
  /\ call[s][c].at = "sent" /\ call[s][c].kind = "action"
  /\ Commits
  /\ call' = [call EXCEPT ![s][c] =
                [@ EXCEPT !.at = "row", !.made = revision + 1,
                          !.snap.row = revision, !.snap.suspect = stage]]
  /\ UNCHANGED <<up, shown, transcript>>

ActionCommits(s, c) ==
  /\ call[s][c].at = "sent" /\ call[s][c].kind = "action"
  /\ Commits
  /\ call' = [call EXCEPT ![s][c] = [@ EXCEPT !.at = "acted", !.made = revision + 1]]
  /\ UNCHANGED <<up, shown, transcript>>

ActionRefused(s, c) ==
  /\ call[s][c].at = "sent" /\ call[s][c].kind = "action"
  /\ call' = [call EXCEPT ![s][c] = Idle]
  /\ UNCHANGED <<server, up, shown, transcript>>

\* getLobbyState: the row ...
ReadRow(s, c) ==
  /\ \/ call[s][c].at = "acted"
     \/ call[s][c].at = "sent" /\ call[s][c].kind = "lobby"
  /\ call' = [call EXCEPT ![s][c] =
                [@ EXCEPT !.at = "row", !.snap.row = revision, !.snap.suspect = stage]]
  /\ UNCHANGED <<server, up, shown, transcript>>

\* ... then players, votes and turns.
ReadTables(s, c) ==
  /\ call[s][c].at = "row"
  /\ call' = [call EXCEPT ![s][c] =
                [@ EXCEPT !.at = "answered", !.snap.tables = revision, !.snap.aside = aside]]
  /\ UNCHANGED <<server, up, shown, transcript>>

\* getInterviewMessages.
ReadMessages(s, c) ==
  /\ call[s][c].at = "sent" /\ call[s][c].kind = "load"
  /\ call' = [call EXCEPT ![s][c] = [@ EXCEPT !.at = "answered", !.snap.row = revision]]
  /\ UNCHANGED <<server, up, shown, transcript>>

Lost(s, c) ==
  /\ call[s][c].at = "answered"
  /\ call' = [call EXCEPT ![s][c] = Idle]
  /\ UNCHANGED <<server, up, shown, transcript>>

-----------------------------------------------------------------------------
(* Answers.                                                                *)

Answered(s, c, kind) == call[s][c].at = "answered" /\ call[s][c].kind = kind

\* The screen shows lobby l from now on.  With another suspect on it, the effect
\* of the transcript is torn down and does not heed the loads in flight.
Shows(s, l, next) ==
  /\ shown' = [shown EXCEPT ![s] = l]
  /\ call' = [call EXCEPT ![s] =
                [c \in Calls |->
                   IF next[c].kind = "load" /\ l.suspect # shown[s].suspect
                   THEN Idle ELSE next[c]]]

After(s, c, k) == [call[s] EXCEPT ![c] = k]

\* Mutants: only a new revision is worth showing; whatever arrives is shown.
NewerStrictly(s, snap) == snap.row > shown[s].row
NewerAlways(s, snap)   == TRUE

\* An answer older than what is shown is not shown.
Newer(s, snap) == snap.row >= shown[s].row

Taken(s, snap) == IF Newer(s, snap) THEN Whole(snap) ELSE shown[s]

LobbyLands(s, c) ==
  /\ Answered(s, c, "lobby")
  /\ Shows(s, Taken(s, call[s][c].snap), After(s, c, Idle))
  /\ UNCHANGED <<server, up, transcript>>

\* A control or a vote is answered with the whole lobby.
ControlLands(s, c) ==
  /\ Answered(s, c, "action")
  /\ Shows(s, Taken(s, call[s][c].snap), After(s, c, Idle))
  /\ UNCHANGED <<server, up, transcript>>

\* Mutant: the session is merged whatever its revision.
MergedAlways(s, snap) == [shown[s] EXCEPT !.row = snap.row, !.suspect = snap.suspect]

\* Of the answer to a question or to a claim of the microphone only the session is
\* merged; a refetch brings the rest.
Merged(s, snap) ==
  IF Newer(s, snap)
  THEN [shown[s] EXCEPT !.row = snap.row, !.suspect = snap.suspect]
  ELSE shown[s]

AskLands(s, c) ==
  /\ Answered(s, c, "action")
  /\ Shows(s, Merged(s, call[s][c].snap),
           After(s, c, Sent("lobby", Anyone)))
  /\ UNCHANGED <<server, up, transcript>>

\* Nothing tells an older transcript from a newer one.
LoadLands(s, c) ==
  /\ Answered(s, c, "load")
  /\ transcript' = [transcript EXCEPT ![s][call[s][c].snap.suspect] = call[s][c].snap.row]
  /\ call' = [call EXCEPT ![s][c] = Idle]
  /\ UNCHANGED <<server, up, shown>>

-----------------------------------------------------------------------------

Serve(s, c) ==
  \/ ActionCommits(s, c) \/ ActionRefused(s, c)
  \/ ReadRow(s, c) \/ ReadTables(s, c) \/ ReadMessages(s, c)

Land(s, c) ==
  \/ LobbyLands(s, c) \/ ControlLands(s, c) \/ AskLands(s, c) \/ LoadLands(s, c)

Request(s, c) == Refetch(s, c) \/ Load(s, c) \/ Act(s, c)

ScreenStep(s, c) == Request(s, c) \/ Serve(s, c) \/ Land(s, c) \/ Lost(s, c)

ScreensNext ==
  \/ Elsewhere \/ Aside
  \/ \E s \in Screens : Start(s) \/ \E c \in Calls : ScreenStep(s, c)

\* Timers fire, the server answers what it was asked, and a request that is
\* repeated for ever is not lost every time.  That requests wait for a free place
\* in Calls is the model's doing, hence strong fairness for them.
ScreensFairness ==
  \A s \in Screens :
    /\ WF_screensVars(Start(s))
    /\ SF_screensVars(\E c \in Calls : Refetch(s, c))
    /\ SF_screensVars(\E c \in Calls : Load(s, c))
    /\ SF_screensVars(\E c \in Calls : LobbyLands(s, c))
    /\ SF_screensVars(\E c \in Calls : LoadLands(s, c))
    /\ \A c \in Calls : WF_screensVars(Serve(s, c)) /\ WF_screensVars(Land(s, c) \/ Lost(s, c))

ScreensSpec == ScreensInit /\ [][ScreensNext]_screensVars /\ ScreensFairness

-----------------------------------------------------------------------------
(* Properties.                                                             *)

\* Whatever order answers arrive in, neither the session nor the case file on a
\* screen goes back to an earlier revision.
MovesForward ==
  [][\A s \in Screens : /\ shown'[s].row >= shown[s].row
                        /\ shown'[s].case >= shown[s].case]_screensVars

\* When an action is answered, the screen shows it: it is at the revision that the
\* action made or a later one, and by MovesForward stays there; no poll that was
\* under way takes the action back.
ActionsShow ==
  [][\A s \in Screens, c \in Calls :
       ControlLands(s, c) \/ AskLands(s, c) => shown'[s].row >= call[s][c].made]_screensVars

\* After a merge of the session alone the case file lags behind it; it is never
\* ahead of the session, and the votes and players are never older than the case
\* they are shown with, although row and tables are read one after the other.
CaseIsCovered ==
  \A s \in Screens : shown[s].case <= shown[s].row /\ shown[s].case <= shown[s].tables

\* When the game stops changing, every screen comes to show it as it is, its
\* transcript with every answer of the suspect on stage.
UpToDate(s) ==
  /\ shown[s] = [row |-> revision, suspect |-> stage, case |-> revision,
                 tables |-> revision, aside |-> aside]
  /\ transcript[s][stage] = revision
Settles == \A s \in Screens : <>[]UpToDate(s)

\* No answer on its way is older than the screen without the screen's telling: a
\* transcript of the suspect on stage, and a snapshot that a player joined since.
NothingOld(k) ==
  k.at = "answered" =>
    IF k.kind = "load" THEN k.snap.suspect = stage => k.snap.row = revision
                       ELSE k.snap.row = revision => k.snap.aside = aside

Settled(s) == UpToDate(s) /\ \A c \in Calls : NothingOld(call[s][c])

\* A screen that has settled stays so until the game changes, whatever it requests
\* and whatever gets lost or overtaken.
SettledStays == [][\A s \in Screens : Settled(s) /\ UNCHANGED server => Settled(s)']_screensVars
=============================================================================
