--------------------------- MODULE Investigation ----------------------------
(***************************************************************************)
(* The story: chapters in the briefing, suspects called and recalled in    *)
(* the interrogation, research files, and everything that puts evidence    *)
(* into the case file.  Each commit is one step here, with the reads it is *)
(* based on, as InterviewTurns shows that it may be; the host's next and   *)
(* previous buttons, which read the row twice, are two steps.              *)
(***************************************************************************)
EXTENDS Integers, FiniteSets, Sequences

CONSTANTS
  Suspects,
  Evidence,     \* numbered in the order of the case
  Chapters,     \* a sequence of chapters, see Chapter
  Requires,     \* the requiresUnlockedEvidenceIds of each evidence
  ReportOn,     \* the suspect of each investigationRequest
  Arriving,     \* evidence with an arrivesWhen
  Conditions,   \* the keys of interview_unlock_state
  Speaker,      \* the suspect of each condition
  Gives,        \* the evidence it unlocks, or Nothing
  Threshold,    \* its pressureThreshold
  Taps,         \* requests for the next or the previous chapter
  LastFile,     \* the chapter that the host's page takes for the last file
  NoSuspect, Nothing,
  MaxVisits, MaxPressure   \* bounds on the counters

Reports == DOMAIN ReportOn
Told    == {Gives[c] : c \in Conditions} \ {Nothing}   \* evidence with an unlockBehavior
Index   == DOMAIN Chapters

Chapter == [type : {"narrative", "evidence-reveal", "interview", "phone-hack", "accusation", "reveal"},
            round : Nat, suspect : Suspects \cup {NoSuspect},
            prerequisites : SUBSET Index, shows : SUBSET Evidence]

ASSUME EvidenceAssumption ==
  /\ Evidence \subseteq Nat /\ IsFiniteSet(Evidence) /\ Nothing \notin Evidence
  /\ Arriving \subseteq Evidence /\ Requires \in [Evidence -> SUBSET Evidence]
ASSUME ReportsAssumption ==   \* the validator's
  /\ Reports \subseteq Arriving /\ ReportOn \in [Reports -> Suspects]
  /\ Reports \cap Told = {}
ASSUME ConditionsAssumption ==
  /\ Speaker \in [Conditions -> Suspects]
  /\ Gives \in [Conditions -> Evidence \cup {Nothing}]
  /\ Threshold \in [Conditions -> Nat \ {0}]
ASSUME ChaptersAssumption ==
  /\ Chapters \in Seq(Chapter) /\ Chapters # <<>>
  /\ \A i \in Index : Chapters[i].type = "interview" <=> Chapters[i].suspect # NoSuspect
ASSUME NoSuspectAssumption == NoSuspect \notin Suspects
ASSUME StoryBoundsAssumption == MaxVisits \in Nat /\ MaxPressure \in Nat

VARIABLES
  phase, chapter, unlocked,   \* the sessions row
  visits, orders, topics,     \* what its events add up to
  states,                     \* the interview_unlock_state table
  tap,                        \* the chapter that a request wants to open
  opened                      \* history: the chapters so far

events == <<visits, orders, topics>>
vars   == <<phase, chapter, unlocked, events, states, tap, opened>>

Topics    == {"whereabouts", "connection"}
Unordered == -1

TypeOK ==
  /\ phase \in {"briefing", "interrogation", "accusation"}
  /\ chapter \in Index
  /\ unlocked \subseteq Evidence
  /\ visits \in [Suspects -> Nat]
  /\ orders \in [Reports -> Nat \cup {Unordered}]
  /\ topics \in [Suspects -> SUBSET Topics]
  /\ states \in [Conditions -> [pressure : Nat, met : {"no", "adjudicator", "host"}]]
  /\ tap \in [Taps -> Index \cup {0}]
  /\ opened \subseteq Index

-----------------------------------------------------------------------------
(* Chapters.                                                               *)

IsFirst(n, S) == n \in S /\ \A m \in S : n <= m
IsLast(n, S)  == n \in S /\ \A m \in S : m <= n

PhaseOf(i) ==
  CASE Chapters[i].type = "accusation" -> "accusation"
    [] Chapters[i].type = "reveal"     -> "reveal"
    [] OTHER -> IF Chapters[i].round >= 2 THEN "interrogation" ELSE "briefing"

In(p)            == {i \in Index : PhaseOf(i) = p}
IsInterview(i)   == Chapters[i].type = "interview"
Interrogation(t) == {i \in In("interrogation") : Chapters[i].type = t}

\* getInterrogationEntryChapter
IsEntry(i) == IsFirst(i, IF Interrogation("evidence-reveal") # {} THEN Interrogation("evidence-reveal")
                         ELSE IF Interrogation("interview") # {} THEN Interrogation("interview")
                         ELSE In("interrogation"))

\* The suspect on stage: current_interview_suspect_id goes with the chapter.
Stage == Chapters[chapter].suspect

\* Mutant: the chapters up to the next one count as visited.
IsUnlockedAhead(i) == Chapters[i].prerequisites \subseteq 1 .. (chapter + 1)

\* isChapterUnlocked: visited is what comes before the current chapter.
IsUnlocked(i) == Chapters[i].prerequisites \subseteq 1 .. chapter

\* Mutant: the requirements of evidence are not looked at.
ShownFreely(i) == Chapters[i].shows \ (Told \cup Reports)

\* getUnlockedEvidenceForChapter, without what is told, ordered or premature.
Shown(i) == {e \in Chapters[i].shows \ (Told \cup Reports) : Requires[e] \subseteq unlocked}

\* What every change of chapter does to the row.
Opens(i) == chapter' = i /\ opened' = opened \cup {i}

Init ==
  /\ phase = "briefing" /\ chapter = 1
  /\ unlocked = {e \in Chapters[1].shows \ (Told \cup Reports) : Requires[e] = {}}
  /\ visits = [s \in Suspects |-> 0]
  /\ orders = [e \in Reports |-> Unordered]
  /\ topics = [s \in Suspects |-> {}]
  /\ states = [c \in Conditions |-> [pressure |-> 0, met |-> "no"]]
  /\ tap = [t \in Taps |-> 0]
  /\ opened = {1}

-----------------------------------------------------------------------------
(* First interviews, recalls and reports.                                  *)

Answered      == {s \in Suspects : topics[s] = Topics}
Called        == {Chapters[i].suspect : i \in {j \in opened : IsInterview(j)}}
Interviewable == {Chapters[i].suspect : i \in {j \in Index : IsInterview(j)}}

\* Mutant: whoever was called before waits, with or without an account.
BlockedOnceCalled(s) == Stage # s /\ s \in Called /\ Interviewable \ Answered # {}

\* firstRoundRecallBlock
Blocked(s) == Stage # s /\ s \in Answered /\ Interviewable \ Answered # {}

\* Mutant: only a second visit can be unfinished.
UnfinishedLater(s) == s \notin Answered /\ visits[s] > 1

Unfinished(s) == s \notin Answered /\ visits[s] > 0

\* The visits that events speak of.
VisitsOf(s) == {visits[s]} \cup {orders[e] : e \in {r \in Reports : ReportOn[r] = s}}

\* planRecallDelivery: a call that counts as a new visit.
IsVisit(s) == Stage # s /\ (\E e \in Reports : ReportOn[e] = s) /\ ~ Unfinished(s)

\* Mutant: a report takes another visit.
DeliveredLate(s, v) ==
  {e \in Reports : /\ v >= 2 /\ ReportOn[e] = s
                   /\ orders[e] # Unordered /\ orders[e] < v - 1}

Delivered(s, v) ==
  {e \in Reports : /\ v >= 2 /\ ReportOn[e] = s
                   /\ orders[e] # Unordered /\ orders[e] < v}

-----------------------------------------------------------------------------
(* The host's and the interviewer's controls.                              *)

\* A visit that counts, after the last one that is known, and what it delivers.
Visit(i, s) ==
  \E v \in 0 .. (MaxVisits - 1) :
    /\ IsLast(v, VisitsOf(s))
    /\ visits' = [visits EXCEPT ![s] = v + 1]
    /\ unlocked' = unlocked \cup Shown(i) \cup Delivered(s, v + 1)

\* setSessionScene's conditions ...
MayEnter(i) ==
  /\ PhaseOf(i) = phase /\ phase \in {"briefing", "interrogation"}
  /\ phase = "briefing" => IsUnlocked(i)
  /\ phase = "interrogation" => IsInterview(i) \/ IsEntry(i)
  /\ IsInterview(i) => ~ Blocked(Chapters[i].suspect)

\* ... and what it does.
SetScene(i) ==
  /\ MayEnter(i)
  /\ IF IsInterview(i) /\ IsVisit(Chapters[i].suspect)
     THEN Visit(i, Chapters[i].suspect)
     ELSE visits' = visits /\ unlocked' = unlocked \cup Shown(i)
  /\ Opens(i)
  /\ UNCHANGED <<phase, orders, topics, states>>

\* transitionSessionPhase
EnterPhase(p, i) ==
  /\ phase' = p
  /\ unlocked' = unlocked \cup Shown(i)
  /\ Opens(i)
  /\ UNCHANGED <<events, states>>

\* advanceSessionChapter reads the row to find the chapter that is wanted ...
Tap(t, step) ==
  /\ tap[t] = 0 /\ phase = "briefing"
  /\ tap' = [tap EXCEPT ![t] = IF chapter + step \in Index THEN chapter + step ELSE chapter]
  /\ UNCHANGED <<phase, chapter, unlocked, events, states, opened>>

\* ... and setSessionScene or transitionSessionPhase reads it again.
TapOpens(t) ==
  /\ tap[t] # 0
  /\ \/ PhaseOf(tap[t]) = "briefing" /\ SetScene(tap[t])
     \/ /\ PhaseOf(tap[t]) = "interrogation" /\ phase = "briefing"
        /\ \E i \in Index : IsEntry(i) /\ EnterPhase("interrogation", i)
  /\ tap' = [tap EXCEPT ![t] = 0]

TapFails(t) ==
  /\ tap[t] # 0
  /\ tap' = [tap EXCEPT ![t] = 0]
  /\ UNCHANGED <<phase, chapter, unlocked, events, states, opened>>

Choose(i) == SetScene(i) /\ UNCHANGED tap

\* The research files behind chapter i.
FilesAfter(i) == {j \in In("interrogation") : j > i /\ Chapters[j].round >= 3 /\ ~ IsInterview(j)}

\* advanceInvestigationFile
NextFile ==
  /\ phase = "interrogation"
  /\ \E i \in Index :
       /\ IsFirst(i, FilesAfter(chapter))
       /\ unlocked' = unlocked \cup Shown(i)
       /\ Opens(i)
  /\ UNCHANGED <<phase, events, states, tap>>

OpenAccusation ==
  /\ phase = "interrogation"
  /\ \E i \in Index : IsFirst(i, In("accusation")) /\ EnterPhase("accusation", i)
  /\ UNCHANGED tap

-----------------------------------------------------------------------------
(* What the host's page offers, from the public projection of the case.    *)

\* toPublicCase: the chapter that is open, and the interviews from the
\* interrogation on.
PublicChapters ==
  {i \in Index : i = chapter \/ (IsInterview(i) /\ phase = "interrogation")}

OnTheBoard(i) == Chapters[i].type \in {"narrative", "evidence-reveal"}

\* The button Continue.
ContinueOffered ==
  phase = "briefing" /\ chapter \in PublicChapters /\ Chapters[chapter].round = 1 /\ OnTheBoard(chapter)

\* The button for the next research file.
FilesOffered == phase = "interrogation" /\ chapter # LastFile

\* The picker of suspects, beside the case board and in the interviews of round 2.
PickerShown ==
  /\ phase = "interrogation"
  /\ OnTheBoard(chapter) \/ (IsInterview(chapter) /\ Chapters[chapter].round = 2)

Picker == {i \in PublicChapters : IsInterview(i) /\ Chapters[i].round = 2 /\ i # chapter}

\* Whether the server takes the chapter after this one for an answer to Continue.
ContinueAccepted ==
  /\ chapter + 1 \in Index
  /\ \/ MayEnter(chapter + 1)
     \/ PhaseOf(chapter + 1) = "interrogation" /\ phase = "briefing"

-----------------------------------------------------------------------------
(* Answers, and the host's help.                                           *)

Interviewing == phase = "interrogation" /\ Stage # NoSuspect

\* listPendingConditions, for the suspect on stage.
Pending == {c \in Conditions : Speaker[c] = Stage /\ states[c].met = "no" /\ Gives[c] \notin unlocked}

\* getHostEvidenceCandidates, with the file f.
Candidates(f) == {e \in (Arriving \ Reports) \ f : Requires[e] \subseteq f}

\* What the judge makes of a condition; a closed evidence gate leaves it alone.
Verdicts == {"closed", "far", "near", "met"}

\* advanceUnlockState: pressure counts near questions too, firing needs a met one.
Pressed(c, verdict) == states[c].pressure + (IF verdict \in {"near", "met"} THEN 1 ELSE 0)
Fires(c, verdict)   == verdict = "met" /\ Pressed(c, verdict) >= Threshold[c]

\* The visit that a report ordered now is filed under.
OrderVisit(e) == IF ReportOn[e] = Stage /\ visits[Stage] = 0 THEN 1 ELSE visits[ReportOn[e]]

\* What an answer can add to the first account: topics of the two that count.
Accounts == SUBSET Topics

\* executeInterview, as committed: discoveries of the suspect's own, the reports
\* that were ordered, what the first interview still lacked, and at most one
\* exhibit that the host judge lets arrive.
Answer ==
  /\ Interviewing
  /\ \E verdict \in [Pending -> Verdicts] :
       LET fired == {c \in Pending : Fires(c, verdict[c])}
           told  == unlocked \cup ({Gives[c] : c \in fired} \ {Nothing})
       IN  /\ \A c \in Pending : Pressed(c, verdict[c]) <= MaxPressure
           /\ states' = [c \in Conditions |->
                           IF c \in Pending
                           THEN [pressure |-> Pressed(c, verdict[c]),
                                 met |-> IF c \in fired THEN "adjudicator" ELSE "no"]
                           ELSE states[c]]
           /\ \E asked \in SUBSET {e \in Reports : orders[e] = Unordered /\ e \notin told} :
                orders' = [e \in Reports |-> IF e \in asked THEN OrderVisit(e) ELSE orders[e]]
           /\ \/ unlocked' = told
              \/ \E e \in Candidates(told) : unlocked' = told \cup {e}
  /\ \E account \in Accounts : topics' = [topics EXCEPT ![Stage] = @ \cup account]
  /\ UNCHANGED <<phase, chapter, visits, tap, opened>>

\* applyHostHelp, for a discovery ...
HelpTell(c) ==
  /\ states[c].pressure < MaxPressure
  /\ states' = [states EXCEPT ![c] = [pressure |-> @.pressure + 1, met |-> "host"]]
  /\ unlocked' = unlocked \cup ({Gives[c]} \ {Nothing})

\* ... or for the next exhibit.
HelpArrive ==
  /\ \E e \in Evidence : IsFirst(e, Candidates(unlocked)) /\ unlocked' = unlocked \cup {e}
  /\ UNCHANGED states

Help ==
  /\ Interviewing
  /\ (\E c \in Pending : HelpTell(c)) \/ HelpArrive
  /\ UNCHANGED <<phase, chapter, events, tap, opened>>

-----------------------------------------------------------------------------

Next ==
  \/ \E t \in Taps : (\E step \in {-1, 1} : Tap(t, step)) \/ TapOpens(t) \/ TapFails(t)
  \/ \E i \in Index : Choose(i)
  \/ NextFile \/ OpenAccusation \/ Answer \/ Help

Spec == Init /\ [][Next]_vars

-----------------------------------------------------------------------------
(* Properties.                                                             *)

\* A report is sealed until its suspect is recalled: ordered in an interview of
\* before, delivered when the suspect comes back on stage, and by then everybody
\* has given a first account.  Files, discoveries, the host's help and the judge
\* never leak it.
Sealed ==
  \A e \in Reports : e \in unlocked' \ unlocked =>
    /\ orders[e] # Unordered
    /\ Stage # ReportOn[e] /\ Stage' = ReportOn[e]
    /\ Interviewable \subseteq Answered
ReportsWait == [][Sealed]_vars

\* A recall delivers every report that was ordered on the suspect, whoever it was
\* ordered from and however often the order was preceded by half an interview.
Delivery ==
  \A s \in Answered : Stage # s /\ Stage' = s =>
    \A e \in Reports : ReportOn[e] = s /\ orders[e] # Unordered => e \in unlocked'
RecallDelivers == [][Delivery]_vars

\* Returning to an incomplete first interview resumes it: it neither advances the
\* visit counter nor delivers a report.
Resumption ==
  \A s \in Called \ Answered : Stage # s /\ Stage' = s =>
    /\ visits' = visits
    /\ \A e \in Reports : e \in unlocked' => e \in unlocked
ReturnResumes == [][Resumption]_vars

\* What the chapters show and the host lets arrive respects the requirements of
\* each exhibit, whichever of the two brings it and in whatever order.
DiscoveryOrder == \A e \in unlocked \ (Told \cup Reports) : Requires[e] \subseteq unlocked

\* The unlock states and the case file agree: what a suspect has given away is in
\* the file.
MetIsInFile ==
  \A c \in Conditions : states[c].met # "no" /\ Gives[c] # Nothing => Gives[c] \in unlocked

\* The briefing is told in order: nothing is opened before its prerequisites,
\* however the buttons are tapped.
InOrder(i) == Chapters[i].prerequisites \subseteq opened
BriefingInOrder == \A i \in opened \cap In("briefing") : InOrder(i)

\* The room is never stuck: what the host's page offers, by rules of its own and
\* from what the projection lets it know, the server accepts, and there is always
\* something.  As long as somebody has not given a first account, which blocks all
\* recalls, that suspect is on stage or can be called from the picker, or the next
\* file leads to the picker.
CanGoOn ==
  /\ phase = "briefing" => ContinueOffered /\ ContinueAccepted
  /\ FilesOffered => FilesAfter(chapter) # {}
  /\ phase = "interrogation" => PickerShown \/ FilesOffered
  /\ PickerShown => \A s \in Interviewable \ Answered :
       Stage = s \/ (\E i \in Picker : Chapters[i].suspect = s /\ MayEnter(i))

\* Research goes on where it stopped, independent of the interviews in between.
ResearchGoesOn == [][NextFile => chapter' \notin opened]_vars

\* Nothing that the room has achieved is taken back: an exhibit of the file, an
\* order and the visit that it is filed under, a topic of a first account, pressure,
\* a discovery and who made it.  The phases follow one another, also when a tap of
\* the briefing is carried out after the room has moved on.
Achieved ==
  /\ unlocked \subseteq unlocked'
  /\ \A e \in Reports : orders[e] # Unordered => orders'[e] = orders[e]
  /\ \A s \in Suspects : topics[s] \subseteq topics'[s] /\ visits[s] <= visits'[s]
  /\ \A c \in Conditions : /\ states[c].pressure <= states'[c].pressure
                          /\ states[c].met # "no" => states'[c] = states[c]
  /\ phase' # phase =>
       <<phase, phase'>> \in {<<"briefing", "interrogation">>, <<"interrogation", "accusation">>}
NothingIsLost == [][Achieved]_vars

-----------------------------------------------------------------------------
(* What some theorems ask of the case, beyond what the code enforces.      *)

\* Neither the first chapter nor the one that opens the interrogation is an
\* interview: EnterPhase puts nobody on stage without a visit on record.
QuietEntrance == ~ IsInterview(1) /\ \A i \in Index : IsEntry(i) => ~ IsInterview(i)

\* Each chapter of the briefing requires the one before.
Chained ==
  /\ PhaseOf(1) = "briefing" /\ Chapters[1].prerequisites = {}
  /\ \A i \in In("briefing") \ {1} : i - 1 \in Chapters[i].prerequisites

\* The host's page knows rounds and the last research file by number; the server
\* decides by types, prerequisites and the order of the chapters.  In a guided case
\* the two agree.
Guided ==
  /\ PhaseOf(1) = "briefing"
  /\ \A i \in In("briefing") :
       /\ Chapters[i].round = 1 /\ OnTheBoard(i) /\ i + 1 \in Index
       /\ \/ PhaseOf(i + 1) = "interrogation"
          \/ PhaseOf(i + 1) = "briefing" /\ Chapters[i + 1].prerequisites \subseteq 1 .. i
  /\ \A i \in Interrogation("interview") : Chapters[i].round = 2
  /\ \A i \in In("interrogation") :
       /\ i # LastFile => FilesAfter(i) # {}
       /\ OnTheBoard(i) \/ IsInterview(i) \/ i # LastFile
=============================================================================
