--------------------------- MODULE AnswerPipeline ---------------------------
(***************************************************************************)
(* How the answers of one suspect are made: a chain of model calls that    *)
(* may each fail, be wrong or be refused, on what the tables held when the *)
(* question was granted, and one commit at the end.  Between answers the   *)
(* host may help.  InterviewTurns shows that nothing else changes those    *)
(* tables under a commit that succeeds.                                    *)
(***************************************************************************)
EXTENDS Integers, FiniteSets, Sequences

CONSTANTS
  Evidence,     \* numbered in the order of the case
  Requires,     \* the requiresUnlockedEvidenceIds of each evidence
  ReportOn,     \* the suspect of each investigationRequest
  Arriving,     \* evidence with an arrivesWhen
  Related,      \* evidence that relates to the suspect
  Suspect, NoSuspect,
  Conditions,   \* the keys of interview_unlock_state
  Tier, Gate, Gives, Threshold,   \* their unlockBehavior
  Layers,       \* the interviewLayers, in order
  Alibis,       \* the breaking points in alibiAfterBreakingPoint, in order
  Nothing,
  MaxPressure   \* bound on the counters

Reports    == DOMAIN ReportOn
Admissions == {c \in Conditions : Gives[c] = Nothing}   \* not evidence: to be told
Topics     == {"whereabouts", "connection"}
Kinds      == Topics \cup {"case", "other"}             \* what a question is about
Tiers      == {"cooperation", "compound", "evidence", "pressure"}   \* "pressure": without a cue

Layer == [needs : SUBSET Admissions, bars : SUBSET Admissions,
          shown : SUBSET Evidence, unshown : SUBSET Evidence,
          account : BOOLEAN,
          answers : SUBSET [about : Kinds, shown : SUBSET Evidence]]   \* fallbackAnswers

ASSUME ExhibitsAssumption ==
  /\ Evidence \subseteq Nat /\ IsFiniteSet(Evidence) /\ Nothing \notin Evidence
  /\ Arriving \subseteq Evidence /\ Related \subseteq Evidence
  /\ Requires \in [Evidence -> SUBSET Evidence]
  /\ Reports \subseteq Arriving
ASSUME CuesAssumption ==
  /\ Tier \in [Conditions -> Tiers]
  /\ Gate \in [Conditions -> SUBSET Evidence]
  /\ Gives \in [Conditions -> (Evidence \ Reports) \cup {Nothing}]
  /\ Threshold \in [Conditions -> Nat \ {0}]
ASSUME VoicesAssumption == Layers \in Seq(Layer) /\ Alibis \in Seq(Admissions)
ASSUME SuspectAssumption == Suspect # NoSuspect
ASSUME PressureAssumption == MaxPressure \in Nat

VARIABLES
  unlocked, states, presented, ordered, topics,   \* tables
  heard, account,                                 \* history: what the suspect has told
  misjudged,                                      \* history: has the validator model erred
  stage, ask, plan, repaired, reply,              \* the answer that is being made
  asked, covered, drop, rest,
  outcome                                         \* of the last question

tables   == <<unlocked, states, presented, ordered, topics>>
told     == <<heard, account, misjudged>>
answer   == <<ask, plan, repaired, reply>>
judgment == <<asked, covered, drop, rest>>
vars     == <<tables, told, stage, answer, judgment, outcome>>

Stages == {"idle", "judging", "drafting", "validating", "repairing", "ordering",
           "accounting", "hosting", "recovering", "confirming", "saving"}
State  == [pressure : Nat, met : {"no", "adjudicator", "host"}]

-----------------------------------------------------------------------------
(* What the suspect may say.                                               *)

Met(s) == {c \in Admissions : s[c].met # "no"}

\* activeInterviewLayers, for admissions a and exhibits p.
Active(a, p) ==
  {i \in DOMAIN Layers : /\ Layers[i].needs \subseteq a /\ Layers[i].bars \cap a = {}
                         /\ Layers[i].shown \subseteq p /\ Layers[i].unshown \cap p = {}}

\* Accounts of the incident are numbered: the public alibi, those that follow
\* breaking points, those of layers.
NoAccount  == -1
ByLayer(i) == Len(Alibis) + i
Accounts   == 0 .. (Len(Alibis) + Len(Layers))

IsLast(n, S) == n \in S /\ \A m \in S : m <= n

Overrides(a, p) == {i \in Active(a, p) : Layers[i].account}

\* The account that stands.
Current(n, a, p) ==
  IF Overrides(a, p) # {}
  THEN \E i \in Overrides(a, p) : IsLast(i, Overrides(a, p)) /\ n = ByLayer(i)
  ELSE IsLast(n, {0} \cup {k \in DOMAIN Alibis : Alibis[k] \in a})

\* What the authored cases keep to: later accounts supersede earlier ones,
\* whatever is admitted or shown next, and a layer answers with the account that
\* stands.
Stands(n, a, p) ==
  \A b \in SUBSET Admissions, q \in SUBSET Evidence :
    a \subseteq b /\ p \subseteq q => \A m \in Accounts : Current(m, b, q) => n <= m
ASSUME SupersedingAssumption ==
  \A a \in SUBSET Admissions, p \in SUBSET Evidence :
    /\ \A n \in Accounts : Current(n, a, p) => Stands(n, a, p)
    /\ \A i \in Overrides(a, p) : \A x \in Layers[i].answers :
         x.shown \subseteq p => Current(ByLayer(i), a, p)

Reply  == [tells : SUBSET Admissions, account : Accounts \cup {NoAccount}]
Silent == [tells |-> {}, account |-> NoAccount]

-----------------------------------------------------------------------------
(* The context of an answer.                                               *)

\* Mutant: exhibits of earlier questions are forgotten.
ShownNow == {ask.exhibit} \ {Nothing}

\* The exhibits of this conversation, that of the question included.
Shown == (presented \cup {ask.exhibit}) \ {Nothing}
Newly == Met(plan) \ Met(states)
Told  == unlocked \cup ({Gives[c] : c \in {d \in Conditions : plan[d].met # states[d].met}} \ {Nothing})

\* listPendingConditions, and those whose evidenceGate is open.
Pending == {c \in Conditions : states[c].met = "no" /\ Gives[c] \notin unlocked}
Open    == {c \in Pending : Gate[c] \subseteq Shown}

\* What judgeUnlock may make of a condition whose gate is open.  The pressure tier
\* is not judged, the evidence tier not by the model; any call may fail.
Verdicts(c) ==
  CASE Tier[c] = "pressure" -> {"met"}
    [] Tier[c] = "evidence" -> {"met", "unavailable"}
    [] OTHER                -> {"met", "near", "far", "unavailable"}

\* advanceUnlockState
Pressed(c, verdict) == states[c].pressure + (IF verdict \in {"near", "met"} THEN 1 ELSE 0)
Advance(c, verdict) ==
  [pressure |-> Pressed(c, verdict),
   met |-> IF verdict = "met" /\ Pressed(c, verdict) >= Threshold[c] THEN "adjudicator" ELSE "no"]

\* What the validator model is asked to see to: a reply neither keeps a new admission
\* back nor makes one that is not approved, nor contradicts the account that stands.
Faithful(r) ==
  /\ Newly \subseteq r.tells /\ r.tells \subseteq Met(plan)
  /\ r.account # NoAccount => Current(r.account, Met(plan), Shown)

\* The layers with a prepared answer to this question.
Prepared == {i \in Active(Met(plan), Shown) :
               \E x \in Layers[i].answers : x.about = ask.kind /\ x.shown \subseteq Shown}

\* establishedAccountFallback and initialAccountFallback, or no account at all.
Established(n) ==
  IF Prepared # {}
  THEN \E i \in Prepared : IsLast(i, Prepared) /\ n = (IF Layers[i].account THEN ByLayer(i) ELSE NoAccount)
  ELSE IF \/ ask.kind = "whereabouts"
          \/ ask.kind = "case" /\ Overrides(Met(plan), Shown) # {}
       THEN Current(n, Met(plan), Shown)
       ELSE n = NoAccount

\* Mutant: new admissions are left to the next question.
IsFallbackDeflecting(r) == r.tells = {} /\ Established(r.account)

\* The fallback of generateInterviewReply.
IsFallback(r) ==
  /\ r.tells = Newly
  /\ IF Newly # {} THEN r.account = NoAccount ELSE Established(r.account)

\* Mutant: the exhibit's own requirements are forgotten.
CandidatesAnytime == Arriving \ (Reports \cup Told)

\* getHostEvidenceCandidates; what is ordered is a report.
Candidates == {e \in Arriving \ (Reports \cup Told) : Requires[e] \subseteq Told}

-----------------------------------------------------------------------------

\* The interview may start with a file and with orders from before.
Init ==
  /\ unlocked \in SUBSET Evidence /\ ordered \in SUBSET Reports
  /\ \A e \in unlocked \ Reports : Requires[e] \subseteq unlocked
  /\ unlocked \cap Reports \subseteq ordered
  /\ topics = IF unlocked \cap Reports # {} THEN Topics ELSE {}
  /\ states = [c \in Conditions |-> [pressure |-> 0, met |-> "no"]]
  /\ presented = {} /\ heard = {} /\ account = NoAccount /\ misjudged = FALSE
  /\ stage = "idle" /\ ask = [kind |-> "other", exhibit |-> Nothing]
  /\ plan = states /\ repaired = FALSE /\ reply = Silent
  /\ asked = {} /\ covered = {} /\ drop = Nothing /\ rest = {}
  /\ outcome = "answered"

\* A question is granted, with an exhibit of the file perhaps.
Ask(kind, exhibit) ==
  /\ stage = "idle" /\ \A c \in Conditions : states[c].pressure < MaxPressure \/ states[c].met # "no"
  /\ stage' = "judging" /\ outcome' = "pending"
  /\ ask' = [kind |-> kind, exhibit |-> exhibit]
  /\ plan' = states
  /\ UNCHANGED <<tables, told, repaired, reply, judgment>>

\* planUnlocks: one verdict per condition, all at once.
Judge ==
  /\ stage = "judging" /\ stage' = "drafting"
  /\ \E verdict \in [Open -> UNION {Verdicts(c) : c \in Open}] :
       /\ \A c \in Open : verdict[c] \in Verdicts(c)
       /\ plan' = [c \in Conditions |-> IF c \in Open THEN Advance(c, verdict[c]) ELSE states[c]]
  /\ UNCHANGED <<tables, told, ask, repaired, reply, judgment, outcome>>

\* The model may write anything; what it wrote is chosen when it is approved.
Draft ==
  /\ stage = "drafting" /\ stage' = "validating"
  /\ UNCHANGED <<tables, told, answer, judgment, outcome>>

\* deliver_answer, fallback_answer; what is not read again is forgotten.
Settle(r) ==
  /\ stage' = "ordering" /\ reply' = r
  /\ repaired' = FALSE /\ ask' = [ask EXCEPT !.kind = "other"]
  /\ UNCHANGED <<tables, heard, account, plan, judgment, outcome>>

\* The validator's word is taken, whatever it passes.  Of a reply that it should have
\* refused only that is kept: the histories of what was told are of no use then.
Approve ==
  /\ stage = "validating"
  /\ \/ \E r \in Reply : Faithful(r) /\ Settle(r) /\ UNCHANGED misjudged
     \/ Settle(Silent) /\ misjudged' = TRUE

FallBack == \E r \in Reply : IsFallback(r) /\ Settle(r) /\ UNCHANGED misjudged

\* A refusal, or no answer of the validator: repair, if that was not tried.
Refuse ==
  /\ stage = "validating"
  /\ \/ repaired /\ FallBack
     \/ /\ ~ repaired /\ stage' = "repairing"
        /\ UNCHANGED <<tables, told, answer, judgment, outcome>>

\* Mutant: that a repair was tried is forgotten.
RepairForgets ==
  /\ stage = "repairing"
  /\ \/ FallBack
     \/ stage' = "validating" /\ UNCHANGED <<tables, told, answer, judgment, outcome>>

\* repair_answer; a failing call falls back.
Repair ==
  /\ stage = "repairing"
  /\ \/ FallBack
     \/ /\ stage' = "validating" /\ repaired' = TRUE
        /\ UNCHANGED <<tables, told, ask, plan, reply, judgment, outcome>>

\* classifyInvestigationRequests: reports that are neither ordered nor here; none
\* if the call fails or quotes what was not said.
Order ==
  /\ stage = "ordering" /\ stage' = "accounting"
  /\ asked' \in SUBSET (Reports \ (ordered \cup Told))
  /\ UNCHANGED <<tables, told, answer, covered, drop, rest, outcome>>

\* classifyInitialAccount, until the first account is complete.
Account ==
  /\ stage = "accounting" /\ stage' = "hosting"
  /\ covered' \in IF topics = Topics THEN {{}} ELSE SUBSET Topics
  /\ UNCHANGED <<tables, told, answer, asked, drop, rest, outcome>>

-----------------------------------------------------------------------------
(* judgeHostAction                                                         *)

Judges(next, e, others) ==
  /\ stage' = next /\ drop' = e /\ rest' = others
  /\ UNCHANGED <<tables, told, answer, asked, covered, outcome>>

\* The first call: it fails or wants another phase; it names an exhibit, of the
\* candidates or not; or it sees nothing to do, and those that the question could
\* bring are tried one by one.
Host ==
  /\ stage = "hosting"
  /\ \/ Judges("saving", Nothing, {})
     \/ \E e \in Candidates : Judges("confirming", e, {})
     \/ Judges("recovering", Nothing, {e \in Candidates \cap Related : Requires[e] # {}})

Recover ==
  /\ stage = "recovering"
  /\ \/ rest = {} /\ Judges("saving", Nothing, {})
     \/ \E e \in rest :
          /\ \A f \in rest : e <= f
          /\ \/ Judges("saving", e, {})
             \/ Judges("recovering", Nothing, rest \ {e})

\* A second call must agree; it may fail too.
Confirm == stage = "confirming" /\ \E e \in {drop, Nothing} : Judges("saving", e, {})

-----------------------------------------------------------------------------

Resets ==
  /\ stage' = "idle" /\ ask' = [kind |-> "other", exhibit |-> Nothing]
  /\ plan' = states' /\ repaired' = FALSE /\ reply' = Silent
  /\ asked' = {} /\ covered' = {} /\ drop' = Nothing /\ rest' = {}

\* commitGameUpdate
Save ==
  /\ stage = "saving"
  /\ unlocked' = Told \cup ({drop} \ {Nothing})
  /\ states' = plan
  /\ presented' = Shown
  /\ ordered' = ordered \cup asked
  /\ topics' = topics \cup covered
  /\ heard' = heard \cup reply.tells
  /\ account' = IF reply.account = NoAccount THEN account ELSE reply.account
  /\ UNCHANGED misjudged
  /\ outcome' = "answered"
  /\ Resets

\* Only these end a question without an answer: there is no draft, a table cannot
\* be read or written, or the worker is gone.
Abandons == UNCHANGED <<tables, told>> /\ outcome' = "abandoned" /\ Resets

DraftFails   == stage = "drafting" /\ Abandons
StorageFails == stage \in {"judging", "ordering", "saving"} /\ Abandons
Dies         == stage # "idle" /\ Abandons

\* applyHostHelp, for a discovery ...
HelpTell(c) ==
  /\ c \in Open /\ states[c].pressure < MaxPressure
  /\ states' = [states EXCEPT ![c] = [pressure |-> @.pressure + 1, met |-> "host"]]
  /\ unlocked' = unlocked \cup ({Gives[c]} \ {Nothing})
  /\ heard' = heard \cup ({c} \cap Admissions)

\* ... or for the next exhibit.
HelpArrive ==
  /\ \E e \in Candidates : (\A f \in Candidates : e <= f) /\ unlocked' = unlocked \cup {e}
  /\ UNCHANGED <<states, heard>>

Help ==
  /\ stage = "idle"
  /\ (\E c \in Conditions : HelpTell(c)) \/ HelpArrive
  /\ plan' = states'
  /\ UNCHANGED <<presented, ordered, topics, account, misjudged, stage, ask, repaired,
                 reply, judgment, outcome>>

Proceed == \/ Judge \/ Draft \/ Approve \/ Refuse \/ Repair \/ Order \/ Account
           \/ Host \/ Recover \/ Confirm \/ Save

Next ==
  \/ \E kind \in Kinds, exhibit \in unlocked \cup {Nothing} : Ask(kind, exhibit)
  \/ Proceed \/ DraftFails \/ StorageFails \/ Dies \/ Help

\* Every call has a timeout and every stage a next one.
Spec == Init /\ [][Next]_vars /\ WF_vars(Proceed)

-----------------------------------------------------------------------------
(* Properties.                                                             *)

TypeOK ==
  /\ unlocked \subseteq Evidence /\ presented \subseteq unlocked
  /\ states \in [Conditions -> State] /\ plan \in [Conditions -> State]
  /\ ordered \subseteq Reports /\ asked \subseteq Reports
  /\ topics \subseteq Topics /\ covered \subseteq Topics
  /\ heard \subseteq Admissions /\ account \in Accounts \cup {NoAccount}
  /\ misjudged \in BOOLEAN
  /\ stage \in Stages
  /\ ask \in [kind : Kinds, exhibit : unlocked \cup {Nothing}]
  /\ reply \in Reply /\ repaired \in BOOLEAN
  /\ drop \in Evidence \cup {Nothing} /\ rest \subseteq Evidence
  /\ outcome \in {"pending", "answered", "abandoned"}

\* As long as the validator model has passed no reply that it should have refused,
\* what the room has heard a suspect admit is exactly what the game counts as
\* admitted: refusals, repairs, failing calls, the fallback, abandoned questions and
\* discoveries that the host helped with never bring the two apart.
HeardIsAdmitted == ~ misjudged => heard = Met(states)

\* Nor does a suspect return to an account that was superseded: neither the fallback
\* nor anything else but the validator's error tells an older one.
AccountsMoveOn == [][~ misjudged' => account' >= account]_vars

\* Every question is answered in the end, unless there is no draft, no storage or
\* no worker: the judges of conditions, orders, first accounts and exhibits are
\* optional, and refusals do not go round in circles.
QuestionsAreAnswered == outcome = "pending" ~> outcome \in {"answered", "abandoned"}

\* At most so many calls are left of an answer.
StepsLeft ==
  CASE stage = "judging"    -> Cardinality(Evidence) + 10
    [] stage = "drafting"   -> Cardinality(Evidence) + 9
    [] stage = "validating" -> Cardinality(Evidence) + (IF repaired THEN 6 ELSE 8)
    [] stage = "repairing"  -> Cardinality(Evidence) + 7
    [] stage = "ordering"   -> Cardinality(Evidence) + 5
    [] stage = "accounting" -> Cardinality(Evidence) + 4
    [] stage = "hosting"    -> Cardinality(Evidence) + 3
    [] stage = "recovering" -> Cardinality(rest) + 2
    [] stage = "confirming" -> 2
    [] stage = "saving"     -> 1
    [] OTHER                -> 0

\* Every step of an answer, refused, failed or not, leaves fewer of them: one
\* repair and one round of the exhibits is all the going back there is.
FewerLeft  == StepsLeft \in Nat /\ StepsLeft' \in Nat /\ StepsLeft' < StepsLeft
CallsRunOut == [][stage # "idle" => FewerLeft]_vars

\* And no stage waits for what may not be there: when the model is of no use there
\* is a reply to fall back on, and of the exhibits to try there is a first.
FallsBack ==
  /\ stage \in {"validating", "repairing"} => \E r \in Reply : IsFallback(r)
  /\ stage = "recovering" => rest = {} \/ \E e \in rest : \A f \in rest : e <= f

\* The pipeline makes the answers of the story, and nothing else of it.
Suspects == {Suspect} \cup {ReportOn[e] : e \in Reports}
Story == INSTANCE Investigation WITH
  Speaker <- [c \in Conditions |-> Suspect],
  Chapters <- << [type |-> "interview", round |-> 2, suspect |-> Suspect,
                  prerequisites |-> {}, shows |-> {}] >>,
  Taps <- {}, LastFile <- 1, MaxVisits <- 1,
  phase <- "interrogation", chapter <- 1,
  visits <- [s \in Suspects |-> 1],
  orders <- [e \in Reports |-> IF e \in ordered THEN 1 ELSE -1],
  topics <- [s \in Suspects |-> IF s = Suspect THEN topics ELSE {}],
  tap <- [t \in {} |-> 0], opened <- {1}
AnswersOfTheStory == [][UNCHANGED Story!vars \/ Story!Answer \/ Story!Help]_vars
=============================================================================
