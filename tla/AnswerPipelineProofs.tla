------------------------ MODULE AnswerPipelineProofs ------------------------
(* Theorems about AnswerPipeline.                                          *)
EXTENDS AnswerPipeline, LeastAndGreatest, FiniteSetTheorems, TLAPS

-----------------------------------------------------------------------------
(* The inductive invariant.                                                *)

After == {"ordering", "accounting", "hosting", "recovering", "confirming", "saving"}

\* Between questions nothing is planned, and nothing is judged before a reply.
Resting ==
  /\ stage = "idle" => plan = states /\ ask.exhibit = Nothing
  /\ stage \notin After => asked = {} /\ drop = Nothing /\ rest = {}

\* A condition is left as it was, or its gate was open and it advanced.
Planned ==
  \A c \in Conditions :
    plan[c] = states[c] \/ (c \in Open /\ \E v \in Verdicts(c) : plan[c] = Advance(c, v))

\* The bound, for what the question can still press.
Bounded ==
  stage # "idle" => \A c \in Conditions : states[c].pressure < MaxPressure \/ states[c].met # "no"

\* A reply that was settled on, and not by the validator's error, tells what is new
\* and nothing that is not admitted, in the account that stands.
ReplyFits == stage \in After /\ ~ misjudged => Faithful(reply)

\* What the judges chose is of the candidates.
Chosen ==
  /\ asked \subseteq Reports \ (ordered \cup Told)
  /\ drop \in Candidates \cup {Nothing} /\ rest \subseteq Candidates

\* No later account comes before the last one that was told.
AccountStands == ~ misjudged /\ account # NoAccount => Stands(account, Met(states), presented)

IInv == TypeOK /\ Resting /\ Planned /\ Bounded /\ ReplyFits /\ Chosen
        /\ HeardIsAdmitted /\ AccountStands

-----------------------------------------------------------------------------
(* Data.                                                                   *)

LEMMA SilentTypes == Silent \in Reply /\ NoAccount \notin Accounts /\ NoAccount \in Int
  BY VoicesAssumption DEF Silent, Reply, NoAccount, Accounts

LEMMA AccountTypes == Accounts \subseteq Nat
<1>1. Len(Alibis) \in Nat /\ Len(Layers) \in Nat
  BY VoicesAssumption
<1>2. QED
  BY <1>1 DEF Accounts

LEMMA MetTypes == \A s : Met(s) \subseteq Admissions
  BY DEF Met

LEMMA GivesTypes == \A c \in Conditions : {Gives[c]} \ {Nothing} \subseteq Evidence
  BY CuesAssumption

LEMMA ToldTypes ==
  ASSUME TypeOK
  PROVE  Told \subseteq Evidence /\ unlocked \subseteq Told
  BY GivesTypes DEF Told, TypeOK

LEMMA ShownTypes ==
  ASSUME TypeOK
  PROVE  Shown \subseteq unlocked /\ presented \subseteq Shown /\ Nothing \notin Shown
  BY ExhibitsAssumption DEF TypeOK, Shown

LEMMA CandidateTypes ==
  ASSUME TypeOK
  PROVE  Candidates \subseteq Evidence
  BY ExhibitsAssumption DEF Candidates

LEMMA AdvanceTypes ==
  ASSUME TypeOK, NEW c \in Conditions, NEW v
  PROVE  Advance(c, v) \in State
  BY DEF TypeOK, Advance, Pressed, State

\* What is admitted stays admitted.
LEMMA AdmissionsGrow ==
  ASSUME Planned
  PROVE  Met(states) \subseteq Met(plan)
<1>1. ASSUME NEW c \in Admissions, states[c].met # "no"
      PROVE  plan[c].met # "no"
  <2>1. c \in Conditions /\ c \notin Open
    BY <1>1 DEF Admissions, Open, Pending
  <2>2. plan[c] = states[c]
    BY <2>1 DEF Planned
  <2>3. QED
    BY <1>1, <2>2
<1>2. QED
  BY <1>1 DEF Met

\* The fallback is a reply that the validator has nothing against.
LEMMA FallbackFaithful ==
  ASSUME TypeOK, NEW r \in Reply, IsFallback(r)
  PROVE  Faithful(r)
<1> DEFINE a == Met(plan)
           p == Shown
<1>1. a \in SUBSET Admissions /\ p \in SUBSET Evidence
  BY MetTypes, ShownTypes DEF TypeOK
<1>2. Newly \subseteq r.tells /\ r.tells \subseteq Met(plan)
  BY DEF IsFallback, Newly
<1>3. ASSUME r.account # NoAccount
      PROVE  Current(r.account, a, p)
  <2>1. Established(r.account)
    BY <1>3 DEF IsFallback
  <2>2. CASE Prepared # {}
    <3>1. PICK i \in Prepared : r.account = (IF Layers[i].account THEN ByLayer(i) ELSE NoAccount)
      BY <2>1, <2>2 DEF Established
    <3>2. Layers[i].account /\ r.account = ByLayer(i)
      BY <1>3, <3>1
    <3>3. i \in Overrides(a, p) /\ \E x \in Layers[i].answers : x.shown \subseteq p
      BY <3>1, <3>2 DEF Prepared, Overrides
    <3>4. QED
      BY <1>1, <3>2, <3>3, SupersedingAssumption
  <2>3. CASE Prepared = {}
    BY <1>3, <2>1, <2>3 DEF Established
  <2>4. QED
    BY <2>2, <2>3
<1>4. QED
  BY <1>2, <1>3 DEF Faithful

-----------------------------------------------------------------------------
(* The invariant is kept.                                                  *)

LEMMA InitInvariant == Init => IInv
<1> SUFFICES ASSUME Init
             PROVE  IInv
  OBVIOUS
<1>1. states \in [Conditions -> State]
  BY DEF Init, State
<1>2. TypeOK
  BY <1>1, SilentTypes DEF Init, TypeOK, Stages, Kinds
<1>3. Planned /\ Resting /\ Bounded /\ AccountStands
  BY DEF Init, Planned, Resting, Bounded, AccountStands, After
<1>4. ReplyFits /\ Chosen
  BY DEF Init, ReplyFits, After, Chosen
<1>5. HeardIsAdmitted
  BY DEF Init, HeardIsAdmitted, Met, Admissions
<1>6. QED
  BY <1>2, <1>3, <1>4, <1>5 DEF IInv

\* A step that leaves the tables, the plan and the exhibit leaves the context.
LEMMA SameContext ==
  ASSUME UNCHANGED <<tables, plan>>, ask'.exhibit = ask.exhibit
  PROVE  /\ Shown' = Shown /\ Newly' = Newly /\ Told' = Told
         /\ Open' = Open /\ Candidates' = Candidates
         /\ Met(states)' = Met(states) /\ Met(plan)' = Met(plan)
<1>1. Shown' = Shown /\ Newly' = Newly
  BY DEF tables, Shown, Newly, Met
<1>2. Told' = Told /\ Met(states)' = Met(states) /\ Met(plan)' = Met(plan)
  BY DEF tables, Told, Met
<1>3. Open' = Open
  BY <1>1 DEF tables, Open, Pending
<1>4. Candidates' = Candidates
  BY <1>2 DEF Candidates
<1>5. QED
  BY <1>1, <1>2, <1>3, <1>4

\* The steps between a question and its commit or its end.
LEMMA QuietStep ==
  ASSUME IInv, UNCHANGED <<tables, heard, account, plan, outcome>>, ask'.exhibit = ask.exhibit,
         misjudged' \in BOOLEAN, misjudged => misjudged',
         ask' \in [kind : Kinds, exhibit : unlocked \cup {Nothing}],
         stage # "idle", stage' \in Stages \ {"idle"},
         reply' \in Reply, repaired' \in BOOLEAN, covered' \subseteq Topics,
         (stage' \in After /\ ~ misjudged') => Faithful(reply'),
         stage' \notin After => asked' = {} /\ drop' = Nothing /\ rest' = {},
         asked' \subseteq Reports \ (ordered \cup Told),
         drop' \in Candidates \cup {Nothing}, rest' \subseteq Candidates
  PROVE  IInv'
<1> USE DEF IInv
<1>1. UNCHANGED <<tables, plan>>
  OBVIOUS
<1>2. TypeOK'
  BY CandidateTypes DEF TypeOK, tables, told
<1>3. Resting' /\ Bounded'
  BY DEF Resting, Bounded, tables
<1>4. Planned'
  BY <1>1, SameContext DEF Planned, Advance, Pressed, Verdicts, tables
<1>5. ReplyFits'
  <2>1. SUFFICES ASSUME stage' \in After, ~ misjudged'
                 PROVE  Faithful(reply)'
    BY DEF ReplyFits
  <2>2. Faithful(reply')
    BY <2>1
  <2>3. QED
    BY <1>1, <2>2, SameContext DEF Faithful
<1>6. Chosen'
  BY <1>1, SameContext DEF Chosen, tables
<1>7. HeardIsAdmitted' /\ AccountStands'
  <2>1. Met(states)' = Met(states) /\ presented' = presented /\ UNCHANGED <<heard, account>>
    BY SameContext DEF tables
  <2>2. ~ misjudged' => ~ misjudged
    OBVIOUS
  <2>3. QED
    BY <2>1, <2>2 DEF HeardIsAdmitted, AccountStands
<1>8. QED
  BY <1>2, <1>3, <1>4, <1>5, <1>6, <1>7

LEMMA AskStep ==
  ASSUME IInv, NEW kind \in Kinds, NEW exhibit \in unlocked \cup {Nothing}, Ask(kind, exhibit)
  PROVE  IInv'
<1> USE DEF IInv
<1>1. TypeOK'
  BY DEF Ask, TypeOK, tables, told, judgment, Stages
<1>2. Resting' /\ Planned' /\ Bounded'
  BY DEF Ask, Resting, Planned, Bounded, After, tables, judgment
<1>3. ReplyFits'
  BY DEF Ask, ReplyFits, After
<1>4. Chosen'
  <2>1. asked = {} /\ drop = Nothing /\ rest = {}
    BY DEF Ask, Resting, After
  <2>2. QED
    BY <2>1 DEF Ask, Chosen, judgment
<1>5. HeardIsAdmitted' /\ AccountStands'
  <2>1. Met(states)' = Met(states) /\ presented' = presented /\ UNCHANGED told
    BY DEF Ask, tables, told, Met
  <2>2. QED
    BY <2>1 DEF HeardIsAdmitted, AccountStands, told
<1>6. QED
  BY <1>1, <1>2, <1>3, <1>4, <1>5

LEMMA JudgeStep ==
  ASSUME IInv, Judge
  PROVE  IInv'
<1> USE DEF IInv
<1>1. PICK verdict \in [Open -> UNION {Verdicts(c) : c \in Open}] :
        /\ \A c \in Open : verdict[c] \in Verdicts(c)
        /\ plan' = [c \in Conditions |-> IF c \in Open THEN Advance(c, verdict[c]) ELSE states[c]]
  BY DEF Judge
<1>2. /\ UNCHANGED <<tables, told, ask, reply, repaired, judgment, outcome>>
      /\ stage = "judging" /\ stage' = "drafting"
  BY DEF Judge
<1>3. \A c \in Conditions : states[c] \in State /\ \A v : Advance(c, v) \in State
  BY AdvanceTypes DEF TypeOK
<1>4. plan' \in [Conditions -> State]
  BY <1>1, <1>3
<1>5. TypeOK'
  BY <1>2, <1>4 DEF TypeOK, tables, told, judgment, Stages
<1>6. asked = {} /\ drop = Nothing /\ rest = {}
  BY <1>2 DEF Resting, After
<1>7. Resting' /\ Bounded' /\ ReplyFits'
  BY <1>2, <1>6 DEF Resting, Bounded, ReplyFits, After, tables, judgment
<1>8. Open' = Open
  BY <1>2 DEF Open, Pending, Shown, tables
<1>9. Planned'
  <2>1. SUFFICES ASSUME NEW c \in Conditions
                 PROVE  \/ plan'[c] = states'[c]
                        \/ c \in Open' /\ \E v \in Verdicts(c)' : plan'[c] = Advance(c, v)'
    BY DEF Planned
  <2>2. states' = states
    BY <1>2 DEF tables
  <2>3. CASE c \in Open
    <3>1. Verdicts(c)' = Verdicts(c) /\ Advance(c, verdict[c])' = Advance(c, verdict[c])
      BY <2>2 DEF Verdicts, Advance, Pressed
    <3>2. plan'[c] = Advance(c, verdict[c])' /\ verdict[c] \in Verdicts(c)'
      BY <1>1, <2>3, <3>1
    <3>3. QED
      BY <1>8, <2>3, <3>2
  <2>4. CASE c \notin Open
    BY <1>1, <2>2, <2>4
  <2>5. QED
    BY <2>3, <2>4
<1>10. Chosen'
  BY <1>2, <1>6 DEF Chosen, judgment
<1>11. HeardIsAdmitted' /\ AccountStands'
  <2>1. Met(states)' = Met(states) /\ presented' = presented /\ UNCHANGED told
    BY <1>2 DEF tables, told, Met
  <2>2. QED
    BY <2>1 DEF HeardIsAdmitted, AccountStands, told
<1>12. QED
  BY <1>5, <1>7, <1>9, <1>10, <1>11

\* A settled reply: a faithful one, the fallback, or an error of the validator.
LEMMA SettleStep ==
  ASSUME IInv, stage \in {"validating", "repairing"}, NEW r \in Reply, Settle(r),
         \/ Faithful(r) /\ UNCHANGED misjudged
         \/ misjudged' = TRUE
  PROVE  IInv'
<1> USE DEF IInv
<1>1. asked = {} /\ drop = Nothing /\ rest = {}
  BY DEF Resting, After
<1>2. /\ UNCHANGED <<tables, heard, account, plan, judgment, outcome>>
      /\ stage' = "ordering" /\ reply' = r /\ repaired' = FALSE
      /\ ask' = [ask EXCEPT !.kind = "other"]
  BY DEF Settle
<1>3. /\ ask' \in [kind : Kinds, exhibit : unlocked \cup {Nothing}]
      /\ ask'.exhibit = ask.exhibit
  BY <1>2 DEF TypeOK, Kinds
<1>4. covered \subseteq Topics /\ misjudged' \in BOOLEAN /\ (misjudged => misjudged')
  BY DEF TypeOK
<1>5. QED
  BY <1>1, <1>2, <1>3, <1>4, QuietStep DEF Stages, After, judgment

LEMMA AnswerStep ==
  ASSUME IInv, Draft \/ Approve \/ Refuse \/ Repair
  PROVE  IInv'
<1>1. CASE /\ stage \in {"validating", "repairing"}
           /\ \E r \in Reply : /\ Settle(r)
                              /\ \/ Faithful(r) /\ UNCHANGED misjudged
                                 \/ misjudged' = TRUE
  <2>1. PICK r \in Reply : Settle(r) /\ ((Faithful(r) /\ UNCHANGED misjudged) \/ misjudged' = TRUE)
    BY <1>1
  <2>2. CASE Faithful(r) /\ UNCHANGED misjudged
    BY <1>1, <2>1, <2>2, SettleStep
  <2>3. CASE misjudged' = TRUE
    BY <1>1, <2>1, <2>3, SettleStep
  <2>4. QED
    BY <2>1, <2>2, <2>3
<1>2. CASE /\ UNCHANGED <<tables, told, ask, plan, reply, judgment, outcome>>
           /\ stage \notin {"idle"} \cup After
           /\ stage' \in Stages \ ({"idle"} \cup After) /\ repaired' \in BOOLEAN
  <2>1. /\ asked = {} /\ drop = Nothing /\ rest = {} /\ covered \subseteq Topics
        /\ ask \in [kind : Kinds, exhibit : unlocked \cup {Nothing}] /\ reply \in Reply
    BY <1>2 DEF IInv, Resting, TypeOK
  <2>2. QED
    BY <1>2, <2>1, QuietStep DEF judgment, told, IInv, TypeOK
<1>3. (Refuse \/ Repair) /\ FallBack =>
        /\ stage \in {"validating", "repairing"}
        /\ \E r \in Reply : Settle(r) /\ Faithful(r) /\ UNCHANGED misjudged
  BY FallbackFaithful DEF FallBack, Refuse, Repair, IInv
<1>4. CASE Approve
  BY <1>1, <1>4, SilentTypes DEF Approve
<1>5. CASE (Refuse \/ Repair) /\ FallBack
  BY <1>1, <1>3, <1>5
<1>6. CASE Draft \/ ((Refuse \/ Repair) /\ ~ FallBack)
  BY <1>2, <1>6 DEF Draft, Refuse, Repair, Stages, After, answer, IInv, TypeOK
<1>7. QED
  BY <1>4, <1>5, <1>6

LEMMA JudgmentStep ==
  ASSUME IInv, Order \/ Account \/ Host \/ Recover \/ Confirm
  PROVE  IInv'
<1> USE DEF IInv
<1>1. /\ UNCHANGED <<tables, told, answer, outcome>>
      /\ stage \in After /\ stage' \in After
      /\ asked' \subseteq Reports \ (ordered \cup Told) /\ covered' \subseteq Topics
      /\ drop' \in Candidates \cup {Nothing} /\ rest' \subseteq Candidates
  <2>1. CASE Order
    BY <2>1 DEF Order, After, Chosen, TypeOK
  <2>2. CASE Account
    BY <2>2 DEF Account, After, Chosen, TypeOK
  <2>3. CASE Host
    BY <2>3 DEF Host, Judges, After, Chosen, TypeOK
  <2>4. CASE Recover
    BY <2>4 DEF Recover, Judges, After, Chosen, TypeOK
  <2>5. CASE Confirm
    BY <2>5 DEF Confirm, Judges, After, Chosen, TypeOK
  <2>6. QED
    BY <2>1, <2>2, <2>3, <2>4, <2>5
<1>2. /\ ask \in [kind : Kinds, exhibit : unlocked \cup {Nothing}]
      /\ reply \in Reply /\ repaired \in BOOLEAN
      /\ UNCHANGED misjudged /\ misjudged \in BOOLEAN
      /\ ~ misjudged => Faithful(reply)
  BY <1>1 DEF TypeOK, ReplyFits, told
<1>3. After \subseteq Stages \ {"idle"}
  BY DEF After, Stages
<1>4. QED
  BY <1>1, <1>2, <1>3, QuietStep DEF answer, told

\* At rest again.
LEMMA RestingStep ==
  ASSUME Resets, HeardIsAdmitted', AccountStands',
         misjudged' \in BOOLEAN, unlocked' \subseteq Evidence, presented' \subseteq unlocked',
         states' \in [Conditions -> State], ordered' \subseteq Reports, topics' \subseteq Topics,
         heard' \subseteq Admissions, account' \in Accounts \cup {NoAccount},
         outcome' \in {"answered", "abandoned"}
  PROVE  IInv'
<1>1. TypeOK'
  BY SilentTypes DEF TypeOK, Resets, Kinds, Stages
<1>2. Resting' /\ Planned' /\ Bounded' /\ ReplyFits' /\ Chosen'
  BY DEF Resets, Resting, Planned, Bounded, ReplyFits, Chosen, After
<1>3. QED
  BY <1>1, <1>2 DEF IInv

\* What the commit makes of the account: the one of the reply, no earlier than the
\* one before; none of those to come is earlier still.
LEMMA SaveAccount ==
  ASSUME IInv, Save, ~ misjudged
  PROVE  account' >= account /\ AccountStands'
<1> USE DEF IInv
<1> DEFINE a == Met(plan)
<1>1. /\ a \in SUBSET Admissions /\ Shown \in SUBSET Evidence
      /\ Met(states) \subseteq a /\ presented \subseteq Shown
  BY MetTypes, ShownTypes, AdmissionsGrow DEF TypeOK
<1>2. Met(states)' = a /\ presented' = Shown
  BY DEF Save, Met
<1>3. reply.account \in Accounts \cup {NoAccount} /\ account \in Accounts \cup {NoAccount}
  BY DEF TypeOK, Reply
<1>4. CASE reply.account = NoAccount
  <2>1. account' = account
    BY <1>4 DEF Save
  <2>2. account # NoAccount => Stands(account, a, Shown)
    BY <1>1 DEF AccountStands, Stands
  <2>3. AccountStands'
    BY <1>2, <2>1, <2>2 DEF AccountStands
  <2>4. QED
    BY <1>3, <2>1, <2>3, AccountTypes, SilentTypes
<1>5. CASE reply.account # NoAccount
  <2>1. account' = reply.account
    BY <1>5 DEF Save
  <2>2. Current(reply.account, a, Shown)
    BY <1>5 DEF ReplyFits, Faithful, Save, After
  <2>3. Stands(reply.account, a, Shown)
    BY <1>1, <1>3, <1>5, <2>2, SupersedingAssumption
  <2>4. account # NoAccount => account <= reply.account
    BY <1>1, <1>3, <1>5, <2>2 DEF AccountStands, Stands
  <2>5. AccountStands'
    BY <1>2, <2>1, <2>3 DEF AccountStands
  <2>6. reply.account \in Nat /\ (account \in Nat \/ account = -1)
    BY <1>3, <1>5, AccountTypes DEF NoAccount
  <2>7. account \in Nat => account # NoAccount
    BY DEF NoAccount
  <2>8. account <= reply.account
    BY <2>4, <2>6, <2>7
  <2>9. QED
    BY <2>1, <2>5, <2>6, <2>8
<1>6. QED
  BY <1>4, <1>5

LEMMA SaveStep ==
  ASSUME IInv, Save
  PROVE  IInv'
<1> USE DEF IInv
<1>0. misjudged' = misjudged
  BY DEF Save
<1>1. AccountStands'
  BY <1>0, SaveAccount DEF AccountStands
<1>2. ~ misjudged => Newly \subseteq reply.tells /\ reply.tells \subseteq Met(plan)
  BY DEF Save, ReplyFits, Faithful, After
<1>3. HeardIsAdmitted'
  <2>0. SUFFICES ASSUME ~ misjudged
                 PROVE  heard' = Met(states)'
    BY <1>0 DEF HeardIsAdmitted
  <2>1. heard' = Met(states) \cup reply.tells
    BY <2>0 DEF Save, HeardIsAdmitted
  <2>2. Met(states)' = Met(plan)
    BY DEF Save, Met
  <2>3. Met(states) \cup reply.tells = Met(plan)
    BY <1>2, <2>0, AdmissionsGrow DEF Newly
  <2>4. QED
    BY <2>1, <2>2, <2>3
<1>4. /\ unlocked' \subseteq Evidence /\ presented' \subseteq unlocked'
      /\ states' \in [Conditions -> State] /\ ordered' \subseteq Reports /\ topics' \subseteq Topics
  BY ToldTypes, ShownTypes DEF Save, TypeOK
<1>5. heard' \subseteq Admissions /\ account' \in Accounts \cup {NoAccount}
      /\ misjudged' \in BOOLEAN
  BY DEF Save, TypeOK, Reply
<1>6. QED
  BY <1>1, <1>3, <1>4, <1>5, RestingStep DEF Save

LEMMA AbandonStep ==
  ASSUME IInv, Abandons
  PROVE  IInv'
<1>1. UNCHANGED <<tables, told>>
  BY DEF Abandons
<1>2. HeardIsAdmitted' /\ AccountStands'
  <2>1. Met(states)' = Met(states) /\ presented' = presented /\ UNCHANGED told
    BY <1>1 DEF tables, told, Met
  <2>2. QED
    BY <2>1 DEF IInv, HeardIsAdmitted, AccountStands, told
<1>3. QED
  BY <1>1, <1>2, RestingStep DEF Abandons, IInv, TypeOK, tables, told

LEMMA HelpStep ==
  ASSUME IInv, Help
  PROVE  IInv'
<1> USE DEF IInv
<1>1. /\ UNCHANGED <<presented, ordered, topics, account, misjudged, ask, repaired, reply, judgment, outcome>>
      /\ stage = "idle" /\ stage' = "idle" /\ plan' = states'
  BY DEF Help
<1>2. /\ unlocked \subseteq unlocked' /\ unlocked' \subseteq Evidence
      /\ states' \in [Conditions -> State] /\ heard' \subseteq Admissions
      /\ HeardIsAdmitted' /\ Met(states) \subseteq Met(states)'
  <2>1. ASSUME NEW c \in Conditions, HelpTell(c)
        PROVE  <1>2!:
    <3>1. states[c] \in State /\ states[c].met = "no"
      BY <2>1 DEF TypeOK, HelpTell, Open, Pending
    <3>2. states' \in [Conditions -> State]
      BY <2>1, <3>1 DEF HelpTell, TypeOK, State
    <3>3. \A d \in Conditions : states'[d].met # "no" <=> states[d].met # "no" \/ d = c
      BY <2>1, <3>1 DEF HelpTell, TypeOK, State
    <3>4. Met(states)' = Met(states) \cup ({c} \cap Admissions)
      BY <3>3 DEF Met, Admissions
    <3>5. QED
      BY <1>1, <2>1, <3>2, <3>4, GivesTypes, MetTypes DEF HelpTell, TypeOK, HeardIsAdmitted
  <2>2. CASE HelpArrive
    BY <1>1, <2>2, CandidateTypes DEF HelpArrive, TypeOK, HeardIsAdmitted, Met
  <2>3. QED
    BY <2>1, <2>2 DEF Help
<1>3. TypeOK'
  BY <1>1, <1>2 DEF TypeOK, judgment
<1>4. Resting' /\ Planned' /\ Bounded' /\ ReplyFits'
  BY <1>1 DEF Resting, Planned, Bounded, ReplyFits, After, judgment
<1>5. Chosen'
  BY <1>1 DEF Resting, Chosen, After, judgment
<1>6. AccountStands'
  <2>1. ~ misjudged /\ account # NoAccount => Stands(account, Met(states)', presented)
    BY <1>2 DEF AccountStands, Stands
  <2>2. QED
    BY <1>1, <2>1 DEF AccountStands
<1>7. QED
  BY <1>2, <1>3, <1>4, <1>5, <1>6

LEMMA Induction == IInv /\ [Next]_vars => IInv'
<1> SUFFICES ASSUME IInv, [Next]_vars
             PROVE  IInv'
  OBVIOUS
<1>1. ASSUME NEW kind \in Kinds, NEW exhibit \in unlocked \cup {Nothing}, Ask(kind, exhibit)
      PROVE  IInv'
  BY <1>1, AskStep
<1>2. CASE Proceed
  BY <1>2, JudgeStep, AnswerStep, JudgmentStep, SaveStep DEF Proceed
<1>3. CASE DraftFails \/ StorageFails \/ Dies
  BY <1>3, AbandonStep DEF DraftFails, StorageFails, Dies
<1>4. CASE Help
  BY <1>4, HelpStep
<1>5. CASE UNCHANGED vars
  <2>1. UNCHANGED <<tables, told, stage, answer, judgment, outcome>>
    BY <1>5 DEF vars
  <2>2. UNCHANGED <<tables, plan>> /\ ask'.exhibit = ask.exhibit
    BY <2>1 DEF answer
  <2>3. TypeOK' /\ Resting' /\ Bounded' /\ HeardIsAdmitted'
    BY <2>1, <2>2, SameContext DEF IInv, TypeOK, Resting, Bounded, HeardIsAdmitted, tables, told, answer, judgment
  <2>4. Planned'
    BY <2>1, <2>2, SameContext DEF IInv, Planned, Advance, Pressed, Verdicts, tables, answer
  <2>5. ReplyFits'
    BY <2>1, <2>2, SameContext DEF IInv, ReplyFits, Faithful, answer, told
  <2>6. Chosen'
    BY <2>1, <2>2, SameContext DEF IInv, Chosen, tables, judgment
  <2>7. AccountStands'
    BY <2>1, <2>2, SameContext DEF IInv, AccountStands, tables, told
  <2>8. QED
    BY <2>3, <2>4, <2>5, <2>6, <2>7 DEF IInv
<1>6. QED
  BY <1>1, <1>2, <1>3, <1>4, <1>5 DEF Next

-----------------------------------------------------------------------------
(* Theorems.                                                               *)

\* The variables of a pipeline keep their types, for every case: exhibits that are
\* presented come from the file, and what the judges order and bring exists.
THEOREM PipelineTypes == Spec => []TypeOK
<1>1. IInv => TypeOK
  BY DEF IInv
<1>2. QED
  BY <1>1, InitInvariant, Induction, PTL DEF Spec

\* As long as the validator model errs on no reply, what the room has heard a suspect
\* admit is what the game counts as admitted (HeardIsAdmitted), for every case and
\* whatever is drafted, refused, repaired, abandoned or replaced by the fallback.
THEOREM HeardWhatIsAdmitted == Spec => []HeardIsAdmitted
<1>1. IInv => HeardIsAdmitted
  BY DEF IInv
<1>2. QED
  BY <1>1, InitInvariant, Induction, PTL DEF Spec

\* Nor does a suspect of a case whose accounts supersede one another return to an
\* earlier one (AccountsMoveOn).
THEOREM SuspectsMoveOn == Spec => AccountsMoveOn
<1>1. IInv /\ [Next]_vars => [~ misjudged' => account' >= account]_vars
  <2> SUFFICES ASSUME IInv, [Next]_vars, ~ misjudged'
               PROVE  account' >= account
    OBVIOUS
  <2>2. account \in Int
    BY AccountTypes, SilentTypes DEF IInv, TypeOK
  <2>3. CASE Save
    BY <2>3, SaveAccount DEF Save
  <2>4. CASE account' = account
    BY <2>2, <2>4
  <2>5. Save \/ account' = account
    BY DEF Next, Ask, Proceed, Judge, Draft, Approve, Refuse, Repair, FallBack, Settle, Order, Account,
           Host, Recover, Confirm, Judges, DraftFails, StorageFails, Dies, Abandons, Help, vars, told
  <2>6. QED
    BY <2>3, <2>4, <2>5
<1>2. QED
  BY <1>1, InitInvariant, Induction, PTL DEF Spec, AccountsMoveOn

-----------------------------------------------------------------------------
(* A question comes to an end.                                             *)

LEMMA ExhibitsCount ==
  ASSUME TypeOK
  PROVE  /\ Cardinality(Evidence) \in Nat /\ Cardinality(rest) \in Nat /\ IsFiniteSet(rest)
         /\ Cardinality(rest) <= Cardinality(Evidence)
<1>1. IsFiniteSet(Evidence) /\ rest \subseteq Evidence
  BY ExhibitsAssumption DEF TypeOK
<1>2. IsFiniteSet(rest) /\ Cardinality(rest) <= Cardinality(Evidence)
  BY <1>1, FS_Subset
<1>3. QED
  BY <1>1, <1>2, FS_CardinalityType

\* One exhibit less to try.
LEMMA RecoverShrinks ==
  ASSUME TypeOK, NEW e \in rest
  PROVE  Cardinality(rest \ {e}) + 1 = Cardinality(rest) /\ Cardinality(rest \ {e}) \in Nat
<1> DEFINE fewer == rest \ {e}
<1>1. IsFiniteSet(rest) /\ Cardinality(rest) \in Nat
  BY ExhibitsCount
<1>2. IsFiniteSet(fewer) /\ Cardinality(fewer) = Cardinality(rest) - 1
  BY <1>1, FS_RemoveElement
<1>3. Cardinality(fewer) \in Nat
  BY <1>2, FS_CardinalityType
<1> HIDE DEF fewer
<1>4. Cardinality(fewer) + 1 = Cardinality(rest)
  BY <1>1, <1>2, <1>3
<1>5. QED
  BY <1>3, <1>4 DEF fewer

LEMMA StepShrinks ==
  ASSUME IInv, IInv', stage # "idle", Proceed \/ DraftFails \/ StorageFails \/ Dies
  PROVE  StepsLeft \in Nat /\ StepsLeft' \in Nat /\ StepsLeft' < StepsLeft
<1> DEFINE n == Cardinality(Evidence)
           r == Cardinality(rest)
<1>1. n \in Nat /\ r \in Nat /\ r <= n /\ r' \in Nat /\ r' <= n
  <2>1. TypeOK /\ TypeOK'
    BY DEF IInv
  <2>2. r' \in Nat /\ r' <= n
    <3>1. rest' \subseteq Evidence /\ IsFiniteSet(Evidence)
      BY <2>1, ExhibitsAssumption DEF TypeOK
    <3>2. IsFiniteSet(rest') /\ Cardinality(rest') <= n
      BY <3>1, FS_Subset
    <3>3. QED
      BY <3>2, FS_CardinalityType
  <2>3. QED
    BY <2>1, <2>2, ExhibitsCount
<1>2. stage \in Stages \ {"idle"}
  BY DEF IInv, TypeOK
<1> HIDE DEF n
<1>0. StepsLeft \in Nat /\ StepsLeft' \in Nat
  BY <1>1 DEF StepsLeft, n
<1>3. CASE stage' = "idle"
  <2>1. StepsLeft' = 0
    BY <1>3 DEF StepsLeft
  <2>2. StepsLeft >= 1
    BY <1>1, <1>2 DEF StepsLeft, Stages, n
  <2>3. QED
    BY <1>0, <2>1, <2>2
<1>4. CASE Judge
  BY <1>1, <1>4 DEF Judge, StepsLeft, n
<1>5. CASE Draft
  BY <1>1, <1>5 DEF Draft, StepsLeft, n
<1>6. CASE Approve \/ Refuse \/ Repair
  <2>1. /\ stage = "validating" \/ stage = "repairing"
        /\ \/ stage' = "ordering"
           \/ stage = "validating" /\ ~ repaired /\ stage' = "repairing"
           \/ stage = "repairing" /\ repaired' /\ stage' = "validating"
    BY <1>6 DEF Approve, Refuse, Repair, FallBack, Settle
  <2>2. QED
    BY <1>1, <2>1 DEF StepsLeft, n
<1>7. CASE Order \/ Account
  BY <1>1, <1>7 DEF Order, Account, StepsLeft, n
<1>8. CASE Host \/ Confirm
  <2>1. \/ stage = "hosting" /\ stage' \in {"saving", "confirming", "recovering"}
        \/ stage = "confirming" /\ stage' = "saving"
    BY <1>8 DEF Host, Confirm, Judges
  <2>2. QED
    BY <1>1, <2>1 DEF StepsLeft, n
<1>9. CASE Recover
  <2>1. CASE stage' = "saving"
    BY <1>1, <1>9, <2>1 DEF Recover, StepsLeft
  <2>2. CASE stage' # "saving"
    <3>1. PICK e \in rest : rest' = rest \ {e}
      BY <1>9, <2>2 DEF Recover, Judges
    <3>2. r' + 1 = r
      BY <3>1, RecoverShrinks DEF IInv
    <3>3. stage = "recovering" /\ stage' = "recovering"
      BY <1>9, <2>2 DEF Recover, Judges
    <3>4. QED
      BY <1>1, <3>2, <3>3 DEF StepsLeft
  <2>3. QED
    BY <2>1, <2>2
<1>10. Save \/ DraftFails \/ StorageFails \/ Dies => stage' = "idle"
  BY DEF Save, DraftFails, StorageFails, Dies, Abandons, Resets
<1>11. QED
  BY <1>0, <1>3, <1>4, <1>5, <1>6, <1>7, <1>8, <1>9, <1>10 DEF Proceed

\* Every step of an answer leaves fewer (CallsRunOut), for every case and whatever
\* the models answer: a question takes at most as many calls as the exhibits and
\* ten more.  Liveness (QuestionsAreAnswered) needs in addition that the calls have
\* timeouts, which is the fairness of Spec, and that no stage is stuck, below.
THEOREM AnswersEnd == Spec => CallsRunOut
<1>1. IInv /\ IInv' /\ [Next]_vars => [stage # "idle" => FewerLeft]_vars
  <2> SUFFICES ASSUME IInv, IInv', Next, stage # "idle"
               PROVE  FewerLeft
    OBVIOUS
  <2>1. Proceed \/ DraftFails \/ StorageFails \/ Dies
    BY DEF Next, Ask, Help
  <2>2. QED
    BY <2>1, StepShrinks DEF FewerLeft
<1>2. QED
  BY <1>1, InitInvariant, Induction, PTL DEF Spec, CallsRunOut

\* The last of some layers, and the last account.
LEMMA LastLayer ==
  ASSUME NEW S \in SUBSET (DOMAIN Layers), S # {}
  PROVE  \E i \in S : IsLast(i, S)
<1>1. Len(Layers) \in Nat /\ S \in SUBSET (0 .. Len(Layers))
  BY VoicesAssumption
<1>2. QED
  BY <1>1, GreatestNatural DEF IsLast

LEMMA AnAccountStands ==
  ASSUME NEW a, NEW p
  PROVE  \E n \in Accounts : Current(n, a, p)
<1>1. Len(Alibis) \in Nat /\ DOMAIN Alibis = 1 .. Len(Alibis)
      /\ Len(Layers) \in Nat /\ DOMAIN Layers = 1 .. Len(Layers)
  BY VoicesAssumption
<1>2. CASE Overrides(a, p) # {}
  <2>1. Overrides(a, p) \subseteq DOMAIN Layers
    BY DEF Overrides, Active
  <2>2. PICK i \in Overrides(a, p) : IsLast(i, Overrides(a, p))
    BY <1>2, <2>1, LastLayer
  <2>3. ByLayer(i) \in Accounts
    BY <1>1, <2>1 DEF ByLayer, Accounts
  <2>4. QED
    BY <1>2, <2>2, <2>3 DEF Current
<1>3. CASE Overrides(a, p) = {}
  <2> DEFINE T == {0} \cup {k \in DOMAIN Alibis : Alibis[k] \in a}
  <2>1. T \in SUBSET (0 .. Len(Alibis)) /\ T # {}
    BY <1>1
  <2>2. PICK n \in T : \A k \in T : k <= n
    <3> HIDE DEF T
    <3> QED
      BY <1>1, <2>1, GreatestNatural
  <2>3. n \in Accounts
    BY <1>1, <2>1 DEF Accounts
  <2>4. QED
    BY <1>3, <2>2, <2>3 DEF Current, IsLast
<1>4. QED
  BY <1>2, <1>3

\* Whatever a model does, there is a reply that needs none (FallsBack), and of the
\* exhibits to try there is a first.
THEOREM NoStageIsStuck == Spec => []FallsBack
<1>1. ASSUME IInv
      PROVE  FallsBack
  <2>1. TypeOK
    BY <1>1 DEF IInv
  <2>2. \E r \in Reply : IsFallback(r)
    <3>1. Newly \subseteq Admissions
      BY MetTypes DEF Newly
    <3>2. CASE Newly # {}
      <4>1. [tells |-> Newly, account |-> NoAccount] \in Reply
        BY <3>1 DEF Reply
      <4>2. QED
        BY <3>2, <4>1 DEF IsFallback
    <3>3. CASE Newly = {}
      <4>1. PICK n \in Accounts \cup {NoAccount} : Established(n)
        <5>1. CASE Prepared # {}
          <6>1. Prepared \subseteq DOMAIN Layers
            BY DEF Prepared, Active
          <6>2. PICK i \in Prepared : IsLast(i, Prepared)
            BY <5>1, <6>1, LastLayer
          <6>3. ByLayer(i) \in Accounts
            <7>1. Len(Alibis) \in Nat /\ Len(Layers) \in Nat /\ i \in 1 .. Len(Layers)
              BY <6>1, VoicesAssumption
            <7>2. QED
              BY <7>1 DEF ByLayer, Accounts
          <6>4. QED
            BY <5>1, <6>2, <6>3 DEF Established
        <5>2. CASE Prepared = {}
          BY <5>2, AnAccountStands DEF Established
        <5>3. QED
          BY <5>1, <5>2
      <4>2. [tells |-> Newly, account |-> n] \in Reply
        BY <3>1 DEF Reply
      <4>3. QED
        BY <3>3, <4>1, <4>2 DEF IsFallback
    <3>4. QED
      BY <3>2, <3>3
  <2>3. rest = {} \/ \E e \in rest : \A f \in rest : e <= f
    <3>1. rest \in SUBSET Nat
      BY <2>1, ExhibitsAssumption DEF TypeOK
    <3>2. QED
      BY <3>1, LeastNatural
  <2>4. QED
    BY <2>2, <2>3 DEF FallsBack
<1>2. QED
  BY <1>1, InitInvariant, Induction, PTL DEF Spec

-----------------------------------------------------------------------------
(* The pipeline and the story.                                             *)

LEMMA StoryStage == Story!Stage = Suspect /\ Story!Interviewing
  BY SuspectAssumption DEF Story!Stage, Story!Interviewing

LEMMA StoryPending == Story!Pending = Pending
  BY StoryStage DEF Story!Pending, Pending

LEMMA StoryCandidates == Story!Candidates(Told) = Candidates
  BY DEF Story!Candidates, Candidates, Story!Reports, Reports

\* What the story makes of the orders and of the first account.
StoryOrders == [e \in Reports |-> IF e \in ordered THEN 1 ELSE -1]
StoryTopics == [s \in Suspects |-> IF s = Suspect THEN topics ELSE {}]

\* What a condition becomes, in the story's terms.
Becomes(c, v) ==
  [pressure |-> Story!Pressed(c, v), met |-> IF Story!Fires(c, v) THEN "adjudicator" ELSE "no"]

LEMMA StoryVerdict ==
  ASSUME TypeOK, Planned, NEW c \in Pending
  PROVE  \E v \in Story!Verdicts : plan[c] = Becomes(c, v)
<1>1. c \in Conditions /\ states[c].met = "no" /\ states[c] \in State
  BY DEF Pending, TypeOK
<1>2. CASE plan[c] = states[c]
  <2>1. plan[c] = [pressure |-> states[c].pressure, met |-> "no"]
    BY <1>1, <1>2 DEF State
  <2>2. states[c].pressure + 0 = states[c].pressure
    BY <1>1 DEF State
  <2>3. plan[c] = Becomes(c, "closed")
    BY <2>1, <2>2 DEF Becomes, Story!Pressed, Story!Fires
  <2>4. QED
    BY <2>3 DEF Story!Verdicts
<1>3. ASSUME NEW v \in Verdicts(c), plan[c] = Advance(c, v)
      PROVE  \E w \in Story!Verdicts : plan[c] = Becomes(c, w)
  <2>1. v \in {"met", "near", "far", "unavailable"}
    BY <1>3 DEF Verdicts
  <2>2. CASE v = "unavailable"
    <3>1. plan[c] = Becomes(c, "far")
      BY <1>3, <2>2 DEF Advance, Pressed, Becomes, Story!Pressed, Story!Fires
    <3>2. QED
      BY <3>1 DEF Story!Verdicts
  <2>3. CASE v # "unavailable"
    <3>1. plan[c] = Becomes(c, v)
      BY <1>3 DEF Advance, Pressed, Becomes, Story!Pressed, Story!Fires
    <3>2. QED
      BY <2>1, <2>3, <3>1 DEF Story!Verdicts
  <2>4. QED
    BY <2>2, <2>3
<1>4. QED
  BY <1>1, <1>2, <1>3 DEF Planned

\* An answer of the story, but for the first account.
StoryAnswers(verdict) ==
  LET fired == {c \in Story!Pending : Story!Fires(c, verdict[c])}
      file  == unlocked \cup ({Gives[c] : c \in fired} \ {Nothing})
  IN  /\ \A c \in Story!Pending : Story!Pressed(c, verdict[c]) <= MaxPressure
      /\ states' = [c \in Conditions |->
                      IF c \in Story!Pending
                      THEN [pressure |-> Story!Pressed(c, verdict[c]),
                            met |-> IF c \in fired THEN "adjudicator" ELSE "no"]
                      ELSE states[c]]
      /\ \E asks \in SUBSET {e \in Story!Reports : StoryOrders[e] = Story!Unordered /\ e \notin file} :
           StoryOrders' = [e \in Story!Reports |->
                             IF e \in asks THEN Story!OrderVisit(e) ELSE StoryOrders[e]]
      /\ \/ unlocked' = file
         \/ \E e \in Story!Candidates(file) : unlocked' = file \cup {e}

LEMMA SaveAnswers ==
  ASSUME IInv, Save
  PROVE  Story!Answer
<1> USE DEF IInv
<1> DEFINE verdict == [c \in Pending |-> CHOOSE v \in Story!Verdicts : plan[c] = Becomes(c, v)]
           fired == {c \in Story!Pending : Story!Fires(c, verdict[c])}
           file  == unlocked \cup ({Gives[c] : c \in fired} \ {Nothing})
<1>1. \A c \in Pending : verdict[c] \in Story!Verdicts /\ plan[c] = Becomes(c, verdict[c])
  BY StoryVerdict
<1>2. verdict \in [Story!Pending -> Story!Verdicts]
  BY <1>1, StoryPending
<1>3. \A c \in Conditions \ Pending : plan[c] = states[c]
  BY DEF Planned, Open
<1>4. \A c \in Conditions : plan[c].met # states[c].met <=> c \in fired
  <2>1. SUFFICES ASSUME NEW c \in Conditions
                 PROVE  plan[c].met # states[c].met <=> c \in fired
    OBVIOUS
  <2>2. CASE c \in Pending
    <3>1. plan[c].met = IF Story!Fires(c, verdict[c]) THEN "adjudicator" ELSE "no"
      BY <1>1, <2>2 DEF Becomes
    <3>2. states[c].met = "no"
      BY <2>2 DEF Pending
    <3>3. QED
      BY <2>2, <3>1, <3>2, StoryPending
  <2>3. QED
    BY <1>3, <2>2, StoryPending
<1>5. file = Told
  <2>1. fired = {d \in Conditions : plan[d].met # states[d].met}
    BY <1>4, StoryPending DEF Pending
  <2>2. QED
    BY <2>1 DEF Told
<1>6. \A c \in Story!Pending : Story!Pressed(c, verdict[c]) <= MaxPressure
  <2>1. SUFFICES ASSUME NEW c \in Pending
                 PROVE  Story!Pressed(c, verdict[c]) <= MaxPressure
    BY StoryPending
  <2>2. states[c].pressure < MaxPressure /\ states[c].pressure \in Nat
    BY DEF Save, Bounded, Pending, TypeOK, State
  <2>3. QED
    BY <2>2, PressureAssumption DEF Story!Pressed
<1>7. states' = [c \in Conditions |->
                   IF c \in Story!Pending
                   THEN [pressure |-> Story!Pressed(c, verdict[c]),
                         met |-> IF c \in fired THEN "adjudicator" ELSE "no"]
                   ELSE states[c]]
  <2>1. \A c \in Conditions :
          plan[c] = IF c \in Story!Pending
                    THEN [pressure |-> Story!Pressed(c, verdict[c]),
                          met |-> IF c \in fired THEN "adjudicator" ELSE "no"]
                    ELSE states[c]
    BY <1>1, <1>3, StoryPending DEF Becomes
  <2>2. states' = plan /\ plan \in [Conditions -> State]
    BY DEF Save, TypeOK
  <2>3. QED
    BY <2>1, <2>2
<1>8. /\ asked \subseteq {e \in Story!Reports : StoryOrders[e] = Story!Unordered /\ e \notin file}
      /\ StoryOrders' = [e \in Story!Reports |->
                           IF e \in asked THEN Story!OrderVisit(e) ELSE StoryOrders[e]]
  <2>1. asked \subseteq Reports \ (ordered \cup file)
    BY <1>5 DEF Chosen
  <2>2. \A e \in Reports : Story!OrderVisit(e) = 1
    BY StoryStage DEF Story!OrderVisit, Suspects
  <2>3. ordered' = ordered \cup asked
    BY DEF Save
  <2>4. QED
    BY <2>1, <2>2, <2>3 DEF Story!Reports, Reports, StoryOrders, Story!Unordered
<1>9. \/ unlocked' = file
      \/ \E e \in Story!Candidates(file) : unlocked' = file \cup {e}
  <2>1. unlocked' = file \cup ({drop} \ {Nothing})
    BY <1>5 DEF Save
  <2>2. drop = Nothing \/ drop \in Story!Candidates(file)
    BY <1>5, StoryCandidates DEF Chosen
  <2>3. CASE drop = Nothing
    BY <2>1, <2>3
  <2>4. CASE drop \in Story!Candidates(file)
    <3>1. drop # Nothing
      BY <2>4, <1>5, StoryCandidates, CandidateTypes, ExhibitsAssumption
    <3>2. QED
      BY <2>1, <2>4, <3>1
  <2>5. QED
    BY <2>2, <2>3, <2>4
<1>10. /\ covered \in Story!Accounts
       /\ StoryTopics' = [StoryTopics EXCEPT ![Story!Stage] = @ \cup covered]
  <2>1. covered \subseteq Topics /\ topics' = topics \cup covered
    BY DEF Save, TypeOK
  <2>2. QED
    BY <2>1, StoryStage DEF StoryTopics, Story!Accounts, Story!Topics, Topics, Suspects
<1> HIDE DEF verdict
<1>11. \E asks \in SUBSET {e \in Story!Reports : StoryOrders[e] = Story!Unordered /\ e \notin file} :
         StoryOrders' = [e \in Story!Reports |->
                           IF e \in asks THEN Story!OrderVisit(e) ELSE StoryOrders[e]]
  BY <1>8
<1>12. \E more \in Story!Accounts :
         StoryTopics' = [StoryTopics EXCEPT ![Story!Stage] = @ \cup more]
  BY <1>10
<1>13. QED
  <2>1. \E v \in [Story!Pending -> Story!Verdicts] : StoryAnswers(v)
    BY <1>2, <1>6, <1>7, <1>9, <1>11 DEF StoryAnswers
  <2>2. QED
    BY <2>1, <1>12, StoryStage, Zenon DEF Story!Answer, StoryAnswers, StoryOrders, StoryTopics

LEMMA HelpHelps ==
  ASSUME IInv, Help
  PROVE  Story!Help
<1> USE DEF IInv
<1>1. (\E c \in Story!Pending : Story!HelpTell(c)) \/ Story!HelpArrive
  <2>1. ASSUME NEW c \in Conditions, HelpTell(c)
        PROVE  c \in Story!Pending /\ Story!HelpTell(c)
    BY <2>1, StoryPending DEF HelpTell, Open, Story!HelpTell
  <2>2. ASSUME HelpArrive
        PROVE  Story!HelpArrive
    <3>1. plan = states
      BY DEF Help, Resting
    <3>2. Told = unlocked
      BY <3>1 DEF Told
    <3>3. Candidates = Story!Candidates(unlocked)
      BY <3>2, StoryCandidates
    <3>4. Candidates \subseteq Evidence
      BY CandidateTypes
    <3>5. PICK e \in Candidates : (\A f \in Candidates : e <= f) /\ unlocked' = unlocked \cup {e}
      BY <2>2 DEF HelpArrive
    <3>6. states' = states
      BY <2>2 DEF HelpArrive
    <3>7. QED
      BY <3>3, <3>4, <3>5, <3>6 DEF Story!HelpArrive, Story!IsFirst
  <2>3. QED
    BY <2>1, <2>2 DEF Help
<1>2. StoryOrders' = StoryOrders /\ StoryTopics' = StoryTopics
  BY DEF Help, StoryOrders, StoryTopics
<1>3. QED
  BY <1>1, <1>2, StoryStage, Zenon DEF Story!Help, Story!events, StoryOrders, StoryTopics

LEMMA TablesAreTheStory ==
  ASSUME UNCHANGED tables
  PROVE  UNCHANGED Story!vars
<1>1. StoryOrders' = StoryOrders /\ StoryTopics' = StoryTopics
  BY DEF tables, StoryOrders, StoryTopics
<1>2. unlocked' = unlocked /\ states' = states
  BY DEF tables
<1>3. QED
  BY <1>1, <1>2, Zenon DEF Story!vars, Story!events, StoryOrders, StoryTopics

\* What the pipeline commits, and what the host's help commits, is for every case
\* an answer or a help of the story (AnswersOfTheStory): the story's one-step
\* answers hide nothing that the chain of calls could do to the tables.
THEOREM PipelineTellsTheStory == Spec => AnswersOfTheStory
<1>1. IInv /\ [Next]_vars => [UNCHANGED Story!vars \/ Story!Answer \/ Story!Help]_vars
  <2> SUFFICES ASSUME IInv, [Next]_vars
               PROVE  UNCHANGED Story!vars \/ Story!Answer \/ Story!Help
    OBVIOUS
  <2>1. CASE Save
    BY <2>1, SaveAnswers
  <2>2. CASE Help
    BY <2>2, HelpHelps
  <2>3. CASE UNCHANGED tables
    BY <2>3, TablesAreTheStory
  <2>4. Save \/ Help \/ UNCHANGED tables
    BY DEF Next, Ask, Proceed, Judge, Draft, Approve, Refuse, Repair, FallBack, Settle, Order, Account,
           Host, Recover, Confirm, Judges, DraftFails, StorageFails, Dies, Abandons, vars
  <2>5. QED
    BY <2>1, <2>2, <2>3, <2>4
<1>2. QED
  BY <1>1, InitInvariant, Induction, PTL DEF Spec, AnswersOfTheStory
=============================================================================
