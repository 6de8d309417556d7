------------------------ MODULE InvestigationProofs -------------------------
(* Proofs about Investigation, for every case.  What is proved of reports  *)
(* and recalls needs a case whose entrance is no interview: neither the    *)
(* first chapter nor the one that opens the interrogation.                 *)
(* Then about CaseCheck, which decides what cases there are.               *)
EXTENDS Investigation, CaseCheck, SequenceTheorems, FiniteSetTheorems, TLAPS

\* What the story keeps, of the case file ...
FileInv == TypeOK /\ DiscoveryOrder /\ MetIsInFile

\* ... and of the visits: a suspect with reports who was ever on stage has a
\* visit on record, and no order is filed under a visit still to come.
VisitsInv ==
  /\ TypeOK
  /\ chapter \in opened
  /\ \A s \in Suspects : topics[s] # {} => s \in Called
  /\ \A e \in Reports : ReportOn[e] \in Called => visits[ReportOn[e]] > 0
  /\ \A e \in Reports : orders[e] <= visits[ReportOn[e]]

-----------------------------------------------------------------------------
(* Chapters and evidence.                                                  *)

LEMMA ChapterTypes ==
  /\ 1 \in Index
  /\ Index \subseteq Nat \ {0}
  /\ \A i \in Index : /\ Chapters[i].suspect \in Suspects \cup {NoSuspect}
                      /\ Chapters[i].shows \subseteq Evidence
                      /\ IsInterview(i) <=> Chapters[i].suspect \in Suspects
<1>1. Chapters \in Seq(Chapter) /\ Chapters # <<>>
  BY ChaptersAssumption
<1>2. Index = 1 .. Len(Chapters) /\ Len(Chapters) \in Nat /\ Len(Chapters) > 0
  BY <1>1 DEF Index
<1>3. \A i \in Index : Chapters[i] \in Chapter
  BY <1>1, <1>2
<1>4. QED
  BY <1>2, <1>3, ChaptersAssumption, NoSuspectAssumption DEF Chapter, IsInterview

LEMMA ToldTypes == Told \subseteq Evidence /\ \A c \in Conditions : {Gives[c]} \ {Nothing} \subseteq Told
  BY ConditionsAssumption DEF Told

LEMMA ShownTypes ==
  ASSUME NEW i \in Index
  PROVE  /\ Shown(i) \subseteq Evidence \ (Told \cup Reports)
         /\ \A e \in Shown(i) : Requires[e] \subseteq unlocked
  BY ChapterTypes DEF Shown

LEMMA DeliveredTypes ==
  ASSUME NEW s, NEW v
  PROVE  Delivered(s, v) \subseteq Reports /\ Reports \subseteq Evidence
  BY ReportsAssumption, EvidenceAssumption DEF Delivered

LEMMA CandidateTypes ==
  ASSUME NEW f, NEW e \in Candidates(f)
  PROVE  e \in Evidence \ Reports /\ Requires[e] \subseteq f
  BY EvidenceAssumption DEF Candidates

-----------------------------------------------------------------------------
(* What the actions do.                                                    *)

\* A change of chapter.
LEMMA SceneEffect ==
  ASSUME TypeOK, NEW i \in Index, SetScene(i)
  PROVE  /\ chapter' = i /\ opened' = opened \cup {i}
         /\ UNCHANGED <<phase, orders, topics, states>>
         /\ IsInterview(i) => ~ Blocked(Chapters[i].suspect)
         /\ \/ /\ ~ (IsInterview(i) /\ IsVisit(Chapters[i].suspect))
               /\ visits' = visits /\ unlocked' = unlocked \cup Shown(i)
            \/ /\ IsInterview(i) /\ IsVisit(Chapters[i].suspect)
               /\ \E v \in Nat : /\ IsLast(v, VisitsOf(Chapters[i].suspect))
                                 /\ visits' = [visits EXCEPT ![Chapters[i].suspect] = v + 1]
                                 /\ unlocked' = unlocked \cup Shown(i) \cup Delivered(Chapters[i].suspect, v + 1)
<1>1. 0 .. (MaxVisits - 1) \subseteq Nat
  BY StoryBoundsAssumption
<1>2. CASE ~ (IsInterview(i) /\ IsVisit(Chapters[i].suspect))
  BY <1>2 DEF SetScene, MayEnter, Opens
<1>3. CASE IsInterview(i) /\ IsVisit(Chapters[i].suspect)
  <2>1. Visit(i, Chapters[i].suspect)
    BY <1>3 DEF SetScene, MayEnter
  <2>2. QED
    BY <1>1, <1>3, <2>1, Zenon DEF SetScene, MayEnter, Opens, Visit
<1>4. QED
  BY <1>2, <1>3

\* The other changes of chapter do not interview anybody new, given a quiet
\* entrance.
Passage(i) ==
  /\ chapter' = i /\ opened' = opened \cup {i}
  /\ unlocked' = unlocked \cup Shown(i)
  /\ UNCHANGED <<events, states>>

Elsewhere == UNCHANGED <<phase, chapter, unlocked, events, states, opened>>

\* Every step, but for the taps.
LEMMA StepForms ==
  ASSUME TypeOK, [Next]_vars
  PROVE  \/ Elsewhere
         \/ \E i \in Index : SetScene(i)
         \/ \E i \in Index : /\ Passage(i)
                             /\ phase' \in {"interrogation", "accusation"}
                             /\ IsEntry(i) \/ ~ IsInterview(i)
         \/ Answer
         \/ Help
<1>1. CASE UNCHANGED vars
  BY <1>1 DEF vars, Elsewhere
<1>2. ASSUME NEW t \in Taps, NEW step \in {-1, 1}, Tap(t, step)
      PROVE  Elsewhere
  BY <1>2 DEF Tap, Elsewhere
<1>3. ASSUME NEW t \in Taps, TapFails(t)
      PROVE  Elsewhere
  BY <1>3 DEF TapFails, Elsewhere
<1>4. ASSUME NEW t \in Taps, TapOpens(t)
      PROVE  \/ \E i \in Index : SetScene(i)
             \/ \E i \in Index : Passage(i) /\ phase' = "interrogation" /\ IsEntry(i)
  <2>1. tap[t] \in Index
    BY <1>4 DEF TapOpens, TypeOK
  <2>2. QED
    BY <1>4, <2>1 DEF TapOpens, EnterPhase, Passage, Opens
<1>5. ASSUME NEW i \in Index, Choose(i)
      PROVE  SetScene(i)
  BY <1>5 DEF Choose
<1>6. CASE NextFile
  <2>1. PICK i \in Index : /\ IsFirst(i, FilesAfter(chapter))
                           /\ unlocked' = unlocked \cup Shown(i)
                           /\ Opens(i)
    BY <1>6 DEF NextFile
  <2>2. ~ IsInterview(i)
    BY <2>1 DEF IsFirst, FilesAfter
  <2>3. phase' \in {"interrogation", "accusation"} /\ UNCHANGED <<events, states>>
    BY <1>6 DEF NextFile
  <2>4. QED
    BY <2>1, <2>2, <2>3 DEF Passage, Opens
<1>7. CASE OpenAccusation
  <2>1. PICK i \in Index : IsFirst(i, In("accusation")) /\ EnterPhase("accusation", i)
    BY <1>7 DEF OpenAccusation
  <2>2. PhaseOf(i) = "accusation"
    BY <2>1 DEF IsFirst, In
  <2>3. ~ IsInterview(i)
    BY <2>2 DEF PhaseOf, IsInterview
  <2>4. QED
    BY <2>1, <2>3 DEF EnterPhase, Passage, Opens
<1>8. QED
  BY <1>1, <1>2, <1>3, <1>4, <1>5, <1>6, <1>7 DEF Next

\* An answer: what it adds to the file, and what it leaves alone.
LEMMA AnswerEffect ==
  ASSUME TypeOK, Answer
  PROVE  /\ Stage \in Suspects
         /\ UNCHANGED <<phase, chapter, visits, opened>>
         /\ \E account \in SUBSET Topics : topics' = [topics EXCEPT ![Stage] = @ \cup account]
         /\ \E asked \in SUBSET Reports : orders' = [e \in Reports |-> IF e \in asked THEN OrderVisit(e) ELSE orders[e]]
         /\ states' \in [Conditions -> [pressure : Nat, met : {"no", "adjudicator", "host"}]]
         /\ \E told \in SUBSET Told :
              /\ \A c \in Conditions :
                   \/ states'[c].met # states[c].met /\ (Gives[c] # Nothing => Gives[c] \in told)
                   \/ states'[c].met \in {"no", states[c].met}
              /\ \/ unlocked' = unlocked \cup told
                 \/ \E e \in Candidates(unlocked \cup told) : unlocked' = unlocked \cup told \cup {e}
<1>1. PICK verdict \in [Pending -> Verdicts] :
        LET fired == {c \in Pending : Fires(c, verdict[c])}
            told  == unlocked \cup ({Gives[c] : c \in fired} \ {Nothing})
        IN  /\ \A c \in Pending : Pressed(c, verdict[c]) <= MaxPressure
            /\ states' = [c \in Conditions |->
                            IF c \in Pending
                            THEN [pressure |-> Pressed(c, verdict[c]),
                                  met |-> IF c \in fired THEN "adjudicator" ELSE "no"]
                            ELSE states[c]]
            /\ \E asked \in SUBSET {e \in Reports : orders[e] = Unordered /\ e \notin told} :
                 orders' = [e \in Reports |-> IF e \in asked THEN OrderVisit(e) ELSE orders[e]]
            /\ \/ unlocked' = told
               \/ \E e \in Candidates(told) : unlocked' = told \cup {e}
  BY DEF Answer
<1> DEFINE fired == {c \in Pending : Fires(c, verdict[c])}
           told  == {Gives[c] : c \in fired} \ {Nothing}
<1>2. Stage \in Suspects
  BY ChapterTypes DEF Answer, Interviewing, Stage, TypeOK
<1>3. fired \subseteq Conditions /\ told \in SUBSET Told
  BY ConditionsAssumption DEF Pending, Told
<1>4. \A c \in Pending : Pressed(c, verdict[c]) \in Nat
  BY DEF Pressed, Pending, TypeOK
<1>5. states' = [c \in Conditions |->
                   IF c \in Pending
                   THEN [pressure |-> Pressed(c, verdict[c]), met |-> IF c \in fired THEN "adjudicator" ELSE "no"]
                   ELSE states[c]]
  BY <1>1
<1>6. states' \in [Conditions -> [pressure : Nat, met : {"no", "adjudicator", "host"}]]
  BY <1>4, <1>5 DEF TypeOK
<1>7. ASSUME NEW c \in Conditions
      PROVE  \/ states'[c].met # states[c].met /\ (Gives[c] # Nothing => Gives[c] \in told)
             \/ states'[c].met \in {"no", states[c].met}
  <2>1. CASE c \in fired
    BY <2>1, <1>5 DEF Pending
  <2>2. CASE c \in Pending \ fired
    BY <2>2, <1>5
  <2>3. CASE c \notin Pending
    BY <2>3, <1>5
  <2>4. QED
    BY <2>1, <2>2, <2>3
<1>8. \/ unlocked' = unlocked \cup told
      \/ \E e \in Candidates(unlocked \cup told) : unlocked' = unlocked \cup told \cup {e}
  BY <1>1
<1>9. \E asked \in SUBSET Reports : orders' = [e \in Reports |-> IF e \in asked THEN OrderVisit(e) ELSE orders[e]]
  BY <1>1
<1>10. /\ UNCHANGED <<phase, chapter, visits, opened>>
       /\ \E account \in SUBSET Topics : topics' = [topics EXCEPT ![Stage] = @ \cup account]
  BY DEF Answer, Accounts
<1>11. QED
  BY <1>2, <1>3, <1>6, <1>7, <1>8, <1>9, <1>10

\* The host's help.
LEMMA HelpEffect ==
  ASSUME TypeOK, Help
  PROVE  /\ UNCHANGED <<phase, chapter, events, opened>>
         /\ \/ \E c \in Conditions :
                 /\ states' = [states EXCEPT ![c] = [pressure |-> @.pressure + 1, met |-> "host"]]
                 /\ unlocked' = unlocked \cup ({Gives[c]} \ {Nothing})
            \/ \E e \in Candidates(unlocked) : states' = states /\ unlocked' = unlocked \cup {e}
<1>1. UNCHANGED <<phase, chapter, events, opened>>
  BY DEF Help
<1>2. CASE \E c \in Pending : HelpTell(c)
  BY <1>1, <1>2, Zenon DEF HelpTell, Pending
<1>3. CASE HelpArrive
  BY <1>1, <1>3 DEF HelpArrive, IsFirst
<1>4. QED
  BY <1>2, <1>3 DEF Help

-----------------------------------------------------------------------------
(* The case file.                                                          *)

LEMMA InitTypes == Init => TypeOK
<1>1. SUFFICES ASSUME Init PROVE TypeOK
  OBVIOUS
<1>2. unlocked \subseteq Evidence
  BY <1>1, ChapterTypes DEF Init
<1>3. QED
  BY <1>1, <1>2, ChapterTypes DEF Init, TypeOK, Unordered

\* A new visit is a number.
LEMMA VisitTypes ==
  ASSUME TypeOK, NEW i \in Index, SetScene(i)
  PROVE  visits' \in [Suspects -> Nat]
<1>1. CASE visits' = visits
  BY <1>1 DEF TypeOK
<1>2. ASSUME NEW v \in Nat, visits' = [visits EXCEPT ![Chapters[i].suspect] = v + 1]
      PROVE  visits' \in [Suspects -> Nat]
  <2>1. visits \in [Suspects -> Nat] /\ v + 1 \in Nat
    BY DEF TypeOK
  <2>2. QED
    BY <1>2, <2>1
<1>3. visits' = visits \/ \E v \in Nat : visits' = [visits EXCEPT ![Chapters[i].suspect] = v + 1]
  BY SceneEffect, Zenon
<1>4. QED
  BY <1>1, <1>2, <1>3, Zenon

LEMMA NextTypes ==
  ASSUME TypeOK, [Next]_vars
  PROVE  TypeOK'
<1>1. tap' \in [Taps -> Index \cup {0}]
  <2>1. CASE UNCHANGED tap
    BY <2>1 DEF TypeOK
  <2>2. ASSUME NEW t \in Taps, tap' = [tap EXCEPT ![t] = 0]
        PROVE  tap' \in [Taps -> Index \cup {0}]
    BY <2>2 DEF TypeOK
  <2>3. ASSUME NEW t \in Taps, NEW step \in {-1, 1}, Tap(t, step)
        PROVE  tap' \in [Taps -> Index \cup {0}]
    <3>1. (IF chapter + step \in Index THEN chapter + step ELSE chapter) \in Index
      BY DEF TypeOK
    <3>2. QED
      BY <2>3, <3>1 DEF Tap, TypeOK
  <2>4. QED
    BY <2>1, <2>2, <2>3 DEF Next, vars, TapOpens, TapFails, Choose, NextFile, OpenAccusation, Answer, Help
<1>2. CASE Elsewhere
  BY <1>1, <1>2 DEF Elsewhere, events, TypeOK
<1>3. ASSUME NEW i \in Index, SetScene(i)
      PROVE  TypeOK'
  <2>1. unlocked' \subseteq Evidence
    BY <1>3, SceneEffect, ShownTypes, DeliveredTypes DEF TypeOK
  <2>2. QED
    BY <1>1, <1>3, <2>1, VisitTypes, SceneEffect DEF TypeOK
<1>4. ASSUME NEW i \in Index, Passage(i), phase' \in {"interrogation", "accusation"}
      PROVE  TypeOK'
  BY <1>1, <1>4, ShownTypes DEF Passage, events, TypeOK
<1>5. CASE Answer
  <2>1. unlocked' \subseteq Evidence
    <3>1. PICK told \in SUBSET Told :
            \/ unlocked' = unlocked \cup told
            \/ \E e \in Candidates(unlocked \cup told) : unlocked' = unlocked \cup told \cup {e}
      BY <1>5, AnswerEffect
    <3>2. unlocked \cup told \subseteq Evidence
      BY ToldTypes DEF TypeOK
    <3>3. QED
      BY <3>1, <3>2, CandidateTypes
  <2>2. topics' \in [Suspects -> SUBSET Topics]
    BY <1>5, AnswerEffect DEF TypeOK
  <2>3. orders' \in [Reports -> Nat \cup {Unordered}]
    <3>1. PICK asked \in SUBSET Reports : orders' = [e \in Reports |-> IF e \in asked THEN OrderVisit(e) ELSE orders[e]]
      BY <1>5, AnswerEffect
    <3>2. \A e \in Reports : OrderVisit(e) \in Nat
      BY ReportsAssumption DEF OrderVisit, TypeOK
    <3>3. QED
      BY <3>1, <3>2 DEF TypeOK
  <2>4. QED
    BY <1>1, <1>5, <2>1, <2>2, <2>3, AnswerEffect DEF TypeOK
<1>6. CASE Help
  <2>1. unlocked' \subseteq Evidence
    BY <1>6, HelpEffect, ToldTypes, CandidateTypes DEF TypeOK
  <2>2. states' \in [Conditions -> [pressure : Nat, met : {"no", "adjudicator", "host"}]]
    <3>1. ASSUME NEW c \in Conditions, states' = [states EXCEPT ![c] = [pressure |-> @.pressure + 1, met |-> "host"]]
          PROVE  states' \in [Conditions -> [pressure : Nat, met : {"no", "adjudicator", "host"}]]
      BY <3>1 DEF TypeOK
    <3>2. QED
      BY <1>6, <3>1, HelpEffect DEF TypeOK
  <2>3. QED
    BY <1>1, <1>6, <2>1, <2>2, HelpEffect DEF TypeOK, events
<1>7. QED
  BY <1>2, <1>3, <1>4, <1>5, <1>6, StepForms

\* Evidence is never taken back.
LEMMA FileGrows ==
  ASSUME TypeOK, [Next]_vars
  PROVE  unlocked \subseteq unlocked'
<1>1. ASSUME NEW i \in Index, SetScene(i)
      PROVE  unlocked \subseteq unlocked'
  BY <1>1, SceneEffect
<1>2. CASE Answer
  BY <1>2, AnswerEffect
<1>3. CASE Help
  BY <1>3, HelpEffect
<1>4. QED
  BY <1>1, <1>2, <1>3, StepForms DEF Elsewhere, Passage

\* What is new has its requirements in the file, unless it is told or a report.
LEMMA NewIsInOrder ==
  ASSUME TypeOK, [Next]_vars, NEW e \in unlocked' \ unlocked, e \notin Told \cup Reports
  PROVE  Requires[e] \subseteq unlocked'
<1>1. ASSUME NEW i \in Index, SetScene(i)
      PROVE  e \in Shown(i)
  BY <1>1, SceneEffect, DeliveredTypes
<1>2. ASSUME NEW i \in Index, Passage(i)
      PROVE  e \in Shown(i)
  BY <1>2 DEF Passage
<1>3. ASSUME NEW i \in Index, e \in Shown(i)
      PROVE  Requires[e] \subseteq unlocked'
  BY <1>3, ShownTypes, FileGrows
<1>4. CASE Answer
  <2>1. PICK told \in SUBSET Told :
          \/ unlocked' = unlocked \cup told
          \/ \E d \in Candidates(unlocked \cup told) : unlocked' = unlocked \cup told \cup {d}
    BY <1>4, AnswerEffect
  <2>2. e \in Candidates(unlocked \cup told) /\ unlocked' = unlocked \cup told \cup {e}
    BY <2>1
  <2>3. QED
    BY <2>2, CandidateTypes
<1>5. CASE Help
  <2>1. e \in Candidates(unlocked)
    BY <1>5, HelpEffect, ToldTypes
  <2>2. QED
    BY <2>1, CandidateTypes, FileGrows
<1>6. QED
  BY <1>1, <1>2, <1>3, <1>4, <1>5, StepForms DEF Elsewhere

LEMMA DiscoveryNext ==
  ASSUME FileInv, [Next]_vars
  PROVE  DiscoveryOrder'
<1>1. ASSUME NEW e \in unlocked' \ (Told \cup Reports)
      PROVE  Requires[e] \subseteq unlocked'
  <2>1. CASE e \in unlocked
    BY <2>1, <1>1, FileGrows DEF FileInv, DiscoveryOrder
  <2>2. CASE e \notin unlocked
    BY <2>2, <1>1, NewIsInOrder DEF FileInv
  <2>3. QED
    BY <2>1, <2>2
<1>2. QED
  BY <1>1 DEF DiscoveryOrder, Told

LEMMA MetNext ==
  ASSUME FileInv, [Next]_vars
  PROVE  MetIsInFile'
<1>1. TypeOK /\ MetIsInFile /\ unlocked \subseteq unlocked'
  BY FileGrows DEF FileInv
<1>2. ASSUME UNCHANGED states
      PROVE  MetIsInFile'
  BY <1>1, <1>2 DEF MetIsInFile
<1>3. CASE Answer
  <2>1. PICK told \in SUBSET Told :
          /\ \A c \in Conditions :
               \/ states'[c].met # states[c].met /\ (Gives[c] # Nothing => Gives[c] \in told)
               \/ states'[c].met \in {"no", states[c].met}
          /\ told \subseteq unlocked'
    BY <1>1, <1>3, AnswerEffect
  <2>2. QED
    BY <1>1, <2>1 DEF MetIsInFile
<1>4. CASE Help
  <2>1. ASSUME NEW c \in Conditions,
               states' = [states EXCEPT ![c] = [pressure |-> @.pressure + 1, met |-> "host"]],
               unlocked' = unlocked \cup ({Gives[c]} \ {Nothing})
        PROVE  MetIsInFile'
    <3>1. ASSUME NEW d \in Conditions, states'[d].met # "no", Gives[d] # Nothing
          PROVE  Gives[d] \in unlocked'
      <4>1. CASE d = c
        BY <2>1, <3>1, <4>1
      <4>2. CASE d # c
        BY <1>1, <2>1, <3>1, <4>2 DEF MetIsInFile, TypeOK
      <4>3. QED
        BY <4>1, <4>2
    <3>2. QED
      BY <3>1 DEF MetIsInFile
  <2>2. QED
    BY <1>1, <1>2, <1>4, <2>1, HelpEffect
<1>5. QED
  BY <1>1, <1>2, <1>3, <1>4, StepForms, SceneEffect DEF Elsewhere, Passage

LEMMA FileStart == Init => FileInv
<1>1. SUFFICES ASSUME Init PROVE FileInv
  OBVIOUS
<1>2. DiscoveryOrder /\ MetIsInFile
  BY <1>1 DEF Init, DiscoveryOrder, MetIsInFile
<1>3. QED
  BY <1>1, <1>2, InitTypes DEF FileInv

\* The case file's invariant holds whatever is tapped, asked, told and judged.
THEOREM FileInvariant == Spec => []FileInv
<1>1. FileInv /\ [Next]_vars => FileInv'
  BY NextTypes, DiscoveryNext, MetNext DEF FileInv
<1>2. QED
  BY <1>1, FileStart, PTL DEF Spec

\* The row, the events' sums and the unlock states keep their types.
THEOREM StoryTypes == Spec => []TypeOK
<1>1. FileInv => TypeOK
  BY DEF FileInv
<1>2. QED
  BY <1>1, FileInvariant, PTL

\* Exhibits enter the file after what they require, whoever brings them.
THEOREM ExhibitsInOrder == Spec => []DiscoveryOrder
<1>1. FileInv => DiscoveryOrder
  BY DEF FileInv
<1>2. QED
  BY <1>1, FileInvariant, PTL

\* A discovery that is recorded as made is in the file.
THEOREM DiscoveriesAreFiled == Spec => []MetIsInFile
<1>1. FileInv => MetIsInFile
  BY DEF FileInv
<1>2. QED
  BY <1>1, FileInvariant, PTL

-----------------------------------------------------------------------------
(* Nothing is taken back.                                                  *)

\* A phase ends in the next one.
LEMMA PhaseAdvances ==
  ASSUME TypeOK, [Next]_vars, phase' # phase
  PROVE  <<phase, phase'>> \in {<<"briefing", "interrogation">>, <<"interrogation", "accusation">>}
<1>1. ASSUME NEW t \in Taps, TapOpens(t)
      PROVE  phase = "briefing" /\ phase' = "interrogation"
  BY <1>1 DEF TapOpens, SetScene, EnterPhase
<1>2. CASE OpenAccusation
  BY <1>2 DEF OpenAccusation, EnterPhase
<1>3. QED
  BY <1>1, <1>2 DEF Next, vars, Tap, TapFails, Choose, SetScene, NextFile, Answer, Help

\* A call counts on from the last visit that is known.
LEMMA VisitsGrow ==
  ASSUME TypeOK, [Next]_vars, NEW s \in Suspects
  PROVE  visits[s] <= visits'[s]
<1>1. visits \in [Suspects -> Nat]
  BY DEF TypeOK
<1>2. ASSUME NEW i \in Index, SetScene(i)
      PROVE  visits[s] <= visits'[s]
  <2>1. CASE visits' = visits
    BY <1>1, <2>1
  <2>2. ASSUME NEW v \in Nat, IsLast(v, VisitsOf(Chapters[i].suspect)),
               visits' = [visits EXCEPT ![Chapters[i].suspect] = v + 1]
        PROVE  visits[s] <= visits'[s]
    <3>1. visits[Chapters[i].suspect] <= v
      BY <2>2 DEF IsLast, VisitsOf
    <3>2. QED
      BY <1>1, <2>2, <3>1
  <2>3. visits' = visits \/ \E v \in Nat : /\ IsLast(v, VisitsOf(Chapters[i].suspect))
                                          /\ visits' = [visits EXCEPT ![Chapters[i].suspect] = v + 1]
    BY <1>2, SceneEffect, Zenon
  <2>4. QED
    BY <2>1, <2>2, <2>3, Zenon
<1>3. CASE UNCHANGED visits
  BY <1>1, <1>3
<1>4. QED
  BY <1>2, <1>3, StepForms, AnswerEffect, HelpEffect DEF Elsewhere, Passage, events

\* An answer orders only what was not ordered, and judges only what is pending.
LEMMA AnswerKeeps ==
  ASSUME TypeOK, Answer
  PROVE  /\ \A e \in Reports : orders[e] # Unordered => orders'[e] = orders[e]
         /\ \A s \in Suspects : topics[s] \subseteq topics'[s]
         /\ \A c \in Conditions : /\ states[c].pressure <= states'[c].pressure
                                 /\ states[c].met # "no" => states'[c] = states[c]
<1>1. PICK verdict \in [Pending -> Verdicts] :
        LET fired == {c \in Pending : Fires(c, verdict[c])}
            told  == unlocked \cup ({Gives[c] : c \in fired} \ {Nothing})
        IN  /\ states' = [c \in Conditions |->
                            IF c \in Pending
                            THEN [pressure |-> Pressed(c, verdict[c]),
                                  met |-> IF c \in fired THEN "adjudicator" ELSE "no"]
                            ELSE states[c]]
            /\ \E asked \in SUBSET {e \in Reports : orders[e] = Unordered /\ e \notin told} :
                 orders' = [e \in Reports |-> IF e \in asked THEN OrderVisit(e) ELSE orders[e]]
  BY DEF Answer
<1>2. \A e \in Reports : orders[e] # Unordered => orders'[e] = orders[e]
  BY <1>1
<1>3. \A s \in Suspects : topics[s] \subseteq topics'[s]
  <2>1. PICK account \in SUBSET Topics : topics' = [topics EXCEPT ![Stage] = @ \cup account]
    BY AnswerEffect
  <2>2. QED
    BY <2>1 DEF TypeOK
<1>4. ASSUME NEW c \in Conditions
      PROVE  /\ states[c].pressure <= states'[c].pressure
             /\ states[c].met # "no" => states'[c] = states[c]
  <2>1. states[c].pressure \in Nat
    BY DEF TypeOK
  <2>2. CASE c \in Pending
    <3>1. states[c].met = "no" /\ states'[c].pressure = Pressed(c, verdict[c])
      BY <1>1, <2>2 DEF Pending
    <3>2. states[c].pressure <= Pressed(c, verdict[c])
      BY <2>1 DEF Pressed
    <3>3. QED
      BY <3>1, <3>2
  <2>3. CASE c \notin Pending
    BY <1>1, <2>1, <2>3
  <2>4. QED
    BY <2>2, <2>3
<1>5. QED
  BY <1>2, <1>3, <1>4

\* The host helps with what is pending.
LEMMA HelpKeeps ==
  ASSUME TypeOK, Help, NEW c \in Conditions
  PROVE  /\ states[c].pressure <= states'[c].pressure
         /\ states[c].met # "no" => states'[c] = states[c]
<1>1. states[c].pressure \in Nat /\ states \in [Conditions -> [pressure : Nat, met : {"no", "adjudicator", "host"}]]
  BY DEF TypeOK
<1>2. ASSUME NEW d \in Pending, HelpTell(d)
      PROVE  /\ states[c].pressure <= states'[c].pressure
             /\ states[c].met # "no" => states'[c] = states[c]
  <2>1. states' = [states EXCEPT ![d] = [pressure |-> states[d].pressure + 1, met |-> "host"]]
    BY <1>2 DEF HelpTell
  <2>2. d \in Conditions /\ states[d].met = "no"
    BY DEF Pending
  <2>3. CASE c = d
    BY <1>1, <2>1, <2>2, <2>3
  <2>4. CASE c # d
    BY <1>1, <2>1, <2>2, <2>4
  <2>5. QED
    BY <2>3, <2>4
<1>3. CASE states' = states
  BY <1>1, <1>3
<1>4. QED
  BY <1>2, <1>3 DEF Help, HelpArrive

LEMMA AchievedNext ==
  ASSUME TypeOK, [Next]_vars
  PROVE  Achieved
<1>1. /\ \A e \in Reports : orders[e] # Unordered => orders'[e] = orders[e]
      /\ \A s \in Suspects : topics[s] \subseteq topics'[s]
      /\ \A c \in Conditions : /\ states[c].pressure <= states'[c].pressure
                              /\ states[c].met # "no" => states'[c] = states[c]
  <2>1. CASE UNCHANGED <<orders, topics, states>>
    BY <2>1 DEF TypeOK
  <2>2. CASE Answer
    BY <2>2, AnswerKeeps
  <2>3. CASE Help
    <3>1. UNCHANGED <<orders, topics>>
      BY <2>3, HelpEffect DEF events
    <3>2. QED
      BY <2>3, <3>1, HelpKeeps
  <2>4. QED
    BY <2>1, <2>2, <2>3, StepForms, SceneEffect DEF Elsewhere, Passage, events
<1>2. QED
  BY <1>1, FileGrows, VisitsGrow, PhaseAdvances DEF Achieved

\* Nothing that the room has achieved is taken back.
THEOREM AchievementsStay == Spec => NothingIsLost
<1>1. TypeOK /\ [Next]_vars => [Achieved]_vars
  BY AchievedNext
<1>2. QED
  BY <1>1, StoryTypes, PTL DEF Spec, NothingIsLost

-----------------------------------------------------------------------------
(* Visits and reports, with a quiet entrance.                              *)

\* Of a suspect with reports on file, the visit that counts is the last.
LEMMA LastVisit ==
  ASSUME VisitsInv, NEW s \in Suspects, NEW v \in Nat, IsLast(v, VisitsOf(s))
  PROVE  v = visits[s]
<1>1. visits[s] \in Nat /\ \A e \in Reports : orders[e] \in Nat \cup {-1}
  BY DEF VisitsInv, TypeOK, Unordered
<1>2. visits[s] \in VisitsOf(s) /\ \A w \in VisitsOf(s) : w <= visits[s]
  <2>1. \A e \in Reports : ReportOn[e] = s => orders[e] <= visits[s]
    BY DEF VisitsInv
  <2>2. QED
    BY <1>1, <2>1 DEF VisitsOf
<1>3. QED
  BY <1>1, <1>2 DEF IsLast

\* Whoever is on stage has been called.
LEMMA OnStageIsCalled ==
  ASSUME VisitsInv, Stage \in Suspects
  PROVE  Stage \in Called
<1>1. chapter \in Index /\ chapter \in opened
  BY DEF VisitsInv, TypeOK
<1>2. IsInterview(chapter)
  BY <1>1, ChapterTypes DEF Stage
<1>3. QED
  BY <1>1, <1>2 DEF Called, Stage

\* A call either counts as the next visit, and delivers what waited for it, or
\* changes nothing but the stage.
LEMMA CallEffect ==
  ASSUME VisitsInv, NEW i \in Index, SetScene(i), NEW s \in Suspects, s = Chapters[i].suspect
  PROVE  /\ Stage' = s
         /\ ~ Blocked(s)
         /\ \/ ~ IsVisit(s) /\ visits' = visits /\ unlocked' = unlocked \cup Shown(i)
            \/ /\ IsVisit(s)
               /\ visits' = [visits EXCEPT ![s] = visits[s] + 1]
               /\ unlocked' = unlocked \cup Shown(i) \cup Delivered(s, visits[s] + 1)
<1>1. TypeOK /\ IsInterview(i)
  BY ChapterTypes DEF VisitsInv
<1>2. chapter' = i /\ ~ Blocked(s)
  BY <1>1, SceneEffect
<1>3. CASE ~ IsVisit(s)
  BY <1>1, <1>2, <1>3, SceneEffect DEF Stage
<1>4. CASE IsVisit(s)
  <2>1. PICK v \in Nat : /\ IsLast(v, VisitsOf(s))
                         /\ visits' = [visits EXCEPT ![s] = v + 1]
                         /\ unlocked' = unlocked \cup Shown(i) \cup Delivered(s, v + 1)
    BY <1>1, <1>4, SceneEffect, Zenon
  <2>2. v = visits[s]
    BY <2>1, LastVisit
  <2>3. QED
    BY <1>2, <1>4, <2>1, <2>2 DEF Stage
<1>5. QED
  BY <1>3, <1>4

\* Every other step brings no suspect on stage, and no report to the file.
LEMMA NobodyIsCalled ==
  ASSUME VisitsInv, QuietEntrance, [Next]_vars, ~ \E i \in Index : SetScene(i) /\ Chapters[i].suspect \in Suspects
  PROVE  /\ Stage' \in {Stage, NoSuspect}
         /\ Called' = Called /\ visits' = visits
         /\ \A e \in Reports : e \in unlocked' => e \in unlocked
<1>1. TypeOK /\ Reports \cap Told = {}
  BY ReportsAssumption DEF VisitsInv
<1>2. ASSUME NEW i \in Index, ~ IsInterview(i), chapter' = i, opened' = opened \cup {i}
      PROVE  Stage' = NoSuspect /\ Called' = Called
  BY <1>2, ChapterTypes DEF Stage, Called
<1>3. ASSUME NEW i \in Index, SetScene(i)
      PROVE  /\ Stage' \in {Stage, NoSuspect}
             /\ Called' = Called /\ visits' = visits
             /\ \A e \in Reports : e \in unlocked' => e \in unlocked
  <2>1. ~ IsInterview(i)
    BY <1>3, ChapterTypes
  <2>2. QED
    BY <1>1, <1>2, <1>3, <2>1, SceneEffect, ShownTypes
<1>4. ASSUME NEW i \in Index, Passage(i), IsEntry(i) \/ ~ IsInterview(i)
      PROVE  /\ Stage' \in {Stage, NoSuspect}
             /\ Called' = Called /\ visits' = visits
             /\ \A e \in Reports : e \in unlocked' => e \in unlocked
  <2>1. ~ IsInterview(i)
    BY <1>4 DEF QuietEntrance
  <2>2. QED
    BY <1>2, <1>4, <2>1, ShownTypes DEF Passage, events
<1>5. CASE Answer
  <2>1. UNCHANGED <<chapter, opened, visits>>
    BY <1>1, <1>5, AnswerEffect
  <2>2. PICK told \in SUBSET Told :
          \/ unlocked' = unlocked \cup told
          \/ \E d \in Candidates(unlocked \cup told) : unlocked' = unlocked \cup told \cup {d}
    BY <1>1, <1>5, AnswerEffect
  <2>3. \A e \in Reports : e \in unlocked' => e \in unlocked
    BY <1>1, <2>2, CandidateTypes
  <2>4. QED
    BY <2>1, <2>3 DEF Stage, Called
<1>6. CASE Help
  <2>1. UNCHANGED <<chapter, opened, visits>>
    BY <1>1, <1>6, HelpEffect DEF events
  <2>2. \A e \in Reports : e \in unlocked' => e \in unlocked
    BY <1>1, <1>6, HelpEffect, ToldTypes, CandidateTypes
  <2>3. QED
    BY <2>1, <2>2 DEF Stage, Called
<1>7. CASE Elsewhere
  BY <1>7 DEF Elsewhere, events, Stage, Called
<1>8. QED
  BY <1>1, <1>3, <1>4, <1>5, <1>6, <1>7, StepForms, Zenon

LEMMA VisitsStart == Init /\ QuietEntrance => VisitsInv
<1>1. SUFFICES ASSUME Init, QuietEntrance PROVE VisitsInv
  OBVIOUS
<1>2. Called = {}
  BY <1>1 DEF Init, Called, QuietEntrance
<1>3. \A e \in Reports : orders[e] <= visits[ReportOn[e]]
  BY <1>1, ReportsAssumption DEF Init, Unordered
<1>4. \A s \in Suspects : topics[s] = {}
  BY <1>1 DEF Init
<1>5. chapter \in opened
  BY <1>1 DEF Init
<1>6. QED
  BY <1>1, <1>2, <1>3, <1>4, <1>5, InitTypes DEF VisitsInv

\* A call by the host or the interviewer keeps the books.
LEMMA CallKeepsVisits ==
  ASSUME VisitsInv, [Next]_vars, NEW i \in Index, SetScene(i), NEW s \in Suspects, s = Chapters[i].suspect
  PROVE  VisitsInv'
<1>1. TypeOK /\ TypeOK' /\ IsInterview(i)
  BY NextTypes, ChapterTypes DEF VisitsInv
<1>2. chapter' = i /\ opened' = opened \cup {i} /\ UNCHANGED <<orders, topics>>
  BY <1>1, SceneEffect
<1>3. Called' = Called \cup {s}
  BY <1>1, <1>2 DEF Called
<1>4. \A r \in Suspects : visits[r] \in Nat /\ visits'[r] \in {visits[r], visits[r] + 1}
  BY <1>1, CallEffect DEF TypeOK
<1>5. ASSUME NEW e \in Reports, ReportOn[e] \in Called'
      PROVE  visits'[ReportOn[e]] > 0
  <2>1. ReportOn[e] \in Suspects
    BY ReportsAssumption
  <2>2. CASE ReportOn[e] \in Called
    <3>1. visits[ReportOn[e]] > 0
      BY <2>2 DEF VisitsInv
    <3>2. QED
      BY <1>4, <2>1, <3>1
  <2>3. CASE ReportOn[e] = s
    <3>1. CASE IsVisit(s)
      BY <1>1, <2>3, <3>1, CallEffect DEF TypeOK
    <3>2. CASE Stage = s
      BY <2>2, <2>3, <3>2, OnStageIsCalled
    <3>3. CASE Unfinished(s)
      BY <1>4, <2>1, <2>3, <3>3 DEF Unfinished
    <3>4. QED
      BY <2>3, <3>1, <3>2, <3>3 DEF IsVisit
  <2>4. QED
    BY <1>3, <1>5, <2>2, <2>3
<1>6. ASSUME NEW e \in Reports
      PROVE  orders'[e] <= visits'[ReportOn[e]]
  <2>1. ReportOn[e] \in Suspects /\ orders[e] <= visits[ReportOn[e]] /\ orders[e] \in Nat \cup {-1}
    BY <1>1, ReportsAssumption DEF VisitsInv, TypeOK, Unordered
  <2>2. QED
    BY <1>2, <1>4, <2>1
<1>7. QED
  BY <1>1, <1>2, <1>3, <1>5, <1>6 DEF VisitsInv

\* So does every other step: an order made in an answer is filed under a visit
\* that the suspect has had.
LEMMA OthersKeepVisits ==
  ASSUME VisitsInv, QuietEntrance, [Next]_vars, ~ \E i \in Index : SetScene(i) /\ Chapters[i].suspect \in Suspects
  PROVE  VisitsInv'
<1>1. TypeOK /\ TypeOK'
  BY NextTypes DEF VisitsInv
<1>2. Called' = Called /\ visits' = visits
  BY NobodyIsCalled
<1>3. chapter' \in opened'
  <2>1. CASE UNCHANGED <<chapter, opened>>
    BY <2>1 DEF VisitsInv
  <2>2. ASSUME NEW i \in Index, chapter' = i, opened' = opened \cup {i}
        PROVE  chapter' \in opened'
    BY <2>2
  <2>3. \/ UNCHANGED <<chapter, opened>>
        \/ \E i \in Index : chapter' = i /\ opened' = opened \cup {i}
    BY <1>1, StepForms, SceneEffect, AnswerEffect, HelpEffect DEF Elsewhere, Passage
  <2>4. QED
    BY <2>1, <2>2, <2>3
<1>4. CASE UNCHANGED <<orders, topics>>
  BY <1>1, <1>2, <1>3, <1>4 DEF VisitsInv
<1>5. CASE Answer
  <2>1. Stage \in Suspects /\ Stage \in Called
    BY <1>1, <1>5, AnswerEffect, OnStageIsCalled
  <2>2. PICK account \in SUBSET Topics : topics' = [topics EXCEPT ![Stage] = @ \cup account]
    BY <1>1, <1>5, AnswerEffect
  <2>3. \A s \in Suspects : topics'[s] # {} => s \in Called
    BY <1>1, <2>1, <2>2 DEF VisitsInv, TypeOK
  <2>4. PICK asked \in SUBSET Reports : orders' = [e \in Reports |-> IF e \in asked THEN OrderVisit(e) ELSE orders[e]]
    BY <1>1, <1>5, AnswerEffect
  <2>5. ASSUME NEW e \in Reports
        PROVE  orders'[e] <= visits[ReportOn[e]]
    <3>1. ReportOn[e] \in Suspects /\ visits[ReportOn[e]] \in Nat
      BY <1>1, ReportsAssumption DEF TypeOK
    <3>2. ReportOn[e] = Stage => visits[Stage] > 0
      BY <2>1 DEF VisitsInv
    <3>3. OrderVisit(e) = visits[ReportOn[e]]
      BY <3>1, <3>2 DEF OrderVisit
    <3>4. orders[e] <= visits[ReportOn[e]]
      BY DEF VisitsInv
    <3>5. QED
      BY <2>4, <3>1, <3>3, <3>4
  <2>6. QED
    BY <1>1, <1>2, <1>3, <2>3, <2>5 DEF VisitsInv
<1>6. \/ UNCHANGED <<orders, topics>>
      \/ Answer
  BY <1>1, StepForms, SceneEffect, HelpEffect DEF Elsewhere, Passage, events
<1>7. QED
  BY <1>4, <1>5, <1>6

LEMMA VisitsNext == VisitsInv /\ QuietEntrance /\ [Next]_vars => VisitsInv'
  BY CallKeepsVisits, OthersKeepVisits

-----------------------------------------------------------------------------
(* The three promises about reports.                                       *)

\* A call delivers exactly the reports that wait for a suspect who is recalled.
LEMMA CallDelivers ==
  ASSUME VisitsInv, NEW i \in Index, SetScene(i), NEW s \in Suspects, s = Chapters[i].suspect,
         NEW e \in Reports
  PROVE  /\ e \in unlocked' \ unlocked =>
              /\ orders[e] # Unordered /\ ReportOn[e] = s
              /\ Stage # s /\ Interviewable \subseteq Answered
         /\ s \in Answered /\ Stage # s /\ ReportOn[e] = s /\ orders[e] # Unordered => e \in unlocked'
<1>1. TypeOK /\ e \notin Shown(i) /\ s \in Suspects /\ visits[s] \in Nat
  BY ShownTypes DEF VisitsInv, TypeOK
<1>2. ASSUME e \in unlocked' \ unlocked
      PROVE  /\ orders[e] # Unordered /\ ReportOn[e] = s
             /\ Stage # s /\ Interviewable \subseteq Answered
  <2>1. IsVisit(s) /\ e \in Delivered(s, visits[s] + 1)
    BY <1>1, <1>2, CallEffect
  <2>2. Stage # s /\ ~ Unfinished(s) /\ visits[s] > 0
    BY <1>1, <2>1 DEF IsVisit, Delivered
  <2>3. s \in Answered
    BY <2>2 DEF Unfinished
  <2>4. Interviewable \ Answered = {}
    BY <2>2, <2>3, CallEffect DEF Blocked
  <2>5. QED
    BY <2>1, <2>2, <2>4 DEF Delivered
<1>3. ASSUME s \in Answered, Stage # s, ReportOn[e] = s, orders[e] # Unordered
      PROVE  e \in unlocked'
  <2>1. topics[s] # {}
    BY <1>3 DEF Answered, Topics
  <2>2. visits[s] > 0
    BY <1>1, <1>3, <2>1 DEF VisitsInv
  <2>3. orders[e] < visits[s] + 1
    <3>1. orders[e] <= visits[s] /\ orders[e] \in Nat
      BY <1>1, <1>3 DEF VisitsInv, TypeOK
    <3>2. QED
      BY <1>1, <3>1
  <2>4. e \in Delivered(s, visits[s] + 1)
    BY <1>1, <1>3, <2>2, <2>3 DEF Delivered
  <2>5. IsVisit(s)
    BY <1>3 DEF IsVisit, Unfinished
  <2>6. QED
    BY <2>4, <2>5, CallEffect
<1>4. QED
  BY <1>2, <1>3

LEMMA SealedNext == VisitsInv /\ QuietEntrance /\ [Next]_vars => Sealed
<1>1. SUFFICES ASSUME VisitsInv, QuietEntrance, [Next]_vars, NEW e \in Reports, e \in unlocked' \ unlocked
               PROVE  /\ orders[e] # Unordered
                      /\ Stage # ReportOn[e] /\ Stage' = ReportOn[e]
                      /\ Interviewable \subseteq Answered
  BY DEF Sealed
<1>2. PICK i \in Index : SetScene(i) /\ Chapters[i].suspect \in Suspects
  BY <1>1, NobodyIsCalled
<1>3. Stage' = Chapters[i].suspect
  BY <1>1, <1>2, CallEffect
<1>4. QED
  BY <1>1, <1>2, <1>3, CallDelivers

LEMMA DeliveryNext == VisitsInv /\ QuietEntrance /\ [Next]_vars => Delivery
<1>1. SUFFICES ASSUME VisitsInv, QuietEntrance, [Next]_vars, NEW s \in Answered, Stage # s, Stage' = s,
                      NEW e \in Reports, ReportOn[e] = s, orders[e] # Unordered
               PROVE  e \in unlocked'
  BY DEF Delivery
<1>2. s \in Suspects /\ s # NoSuspect
  BY NoSuspectAssumption DEF Answered
<1>3. PICK i \in Index : SetScene(i) /\ Chapters[i].suspect \in Suspects
  BY <1>1, <1>2, NobodyIsCalled
<1>4. s = Chapters[i].suspect
  BY <1>1, <1>3, CallEffect
<1>5. QED
  BY <1>1, <1>2, <1>3, <1>4, CallDelivers

LEMMA ResumptionNext == VisitsInv /\ QuietEntrance /\ [Next]_vars => Resumption
<1>1. SUFFICES ASSUME VisitsInv, QuietEntrance, [Next]_vars, NEW s \in Called \ Answered, Stage # s, Stage' = s
               PROVE  visits' = visits /\ \A e \in Reports : e \in unlocked' => e \in unlocked
  BY DEF Resumption
<1>2. opened \subseteq Index
  BY <1>1 DEF VisitsInv, TypeOK
<1>3. s \in Suspects /\ s # NoSuspect
  BY <1>1, <1>2, ChapterTypes, NoSuspectAssumption DEF Called
<1>4. PICK i \in Index : SetScene(i) /\ Chapters[i].suspect \in Suspects
  BY <1>1, <1>3, NobodyIsCalled
<1>5. s = Chapters[i].suspect
  BY <1>1, <1>4, CallEffect
<1>6. ~ IsVisit(s)
  <2>1. CASE \E e \in Reports : ReportOn[e] = s
    <3>1. visits[s] > 0
      BY <1>1, <2>1 DEF VisitsInv
    <3>2. QED
      BY <1>1, <3>1 DEF IsVisit, Unfinished
  <2>2. CASE ~ \E e \in Reports : ReportOn[e] = s
    BY <2>2 DEF IsVisit
  <2>3. QED
    BY <2>1, <2>2
<1>7. visits' = visits /\ unlocked' = unlocked \cup Shown(i)
  BY <1>1, <1>3, <1>4, <1>5, <1>6, CallEffect
<1>8. QED
  BY <1>4, <1>7, ShownTypes

\* With a quiet entrance, visits and orders are kept as the promises need them.
THEOREM VisitsInvariant == QuietEntrance => (Spec => []VisitsInv)
<1>1. SUFFICES ASSUME QuietEntrance PROVE Spec => []VisitsInv
  OBVIOUS
<1>2. Init => VisitsInv
  BY <1>1, VisitsStart
<1>3. VisitsInv /\ [Next]_vars => VisitsInv'
  BY <1>1, VisitsNext
<1>4. QED
  BY <1>2, <1>3, PTL DEF Spec

\* A report is sealed until its suspect is recalled.
THEOREM ReportsAreSealed == QuietEntrance => (Spec => ReportsWait)
<1>1. SUFFICES ASSUME QuietEntrance PROVE Spec => ReportsWait
  OBVIOUS
<1>2. VisitsInv /\ [Next]_vars => [Sealed]_vars
  BY <1>1, SealedNext
<1>3. Spec => []VisitsInv
  BY <1>1, VisitsInvariant
<1>4. QED
  BY <1>2, <1>3, PTL DEF Spec, ReportsWait

\* A recall delivers everything that was ordered on the suspect.
THEOREM RecallsDeliver == QuietEntrance => (Spec => RecallDelivers)
<1>1. SUFFICES ASSUME QuietEntrance PROVE Spec => RecallDelivers
  OBVIOUS
<1>2. VisitsInv /\ [Next]_vars => [Delivery]_vars
  BY <1>1, DeliveryNext
<1>3. Spec => []VisitsInv
  BY <1>1, VisitsInvariant
<1>4. QED
  BY <1>2, <1>3, PTL DEF Spec, RecallDelivers

\* Returning to an unfinished first interview resumes it.
THEOREM ReturnsResume == QuietEntrance => (Spec => ReturnResumes)
<1>1. SUFFICES ASSUME QuietEntrance PROVE Spec => ReturnResumes
  OBVIOUS
<1>2. VisitsInv /\ [Next]_vars => [Resumption]_vars
  BY <1>1, ResumptionNext
<1>3. Spec => []VisitsInv
  BY <1>1, VisitsInvariant
<1>4. QED
  BY <1>2, <1>3, PTL DEF Spec, ReturnResumes

-----------------------------------------------------------------------------
(* The room goes on, in a case that is guided.                             *)

\* The phase is that of the chapter.
StageFits == TypeOK /\ phase = PhaseOf(chapter)

LEMMA EntryIsInterrogation ==
  ASSUME NEW i, IsEntry(i)
  PROVE  PhaseOf(i) = "interrogation"
  BY DEF IsEntry, IsFirst, Interrogation, In

LEMMA StageNext == StageFits /\ [Next]_vars => StageFits'
<1> SUFFICES ASSUME StageFits, [Next]_vars PROVE StageFits'
  OBVIOUS
<1>1. TypeOK'
  BY NextTypes DEF StageFits
<1>2. SUFFICES phase' = PhaseOf(chapter')
  BY <1>1 DEF StageFits, PhaseOf
<1>3. CASE UNCHANGED <<phase, chapter>>
  BY <1>3 DEF StageFits
<1>4. ASSUME NEW i \in Index, SetScene(i)
      PROVE  phase' = PhaseOf(chapter')
  BY <1>4 DEF SetScene, MayEnter, Opens
<1>5. ASSUME NEW t \in Taps, TapOpens(t)
      PROVE  phase' = PhaseOf(chapter')
  <2>1. tap[t] \in Index
    BY <1>5 DEF TapOpens, StageFits, TypeOK
  <2>2. CASE SetScene(tap[t])
    BY <1>4, <2>1, <2>2
  <2>3. ASSUME NEW i \in Index, IsEntry(i), EnterPhase("interrogation", i)
        PROVE  phase' = PhaseOf(chapter')
    BY <2>3, EntryIsInterrogation DEF EnterPhase, Opens
  <2>4. QED
    BY <1>5, <2>2, <2>3 DEF TapOpens
<1>6. CASE NextFile
  <2>1. PICK i \in Index : IsFirst(i, FilesAfter(chapter)) /\ Opens(i)
    BY <1>6 DEF NextFile
  <2>2. PhaseOf(i) = "interrogation"
    BY <2>1 DEF IsFirst, FilesAfter, In
  <2>3. QED
    BY <1>6, <2>1, <2>2 DEF NextFile, Opens
<1>7. CASE OpenAccusation
  BY <1>7 DEF OpenAccusation, IsFirst, In, EnterPhase, Opens
<1>8. QED
  BY <1>3, <1>4, <1>5, <1>6, <1>7 DEF Next, vars, Choose, Tap, TapFails, Answer, Help

\* Why there is always something that the page offers and the server accepts.
LEMMA SomethingIsOffered ==
  ASSUME Guided, StageFits
  PROVE  CanGoOn
<1>1. chapter \in Index /\ phase = PhaseOf(chapter)
  BY DEF StageFits, TypeOK
<1>2. ASSUME phase = "briefing"
      PROVE  ContinueOffered /\ ContinueAccepted
  <2>1. chapter \in In("briefing")
    BY <1>1, <1>2 DEF In
  <2>2. ContinueOffered
    BY <1>1, <1>2, <2>1 DEF Guided, ContinueOffered, PublicChapters
  <2>3. chapter + 1 \in Index
    BY <2>1 DEF Guided
  <2>4. CASE PhaseOf(chapter + 1) = "interrogation"
    BY <1>2, <2>2, <2>3, <2>4 DEF ContinueAccepted
  <2>5. CASE PhaseOf(chapter + 1) = "briefing" /\ Chapters[chapter + 1].prerequisites \subseteq 1 .. chapter
    <3>1. chapter + 1 \in In("briefing")
      BY <2>3, <2>5 DEF In
    <3>2. ~ IsInterview(chapter + 1)
      BY <3>1 DEF Guided, OnTheBoard, IsInterview
    <3>3. IsUnlocked(chapter + 1)
      BY <2>5 DEF IsUnlocked
    <3>4. MayEnter(chapter + 1)
      BY <1>2, <2>5, <3>2, <3>3 DEF MayEnter
    <3>5. QED
      BY <2>2, <2>3, <3>4 DEF ContinueAccepted
  <2>6. QED
    BY <2>1, <2>2, <2>4, <2>5 DEF Guided
<1>3. ASSUME phase = "interrogation"
      PROVE  /\ FilesOffered => FilesAfter(chapter) # {}
             /\ PickerShown \/ FilesOffered
  <2>1. chapter \in In("interrogation")
    BY <1>1, <1>3 DEF In
  <2>2. IsInterview(chapter) => Chapters[chapter].round = 2
    BY <1>1, <2>1 DEF Guided, Interrogation, IsInterview
  <2>3. QED
    BY <1>3, <2>1, <2>2 DEF Guided, FilesOffered, PickerShown
<1>4. ASSUME PickerShown, NEW s \in Interviewable \ Answered, Stage # s
      PROVE  \E i \in Picker : Chapters[i].suspect = s /\ MayEnter(i)
  <2>1. phase = "interrogation"
    BY <1>4 DEF PickerShown
  <2>2. PICK i \in Index : IsInterview(i) /\ Chapters[i].suspect = s
    BY <1>4 DEF Interviewable
  <2>3. PhaseOf(i) \in {"briefing", "interrogation"}
    BY <2>2 DEF PhaseOf, IsInterview
  <2>4. PhaseOf(i) # "briefing"
    BY <2>2 DEF Guided, In, OnTheBoard, IsInterview
  <2>5. i \in Interrogation("interview")
    BY <2>2, <2>3, <2>4 DEF Interrogation, In, IsInterview
  <2>6. i \in Picker
    BY <1>4, <2>1, <2>2, <2>5 DEF Picker, PublicChapters, Guided, Stage
  <2>7. MayEnter(i)
    BY <1>4, <2>1, <2>2, <2>3, <2>4 DEF MayEnter, Blocked
  <2>8. QED
    BY <2>2, <2>6, <2>7
<1>5. QED
  BY <1>2, <1>3, <1>4, Zenon DEF CanGoOn, FilesOffered

\* In a guided case the room is never stuck, whatever the suspects say, the
\* models decide and the buttons race for.
THEOREM TheRoomGoesOn == Guided => (Spec => []CanGoOn)
<1>1. SUFFICES ASSUME Guided PROVE Spec => []CanGoOn
  OBVIOUS
<1>2. Init => StageFits
  BY <1>1, InitTypes DEF Init, StageFits, Guided
<1>3. StageFits => CanGoOn
  BY <1>1, SomethingIsOffered
<1>4. QED
  BY <1>2, <1>3, StageNext, PTL DEF Spec

-----------------------------------------------------------------------------
(* The briefing is told in order, in every case whose briefing is chained. *)

\* What was opened in the briefing has no gap: without one, what isChapterUnlocked
\* takes for visited was opened.
ToldInv ==
  /\ TypeOK /\ BriefingInOrder
  /\ phase = "briefing" => 1 .. chapter \subseteq opened

LEMMA ToldByScene ==
  ASSUME Chained, ToldInv, TypeOK', NEW i \in Index, SetScene(i)
  PROVE  ToldInv'
<1>1. chapter' = i /\ opened' = opened \cup {i} /\ phase' = phase
  BY DEF SetScene, Opens
<1>2. CASE phase # "briefing"
  <2>1. i \notin In("briefing")
    BY <1>2 DEF SetScene, MayEnter, In
  <2>2. QED
    BY <1>1, <1>2, <2>1 DEF ToldInv, BriefingInOrder, InOrder, In, PhaseOf
<1>3. CASE phase = "briefing"
  <2>1. Chapters[i].prerequisites \subseteq 1 .. chapter
    BY <1>3 DEF SetScene, MayEnter, IsUnlocked
  <2>2. 1 .. chapter \subseteq opened
    BY <1>3 DEF ToldInv
  <2>3. i \in Nat \ {0} /\ chapter \in Nat
    BY ChapterTypes DEF ToldInv, TypeOK
  <2>4. i = 1 \/ i - 1 \in 1 .. chapter
    BY <1>3, <2>1 DEF SetScene, MayEnter, Chained, In
  <2>5. 1 .. i \subseteq opened \cup {i}
    BY <2>2, <2>3, <2>4
  <2>6. BriefingInOrder'
    BY <1>1, <2>1, <2>2 DEF ToldInv, BriefingInOrder, InOrder, In, PhaseOf
  <2>7. QED
    BY <1>1, <2>5, <2>6 DEF ToldInv
<1>4. QED
  BY <1>2, <1>3

LEMMA ToldByOthers ==
  ASSUME ToldInv, TypeOK', NEW i, PhaseOf(i) # "briefing", phase' # "briefing", Opens(i)
  PROVE  ToldInv'
  BY DEF ToldInv, Opens, BriefingInOrder, InOrder, In, PhaseOf

LEMMA ToldNext ==
  ASSUME Chained, ToldInv, [Next]_vars
  PROVE  ToldInv'
<1>1. TypeOK'
  BY NextTypes DEF ToldInv
<1>2. CASE UNCHANGED <<phase, chapter, opened>>
  BY <1>1, <1>2 DEF ToldInv, BriefingInOrder, InOrder, In, PhaseOf
<1>3. ASSUME NEW i \in Index, SetScene(i)
      PROVE  ToldInv'
  BY <1>1, <1>3, ToldByScene
<1>4. ASSUME NEW t \in Taps, TapOpens(t)
      PROVE  ToldInv'
  <2>1. tap[t] \in Index
    BY <1>4 DEF TapOpens, ToldInv, TypeOK
  <2>2. CASE SetScene(tap[t])
    BY <1>3, <2>1, <2>2
  <2>3. ASSUME NEW i \in Index, IsEntry(i), EnterPhase("interrogation", i)
        PROVE  ToldInv'
    <3>1. PhaseOf(i) = "interrogation"
      BY <2>3, EntryIsInterrogation
    <3>2. QED
      BY <1>1, <2>3, <3>1, ToldByOthers DEF EnterPhase
  <2>4. QED
    BY <1>4, <2>2, <2>3 DEF TapOpens
<1>5. CASE NextFile
  <2>1. PICK i \in Index : IsFirst(i, FilesAfter(chapter)) /\ Opens(i)
    BY <1>5 DEF NextFile
  <2>2. PhaseOf(i) = "interrogation"
    BY <2>1 DEF IsFirst, FilesAfter, In
  <2>3. phase' = "interrogation"
    BY <1>5 DEF NextFile
  <2>4. QED
    BY <1>1, <2>1, <2>2, <2>3, ToldByOthers
<1>6. CASE OpenAccusation
  <2>1. PICK i \in Index : IsFirst(i, In("accusation")) /\ EnterPhase("accusation", i)
    BY <1>6 DEF OpenAccusation
  <2>2. PhaseOf(i) = "accusation"
    BY <2>1 DEF IsFirst, In
  <2>3. QED
    BY <1>1, <2>1, <2>2, ToldByOthers DEF EnterPhase
<1>7. QED
  BY <1>2, <1>3, <1>4, <1>5, <1>6 DEF Next, vars, Choose, Tap, TapFails, Answer, Help

\* No chapter of the briefing is opened before what it requires, whatever the two
\* reads of a tap see.
THEOREM BriefingIsInOrder == Chained => (Spec => []BriefingInOrder)
<1>1. SUFFICES ASSUME Chained PROVE Spec => []BriefingInOrder
  OBVIOUS
<1>2. Init => ToldInv
  BY <1>1, InitTypes DEF Init, ToldInv, BriefingInOrder, InOrder, In, Chained
<1>3. ToldInv /\ [Next]_vars => ToldInv'
  BY <1>1, ToldNext
<1>4. ToldInv => BriefingInOrder
  BY DEF ToldInv
<1>5. QED
  BY <1>2, <1>3, <1>4, PTL DEF Spec

-----------------------------------------------------------------------------
(* Validation: what the cycle search knows at every step, for every case.  *)

Finished == visited \ OnStack

\* Nothing is searched before or after the search.
StagesInv ==
  /\ stage \in {"file", "schema", "rules"} => next = 1 /\ visited = {} /\ cycles = {}
  /\ stage # "search" => stack = <<>>
  /\ stage = "done" /\ issues \cap {"file", "threw"} = {} => next \notin Places
  /\ "cycle" \in issues => stage = "done" /\ cycles # {}
  /\ stage = "done" /\ cycles # {} => "cycle" \in issues

\* The stack is a way along prerequisites, and what was reported is a cycle.
WayInv ==
  /\ \A i \in DOMAIN stack : /\ stack[i].id \in Known
                             /\ stack[i].left \subseteq Wants(stack[i].id)
  /\ \A i \in 1 .. (Depth - 1) : stack[i + 1].id \in Wants(stack[i].id)
  /\ cycles # {} => HasCycle

\* The stack passes no chapter twice, and the outer loop leaves no chapter out.
SeenInv ==
  /\ OnStack \subseteq visited
  /\ \A i, j \in DOMAIN stack : stack[i].id = stack[j].id => i = j
  /\ \A i \in Places : i < next => case.chapters[i].id \in visited

\* As long as nothing was reported, no finished chapter is in a trap, and of the
\* prerequisites of a chapter on the stack only those that are left, and the one
\* that the search is inside of, are not finished.
Clear ==
  /\ \A S \in SUBSET Known : Trap(S) => S \cap Finished = {}
  /\ \A i \in DOMAIN stack :
       Wants(stack[i].id) \cap Known \subseteq
         stack[i].left \cup Finished \cup (IF i < Depth THEN {stack[i + 1].id} ELSE {})
SearchInv == CheckTypeOK /\ StagesInv /\ WayInv /\ SeenInv /\ (cycles = {} => Clear)

StackFrame == [id : Names, left : SUBSET Names]

LEMMA CaseTypes ==
  ASSUME case \in Case
  PROVE  /\ case.chapters \in Seq(ChapterEntry)
         /\ Places = 1 .. Len(case.chapters) /\ Len(case.chapters) \in Nat
         /\ Known \subseteq Names
         /\ \A n : Wants(n) \subseteq Names
<1>1. case.chapters \in Seq(ChapterEntry)
  BY DEF Case
<1>2. Places = 1 .. Len(case.chapters) /\ Len(case.chapters) \in Nat
  BY <1>1 DEF Places
<1>3. \A i \in Places : case.chapters[i] \in ChapterEntry
  BY <1>1, <1>2
<1>4. \A i \in Places : case.chapters[i].id \in Names /\ case.chapters[i].prerequisites \subseteq Names
  BY <1>3 DEF ChapterEntry
<1>5. Known \subseteq Names /\ \A n : Wants(n) \subseteq Names
  BY <1>4 DEF Known, Wants
<1>6. QED
  BY <1>1, <1>2, <1>5

LEMMA Pushed ==
  ASSUME NEW s \in Seq(StackFrame), NEW f \in StackFrame
  PROVE  /\ Append(s, f) \in Seq(StackFrame) /\ Append(s, f) # <<>>
         /\ Len(Append(s, f)) = Len(s) + 1
         /\ \A i \in 1 .. Len(s) : Append(s, f)[i] = s[i]
         /\ Append(s, f)[Len(s) + 1] = f
         /\ DOMAIN Append(s, f) = 1 .. (Len(s) + 1)
OBVIOUS

LEMMA Popped ==
  ASSUME NEW s \in Seq(StackFrame), s # <<>>
  PROVE  LET t == SubSeq(s, 1, Len(s) - 1)
         IN  /\ t \in Seq(StackFrame)
             /\ Len(t) = Len(s) - 1
             /\ \A i \in 1 .. (Len(s) - 1) : t[i] = s[i]
             /\ DOMAIN t = 1 .. (Len(s) - 1)
<1> DEFINE n == Len(s) - 1
           t == SubSeq(s, 1, n)
<1>1. n \in Nat /\ 1 \in Int /\ \A i \in 1 .. n : s[i] \in StackFrame
  OBVIOUS
<1>2. /\ t \in Seq(StackFrame)
      /\ Len(t) = IF 1 <= n THEN n - 1 + 1 ELSE 0
      /\ \A i \in 1 .. (n - 1 + 1) : t[i] = s[1 + i - 1]
  <2> HIDE DEF n
  <2>1. QED
    BY <1>1, SubSeqProperties
<1>3. Len(t) = n /\ DOMAIN t = 1 .. n
  <2> HIDE DEF n
  <2>1. QED
    BY <1>1, <1>2
<1>4. \A i \in 1 .. n : t[i] = s[i]
  <2> HIDE DEF n, t
  <2>1. QED
    BY <1>1, <1>2
<1>5. QED
  BY <1>2, <1>3, <1>4

\* The topmost call takes a prerequisite up.
LEMMA Taken ==
  ASSUME NEW s \in Seq(StackFrame), s # <<>>, NEW p
  PROVE  LET t == [s EXCEPT ![Len(s)].left = @ \ {p}]
         IN  /\ t \in Seq(StackFrame) /\ Len(t) = Len(s) /\ DOMAIN t = 1 .. Len(s)
             /\ \A i \in 1 .. Len(s) : t[i].id = s[i].id
             /\ \A i \in 1 .. (Len(s) - 1) : t[i].left = s[i].left
             /\ t[Len(s)].left = s[Len(s)].left \ {p}
<1>1. Len(s) \in Nat /\ Len(s) > 0 /\ DOMAIN s = 1 .. Len(s) /\ \A i \in 1 .. Len(s) : s[i] \in StackFrame
  OBVIOUS
<1> DEFINE n == Len(s)
           f == [s[n] EXCEPT !.left = @ \ {p}]
           t == [s EXCEPT ![n].left = @ \ {p}]
<1>2. f \in StackFrame /\ f.id = s[n].id /\ f.left = s[n].left \ {p}
  BY <1>1 DEF StackFrame
<1>3. t = [s EXCEPT ![n] = f]
  OBVIOUS
<1>4. /\ t \in Seq(StackFrame) /\ Len(t) = n
      /\ \A i \in 1 .. n : t[i] = IF i = n THEN f ELSE s[i]
  BY <1>1, <1>2, <1>3, ExceptSeq
<1>5. QED
  BY <1>1, <1>2, <1>4

LEMMA SameCase ==
  ASSUME case' = case
  PROVE  /\ Known' = Known /\ Places' = Places
         /\ \A n : Wants(n)' = Wants(n)
         /\ \A S : Trap(S)' = Trap(S)
         /\ HasCycle' = HasCycle
<1>1. Known' = Known /\ Places' = Places
  BY DEF Known, Places
<1>2. \A n : Wants(n)' = Wants(n)
  BY DEF Wants, Places, IsChapter
<1>3. \A S : Trap(S)' = Trap(S)
  BY <1>2 DEF Trap
<1>4. QED
  BY <1>1, <1>2, <1>3 DEF HasCycle

LEMMA StackTypes ==
  ASSUME CheckTypeOK
  PROVE  /\ stack \in Seq(StackFrame)
         /\ Depth \in Nat /\ DOMAIN stack = 1 .. Depth
         /\ stack # <<>> <=> Depth > 0
         /\ \A i \in 1 .. Depth : stack[i].id \in Names /\ stack[i].left \subseteq Names
<1>1. stack \in Seq(StackFrame)
  BY DEF CheckTypeOK, StackFrame
<1>2. Depth \in Nat /\ DOMAIN stack = 1 .. Depth /\ (stack # <<>> <=> Depth > 0)
  BY <1>1 DEF Depth
<1>3. \A i \in 1 .. Depth : stack[i] \in StackFrame
  BY <1>1 DEF Depth
<1>4. QED
  BY <1>1, <1>2, <1>3 DEF StackFrame

\* The calls in progress when dfs(n) is called.
Calling(n, calls) ==
  /\ n \in Known
  /\ calls \in Seq(StackFrame) /\ Len(calls) = Depth
  /\ \A i \in 1 .. Depth : calls[i].id = stack[i].id /\ calls[i].left \subseteq Wants(stack[i].id)
  /\ Depth > 0 => n \in Wants(stack[Depth].id)
  /\ cycles = {} =>
       \A i \in 1 .. Depth :
         Wants(stack[i].id) \cap Known \subseteq
           calls[i].left \cup Finished \cup (IF i < Depth THEN {stack[i + 1].id} ELSE {n})

\* A call of dfs keeps everything, and leaves its chapter visited.
LEMMA DfsKeeps ==
  ASSUME SearchInv, NEW n, NEW calls, Calling(n, calls), Dfs(n, calls), case' = case
  PROVE  /\ stack' \in Seq(StackFrame)
         /\ visited' \subseteq Names /\ visited \subseteq visited' /\ n \in visited'
         /\ cycles' \subseteq Seq(Names)
         /\ WayInv'
         /\ OnStack' \subseteq visited'
         /\ \A i, j \in DOMAIN stack' : stack'[i].id = stack'[j].id => i = j
         /\ cycles' = {} => Clear'
<1>1. /\ stack \in Seq(StackFrame) /\ Depth \in Nat /\ DOMAIN stack = 1 .. Depth
      /\ \A i \in 1 .. Depth : stack[i].id \in Names /\ stack[i].left \subseteq Names
  BY StackTypes DEF SearchInv
<1>2. /\ Known' = Known /\ HasCycle' = HasCycle
      /\ \A m : Wants(m)' = Wants(m)
      /\ \A S : Trap(S)' = Trap(S)
  BY SameCase
<1>3. Known \subseteq Names /\ (\A m : Wants(m) \subseteq Names) /\ n \in Known /\ n \in Names
  BY CaseTypes DEF SearchInv, CheckTypeOK, Calling
<1>4. /\ calls \in Seq(StackFrame) /\ Len(calls) = Depth /\ DOMAIN calls = 1 .. Depth
      /\ \A i \in 1 .. Depth : calls[i].id = stack[i].id /\ calls[i].left \subseteq Wants(stack[i].id)
  BY <1>1 DEF Calling
<1>5. visited \subseteq Names /\ cycles \subseteq Seq(Names)
  BY DEF SearchInv, CheckTypeOK
<1>6. /\ OnStack \subseteq visited
      /\ \A i, j \in 1 .. Depth : stack[i].id = stack[j].id => i = j
  BY <1>1 DEF SearchInv, SeenInv
<1>7. OnStack = {stack[i].id : i \in 1 .. Depth}
  BY <1>1 DEF OnStack
<1>8. /\ \A i \in 1 .. Depth : stack[i].id \in Known
      /\ \A i \in 1 .. (Depth - 1) : stack[i + 1].id \in Wants(stack[i].id)
      /\ cycles # {} => HasCycle
  BY <1>1 DEF SearchInv, WayInv
<1>9. ASSUME stack' = calls
      PROVE  /\ Depth' = Depth /\ DOMAIN stack' = 1 .. Depth
             /\ OnStack' = OnStack
             /\ \A i, j \in 1 .. Depth : stack'[i].id = stack'[j].id => i = j
             /\ \A i \in 1 .. Depth : stack'[i].id \in Known /\ stack'[i].left \subseteq Wants(stack'[i].id)
             /\ \A i \in 1 .. (Depth - 1) : stack'[i + 1].id \in Wants(stack'[i].id)
  <2>1. Depth' = Depth /\ DOMAIN stack' = 1 .. Depth
    BY <1>4, <1>9 DEF Depth
  <2>2. \A i \in 1 .. Depth : stack'[i].id = stack[i].id /\ stack'[i].left \subseteq Wants(stack[i].id)
    BY <1>4, <1>9
  <2>3. OnStack' = OnStack
    BY <1>7, <2>1, <2>2 DEF OnStack
  <2>4. \A i \in 1 .. (Depth - 1) : i \in 1 .. Depth /\ i + 1 \in 1 .. Depth
    BY <1>1
  <2>5. QED
    BY <1>6, <1>8, <2>1, <2>2, <2>3, <2>4
<1>10. CASE n \in OnStack /\ cycles' = cycles \cup {Append(Path, n)} /\ stack' = calls /\ visited' = visited
  <2>1. Append(Path, n) \in Seq(Names)
    <3>1. Path \in [1 .. Depth -> Names]
      BY <1>1 DEF Path
    <3>2. Path \in Seq(Names)
      BY <1>1, <3>1
    <3>3. QED
      BY <1>3, <3>2
  <2>2. HasCycle
    <3>1. PICK j \in 1 .. Depth : stack[j].id = n
      BY <1>7, <1>10
    <3> DEFINE S == {stack[k].id : k \in j .. Depth}
    <3>2. S # {} /\ S \subseteq Known
      BY <1>1, <1>8, <3>1
    <3>3. ASSUME NEW k \in j .. Depth
          PROVE  Wants(stack[k].id) \cap S # {}
      <4>1. CASE k = Depth
        <5>1. n \in Wants(stack[Depth].id)
          BY <1>1, <4>1, <3>1 DEF Calling
        <5>2. n \in S
          BY <1>1, <3>1
        <5>3. QED
          BY <4>1, <5>1, <5>2
      <4>2. CASE k # Depth
        <5>1. k + 1 \in j .. Depth /\ k \in 1 .. (Depth - 1)
          BY <1>1, <3>1, <4>2
        <5>2. stack[k + 1].id \in Wants(stack[k].id) /\ stack[k + 1].id \in S
          BY <1>8, <5>1
        <5>3. QED
          BY <5>2
      <4>3. QED
        BY <4>1, <4>2
    <3>4. Trap(S)
      BY <3>2, <3>3 DEF Trap
    <3>5. QED
      BY <3>2, <3>4 DEF HasCycle
  <2>3. WayInv'
    <3>1. HasCycle'
      BY <1>2, <2>2
    <3>2. QED
      BY <1>2, <1>9, <1>10, <3>1 DEF WayInv
  <2>4. QED
    BY <1>4, <1>5, <1>6, <1>9, <1>10, <2>1, <2>3
<1>11. CASE n \notin OnStack /\ n \in visited /\ stack' = calls /\ visited' = visited /\ cycles' = cycles
  <2>1. WayInv'
    BY <1>2, <1>8, <1>9, <1>11 DEF WayInv
  <2>2. ASSUME cycles' = {} PROVE Clear'
    <3>1. Clear /\ cycles = {}
      BY <1>11, <2>2 DEF SearchInv
    <3>2. Finished' = Finished /\ n \in Finished
      BY <1>9, <1>11 DEF Finished
    <3>3. \A S \in SUBSET Known : Trap(S) => S \cap Finished = {}
      BY <3>1 DEF Clear
    <3>4. ASSUME NEW i \in 1 .. Depth
          PROVE  Wants(stack'[i].id) \cap Known \subseteq
                   stack'[i].left \cup Finished \cup (IF i < Depth THEN {stack'[i + 1].id} ELSE {})
      <4>1. Wants(stack[i].id) \cap Known \subseteq
              calls[i].left \cup Finished \cup (IF i < Depth THEN {stack[i + 1].id} ELSE {n})
        BY <3>1 DEF Calling
      <4>2. stack'[i].id = stack[i].id /\ stack'[i].left = calls[i].left
        BY <1>4, <1>11
      <4>3. i < Depth => stack'[i + 1].id = stack[i + 1].id
        BY <1>1, <1>4, <1>11
      <4>4. QED
        BY <4>1, <4>2, <4>3, <3>2
    <3>5. QED
      BY <1>2, <1>9, <1>11, <3>2, <3>3, <3>4 DEF Clear
  <2>3. QED
    BY <1>4, <1>5, <1>6, <1>9, <1>11, <2>1, <2>2
<1>12. CASE /\ n \notin OnStack /\ n \notin visited /\ visited' = visited \cup {n}
            /\ stack' = Append(calls, Frame(n)) /\ cycles' = cycles
  <2>1. Frame(n) \in StackFrame /\ Frame(n).id = n /\ Frame(n).left = Wants(n)
    BY <1>3 DEF Frame, StackFrame
  <2>2. /\ stack' \in Seq(StackFrame) /\ Len(stack') = Depth + 1 /\ DOMAIN stack' = 1 .. (Depth + 1)
        /\ \A i \in 1 .. Depth : stack'[i].id = stack[i].id /\ stack'[i].left = calls[i].left
        /\ stack'[Depth + 1].id = n /\ stack'[Depth + 1].left = Wants(n)
    BY <1>4, <1>12, <2>1, Pushed
  <2>3. Depth' = Depth + 1
    BY <2>2 DEF Depth
  <2>4. OnStack' = OnStack \cup {n}
    <3>1. OnStack' = {stack'[i].id : i \in 1 .. (Depth + 1)}
      BY <2>2 DEF OnStack
    <3>2. 1 .. (Depth + 1) = (1 .. Depth) \cup {Depth + 1}
      BY <1>1
    <3>3. QED
      BY <1>7, <2>2, <3>1, <3>2
  <2>5. \A i, j \in 1 .. (Depth + 1) : stack'[i].id = stack'[j].id => i = j
    <3>1. \A i \in 1 .. Depth : stack[i].id # n
      BY <1>7, <1>12
    <3>2. \A i \in 1 .. (Depth + 1) : i \in 1 .. Depth \/ i = Depth + 1
      BY <1>1
    <3>3. QED
      BY <1>6, <2>2, <3>1, <3>2
  <2>6. WayInv'
    <3>1. \A i \in 1 .. (Depth + 1) : stack'[i].id \in Known /\ stack'[i].left \subseteq Wants(stack'[i].id)
      <4>1. TAKE i \in 1 .. (Depth + 1)
      <4>2. CASE i = Depth + 1
        BY <1>3, <2>2, <4>2
      <4>3. CASE i \in 1 .. Depth
        BY <1>4, <1>8, <2>2, <4>3
      <4>4. QED
        BY <1>1, <4>2, <4>3
    <3>2. \A i \in 1 .. Depth : stack'[i + 1].id \in Wants(stack'[i].id)
      <4>1. TAKE i \in 1 .. Depth
      <4>2. CASE i = Depth
        BY <1>1, <2>2, <4>2 DEF Calling
      <4>3. CASE i # Depth
        <5>1. i \in 1 .. (Depth - 1) /\ i + 1 \in 1 .. Depth
          BY <1>1, <4>3
        <5>2. QED
          BY <1>8, <2>2, <5>1
      <4>4. QED
        BY <4>2, <4>3
    <3>3. Depth' - 1 = Depth
      BY <1>1, <2>3
    <3>4. QED
      BY <1>2, <1>8, <1>12, <2>2, <3>1, <3>2, <3>3 DEF WayInv
  <2>7. ASSUME cycles' = {} PROVE Clear'
    <3>1. Clear /\ cycles = {}
      BY <1>12, <2>7 DEF SearchInv
    <3>2. Finished' = Finished
      BY <1>12, <2>4 DEF Finished
    <3>3. \A S \in SUBSET Known : Trap(S) => S \cap Finished = {}
      BY <3>1 DEF Clear
    <3>4. ASSUME NEW i \in 1 .. (Depth + 1)
          PROVE  Wants(stack'[i].id) \cap Known \subseteq
                   stack'[i].left \cup Finished \cup (IF i < Depth + 1 THEN {stack'[i + 1].id} ELSE {})
      <4>1. CASE i = Depth + 1
        BY <2>2, <4>1
      <4>2. CASE i \in 1 .. Depth
        <5>1. Wants(stack[i].id) \cap Known \subseteq
                calls[i].left \cup Finished \cup (IF i < Depth THEN {stack[i + 1].id} ELSE {n})
          BY <3>1, <4>2 DEF Calling
        <5>2. i < Depth + 1 /\ stack'[i].id = stack[i].id /\ stack'[i].left = calls[i].left
          BY <1>1, <2>2, <4>2
        <5>3. stack'[i + 1].id = IF i < Depth THEN stack[i + 1].id ELSE n
          <6>1. CASE i < Depth
            BY <1>1, <2>2, <4>2, <6>1
          <6>2. CASE i = Depth
            BY <1>1, <2>2, <6>2
          <6>3. QED
            BY <1>1, <4>2, <6>1, <6>2
        <5>4. QED
          BY <5>1, <5>2, <5>3
      <4>3. QED
        BY <1>1, <4>1, <4>2
    <3>5. QED
      BY <1>2, <2>2, <2>3, <3>2, <3>3, <3>4 DEF Clear
  <2>8. QED
    BY <1>3, <1>5, <1>6, <1>12, <2>2, <2>4, <2>5, <2>6, <2>7
<1>13. QED
  BY <1>10, <1>11, <1>12 DEF Dfs

LEMMA RootKeeps == SearchInv /\ Root => SearchInv'
<1> SUFFICES ASSUME SearchInv, Root PROVE SearchInv'
  OBVIOUS
<1> DEFINE n == case.chapters[next].id
<1>1. /\ stage = "search" /\ stack = <<>> /\ next \in Places /\ next' = next + 1
      /\ Dfs(n, stack) /\ case' = case /\ stage' = stage /\ issues' = issues
  BY DEF Root, Searching
<1>2. CheckTypeOK /\ stack \in Seq(StackFrame) /\ Depth = 0
  BY <1>1, StackTypes DEF SearchInv, Depth
<1>3. Calling(n, stack)
  BY <1>1, <1>2 DEF Calling, Known, Depth
<1>4. /\ stack' \in Seq(StackFrame)
      /\ visited' \subseteq Names /\ visited \subseteq visited' /\ n \in visited'
      /\ cycles' \subseteq Seq(Names)
      /\ WayInv'
      /\ OnStack' \subseteq visited'
      /\ \A i, j \in DOMAIN stack' : stack'[i].id = stack'[j].id => i = j
      /\ cycles' = {} => Clear'
  BY <1>1, <1>3, DfsKeeps
<1>5. CheckTypeOK'
  BY <1>1, <1>2, <1>4 DEF CheckTypeOK, StackFrame
<1>6. StagesInv'
  BY <1>1 DEF StagesInv, SearchInv
<1>7. SeenInv'
  <2>1. Places' = Places /\ Places \subseteq Nat /\ next \in Nat
    BY <1>1, <1>2, SameCase, CaseTypes DEF CheckTypeOK
  <2>2. \A i \in Places : i < next => case.chapters[i].id \in visited
    BY DEF SearchInv, SeenInv
  <2>3. ASSUME NEW i \in Places, i < next + 1 PROVE case.chapters[i].id \in visited'
    <3>1. i < next \/ i = next
      BY <2>1, <2>3
    <3>2. QED
      BY <1>4, <2>2, <3>1
  <2>4. QED
    BY <1>1, <1>4, <2>1, <2>3 DEF SeenInv
<1>8. QED
  BY <1>4, <1>5, <1>6, <1>7 DEF SearchInv

LEMMA FollowKeeps == SearchInv /\ Follow => SearchInv'
<1> SUFFICES ASSUME SearchInv, Follow PROVE SearchInv'
  OBVIOUS
<1>1. /\ stage = "search" /\ stack # <<>> /\ next' = next
      /\ case' = case /\ stage' = stage /\ issues' = issues
  BY DEF Follow, Searching
<1>2. PICK p \in stack[Depth].left :
        LET calls == [stack EXCEPT ![Depth].left = @ \ {p}]
        IN  \/ p \in Known /\ Dfs(p, calls)
            \/ p \notin Known /\ stack' = calls /\ UNCHANGED <<visited, cycles>>
  BY DEF Follow
<1> DEFINE calls == [stack EXCEPT ![Depth].left = @ \ {p}]
<1>3. /\ CheckTypeOK /\ stack \in Seq(StackFrame) /\ Depth \in Nat /\ Depth > 0
      /\ DOMAIN stack = 1 .. Depth
  BY <1>1, StackTypes DEF SearchInv
<1>4. /\ calls \in Seq(StackFrame) /\ Len(calls) = Depth /\ DOMAIN calls = 1 .. Depth
      /\ \A i \in 1 .. Depth : calls[i].id = stack[i].id
      /\ \A i \in 1 .. (Depth - 1) : calls[i].left = stack[i].left
      /\ calls[Depth].left = stack[Depth].left \ {p}
  BY <1>1, <1>3, Taken DEF Depth
<1> HIDE DEF calls
<1>5. \A i \in 1 .. Depth : stack[i].left \subseteq Wants(stack[i].id)
  BY <1>3 DEF SearchInv, WayInv
<1>6. \A i \in 1 .. Depth : i = Depth \/ i \in 1 .. (Depth - 1)
  BY <1>3
<1>7. \A i \in 1 .. Depth : calls[i].left \subseteq Wants(stack[i].id)
  BY <1>3, <1>4, <1>5, <1>6
<1>8. cycles = {} =>
        \A i \in 1 .. Depth :
          Wants(stack[i].id) \cap Known \subseteq
            calls[i].left \cup Finished \cup (IF i < Depth THEN {stack[i + 1].id} ELSE {p})
  <2> SUFFICES ASSUME cycles = {}, NEW i \in 1 .. Depth
               PROVE  Wants(stack[i].id) \cap Known \subseteq
                        calls[i].left \cup Finished \cup (IF i < Depth THEN {stack[i + 1].id} ELSE {p})
    OBVIOUS
  <2>1. Wants(stack[i].id) \cap Known \subseteq
          stack[i].left \cup Finished \cup (IF i < Depth THEN {stack[i + 1].id} ELSE {})
    BY <1>3 DEF SearchInv, Clear
  <2>2. CASE i = Depth
    BY <1>3, <1>4, <2>1, <2>2
  <2>3. CASE i \in 1 .. (Depth - 1)
    BY <1>3, <1>4, <2>1, <2>3
  <2>4. QED
    BY <1>6, <2>2, <2>3
<1>9. CASE p \in Known /\ Dfs(p, calls)
  <2>1. p \in Wants(stack[Depth].id)
    BY <1>3, <1>5
  <2>2. Calling(p, calls)
    BY <1>4, <1>7, <1>8, <1>9, <2>1 DEF Calling
  <2>3. /\ stack' \in Seq(StackFrame)
        /\ visited' \subseteq Names /\ visited \subseteq visited'
        /\ cycles' \subseteq Seq(Names)
        /\ WayInv'
        /\ OnStack' \subseteq visited'
        /\ \A i, j \in DOMAIN stack' : stack'[i].id = stack'[j].id => i = j
        /\ cycles' = {} => Clear'
    BY <1>1, <1>9, <2>2, DfsKeeps
  <2>4. CheckTypeOK'
    BY <1>1, <1>3, <2>3 DEF CheckTypeOK, StackFrame
  <2>5. StagesInv'
    BY <1>1 DEF StagesInv, SearchInv
  <2>6. SeenInv'
    BY <1>1, <2>3, SameCase DEF SeenInv, SearchInv
  <2>7. QED
    BY <2>3, <2>4, <2>5, <2>6 DEF SearchInv
<1>10. CASE p \notin Known /\ stack' = calls /\ visited' = visited /\ cycles' = cycles
  <2>1. /\ Known' = Known /\ HasCycle' = HasCycle /\ Places' = Places
        /\ \A m : Wants(m)' = Wants(m)
        /\ \A S : Trap(S)' = Trap(S)
    BY <1>1, SameCase
  <2>2. Depth' = Depth /\ DOMAIN stack' = 1 .. Depth
    BY <1>4, <1>10 DEF Depth
  <2>3. OnStack' = OnStack
    BY <1>3, <1>4, <1>10, <2>2 DEF OnStack
  <2>4. CheckTypeOK'
    BY <1>1, <1>3, <1>4, <1>10 DEF CheckTypeOK, StackFrame
  <2>5. StagesInv'
    BY <1>1 DEF StagesInv, SearchInv
  <2>6. WayInv'
    <3>1. \A i \in 1 .. Depth : stack'[i].id \in Known /\ stack'[i].left \subseteq Wants(stack'[i].id)
      BY <1>3, <1>4, <1>7, <1>10 DEF SearchInv, WayInv
    <3>2. \A i \in 1 .. (Depth - 1) : i \in 1 .. Depth /\ i + 1 \in 1 .. Depth
      BY <1>3
    <3>3. \A i \in 1 .. (Depth - 1) : stack'[i + 1].id \in Wants(stack'[i].id)
      BY <1>4, <1>10, <3>2 DEF SearchInv, WayInv
    <3>4. QED
      BY <1>10, <2>1, <2>2, <3>1, <3>3 DEF SearchInv, WayInv
  <2>7. SeenInv'
    <3>1. \A i, j \in 1 .. Depth : stack'[i].id = stack'[j].id => i = j
      BY <1>3, <1>4, <1>10 DEF SearchInv, SeenInv
    <3>2. QED
      BY <1>1, <1>10, <2>1, <2>2, <2>3, <3>1 DEF SearchInv, SeenInv
  <2>8. ASSUME cycles' = {} PROVE Clear'
    <3>1. Clear
      BY <1>10, <2>8 DEF SearchInv
    <3>2. Finished' = Finished
      BY <1>10, <2>3 DEF Finished
    <3>3. ASSUME NEW i \in 1 .. Depth
          PROVE  Wants(stack'[i].id) \cap Known \subseteq
                   stack'[i].left \cup Finished \cup (IF i < Depth THEN {stack'[i + 1].id} ELSE {})
      <4>1. Wants(stack[i].id) \cap Known \subseteq
              calls[i].left \cup Finished \cup (IF i < Depth THEN {stack[i + 1].id} ELSE {p})
        BY <1>8, <1>10, <2>8
      <4>2. stack'[i].id = stack[i].id /\ stack'[i].left = calls[i].left
        BY <1>4, <1>10
      <4>3. i < Depth => stack'[i + 1].id = stack[i + 1].id
        BY <1>3, <1>4, <1>10
      <4>4. QED
        BY <1>10, <4>1, <4>2, <4>3
    <3>4. QED
      BY <2>1, <2>2, <3>1, <3>2, <3>3 DEF Clear
  <2>9. QED
    BY <2>4, <2>5, <2>6, <2>7, <2>8 DEF SearchInv
<1>11. QED
  BY <1>2, <1>9, <1>10 DEF calls

LEMMA ReturnKeeps == SearchInv /\ Return => SearchInv'
<1> SUFFICES ASSUME SearchInv, Return PROVE SearchInv'
  OBVIOUS
<1> DEFINE m == stack[Depth].id
<1>1. /\ stage = "search" /\ stack # <<>> /\ stack[Depth].left = {}
      /\ stack' = SubSeq(stack, 1, Depth - 1)
      /\ next' = next /\ visited' = visited /\ cycles' = cycles
      /\ case' = case /\ stage' = stage /\ issues' = issues
  BY DEF Return, Searching
<1>2. /\ CheckTypeOK /\ stack \in Seq(StackFrame) /\ Depth \in Nat /\ Depth > 0
      /\ DOMAIN stack = 1 .. Depth
  BY <1>1, StackTypes DEF SearchInv
<1>3. /\ stack' \in Seq(StackFrame) /\ Depth' = Depth - 1 /\ DOMAIN stack' = 1 .. (Depth - 1)
      /\ \A i \in 1 .. (Depth - 1) : stack'[i] = stack[i]
  BY <1>1, <1>2, Popped DEF Depth
<1>4. /\ Known' = Known /\ HasCycle' = HasCycle /\ Places' = Places
      /\ \A x : Wants(x)' = Wants(x)
      /\ \A S : Trap(S)' = Trap(S)
  BY <1>1, SameCase
<1>5. \A i \in 1 .. (Depth - 1) : i \in 1 .. Depth /\ i # Depth
  BY <1>2
<1>6. \A i, j \in 1 .. Depth : stack[i].id = stack[j].id => i = j
  BY <1>2 DEF SearchInv, SeenInv
<1>7. OnStack = OnStack' \cup {m} /\ m \notin OnStack'
  <2>1. OnStack = {stack[i].id : i \in 1 .. Depth}
    BY <1>2 DEF OnStack
  <2>2. OnStack' = {stack[i].id : i \in 1 .. (Depth - 1)}
    BY <1>3 DEF OnStack
  <2>3. 1 .. Depth = (1 .. (Depth - 1)) \cup {Depth}
    BY <1>2
  <2>4. \A i \in 1 .. (Depth - 1) : stack[i].id # m
    BY <1>2, <1>5, <1>6
  <2>5. QED
    BY <2>1, <2>2, <2>3, <2>4
<1>8. CheckTypeOK'
  BY <1>1, <1>2, <1>3 DEF CheckTypeOK, StackFrame
<1>9. StagesInv'
  BY <1>1 DEF StagesInv, SearchInv
<1>10. WayInv'
  <2>1. \A i \in 1 .. ((Depth - 1) - 1) : i \in 1 .. (Depth - 1) /\ i + 1 \in 1 .. (Depth - 1)
    BY <1>2
  <2>2. \A i \in 1 .. (Depth - 1) : stack'[i].id \in Known /\ stack'[i].left \subseteq Wants(stack'[i].id)
    BY <1>2, <1>3, <1>5 DEF SearchInv, WayInv
  <2>3. \A i \in 1 .. ((Depth - 1) - 1) : stack'[i + 1].id \in Wants(stack'[i].id)
    BY <1>3, <2>1 DEF SearchInv, WayInv
  <2>4. QED
    BY <1>1, <1>3, <1>4, <2>2, <2>3 DEF SearchInv, WayInv
<1>11. SeenInv'
  <2>1. \A i, j \in 1 .. (Depth - 1) : stack'[i].id = stack'[j].id => i = j
    BY <1>3, <1>5, <1>6
  <2>2. QED
    BY <1>1, <1>3, <1>4, <1>7, <2>1 DEF SearchInv, SeenInv
<1>12. ASSUME cycles' = {} PROVE Clear'
  <2>1. Clear
    BY <1>1, <1>12 DEF SearchInv
  <2>2. Finished' = Finished \cup {m}
    BY <1>1, <1>2, <1>7 DEF Finished, SearchInv, SeenInv
  <2>3. Wants(m) \cap Known \subseteq Finished
    BY <1>1, <1>2, <2>1 DEF Clear
  <2>4. ASSUME NEW S \in SUBSET Known, Trap(S) PROVE S \cap Finished' = {}
    <3>1. S \cap Finished = {}
      BY <2>1, <2>4 DEF Clear
    <3>2. m \notin S
      BY <2>3, <2>4, <3>1 DEF Trap
    <3>3. QED
      BY <2>2, <3>1, <3>2
  <2>5. ASSUME NEW i \in 1 .. (Depth - 1)
        PROVE  Wants(stack'[i].id) \cap Known \subseteq
                 stack'[i].left \cup Finished' \cup (IF i < Depth - 1 THEN {stack'[i + 1].id} ELSE {})
    <3>1. Wants(stack[i].id) \cap Known \subseteq
            stack[i].left \cup Finished \cup {stack[i + 1].id}
      BY <1>2, <1>5, <2>1 DEF Clear
    <3>2. stack[i + 1].id = IF i < Depth - 1 THEN stack'[i + 1].id ELSE m
      <4>1. CASE i < Depth - 1
        BY <1>2, <1>3, <4>1
      <4>2. CASE i = Depth - 1
        BY <1>2, <4>2
      <4>3. QED
        BY <1>2, <4>1, <4>2
    <3>3. QED
      BY <1>3, <2>2, <3>1, <3>2
  <2>6. QED
    BY <1>3, <1>4, <2>4, <2>5 DEF Clear
<1>13. QED
  BY <1>8, <1>9, <1>10, <1>11, <1>12 DEF SearchInv

LEMMA CheckStart == CheckInit => SearchInv
<1> SUFFICES ASSUME CheckInit PROVE SearchInv
  OBVIOUS
<1>1. /\ case \in Case /\ stage = "file" /\ next = 1 /\ stack = <<>> /\ visited = {}
      /\ issues = {} /\ cycles = {}
  BY CasesAssumption DEF CheckInit
<1>2. CheckTypeOK
  BY <1>1 DEF CheckTypeOK, Stages
<1>3. DOMAIN stack = {} /\ Depth = 0 /\ OnStack = {}
  BY <1>1 DEF Depth, OnStack
<1>4. StagesInv /\ WayInv
  BY <1>1, <1>3 DEF StagesInv, WayInv
<1>5. SeenInv
  <2>1. Places \subseteq Nat \ {0}
    BY <1>1, CaseTypes
  <2>2. QED
    BY <1>1, <1>3, <2>1 DEF SeenInv
<1>6. Clear
  BY <1>1, <1>3 DEF Clear, Finished
<1>7. QED
  BY <1>2, <1>4, <1>5, <1>6 DEF SearchInv

\* The steps before and after the search.
LEMMA AsideKeeps ==
  ASSUME SearchInv, Aside, CheckTypeOK', StagesInv'
  PROVE  SearchInv'
<1>1. /\ case' = case /\ next' = next /\ stack' = stack /\ visited' = visited /\ cycles' = cycles
  BY DEF Aside
<1>2. /\ Known' = Known /\ HasCycle' = HasCycle /\ Places' = Places
      /\ \A x : Wants(x)' = Wants(x)
      /\ \A S : Trap(S)' = Trap(S)
  BY <1>1, SameCase
<1>3. WayInv'
  BY <1>1, <1>2 DEF WayInv, SearchInv, Depth
<1>4. SeenInv'
  BY <1>1, <1>2 DEF SeenInv, SearchInv, OnStack
<1>5. ASSUME cycles' = {} PROVE Clear'
  BY <1>1, <1>2, <1>5 DEF Clear, SearchInv, Finished, OnStack, Depth
<1>6. QED
  BY <1>3, <1>4, <1>5 DEF SearchInv

LEMMA ReadKeeps == SearchInv /\ Read => SearchInv'
<1> SUFFICES ASSUME SearchInv, Read PROVE SearchInv'
  OBVIOUS
<1>1. /\ Aside /\ stage = "file"
      /\ \/ stage' = "schema" /\ issues' = issues
         \/ stage' = "done" /\ issues' = {"file"}
  BY DEF Read
<1>2. CheckTypeOK'
  BY <1>1 DEF CheckTypeOK, SearchInv, Aside, Stages, Kinds, Errors
<1>3. StagesInv'
  BY <1>1 DEF StagesInv, SearchInv, Aside
<1>4. QED
  BY <1>1, <1>2, <1>3, AsideKeeps

LEMMA MatchKeeps == SearchInv /\ MatchSchema => SearchInv'
<1> SUFFICES ASSUME SearchInv, MatchSchema PROVE SearchInv'
  OBVIOUS
<1>1. /\ Aside /\ stage = "schema" /\ stage' = "rules"
      /\ issues' \subseteq issues \cup {"schema"}
  BY DEF MatchSchema
<1>2. CheckTypeOK'
  BY <1>1 DEF CheckTypeOK, SearchInv, Aside, Stages, Kinds, Errors
<1>3. StagesInv'
  BY <1>1 DEF StagesInv, SearchInv, Aside
<1>4. QED
  BY <1>1, <1>2, <1>3, AsideKeeps

LEMMA CrossKeeps == SearchInv /\ CrossCheck => SearchInv'
<1> SUFFICES ASSUME SearchInv, CrossCheck PROVE SearchInv'
  OBVIOUS
<1>1. /\ Aside /\ stage = "rules"
      /\ \/ stage' = "search" /\ issues' = issues \cup Broken
         \/ stage' = "done" /\ issues' = issues \cup {"threw"}
  BY DEF CrossCheck
<1>2. Broken \subseteq Kinds \ {"file", "threw", "cycle"}
  BY DEF Broken, Kinds, Errors
<1>3. CheckTypeOK'
  BY <1>1, <1>2 DEF CheckTypeOK, SearchInv, Aside, Stages, Kinds, Errors
<1>4. StagesInv'
  BY <1>1, <1>2 DEF StagesInv, SearchInv, Aside
<1>5. QED
  BY <1>1, <1>3, <1>4, AsideKeeps

LEMMA ConcludeKeeps == SearchInv /\ Conclude => SearchInv'
<1> SUFFICES ASSUME SearchInv, Conclude PROVE SearchInv'
  OBVIOUS
<1>1. /\ Aside /\ stage = "search" /\ stack = <<>> /\ next \notin Places /\ stage' = "done"
      /\ issues' = issues \cup (IF cycles # {} THEN {"cycle"} ELSE {})
  BY DEF Conclude
<1>2. CheckTypeOK'
  BY <1>1 DEF CheckTypeOK, SearchInv, Aside, Stages, Kinds, Errors
<1>3. Places' = Places /\ next' = next /\ cycles' = cycles /\ stack' = stack
  BY <1>1, SameCase DEF Aside
<1>4. StagesInv'
  BY <1>1, <1>3 DEF StagesInv, SearchInv
<1>5. QED
  BY <1>1, <1>2, <1>4, AsideKeeps

LEMMA CheckKeeps == SearchInv /\ [CheckNext]_checkVars => SearchInv'
<1> SUFFICES ASSUME SearchInv, [CheckNext]_checkVars PROVE SearchInv'
  OBVIOUS
<1>1. CASE UNCHANGED checkVars
  <2>1. Aside /\ stage' = stage /\ issues' = issues
    BY <1>1 DEF checkVars, Aside
  <2>2. CheckTypeOK'
    BY <2>1 DEF CheckTypeOK, SearchInv, Aside
  <2>3. Places' = Places
    BY <2>1, SameCase DEF Aside
  <2>4. StagesInv'
    BY <2>1, <2>3 DEF StagesInv, SearchInv, Aside
  <2>5. QED
    BY <2>1, <2>2, <2>4, AsideKeeps
<1>2. QED
  BY <1>1, ReadKeeps, MatchKeeps, CrossKeeps, RootKeeps, FollowKeeps, ReturnKeeps, ConcludeKeeps
     DEF CheckNext

THEOREM SearchInvariant == CheckSpec => []SearchInv
<1>1. CheckInit => SearchInv
  BY CheckStart
<1>2. SearchInv /\ [CheckNext]_checkVars => SearchInv'
  BY CheckKeeps
<1>3. QED
  BY <1>1, <1>2, PTL DEF CheckSpec

\* The search is over with nothing on the stack and no chapter left out: all of
\* them are finished, and a trap has none that is.
LEMMA SearchReports == SearchInv => CyclesAreReported
<1> SUFFICES ASSUME SearchInv, stage = "done", issues \cap {"file", "threw"} = {}
             PROVE  "cycle" \in issues <=> HasCycle
  BY DEF CyclesAreReported
<1>1. next \notin Places /\ stack = <<>> /\ ("cycle" \in issues <=> cycles # {})
  BY DEF SearchInv, StagesInv
<1>2. ASSUME cycles = {} PROVE ~ HasCycle
  <2>1. OnStack = {}
    BY <1>1 DEF OnStack
  <2>2. Known \subseteq visited
    <3>1. Places = 1 .. Len(case.chapters) /\ Len(case.chapters) \in Nat /\ next \in Nat \ {0}
      BY CaseTypes DEF SearchInv, CheckTypeOK
    <3>2. \A i \in Places : i < next
      BY <1>1, <3>1
    <3>3. QED
      BY <3>2 DEF Known, SearchInv, SeenInv
  <2>3. \A S \in SUBSET Known : Trap(S) => S \cap visited = {}
    BY <1>2, <2>1 DEF SearchInv, Clear, Finished
  <2>4. QED
    BY <2>2, <2>3 DEF HasCycle, Trap
<1>3. QED
  BY <1>1, <1>2 DEF SearchInv, WayInv

\* A cycle is reported exactly when some chapters wait for each other.
THEOREM CyclesAreFound == CheckSpec => []CyclesAreReported
<1>1. SearchInv => CyclesAreReported
  BY SearchReports
<1>2. QED
  BY <1>1, SearchInvariant, PTL

-----------------------------------------------------------------------------
(* The validator ends: every step uses up some of the work that remains.   *)

\* The outer loop takes chapters as far as there are any.
NextFits == next <= Len(case.chapters) + 1

LEMMA NextFitsNext ==
  ASSUME SearchInv, NextFits, [CheckNext]_checkVars
  PROVE  NextFits'
<1>1. /\ Places = 1 .. Len(case.chapters) /\ Len(case.chapters) \in Nat /\ next \in Nat
  BY CaseTypes DEF SearchInv, CheckTypeOK
<1>2. case' = case
  BY DEF CheckNext, checkVars, Read, MatchSchema, CrossCheck, Root, Follow, Return, Conclude,
         Aside, Searching
<1>3. CASE Root
  BY <1>1, <1>2, <1>3 DEF Root, NextFits
<1>4. CASE ~ Root
  <2>1. next' = next
    BY <1>4 DEF CheckNext, checkVars, Read, MatchSchema, CrossCheck, Follow, Return, Conclude, Aside
  <2> QED
    BY <1>2, <2>1 DEF NextFits
<1> QED
  BY <1>3, <1>4

\* What remains is finite.
LEMMA RemainsFinite ==
  ASSUME CheckTypeOK, NextFits
  PROVE  /\ \A calls : IsFiniteSet(ToFollow(calls)) /\ Cardinality(ToFollow(calls)) \in Nat
         /\ IsFiniteSet(ToReturn) /\ Cardinality(ToReturn) \in Nat
         /\ Len(case.chapters) + 1 - next \in Nat
         /\ ToPass[stage] \in Nat
         /\ Remaining \in Nat
<1>1. ASSUME NEW calls
      PROVE  IsFiniteSet(ToFollow(calls)) /\ Cardinality(ToFollow(calls)) \in Nat
  <2>1. ToFollow(calls) \in SUBSET (Names \X Names)
    BY DEF ToFollow
  <2>2. IsFiniteSet(Names \X Names)
    BY NamesAssumption, FS_Product
  <2>3. IsFiniteSet(ToFollow(calls))
    BY <2>1, <2>2, FS_Subset
  <2> QED
    BY <2>3, FS_CardinalityType
<1>2. IsFiniteSet(ToReturn) /\ Cardinality(ToReturn) \in Nat
  <2>1. ToReturn \in SUBSET Names
    BY CaseTypes DEF ToReturn, CheckTypeOK
  <2>2. IsFiniteSet(ToReturn)
    BY <2>1, NamesAssumption, FS_Subset
  <2> QED
    BY <2>2, FS_CardinalityType
<1>3. Len(case.chapters) + 1 - next \in Nat
  BY CaseTypes DEF CheckTypeOK, NextFits
<1>4. ToPass[stage] \in Nat
  BY DEF CheckTypeOK, Stages, ToPass
<1> QED
  BY <1>1, <1>2, <1>3, <1>4 DEF Remaining

\* A call of dfs moves work from the chapter to the stack, and adds none.
LEMMA DfsAddsNoWork ==
  ASSUME SearchInv, NEW n \in Known, NEW calls, Dfs(n, calls), case' = case,
         calls \in Seq(StackFrame), Len(calls) = Depth,
         \A i \in 1 .. Depth : calls[i].id = stack[i].id
  PROVE  ToFollow(stack)' = ToFollow(calls) /\ ToReturn' = ToReturn
<1>1. /\ DOMAIN stack = 1 .. Depth /\ DOMAIN calls = 1 .. Depth /\ Depth \in Nat
      /\ Known' = Known /\ (\A m : Wants(m)' = Wants(m)) /\ n \in Names
      /\ Wants(n) \subseteq Names
  BY StackTypes, SameCase, CaseTypes DEF SearchInv, CheckTypeOK
<1>2. CASE stack' = calls /\ visited' = visited
  <2>1. OnStack' = OnStack
    BY <1>1, <1>2 DEF OnStack
  <2> QED
    BY <1>1, <1>2, <2>1 DEF ToFollow, ToReturn
<1>3. CASE n \notin visited /\ visited' = visited \cup {n} /\ stack' = Append(calls, Frame(n))
  <2>1. Frame(n) \in StackFrame /\ Frame(n).id = n /\ Frame(n).left = Wants(n)
    BY <1>1 DEF Frame, StackFrame
  <2>2. /\ DOMAIN stack' = 1 .. (Depth + 1)
        /\ \A i \in 1 .. Depth : stack'[i] = calls[i]
        /\ stack'[Depth + 1] = Frame(n)
    BY <1>3, <2>1, Pushed
  <2>3. 1 .. (Depth + 1) = (1 .. Depth) \cup {Depth + 1}
    BY <1>1
  <2>4. OnStack' = OnStack \cup {n}
    <3>1. OnStack' = {stack'[i].id : i \in 1 .. (Depth + 1)}
      BY <2>2 DEF OnStack
    <3>2. OnStack = {stack[i].id : i \in 1 .. Depth}
      BY <1>1 DEF OnStack
    <3> QED
      BY <2>1, <2>2, <2>3, <3>1, <3>2
  <2>5. ToReturn' = ToReturn
    BY <1>1, <1>3, <2>4 DEF ToReturn
  <2>6. ASSUME NEW e \in Names \X Names
        PROVE  (\E i \in 1 .. (Depth + 1) : stack'[i].id = e[1] /\ e[2] \in stack'[i].left)
               <=> \/ \E i \in 1 .. Depth : calls[i].id = e[1] /\ e[2] \in calls[i].left
                   \/ e[1] = n /\ e[2] \in Wants(n)
    BY <2>1, <2>2, <2>3
  <2>7. ToFollow(stack)' = {e \in Names \X Names :
                              \/ e[1] \notin visited \cup {n} /\ e[2] \in Wants(e[1])
                              \/ \E i \in 1 .. Depth : calls[i].id = e[1] /\ e[2] \in calls[i].left
                              \/ e[1] = n /\ e[2] \in Wants(n)}
    BY <1>1, <1>3, <2>2, <2>6 DEF ToFollow
  <2>8. ToFollow(calls) = {e \in Names \X Names :
                              \/ e[1] \notin visited /\ e[2] \in Wants(e[1])
                              \/ \E i \in 1 .. Depth : calls[i].id = e[1] /\ e[2] \in calls[i].left}
    BY <1>1 DEF ToFollow
  <2>9. \A e \in Names \X Names :
          (e[1] \notin visited /\ e[2] \in Wants(e[1])) <=>
            \/ e[1] \notin visited \cup {n} /\ e[2] \in Wants(e[1])
            \/ e[1] = n /\ e[2] \in Wants(n)
    BY <1>3
  <2>10. ToFollow(stack)' = ToFollow(calls)
    BY <2>7, <2>8, <2>9, Zenon
  <2> QED
    BY <2>5, <2>10
<1> QED
  BY <1>2, <1>3 DEF Dfs

\* The outer loop uses up a place.
LEMMA RootSpends ==
  ASSUME SearchInv, NextFits, Root
  PROVE  Remaining' < Remaining
<1>1. /\ next \in Places /\ next' = next + 1 /\ case' = case /\ stage' = stage
      /\ Dfs(case.chapters[next].id, stack)
  BY DEF Root, Searching
<1>2. case.chapters[next].id \in Known /\ stack \in Seq(StackFrame) /\ Len(stack) = Depth
  BY <1>1, StackTypes DEF Known, Depth, SearchInv
<1>3. ToFollow(stack)' = ToFollow(stack) /\ ToReturn' = ToReturn
  BY <1>1, <1>2, DfsAddsNoWork
<1>4. /\ Cardinality(ToFollow(stack)) \in Nat /\ Cardinality(ToReturn) \in Nat
      /\ Len(case.chapters) + 1 - next \in Nat /\ ToPass[stage] \in Nat
  BY RemainsFinite DEF SearchInv
<1>5. Len(case.chapters) \in Nat /\ next \in Nat
  BY CaseTypes DEF SearchInv, CheckTypeOK
<1>6. Len(case'.chapters) + 1 - next' = (Len(case.chapters) + 1 - next) - 1
  <2>1. Len(case'.chapters) = Len(case.chapters) /\ next' = next + 1
    BY <1>1
  <2>2. \A k, n \in Nat : k + 1 - (n + 1) = (k + 1 - n) - 1
    OBVIOUS
  <2>3. Len(case.chapters) + 1 - (next + 1) = (Len(case.chapters) + 1 - next) - 1
    BY <1>5, <2>2
  <2> QED
    BY <2>1, <2>3, Zenon
<1>7. Cardinality(ToFollow(stack)') = Cardinality(ToFollow(stack))
      /\ Cardinality(ToReturn') = Cardinality(ToReturn) /\ ToPass[stage'] = ToPass[stage]
  BY <1>1, <1>3
<1> QED
  BY <1>4, <1>6, <1>7 DEF Remaining

\* The inner loop uses up a prerequisite.
LEMMA FollowSpends ==
  ASSUME SearchInv, NextFits, Follow
  PROVE  Remaining' < Remaining
<1>1. stage = "search" /\ stack # <<>> /\ next' = next /\ case' = case /\ stage' = stage
  BY DEF Follow, Searching
<1>2. PICK p \in stack[Depth].left :
        LET calls == [stack EXCEPT ![Depth].left = @ \ {p}]
        IN  \/ p \in Known /\ Dfs(p, calls)
            \/ p \notin Known /\ stack' = calls /\ UNCHANGED <<visited, cycles>>
  BY DEF Follow
<1> DEFINE calls == [stack EXCEPT ![Depth].left = @ \ {p}]
           m == stack[Depth].id
<1>3. /\ stack \in Seq(StackFrame) /\ Depth \in Nat /\ Depth > 0 /\ DOMAIN stack = 1 .. Depth
      /\ m \in Names /\ p \in Names
  BY <1>1, StackTypes DEF SearchInv
<1>4. /\ calls \in Seq(StackFrame) /\ Len(calls) = Depth /\ DOMAIN calls = 1 .. Depth
      /\ \A i \in 1 .. Depth : calls[i].id = stack[i].id
      /\ \A i \in 1 .. (Depth - 1) : calls[i].left = stack[i].left
      /\ calls[Depth].left = stack[Depth].left \ {p}
  BY <1>1, <1>3, Taken DEF Depth
<1> HIDE DEF calls
<1>5. /\ m \in visited
      /\ \A i \in 1 .. Depth : stack[i].id = m => i = Depth
  BY <1>3 DEF SearchInv, SeenInv, OnStack
<1>6. ToFollow(calls) = ToFollow(stack) \ {<<m, p>>} /\ <<m, p>> \in ToFollow(stack)
  <2>1. \A i \in 1 .. Depth : i # Depth => calls[i].left = stack[i].left
    <3>1. \A i \in 1 .. Depth : i # Depth => i \in 1 .. (Depth - 1)
      BY <1>3
    <3> QED
      BY <1>4, <3>1
  <2>2. ASSUME NEW e \in Names \X Names
        PROVE  e \in ToFollow(calls) <=> e \in ToFollow(stack) /\ e # <<m, p>>
    <3>1. e = <<e[1], e[2]>>
      OBVIOUS
    <3>2. CASE e[1] = m
      <4>1. e \in ToFollow(stack) <=> e[2] \in stack[Depth].left
        BY <1>3, <1>5, <3>2 DEF ToFollow
      <4>2. e \in ToFollow(calls) <=> e[2] \in stack[Depth].left \ {p}
        BY <1>3, <1>4, <1>5, <3>2 DEF ToFollow
      <4> QED
        BY <3>1, <3>2, <4>1, <4>2
    <3>3. CASE e[1] # m
      <4>1. \A i \in 1 .. Depth : stack[i].id = e[1] => i # Depth
        BY <3>3
      <4>2. e # <<m, p>>
        BY <3>3
      <4> QED
        BY <1>3, <1>4, <2>1, <4>1, <4>2 DEF ToFollow
    <3> QED
      BY <3>2, <3>3
  <2>3. ToFollow(calls) \subseteq Names \X Names /\ ToFollow(stack) \subseteq Names \X Names
    BY DEF ToFollow
  <2>4. <<m, p>> \in ToFollow(stack)
    BY <1>2, <1>3 DEF ToFollow
  <2> QED
    BY <2>2, <2>3, <2>4
<1>7. ToFollow(stack)' = ToFollow(calls) /\ ToReturn' = ToReturn
  <2>1. CASE p \in Known /\ Dfs(p, calls)
    BY <1>1, <1>4, <2>1, DfsAddsNoWork
  <2>2. CASE stack' = calls /\ UNCHANGED visited
    <3>1. OnStack' = OnStack
      BY <1>3, <1>4, <2>2 DEF OnStack
    <3>2. Known' = Known /\ \A x : Wants(x)' = Wants(x)
      BY <1>1, SameCase
    <3> QED
      BY <2>2, <3>1, <3>2 DEF ToFollow, ToReturn
  <2> QED
    BY <1>2, <2>1, <2>2 DEF calls
<1>8. /\ IsFiniteSet(ToFollow(stack)) /\ Cardinality(ToFollow(stack)) \in Nat
      /\ Cardinality(ToReturn) \in Nat
      /\ Len(case.chapters) + 1 - next \in Nat /\ ToPass[stage] \in Nat
  BY RemainsFinite DEF SearchInv
<1>9. Cardinality(ToFollow(calls)) = Cardinality(ToFollow(stack)) - 1
  <2> DEFINE before == ToFollow(stack)
             e == <<m, p>>
  <2>1. e \in before /\ IsFiniteSet(before) /\ ToFollow(calls) = before \ {e}
    BY <1>6, <1>8
  <2> HIDE DEF before, e
  <2>2. Cardinality(before \ {e}) = Cardinality(before) - 1
    BY <2>1, FS_RemoveElement
  <2> QED
    BY <2>1, <2>2 DEF before
<1> QED
  BY <1>1, <1>7, <1>8, <1>9 DEF Remaining

\* Coming back from a chapter, it is finished.
LEMMA ReturnSpends ==
  ASSUME SearchInv, NextFits, Return
  PROVE  Remaining' < Remaining
<1> DEFINE m == stack[Depth].id
<1>1. /\ stack # <<>> /\ stack[Depth].left = {} /\ stack' = SubSeq(stack, 1, Depth - 1)
      /\ next' = next /\ visited' = visited /\ case' = case /\ stage' = stage
  BY DEF Return, Searching
<1>2. /\ stack \in Seq(StackFrame) /\ Depth \in Nat /\ Depth > 0 /\ DOMAIN stack = 1 .. Depth
  BY <1>1, StackTypes DEF SearchInv
<1>3. /\ DOMAIN stack' = 1 .. (Depth - 1)
      /\ \A i \in 1 .. (Depth - 1) : stack'[i] = stack[i]
  BY <1>1, <1>2, Popped DEF Depth
<1>4. Known' = Known /\ \A x : Wants(x)' = Wants(x)
  BY <1>1, SameCase
<1>5. 1 .. Depth = (1 .. (Depth - 1)) \cup {Depth} /\ Depth \notin 1 .. (Depth - 1)
  BY <1>2
<1>6. OnStack = OnStack' \cup {m} /\ m \notin OnStack' /\ m \in visited /\ m \in Known
  <2>1. OnStack = {stack[i].id : i \in 1 .. Depth} /\ OnStack' = {stack[i].id : i \in 1 .. (Depth - 1)}
    BY <1>2, <1>3 DEF OnStack
  <2>2. \A i \in 1 .. (Depth - 1) : stack[i].id # m
    BY <1>2, <1>5 DEF SearchInv, SeenInv
  <2>3. m \in Known
    BY <1>2 DEF SearchInv, WayInv
  <2> QED
    BY <1>5, <2>1, <2>2, <2>3 DEF SearchInv, SeenInv
<1>7. ToReturn' = ToReturn \ {m} /\ m \in ToReturn
  BY <1>1, <1>4, <1>6 DEF ToReturn
<1>8. ToFollow(stack)' = ToFollow(stack)
  <2>1. ASSUME NEW e \in Names \X Names
        PROVE  (\E i \in 1 .. (Depth - 1) : stack'[i].id = e[1] /\ e[2] \in stack'[i].left)
               <=> \E i \in 1 .. Depth : stack[i].id = e[1] /\ e[2] \in stack[i].left
    BY <1>1, <1>3, <1>5
  <2> QED
    BY <1>1, <1>2, <1>3, <1>4, <2>1 DEF ToFollow
<1>9. /\ Cardinality(ToFollow(stack)) \in Nat
      /\ IsFiniteSet(ToReturn) /\ Cardinality(ToReturn) \in Nat
      /\ Len(case.chapters) + 1 - next \in Nat /\ ToPass[stage] \in Nat
  BY RemainsFinite DEF SearchInv
<1>10. Cardinality(ToReturn') = Cardinality(ToReturn) - 1
  BY <1>7, <1>9, FS_RemoveElement
<1> QED
  BY <1>1, <1>8, <1>9, <1>10 DEF Remaining

\* A stage that is over does not come back.
LEMMA StageSpends ==
  ASSUME SearchInv, NextFits, Read \/ MatchSchema \/ CrossCheck \/ Conclude
  PROVE  Remaining' < Remaining
<1>1. Aside
  BY DEF Read, MatchSchema, CrossCheck, Conclude
<1>2. ToPass[stage'] \in Nat /\ ToPass[stage] \in Nat /\ ToPass[stage'] < ToPass[stage]
  BY DEF Read, MatchSchema, CrossCheck, Conclude, ToPass
<1>3. Known' = Known /\ OnStack' = OnStack /\ \A x : Wants(x)' = Wants(x)
  BY <1>1, SameCase DEF Aside, OnStack
<1>4. ToFollow(stack)' = ToFollow(stack) /\ ToReturn' = ToReturn
  BY <1>1, <1>3 DEF Aside, ToFollow, ToReturn
<1>5. /\ Cardinality(ToFollow(stack)) \in Nat /\ Cardinality(ToReturn) \in Nat
      /\ Len(case.chapters) + 1 - next \in Nat
  BY RemainsFinite DEF SearchInv
<1> QED
  BY <1>1, <1>2, <1>4, <1>5 DEF Aside, Remaining

\* Every step of the validation uses up some of the work that remains
\* (WorkGoesDown): it ends, whatever waits for whatever in the case.
THEOREM ValidationEnds == CheckSpec => WorkGoesDown
<1>1. CheckInit => NextFits
  BY CasesAssumption, CaseTypes DEF CheckInit, NextFits
<1>2. SearchInv /\ NextFits /\ [CheckNext]_checkVars => NextFits'
  BY NextFitsNext
<1>3. ASSUME SearchInv, NextFits, CheckNext PROVE LessRemains
  <2>1. NextFits' /\ CheckTypeOK'
    BY <1>3, NextFitsNext, CheckKeeps DEF SearchInv
  <2>2. Remaining \in Nat
    BY <1>3, RemainsFinite DEF SearchInv
  <2> QED
    BY <1>3, <2>1, <2>2, RootSpends, FollowSpends, ReturnSpends, StageSpends
       DEF CheckNext, LessRemains
<1>4. SearchInv /\ NextFits /\ [CheckNext]_checkVars => [LessRemains]_checkVars
  BY <1>3
<1> QED
  BY <1>1, <1>2, <1>4, SearchInvariant, PTL DEF CheckSpec, WorkGoesDown
=============================================================================
