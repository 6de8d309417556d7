--------------------------- MODULE BrowserProofs ----------------------------
(* RealtimeToken: for any number of hooks and all times that satisfy the   *)
(* assumption, the client's token outlasts every wait and every fetch.     *)
(* Phone: for all seats, suspects, exhibits and texts, and however often   *)
(* "Ask suspect" is pressed, a question has one request id, the id has one *)
(* question, and what was dictated is in the box once.                     *)
EXTENDS RealtimeToken, Phone, Screens, LeastAndGreatest, SequenceTheorems, FiniteSetTheorems, TLAPS

\* Of the record k of a hook, when the client's token lasts for t.
Punctual(k, t) ==
  /\ k.left <= Slack
  \* Every token in an answer is young ...
  /\ k.at \in {"first", "left", "renewing"} /\ k.minted =>
       k.life <= Lifetime /\ k.life + Slack >= Lifetime + k.left
  \* ... no timer is set past the margin of a token minted by now ...
  /\ k.at = "waiting" => k.due + Margin <= Lifetime
  \* ... and the client's token outlasts the wait and the fetch that follows.
  /\ k.at = "waiting" => k.due + Slack < t
  /\ k.at = "renewing" => k.left < t

PunctualInv == ~ trouble => \A h \in Hooks : Punctual(hook[h], token)

TokenInv == TypeOK /\ PunctualInv

-----------------------------------------------------------------------------
(* The records that steps leave behind. *)

Sending(why)    == [Off EXCEPT !.at = why, !.left = Slack]
Timed(due)      == [Off EXCEPT !.at = "waiting", !.due = due]
Minted(k)       == [k EXCEPT !.minted = TRUE, !.life = Lifetime]
Leaving(k)      == [k EXCEPT !.at = "left"]
Older(k)        == [k EXCEPT !.life = Down(@), !.left = Down(@), !.due = Down(@)]

LEMMA DownIsNat == \A n \in Nat : Down(n) \in Nat /\ Down(n) <= n /\ (n > 0 => Down(n) = n - 1)
BY DEF Down

LEMMA RecordsTyped ==
  /\ Off \in Hook
  /\ \A why \in {"first", "renewing"} : Sending(why) \in Hook
  /\ \A due \in Nat : Timed(due) \in Hook
  /\ \A k \in Hook : Minted(k) \in Hook /\ Leaving(k) \in Hook /\ Older(k) \in Hook
<1>1. Off \in Hook
  BY DEF Off, Hook
<1>2. \A why \in {"first", "renewing"} : Sending(why) \in Hook
  BY TokenTimesAssumption DEF Sending, Off, Hook
<1>3. \A due \in Nat : Timed(due) \in Hook
  BY DEF Timed, Off, Hook
<1>4. ASSUME NEW k \in Hook PROVE Minted(k) \in Hook /\ Leaving(k) \in Hook
  BY TokenTimesAssumption DEF Minted, Leaving, Hook
<1>5. ASSUME NEW k \in Hook PROVE Older(k) \in Hook
  BY DownIsNat DEF Older, Hook
<1> QED BY <1>1, <1>2, <1>3, <1>4, <1>5

LEMMA DueBounds == \A life \in Nat : Due(life) \in Nat
BY TokenTimesAssumption DEF Due

\* A step that replaces the record of one hook by k, while no trouble arises.
LEMMA OneHook ==
  ASSUME TokenInv, NEW h \in Hooks, NEW k \in Hook,
         hook' = [hook EXCEPT ![h] = k], token' \in Nat, trouble' = trouble,
         ~ trouble => Punctual(k, token'),
         ~ trouble => \A g \in Hooks \ {h} : Punctual(hook[g], token')
  PROVE  TokenInv'
<1>1. /\ hook' \in [Hooks -> Hook] /\ hook'[h] = k
      /\ \A g \in Hooks \ {h} : hook'[g] = hook[g]
  BY DEF TokenInv, TypeOK
<1>2. TypeOK'
  BY <1>1 DEF TokenInv, TypeOK
<1>3. ASSUME ~ trouble', NEW g \in Hooks PROVE Punctual(hook'[g], token')
  BY <1>1, <1>3
<1> QED BY <1>2, <1>3 DEF TokenInv, PunctualInv

LEMMA HookStepPreserves ==
  ASSUME TokenInv, NEW h \in Hooks, HookStep(h)
  PROVE  TokenInv'
<1> DEFINE old == hook[h]
<1>1. /\ old \in Hook /\ token \in Nat /\ trouble \in BOOLEAN /\ hook \in [Hooks -> Hook]
      /\ old.life \in Nat /\ old.left \in Nat /\ old.due \in Nat
      /\ Lifetime \in Nat /\ Margin \in Nat /\ MinWait \in Nat /\ Slack \in Nat
  BY TokenTimesAssumption DEF TokenInv, TypeOK, Hook
<1>2. /\ ~ trouble => Punctual(old, token)
      /\ ~ trouble => \A g \in Hooks \ {h} : Punctual(hook[g], token)
  BY DEF TokenInv, PunctualInv
<1>3. CASE Mount(h)
  <2>1. hook' = [hook EXCEPT ![h] = Sending("first")] /\ UNCHANGED <<token, trouble>>
    BY <1>3 DEF Mount, Fetches, Sending
  <2>2. Punctual(Sending("first"), token)
    BY <1>1 DEF Punctual, Sending, Off
  <2> QED BY <1>1, <1>2, <2>1, <2>2, RecordsTyped, OneHook
<1>4. CASE Fire(h)
  <2>1. hook' = [hook EXCEPT ![h] = Sending("renewing")] /\ UNCHANGED <<token, trouble>>
    BY <1>4 DEF Fire, Fetches, Sending
  <2>2. ~ trouble => Slack < token
    BY <1>1, <1>2, <1>4 DEF Fire, Punctual
  <2>3. ~ trouble => Punctual(Sending("renewing"), token)
    BY <1>1, <2>2 DEF Punctual, Sending, Off
  <2> QED BY <1>1, <1>2, <2>1, <2>3, RecordsTyped, OneHook
<1>5. CASE Mint(h)
  <2>1. hook' = [hook EXCEPT ![h] = Minted(old)] /\ UNCHANGED <<token, trouble>>
    BY <1>5 DEF Mint, Minted
  <2>2. /\ Minted(old).at = old.at /\ Minted(old).life = Lifetime
        /\ Minted(old).left = old.left /\ Minted(old).due = old.due
    BY <1>1 DEF Minted, Hook
  <2>3. ~ trouble => Punctual(Minted(old), token)
    BY <1>1, <1>2, <2>2 DEF Punctual
  <2> QED BY <1>1, <1>2, <2>1, <2>3, RecordsTyped, OneHook
<1>6. CASE Arrive(h)
  <2>1. /\ token' = old.life /\ UNCHANGED trouble
        /\ ~ trouble => old.life <= Lifetime /\ old.life + Slack >= Lifetime
    BY <1>1, <1>2, <1>6 DEF Arrive, Fetching, Punctual
  <2>2. ASSUME ~ trouble, NEW g \in Hooks \ {h} PROVE Punctual(hook[g], token')
    <3>1. /\ hook[g].left \in Nat /\ hook[g].due \in Nat
          /\ Punctual(hook[g], token)
      BY <1>1, <1>2, <2>2 DEF Hook
    <3> QED BY <1>1, <2>1, <2>2, <3>1, TokenTimesAssumption DEF Punctual
  <2>3. CASE old.at = "left"
    <3>1. hook' = [hook EXCEPT ![h] = Off]
      BY <1>6, <2>3 DEF Arrive
    <3>2. Punctual(Off, token')
      BY <1>1 DEF Punctual, Off
    <3> QED BY <1>1, <2>1, <2>2, <3>1, <3>2, RecordsTyped, OneHook
  <2>4. CASE old.at # "left"
    <3>1. hook' = [hook EXCEPT ![h] = Timed(Due(old.life))]
      BY <1>6, <2>4 DEF Arrive, Waits, Timed
    <3>2. ~ trouble => /\ Due(old.life) + Margin <= Lifetime
                       /\ Due(old.life) + Slack < old.life
      BY <1>1, <2>1, TokenTimesAssumption DEF Due
    <3>3. ~ trouble => Punctual(Timed(Due(old.life)), token')
      BY <1>1, <2>1, <3>2, DueBounds DEF Punctual, Timed, Off
    <3> QED BY <1>1, <2>1, <2>2, <3>1, <3>3, DueBounds, RecordsTyped, OneHook
  <2> QED BY <2>3, <2>4
<1>7. CASE FirstFails(h)
  <2>1. hook' = [hook EXCEPT ![h] = Off] /\ UNCHANGED <<token, trouble>>
    BY <1>7 DEF FirstFails
  <2>2. Punctual(Off, token)
    BY <1>1 DEF Punctual, Off
  <2> QED BY <1>1, <1>2, <2>1, <2>2, RecordsTyped, OneHook
<1>8. CASE RenewalFails(h)
  <2>1. hook' = [hook EXCEPT ![h] = Timed(MinWait)] /\ trouble' = TRUE /\ token' = token
    BY <1>8 DEF RenewalFails, Waits, Timed
  <2> QED BY <1>1, <2>1, RecordsTyped DEF TokenInv, TypeOK, PunctualInv
<1>9. CASE Unmount(h)
  <2>1. CASE old.at = "first"
    <3>1. hook' = [hook EXCEPT ![h] = Leaving(old)] /\ UNCHANGED <<token, trouble>>
      BY <1>9, <2>1 DEF Unmount, Leaving
    <3>2. /\ Leaving(old).at = "left" /\ Leaving(old).life = old.life
          /\ Leaving(old).left = old.left /\ Leaving(old).minted = old.minted
      BY <1>1 DEF Leaving, Hook
    <3>3. ~ trouble => Punctual(Leaving(old), token)
      BY <1>1, <1>2, <2>1, <3>2 DEF Punctual
    <3> QED BY <1>1, <1>2, <3>1, <3>3, RecordsTyped, OneHook
  <2>2. CASE old.at # "first"
    <3>1. hook' = [hook EXCEPT ![h] = Off] /\ UNCHANGED <<token, trouble>>
      BY <1>9, <2>2 DEF Unmount
    <3>2. Punctual(Off, token)
      BY <1>1 DEF Punctual, Off
    <3> QED BY <1>1, <1>2, <3>1, <3>2, RecordsTyped, OneHook
  <2> QED BY <2>1, <2>2
<1> QED BY <1>3, <1>4, <1>5, <1>6, <1>7, <1>8, <1>9 DEF HookStep

LEMMA TickPreserves ==
  ASSUME TokenInv, Tick
  PROVE  TokenInv'
<1>1. /\ token' = Down(token) /\ token \in Nat
      /\ hook' = [h \in Hooks |-> Older(hook[h])] /\ hook \in [Hooks -> Hook]
      /\ trouble' \in BOOLEAN
  BY DEF Tick, Older, TokenInv, TypeOK
<1>2. TypeOK'
  BY <1>1, RecordsTyped, DownIsNat DEF TypeOK
<1>3. ASSUME ~ trouble', NEW h \in Hooks PROVE Punctual(hook'[h], token')
  <2> DEFINE old == hook[h]
  <2>1. /\ ~ trouble /\ Punctual(old, token)
        /\ Fetching(h) => old.left # 0
        /\ old.at = "waiting" => old.due # 0
    BY <1>3 DEF Tick, TokenInv, PunctualInv
  <2>2. /\ old \in Hook /\ old.life \in Nat /\ old.left \in Nat /\ old.due \in Nat
    BY <1>1 DEF Hook
  <2>3. /\ hook'[h].at = old.at /\ hook'[h].minted = old.minted
        /\ hook'[h].life = Down(old.life) /\ hook'[h].left = Down(old.left)
        /\ hook'[h].due = Down(old.due)
    BY <1>1, <2>2 DEF Older, Hook
  <2> HIDE DEF old
  <2>4. /\ Down(old.life) = IF old.life = 0 THEN 0 ELSE old.life - 1
        /\ Down(old.left) = IF old.left = 0 THEN 0 ELSE old.left - 1
        /\ Down(old.due)  = IF old.due = 0 THEN 0 ELSE old.due - 1
        /\ token' = IF token = 0 THEN 0 ELSE token - 1
    BY <1>1 DEF Down
  <2> QED BY <1>1, <2>1, <2>2, <2>3, <2>4, TokenTimesAssumption DEF Punctual, Fetching, old
<1> QED BY <1>2, <1>3 DEF TokenInv, PunctualInv

THEOREM TokenInduction == TokenInv /\ [Next]_vars => TokenInv'
<1> SUFFICES ASSUME TokenInv, [Next]_vars PROVE TokenInv'
  OBVIOUS
<1>1. CASE UNCHANGED vars
  BY <1>1 DEF vars, TokenInv, TypeOK, PunctualInv, Punctual, Fetching
<1> QED BY <1>1, HookStepPreserves, TickPreserves DEF Next

LEMMA TokenInitially == Init => TokenInv
<1> SUFFICES ASSUME Init PROVE TokenInv
  OBVIOUS
<1>1. TypeOK
  BY RecordsTyped DEF Init, TypeOK
<1>2. Punctual(Off, token)
  BY TokenTimesAssumption DEF Punctual, Off
<1> QED BY <1>1, <1>2 DEF Init, TokenInv, PunctualInv

\* Types.
THEOREM TokenTyped == Spec => []TypeOK
<1>1. TokenInv => TypeOK
  BY DEF TokenInv
<1> QED BY <1>1, TokenInitially, TokenInduction, PTL DEF Spec

\* The token never expires under a subscription while fetches take less than half
\* of the margin.
THEOREM TokenNeverExpires == Spec => []NeverExpires
<1>1. TokenInv => NeverExpires
  <2> SUFFICES ASSUME TokenInv, ~ trouble, NEW h \in Hooks, Subscribed(h)
               PROVE  token > 0
    BY DEF NeverExpires
  <2>1. hook[h] \in Hook /\ Punctual(hook[h], token) /\ token \in Nat
    BY DEF TokenInv, TypeOK, PunctualInv
  <2>2. hook[h].at \in {"waiting", "renewing"} /\ hook[h].due \in Nat /\ hook[h].left \in Nat
    BY <2>1 DEF Subscribed, Hook
  <2> QED BY <2>1, <2>2, TokenTimesAssumption DEF Punctual
<1> QED BY <1>1, TokenInitially, TokenInduction, PTL DEF Spec

\* Of the record k of a hook, whatever goes wrong: no token outlives a new one, and
\* no timer is set past the margin of one.
Renewing(k) == k.life <= Lifetime /\ (k.at = "waiting" => k.due + Margin <= Lifetime)

RenewingInv == \A h \in Hooks : Renewing(hook[h])

LEMMA RenewingKept ==
  ASSUME TypeOK, RenewingInv, [Next]_vars
  PROVE  RenewingInv'
<1>1. /\ \A h \in Hooks : hook[h] \in Hook /\ Renewing(hook[h])
      /\ Lifetime \in Nat /\ Margin \in Nat /\ MinWait \in Nat /\ MinWait + Margin <= Lifetime
  BY TokenTimesAssumption DEF TypeOK, RenewingInv
<1>2. ASSUME NEW h \in Hooks, NEW k, Renewing(k), hook' = [hook EXCEPT ![h] = k]
      PROVE  RenewingInv'
  BY <1>1, <1>2 DEF RenewingInv, TypeOK
<1>3. \A why \in {"first", "renewing"} : Renewing(Off) /\ Renewing(Sending(why))
  BY <1>1 DEF Renewing, Sending, Off
<1>4. \A due \in Nat : due + Margin <= Lifetime => Renewing(Timed(due))
  BY <1>1 DEF Renewing, Timed, Off
<1>5. ASSUME NEW h \in Hooks, HookStep(h)
      PROVE  RenewingInv'
  <2> DEFINE old == hook[h]
  <2>1. old \in Hook /\ Renewing(old) /\ old.life \in Nat
    BY <1>1 DEF Hook
  <2>2. CASE Mount(h) \/ Fire(h)
    <3>1. \E why \in {"first", "renewing"} : hook' = [hook EXCEPT ![h] = Sending(why)]
      BY <2>2 DEF Mount, Fire, Fetches, Sending
    <3>2. QED
      BY <1>2, <1>3, <3>1
  <2>3. CASE Mint(h)
    <3>1. hook' = [hook EXCEPT ![h] = Minted(old)]
      BY <2>3 DEF Mint, Minted
    <3>2. Minted(old).life = Lifetime /\ Minted(old).at = old.at /\ Minted(old).due = old.due
      BY <2>1 DEF Minted, Hook
    <3>3. Renewing(Minted(old))
      BY <1>1, <2>1, <3>2 DEF Renewing
    <3> HIDE DEF old
    <3>4. QED
      BY <1>2, <3>1, <3>3
  <2>4. CASE Arrive(h)
    <3>1. Due(old.life) \in Nat /\ Due(old.life) + Margin <= Lifetime
      BY <1>1, <2>1 DEF Due, Renewing
    <3>2. hook' = [hook EXCEPT ![h] = Off] \/ hook' = [hook EXCEPT ![h] = Timed(Due(old.life))]
      BY <2>4 DEF Arrive, Waits, Timed
    <3>3. Renewing(Timed(Due(old.life)))
      BY <1>4, <3>1
    <3>4. QED
      BY <1>2, <1>3, <3>2, <3>3
  <2>5. CASE RenewalFails(h)
    <3>1. hook' = [hook EXCEPT ![h] = Timed(MinWait)]
      BY <2>5 DEF RenewalFails, Waits, Timed
    <3>2. QED
      BY <1>1, <1>2, <1>4, <3>1
  <2>6. CASE FirstFails(h)
    BY <1>2, <1>3, <2>6 DEF FirstFails
  <2>7. CASE Unmount(h)
    <3>1. hook' = [hook EXCEPT ![h] = Off] \/ hook' = [hook EXCEPT ![h] = Leaving(old)]
      BY <2>7 DEF Unmount, Leaving
    <3>2. Renewing(Leaving(old))
      BY <1>1, <2>1 DEF Renewing, Leaving, Hook
    <3>3. QED
      BY <1>2, <1>3, <3>1, <3>2
  <2>8. QED
    BY <1>5, <2>2, <2>3, <2>4, <2>5, <2>6, <2>7 DEF HookStep
<1>6. CASE Tick
  <2>1. SUFFICES ASSUME NEW h \in Hooks
                 PROVE  Renewing(hook'[h])
    BY DEF RenewingInv, Renewing
  <2>2. hook[h] \in Hook /\ hook[h].life \in Nat /\ hook[h].due \in Nat
    BY <1>1 DEF Hook
  <2>3. /\ hook'[h].life <= hook[h].life /\ hook'[h].due <= hook[h].due
        /\ hook'[h].life \in Nat /\ hook'[h].due \in Nat /\ hook'[h].at = hook[h].at
    <3>1. hook'[h] = Older(hook[h])
      BY <1>6 DEF Tick, Older
    <3>2. /\ hook'[h].life = Down(hook[h].life) /\ hook'[h].due = Down(hook[h].due)
          /\ hook'[h].at = hook[h].at
      BY <2>2, <3>1 DEF Older, Hook
    <3>3. QED
      BY <2>2, <3>2, DownIsNat
  <2>4. QED
    BY <1>1, <2>2, <2>3 DEF Renewing
<1>7. CASE UNCHANGED vars
  BY <1>7 DEF vars, RenewingInv, Renewing
<1>8. QED
  BY <1>5, <1>6, <1>7 DEF Next

\* A hook that is subscribed never loses its timer, and the timer is never set past
\* the margin of a token minted now (KeepsRenewing), however late fetches are, and
\* whether they fail.  TokenHeals needs in addition that time passes, that timers
\* fire and that one of the renewals comes through.
THEOREM HooksKeepRenewing == Spec => []KeepsRenewing
<1>1. Init => RenewingInv
  <2>1. Off.life <= Lifetime /\ Off.at = "off"
    BY TokenTimesAssumption DEF Off
  <2>2. QED
    BY <2>1 DEF Init, RenewingInv, Renewing
<1>2. TypeOK /\ RenewingInv /\ [Next]_vars => RenewingInv'
  BY RenewingKept
<1>3. TypeOK /\ RenewingInv => KeepsRenewing
  <2>1. SUFFICES ASSUME TypeOK, RenewingInv, NEW h \in Hooks, Subscribed(h)
                 PROVE  \/ hook[h].at = "renewing"
                        \/ hook[h].at = "waiting" /\ hook[h].due + Margin <= Lifetime
    BY DEF KeepsRenewing
  <2>2. hook[h].at \in {"waiting", "renewing"}
    BY <2>1 DEF TypeOK, Hook, Subscribed
  <2>3. QED
    BY <2>1, <2>2 DEF RenewingInv, Renewing
<1>4. QED
  BY <1>1, <1>2, <1>3, TokenTyped, PTL DEF Spec

-----------------------------------------------------------------------------
(* Phone: types, except what the room and the phone's view of it say of the microphone. *)

Rooms == [suspect : Onstage \cup {NoOne}, mic : {room.mic}, paused : {room.paused}]
Views == [suspect : Onstage \cup {NoOne}, mic : {view.mic}, paused : {view.paused},
          pending : {view.pending}]

PhoneShape ==
  /\ version \in Nat /\ holder \in Ids \cup {NoId} /\ granted \in Nat /\ answered \subseteq Ids
  /\ room \in Rooms /\ view \in Views
  /\ inputs \in [Ids -> Content]
  /\ worker \in Press \cup {NoPress} /\ published \subseteq Answer /\ sent \subseteq Press
  /\ box \in Seq(Word) /\ exhibit \in Exhibits \cup {NoExhibit}
  /\ pendingQuestion \in [key : Key, id : Ids] \cup {NoQuestion}
  /\ asking \in [at : {"idle", "out", "ok", "no"}, press : 0..MaxPresses]
  /\ isListening \in BOOLEAN /\ heard \in Word
  /\ finalTranscript \in Seq(Word) /\ lastAppended \in Seq(Word)
  /\ round \in 0..MaxPresses /\ lastKey \in Key \cup {NoKey} /\ spent \subseteq Word

PhoneInvTypes ==
  /\ PhoneShape
  /\ round <= asking.press
  /\ lastKey # NoKey => round > 0
  /\ lastKey = pendingQuestion.key
  /\ holder # NoId => worker \in Press

LEMMA ContentsTyped ==
  /\ NoContent \in Content
  /\ NoId \notin Ids
  /\ NoQuestion.key = NoKey
  /\ \A s \in Onstage, t \in Seq(Word), e \in Exhibits \cup {NoExhibit} :
       /\ [suspect |-> s, text |-> t, exhibit |-> e] \in Key
       /\ [text |-> t, exhibit |-> e] \in Content
  /\ \A s \in Onstage, t \in Seq(Word), e \in Exhibits \cup {NoExhibit} :
       [suspect |-> s, text |-> t, exhibit |-> e] # NoKey
BY NoneAssumption DEF NoContent, Content, Key, NoKey, NoQuestion, NoId, Ids

LEMMA PhoneTypesInitially == PhoneInit => PhoneInvTypes
<1> SUFFICES ASSUME PhoneInit PROVE PhoneInvTypes
  OBVIOUS
<1>1. version \in Nat /\ holder \in Ids \cup {NoId} /\ granted \in Nat /\ answered \subseteq Ids
  BY DEF PhoneInit, Server!Init
<1>2. room \in Rooms /\ view \in Views
  BY DEF PhoneInit, Rooms, Views
<1>3. inputs \in [Ids -> Content]
  BY ContentsTyped DEF PhoneInit
<1>4. /\ asking \in [at : {"idle", "out", "ok", "no"}, press : 0..MaxPresses]
      /\ heard \in Word /\ round \in 0..MaxPresses /\ round <= asking.press
  BY PhoneBoundsAssumption DEF PhoneInit, Word
<1>5. holder = NoId
  BY DEF PhoneInit, Server!Init
<1>6. pendingQuestion.key = NoKey /\ lastKey = NoKey /\ round = 0
  BY ContentsTyped DEF PhoneInit
<1>7. box \in Seq(Word) /\ finalTranscript \in Seq(Word) /\ lastAppended \in Seq(Word)
  BY DEF PhoneInit
<1>8. PhoneShape
  BY <1>1, <1>2, <1>3, <1>4, <1>7 DEF PhoneInit, PhoneShape
<1> QED BY <1>4, <1>5, <1>6, <1>8 DEF PhoneInvTypes

LEMMA RespondTyped ==
  ASSUME PhoneInvTypes, NEW m, NEW how \in {"ok", "no"}, Respond(m, how)
  PROVE  /\ asking' \in [at : {"idle", "out", "ok", "no"}, press : 0..MaxPresses]
         /\ asking'.press = asking.press
BY DEF PhoneInvTypes, PhoneShape, Respond

\* What the route does.
LEMMA RouteTypes == ASSUME PhoneInvTypes, Route PROVE PhoneInvTypes'
<1> USE DEF PhoneInvTypes, PhoneShape, Rooms, Views
<1>1. ASSUME NEW m \in sent, Begins(m) PROVE PhoneInvTypes'
  <2>1. m \in Press /\ m.id \in Ids /\ m.content \in Content
    BY DEF Press
  <2>2. /\ version' = version /\ holder' = m.id /\ granted' = version' /\ answered' = answered
    BY <1>1 DEF Begins, Server!Grant
  <2>3. inputs' \in [Ids -> Content] /\ worker' = m /\ sent' \subseteq sent
    BY <1>1, <2>1 DEF Begins, Received
  <2> QED
    BY <1>1, <2>1, <2>2, <2>3 DEF Begins, phone, draft, dictation, history
<1>2. ASSUME NEW m \in sent, Replays(m) \/ Refuses(m) PROVE PhoneInvTypes'
  <2>1. /\ asking' \in [at : {"idle", "out", "ok", "no"}, press : 0..MaxPresses]
        /\ asking'.press = asking.press
    BY <1>2, RespondTyped DEF Replays, Refuses
  <2> QED
    BY <1>2, <2>1
    DEF Replays, Refuses, Received, serverVars, ledger, draft, dictation, history
<1>3. CASE Answers
  <2>1. /\ asking' \in [at : {"idle", "out", "ok", "no"}, press : 0..MaxPresses]
        /\ asking'.press = asking.press
    BY <1>3, RespondTyped DEF Answers
  <2>2. worker \in Press /\ holder # NoId
    BY <1>3 DEF Answers
  <2>3. published' \subseteq Answer /\ worker' = NoPress
    BY <1>3, <2>2 DEF Answers, Answer, Press
  <2>4. version' \in Nat /\ holder' = NoId /\ granted' = 0 /\ answered' \subseteq Ids
    BY <1>3, <2>2 DEF Answers, Server!Publish
  <2> QED
    BY <1>3, <2>1, <2>3, <2>4 DEF Answers, draft, dictation, history
<1>4. CASE GivesUp
  <2>1. /\ asking' \in [at : {"idle", "out", "ok", "no"}, press : 0..MaxPresses]
        /\ asking'.press = asking.press
    BY <1>4, RespondTyped DEF GivesUp
  <2>2. version' = version /\ holder' = NoId /\ granted' = 0 /\ answered' = answered
    BY <1>4 DEF GivesUp, Server!GiveBack
  <2> QED
    BY <1>4, <2>1, <2>2 DEF GivesUp, draft, dictation, history
<1> QED BY <1>1, <1>2, <1>3, <1>4 DEF Route

LEMMA ChangeTypes ==
  ASSUME PhoneInvTypes, Server!Change
  PROVE  version' \in Nat /\ holder' = NoId /\ granted' = 0 /\ answered' = answered
BY DEF PhoneInvTypes, PhoneShape, Server!Change

\* Host and clock, and the controls of the phone.
LEMMA DirectsTypes == ASSUME PhoneInvTypes, Directs PROVE PhoneInvTypes'
<1> USE DEF PhoneInvTypes, PhoneShape, Rooms, Views
<1>1. version' \in Nat /\ holder' = NoId /\ granted' = 0 /\ answered' = answered
  BY ChangeTypes DEF Directs
<1>2. room' \in Rooms'
  BY DEF Directs, Rooms
<1> QED BY <1>1, <1>2 DEF Directs, phone, draft, dictation, history, Views


LEMMA ControlTypes == ASSUME PhoneInvTypes, Control PROVE PhoneInvTypes'
<1> USE DEF PhoneInvTypes, PhoneShape, Rooms, Views
<1>1. ASSUME NEW changed, Controls(changed), view' \in Views',
             changed \in [suspect : Onstage \cup {NoOne}, mic : {changed.mic},
                          paused : {changed.paused}]
      PROVE  PhoneInvTypes'
  <2>1. version' \in Nat /\ holder' = NoId /\ granted' = 0 /\ answered' = answered
    BY <1>1, ChangeTypes DEF Controls
  <2> QED BY <1>1, <2>1 DEF Controls, draft, dictation, history
<1>2. ASSUME NEW seat, MovesMicrophone(seat) PROVE PhoneInvTypes'
  <2> DEFINE changed == [room EXCEPT !.mic = seat]
  <2>1. changed \in [suspect : Onstage \cup {NoOne}, mic : {changed.mic},
                     paused : {changed.paused}]
    OBVIOUS
  <2>2. view' \in Views'
    BY <1>2 DEF MovesMicrophone
  <2> QED BY <1>1, <1>2, <2>1, <2>2 DEF MovesMicrophone
<1>3. CASE Switches
  <2>1. PICK s \in Onstage : Controls([room EXCEPT !.suspect = s])
    BY <1>3 DEF Switches
  <2> DEFINE changed == [room EXCEPT !.suspect = s]
  <2>2. changed \in [suspect : Onstage \cup {NoOne}, mic : {changed.mic},
                     paused : {changed.paused}]
    OBVIOUS
  <2>3. view' \in Views'
    BY <1>3 DEF Switches
  <2> QED BY <1>1, <2>1, <2>2, <2>3
<1> QED BY <1>2, <1>3 DEF Control, TakesControl, PassesControl

LEMMA RefreshesTypes == ASSUME PhoneInvTypes, Refreshes PROVE PhoneInvTypes'
<1> USE DEF PhoneInvTypes, PhoneShape, Rooms, Views
<1>1. view' \in Views'
  BY DEF Refreshes, Fresh
<1>2. room' \in Rooms'
  BY DEF Refreshes, serverVars
<1>3. CASE Live(view')
  BY <1>1, <1>2, <1>3 DEF Refreshes, serverVars, ledger, draft, dictation
<1>4. CASE ~ Live(view')
  <2>1. /\ box' = <<>> /\ exhibit' = NoExhibit /\ pendingQuestion' = NoQuestion
        /\ asking' = [asking EXCEPT !.at = "idle"] /\ isListening' = FALSE
        /\ finalTranscript' = <<>> /\ lastAppended' = <<>> /\ lastKey' = NoKey
        /\ UNCHANGED <<version, holder, granted, answered, inputs, worker, published, sent,
                       heard, round, spent>>
    BY <1>4 DEF Refreshes, serverVars, ledger
  <2>2. pendingQuestion'.key = NoKey
    BY <2>1, ContentsTyped
  <2>3. /\ asking' \in [at : {"idle", "out", "ok", "no"}, press : 0..MaxPresses]
        /\ asking'.press = asking.press
    BY <2>1
  <2>4. box' \in Seq(Word) /\ finalTranscript' \in Seq(Word) /\ lastAppended' \in Seq(Word)
    BY <2>1
  <2>5. PhoneShape'
    BY <1>1, <1>2, <2>1, <2>3, <2>4
  <2> QED BY <2>1, <2>2, <2>3, <2>5
<1> QED BY <1>3, <1>4

\* The hands and the voice of the detective.
LEMMA DraftTypes == ASSUME PhoneInvTypes, Types \/ Chooses \/ Dictates PROVE PhoneInvTypes'
<1> USE DEF PhoneInvTypes, PhoneShape, Rooms, Views
<1>1. CASE Types
  <2>1. box' \in Seq(Word)
    <3>1. PICK t \in Texts \cup {<<>>} : box' = t
      BY <1>1 DEF Types
    <3>2. t \in Seq({0})
      <4>1. <<>> \in Seq({0})
        OBVIOUS
      <4> QED BY <3>1, <4>1, TextsAssumption
    <3>3. 0 \in Word
      BY PhoneBoundsAssumption DEF Word
    <3> QED BY <3>1, <3>2, <3>3
  <2> QED BY <1>1, <2>1 DEF Types, serverVars, ledger, dictation, history
<1>2. CASE Chooses
  <2>1. exhibit' \in Exhibits \cup {NoExhibit}
    BY <1>2, PresentableAssumption DEF Chooses, MayEdit, MayAsk, Enabled, Live
  <2> QED BY <1>2, <2>1 DEF Chooses, serverVars, ledger, dictation, history
<1>3. CASE StartsSpeech
  BY <1>3 DEF StartsSpeech, SpeechOnly, serverVars, ledger, history
<1>4. CASE Hears
  <2>1. heard' \in Word
    BY <1>4, PhoneBoundsAssumption DEF Hears, Word
  <2>2. finalTranscript' \in Seq(Word) /\ lastAppended' = finalTranscript'
    BY <1>4, <2>1 DEF Hears
  <2>3. SubSeq(finalTranscript', Len(lastAppended) + 1, Len(finalTranscript')) \in Seq(Word)
    BY <2>2
  <2>4. box' \in Seq(Word)
    BY <1>4, <2>3 DEF Hears
  <2> QED BY <1>4, <2>1, <2>2, <2>4 DEF Hears, SpeechOnly, serverVars, ledger, history
<1>5. CASE SpeechEnds
  BY <1>5 DEF SpeechEnds, SpeechOnly, serverVars, ledger, history
<1> QED BY <1>1, <1>2, <1>3, <1>4, <1>5 DEF Dictates

\* What askSuspect leaves behind: id and round of the question.
LEMMA AsksTypes ==
  ASSUME PhoneInvTypes, Asks
  PROVE  /\ PhoneInvTypes'
         /\ asking' = [at |-> "out", press |-> asking.press + 1]
         /\ pendingQuestion'.key = requestKey
         /\ \/ /\ pendingQuestion.key = requestKey /\ pendingQuestion # NoQuestion
               /\ pendingQuestion'.id = pendingQuestion.id /\ round' = round
            \/ /\ pendingQuestion'.id = asking.press + 1 /\ round' = round + 1
         /\ pendingQuestion' # NoQuestion
         /\ sent' = sent \cup {[press |-> asking.press + 1, id |-> pendingQuestion'.id,
                               round |-> round', content |-> [text |-> box, exhibit |-> exhibit]]}
<1> USE DEF PhoneInvTypes, PhoneShape, Rooms, Views
<1> DEFINE n  == asking.press + 1
           id == IF pendingQuestion.key = requestKey THEN pendingQuestion.id ELSE n
           press == [press |-> n, id |-> id, round |-> round',
                     content |-> [text |-> box, exhibit |-> exhibit]]
<1>1. view.suspect \in Onstage
  BY DEF Asks, MayEdit, MayAsk, Enabled, Live
<1>2. /\ requestKey \in Key /\ requestKey # NoKey
      /\ [text |-> box, exhibit |-> exhibit] \in Content
  BY <1>1, ContentsTyped DEF requestKey
<1>3. n \in Ids /\ n \in Nat
  BY PhoneBoundsAssumption DEF Asks, Ids
<1>4. pendingQuestion.key = requestKey => pendingQuestion \in [key : Key, id : Ids]
  BY <1>2, ContentsTyped
<1>5. id \in Ids
  BY <1>3, <1>4
<1>6. /\ pendingQuestion' = [key |-> requestKey, id |-> id]
      /\ round' = IF lastKey = requestKey THEN round ELSE round + 1
      /\ lastKey' = requestKey
      /\ sent' = sent \cup {press}
      /\ asking' = [at |-> "out", press |-> n]
      /\ finalTranscript' = <<>> /\ lastAppended' = <<>>
  BY DEF Asks, requestKey, ResetsSpeech
<1>7. round' \in Ids /\ round' <= n
  <2>1. lastKey = requestKey => round \in Ids
    BY <1>2 DEF Ids
  <2> QED BY <1>3, <1>6, <2>1, PhoneBoundsAssumption DEF Asks, Ids
<1>8. press \in Press
  BY <1>2, <1>3, <1>5, <1>7 DEF Press
<1>9. PhoneInvTypes'
  BY <1>2, <1>3, <1>5, <1>6, <1>7, <1>8, PhoneBoundsAssumption
  DEF Asks, ResetsSpeech, serverVars, ledger, Ids
<1>10. pendingQuestion' # NoQuestion /\ pendingQuestion'.key = requestKey
  BY <1>2, <1>6, ContentsTyped
<1> QED BY <1>4, <1>6, <1>9, <1>10, ContentsTyped

LEMMA EndsTypes ==
  ASSUME PhoneInvTypes, TakesAnswer \/ Fails PROVE PhoneInvTypes'
<1> USE DEF PhoneInvTypes, PhoneShape, Rooms, Views
<1>1. CASE TakesAnswer
  <2>1. view' \in Views'
    BY <1>1 DEF TakesAnswer, Fresh
  <2>2. asking' \in [at : {"idle", "out", "ok", "no"}, press : 0..MaxPresses]
        /\ asking'.press = asking.press
    BY <1>1 DEF TakesAnswer
  <2>3. spent' \subseteq Word
    BY <1>1 DEF TakesAnswer, Key, NoKey
  <2> QED BY <1>1, <2>1, <2>2, <2>3, ContentsTyped DEF TakesAnswer, serverVars, ledger, dictation
<1>2. CASE Fails
  <2>1. asking' \in [at : {"idle", "out", "ok", "no"}, press : 0..MaxPresses]
        /\ asking'.press = asking.press
    BY <1>2 DEF Fails
  <2> QED BY <1>2, <2>1 DEF Fails, serverVars, ledger, draft, dictation, history
<1> QED BY <1>1, <1>2

\* Every step but Asks leaves the number of presses and the round alone, and keeps
\* the record of the question or forgets it.
LEMMA PhoneTypesKept ==
  ASSUME PhoneInvTypes, [PhoneNext]_phoneVars, ~ Asks
  PROVE  /\ PhoneInvTypes'
         /\ asking'.press = asking.press /\ round' = round
         /\ pendingQuestion' \in {pendingQuestion, NoQuestion}
<1>1. CASE Route
  <2>1. asking'.press = asking.press
    <3>1. ASSUME NEW m \in sent, Begins(m) PROVE asking' = asking
      BY <3>1 DEF Begins, phone
    <3>2. ASSUME NEW m, NEW how \in {"ok", "no"}, Respond(m, how)
          PROVE asking'.press = asking.press
      BY <3>2, RespondTyped
    <3> QED BY <1>1, <3>1, <3>2 DEF Route, Replays, Refuses, Answers, GivesUp
  <2>2. round' = round /\ pendingQuestion' = pendingQuestion
    BY <1>1 DEF Route, Begins, Replays, Refuses, Answers, GivesUp, phone, draft, history
  <2> QED BY <1>1, <2>1, <2>2, RouteTypes
<1>2. CASE Directs
  BY <1>2, DirectsTypes DEF Directs, phone, draft, history
<1>3. CASE Refreshes
  <2>1. asking'.press = asking.press
    BY <1>3 DEF Refreshes, PhoneInvTypes, PhoneShape
  <2> QED BY <1>3, <2>1, RefreshesTypes DEF Refreshes, draft
<1>4. CASE Types \/ Chooses
  BY <1>4, DraftTypes DEF Types, Chooses, history
<1>5. CASE Dictates
  BY <1>5, DraftTypes DEF Dictates, StartsSpeech, Hears, SpeechEnds, SpeechOnly, history
<1>6. CASE TakesAnswer \/ Fails
  <2>1. asking'.press = asking.press
    BY <1>6 DEF TakesAnswer, Fails, PhoneInvTypes, PhoneShape
  <2> QED BY <1>6, <2>1, EndsTypes DEF TakesAnswer, Fails, draft, history
<1>7. CASE Control
  <2>1. ASSUME NEW changed, Controls(changed)
        PROVE  asking' = asking /\ round' = round /\ pendingQuestion' = pendingQuestion
    BY <2>1 DEF Controls, draft, history
  <2> QED
    BY <1>7, <2>1, ControlTypes
    DEF Control, TakesControl, PassesControl, Switches, MovesMicrophone
<1>8. CASE UNCHANGED phoneVars
  BY <1>8
  DEF phoneVars, serverVars, ledger, phone, draft, dictation, history, PhoneInvTypes, PhoneShape,
      Rooms, Views
<1> QED
  BY <1>1, <1>2, <1>3, <1>4, <1>5, <1>6, <1>7, <1>8
  DEF PhoneNext, Question, TakesRefusal, StopsWaiting

-----------------------------------------------------------------------------
(* Phone: one id for a question, wherever the question has got to.         *)

PairOf(m) == [id |-> m.id, round |-> m.round]
Held      == IF holder = NoId THEN {} ELSE {PairOf(worker)}
Pending   == IF pendingQuestion = NoQuestion THEN {}
             ELSE {[id |-> pendingQuestion.id, round |-> round]}
Pairs     == published \cup {PairOf(m) : m \in sent} \cup Held \cup Pending

PairsInv ==
  /\ \A u, v \in Pairs : u.id = v.id <=> u.round = v.round
  /\ \A u \in Pairs : u.id <= asking.press /\ u.round <= round

\* A pair that leaves the phone goes from place to place or gets lost.
LEMMA PairsMove ==
  ASSUME PhoneInvTypes, [PhoneNext]_phoneVars, ~ Asks
  PROVE  Pairs' \subseteq Pairs
<1> USE DEF PhoneInvTypes, PhoneShape
<1>1. round' = round /\ pendingQuestion' \in {pendingQuestion, NoQuestion}
  BY PhoneTypesKept
<1>2. Pending' \subseteq Pending
  BY <1>1 DEF Pending
<1>3. ASSUME NEW m \in sent, Begins(m) PROVE Pairs' \subseteq Pairs
  <2>1. holder' = m.id /\ worker' = m /\ sent' \subseteq sent /\ published' = published
    BY <1>3 DEF Begins, Received, Server!Grant
  <2>2. Held' \subseteq {PairOf(m)}
    BY <2>1 DEF Held, PairOf
  <2> QED BY <1>2, <2>1, <2>2 DEF Pairs
<1>4. CASE Answers
  <2>1. holder # NoId /\ published' = published \cup {PairOf(worker)} /\ sent' = sent
    BY <1>4 DEF Answers, PairOf
  <2>2. Held' = {} /\ Held = {PairOf(worker)}
    BY <1>4, <2>1 DEF Answers, Server!Publish, Held
  <2> QED BY <1>2, <2>1, <2>2 DEF Pairs
<1>5. ASSUME sent' \subseteq sent, published' = published,
             holder' = NoId \/ (holder' = holder /\ worker' = worker)
      PROVE  Pairs' \subseteq Pairs
  <2>1. Held' \subseteq Held
    BY <1>5 DEF Held, PairOf
  <2> QED BY <1>2, <1>5, <2>1 DEF Pairs
<1>6. ASSUME NEW m \in sent, Replays(m) \/ Refuses(m) PROVE Pairs' \subseteq Pairs
  BY <1>5, <1>6 DEF Replays, Refuses, Received, serverVars, ledger
<1>7. CASE GivesUp
  BY <1>5, <1>7 DEF GivesUp, Server!GiveBack
<1>8. CASE Directs
  BY <1>5, <1>8 DEF Directs, Server!Change
<1>9. CASE Refreshes
  BY <1>5, <1>9 DEF Refreshes, serverVars, ledger
<1>10. CASE Dictates
  BY <1>5, <1>10 DEF Dictates, StartsSpeech, Hears, SpeechEnds, SpeechOnly, serverVars, ledger
<1>11. CASE Types \/ Chooses \/ TakesAnswer \/ Fails
  BY <1>5, <1>11 DEF Types, Chooses, TakesAnswer, Fails, serverVars, ledger
<1>12. CASE Control
  <2>1. ASSUME NEW changed, Controls(changed) PROVE Pairs' \subseteq Pairs
    BY <1>5, <2>1 DEF Controls, Server!Change
  <2> QED
    BY <1>12, <2>1 DEF Control, TakesControl, PassesControl, Switches, MovesMicrophone
<1>13. CASE UNCHANGED phoneVars
  BY <1>5, <1>13 DEF phoneVars, serverVars, ledger
<1> QED
  BY <1>3, <1>4, <1>6, <1>7, <1>8, <1>9, <1>10, <1>11, <1>12, <1>13
  DEF PhoneNext, Route, Question, TakesRefusal, StopsWaiting

LEMMA PairsTyped ==
  ASSUME PhoneInvTypes PROVE Pairs \subseteq Answer
<1> USE DEF PhoneInvTypes, PhoneShape
<1>1. \A m \in Press : PairOf(m) \in Answer
  BY DEF PairOf, Press, Answer
<1>2. Pending \subseteq Answer
  <2>1. \A k \in Key : k # NoKey
    BY NoneAssumption DEF Key, NoKey
  <2>2. pendingQuestion # NoQuestion => pendingQuestion.id \in Ids /\ round \in Ids
    BY <2>1 DEF Ids
  <2> QED BY <2>2 DEF Pending, Answer
<1> QED BY <1>1, <1>2 DEF Pairs, Held

LEMMA PairsKept ==
  ASSUME PhoneInvTypes, PairsInv, [PhoneNext]_phoneVars
  PROVE  PairsInv'
<1>1. CASE ~ Asks
  BY <1>1, PairsMove, PhoneTypesKept DEF PairsInv
<1>2. CASE Asks
  <2> DEFINE pair == [id |-> pendingQuestion'.id, round |-> round']
  <2>1. /\ asking'.press = asking.press + 1 /\ pendingQuestion' # NoQuestion
        /\ \/ /\ pendingQuestion # NoQuestion
              /\ pair = [id |-> pendingQuestion.id, round |-> round] /\ round' = round
           \/ /\ pair = [id |-> asking.press + 1, round |-> round + 1] /\ round' = round + 1
        /\ asking.press \in Nat /\ round \in Nat
    <3>1. asking.press \in Nat /\ round \in Nat
      BY PhoneBoundsAssumption DEF PhoneInvTypes, PhoneShape
    <3>2. asking'.press = asking.press + 1 /\ pendingQuestion' # NoQuestion
      BY <1>2, AsksTypes
    <3>3. \/ /\ pendingQuestion # NoQuestion
             /\ pendingQuestion'.id = pendingQuestion.id /\ round' = round
          \/ /\ pendingQuestion'.id = asking.press + 1 /\ round' = round + 1
      BY <1>2, AsksTypes
    <3> QED BY <3>1, <3>2, <3>3
  <2>2. Pairs' \subseteq Pairs \cup {pair}
    <3>1. published' = published /\ Held' = Held
      BY <1>2 DEF Asks, serverVars, ledger, Held, PairOf
    <3>2. Pending' = {pair}
      BY <2>1 DEF Pending
    <3>3. {PairOf(m) : m \in sent'} \subseteq {PairOf(m) : m \in sent} \cup {pair}
      BY <1>2, AsksTypes DEF PairOf
    <3> QED BY <3>1, <3>2, <3>3 DEF Pairs
  <2>3. \A u \in Pairs : u.id \in Nat /\ u.round \in Nat
    BY PairsTyped DEF Answer, Ids
  <2>4. CASE pendingQuestion # NoQuestion /\ pair = [id |-> pendingQuestion.id, round |-> round]
    <3>1. pair \in Pairs
      BY <2>4 DEF Pairs, Pending
    <3> QED BY <2>1, <2>2, <2>3, <3>1 DEF PairsInv
  <2>5. CASE pair = [id |-> asking.press + 1, round |-> round + 1] /\ round' = round + 1
    <3>1. \A u \in Pairs : u.id < pair.id /\ u.round < pair.round
      BY <2>1, <2>3, <2>5 DEF PairsInv
    <3>2. pair.id <= asking'.press /\ pair.round <= round'
      BY <2>1, <2>5
    <3> HIDE DEF pair
    <3> QED BY <2>1, <2>2, <2>3, <2>5, <3>1, <3>2 DEF PairsInv
  <2> QED BY <2>1, <2>4, <2>5
<1> QED BY <1>1, <1>2

-----------------------------------------------------------------------------
(* Phone: one question for an id, wherever the id is known.                *)

ClaimOf(m) == [id |-> m.id, content |-> m.content]
ContentOf(k) == [text |-> k.text, exhibit |-> k.exhibit]
Recorded == {[id |-> i, content |-> inputs[i]] : i \in {j \in Ids : inputs[j] # NoContent}}
Drafted  == IF pendingQuestion = NoQuestion THEN {}
            ELSE {[id |-> pendingQuestion.id, content |-> ContentOf(pendingQuestion.key)]}
Claims   == {ClaimOf(m) : m \in sent} \cup Recorded \cup Drafted

ClaimsInv ==
  /\ \A u, v \in Claims : u.id = v.id => u.content = v.content
  /\ \A u \in Claims : u.id <= asking.press

LEMMA ClaimsMove ==
  ASSUME PhoneInvTypes, [PhoneNext]_phoneVars, ~ Asks
  PROVE  Claims' \subseteq Claims
<1> USE DEF PhoneInvTypes, PhoneShape
<1>1. Drafted' \subseteq Drafted
  BY PhoneTypesKept DEF Drafted, ContentOf
<1>2. ASSUME NEW m \in sent, Begins(m) PROVE Claims' \subseteq Claims
  <2>1. inputs' = [inputs EXCEPT ![m.id] = m.content] /\ sent' \subseteq sent
    BY <1>2 DEF Begins, Received
  <2>2. Recorded' \subseteq Recorded \cup {ClaimOf(m)}
    BY <2>1 DEF Recorded, ClaimOf
  <2> QED BY <1>1, <2>1, <2>2 DEF Claims
<1>3. ASSUME sent' \subseteq sent, inputs' = inputs PROVE Claims' \subseteq Claims
  <2>1. Recorded' = Recorded
    BY <1>3 DEF Recorded
  <2> QED BY <1>1, <1>3, <2>1 DEF Claims
<1>4. CASE Route
  <2>1. ASSUME NEW m \in sent, Replays(m) \/ Refuses(m) PROVE Claims' \subseteq Claims
    BY <1>3, <2>1 DEF Replays, Refuses, Received, serverVars
  <2> QED BY <1>2, <1>3, <1>4, <2>1 DEF Route, Answers, GivesUp
<1>5. CASE Directs \/ Refreshes \/ Dictates
  BY <1>3, <1>5
  DEF Directs, Refreshes, Dictates, StartsSpeech, Hears, SpeechEnds, SpeechOnly, serverVars
<1>6. CASE Types \/ Chooses \/ TakesAnswer \/ Fails
  BY <1>3, <1>6 DEF Types, Chooses, TakesAnswer, Fails, serverVars
<1>7. CASE Control
  <2>1. ASSUME NEW changed, Controls(changed) PROVE Claims' \subseteq Claims
    BY <1>3, <2>1 DEF Controls
  <2> QED
    BY <1>7, <2>1 DEF Control, TakesControl, PassesControl, Switches, MovesMicrophone
<1>8. CASE UNCHANGED phoneVars
  BY <1>3, <1>8 DEF phoneVars, serverVars
<1> QED
  BY <1>4, <1>5, <1>6, <1>7, <1>8 DEF PhoneNext, Question, TakesRefusal, StopsWaiting

LEMMA ClaimsTyped ==
  ASSUME PhoneInvTypes PROVE \A u \in Claims : u.id \in Ids
<1> USE DEF PhoneInvTypes, PhoneShape
<1>1. \A u \in Recorded \cup {ClaimOf(m) : m \in sent} : u.id \in Ids
  BY DEF Recorded, ClaimOf, Press
<1>2. \A u \in Drafted : u.id \in Ids
  BY DEF Drafted
<1> QED BY <1>1, <1>2 DEF Claims

LEMMA ClaimsKept ==
  ASSUME PhoneInvTypes, ClaimsInv, [PhoneNext]_phoneVars
  PROVE  ClaimsInv'
<1>1. CASE ~ Asks
  BY <1>1, ClaimsMove, PhoneTypesKept DEF ClaimsInv
<1>2. CASE Asks
  <2> DEFINE claim == [id |-> pendingQuestion'.id, content |-> [text |-> box, exhibit |-> exhibit]]
  <2>1. /\ asking'.press = asking.press + 1 /\ asking.press \in Nat
        /\ \/ /\ pendingQuestion # NoQuestion /\ pendingQuestion.key = requestKey
              /\ pendingQuestion'.id = pendingQuestion.id
           \/ pendingQuestion'.id = asking.press + 1
        /\ pendingQuestion'.key = requestKey
    BY <1>2, AsksTypes, PhoneBoundsAssumption DEF PhoneInvTypes, PhoneShape
  <2>2. ContentOf(requestKey) = [text |-> box, exhibit |-> exhibit]
    BY DEF ContentOf, requestKey
  <2>3. Claims' \subseteq Claims \cup {claim}
    <3>1. Recorded' = Recorded
      BY <1>2 DEF Asks, serverVars, Recorded
    <3>2. Drafted' \subseteq {claim}
      BY <2>1, <2>2 DEF Drafted, ContentOf
    <3>3. {ClaimOf(m) : m \in sent'} \subseteq {ClaimOf(m) : m \in sent} \cup {claim}
      BY <1>2, AsksTypes DEF ClaimOf
    <3> QED BY <3>1, <3>2, <3>3 DEF Claims
  <2>4. \A u \in Claims : u.id \in Nat
    BY ClaimsTyped DEF Ids
  <2>5. CASE pendingQuestion # NoQuestion /\ pendingQuestion.key = requestKey
             /\ pendingQuestion'.id = pendingQuestion.id
    <3>1. claim \in Claims
      BY <2>2, <2>5 DEF Claims, Drafted
    <3> QED BY <2>1, <2>3, <2>4, <3>1 DEF ClaimsInv
  <2>6. CASE pendingQuestion'.id = asking.press + 1
    <3>1. \A u \in Claims : u.id < claim.id
      BY <2>1, <2>4, <2>6 DEF ClaimsInv
    <3>2. claim.id <= asking'.press
      BY <2>1, <2>6
    <3> HIDE DEF claim
    <3> QED BY <2>1, <2>3, <2>4, <3>1, <3>2 DEF ClaimsInv
  <2> QED BY <2>1, <2>5, <2>6
<1> QED BY <1>1, <1>2

-----------------------------------------------------------------------------
(* Phone: words.                                                           *)

WordsInv ==
  /\ lastAppended = finalTranscript
  /\ \A i \in DOMAIN box : box[i] <= heard
  /\ \A i \in DOMAIN lastKey.text : lastKey.text[i] <= heard
  /\ \A w \in spent : w # 0 /\ w <= heard
  /\ NoEcho

LEMMA NewWord ==
  ASSUME NEW S, NEW f \in Seq(S), NEW w \in S, NEW b \in Seq(S)
  PROVE  b \o SubSeq(Append(f, w), Len(f) + 1, Len(Append(f, w))) = Append(b, w)
<1>1. Append(f, w) \in Seq(S) /\ Len(Append(f, w)) = Len(f) + 1 /\ Append(f, w)[Len(f) + 1] = w
  OBVIOUS
<1>2. SubSeq(Append(f, w), Len(f) + 1, Len(f) + 1) = <<w>>
  <2> DEFINE g == Append(f, w)
             n == Len(f) + 1
  <2>1. g \in Seq(S) /\ n \in 1 .. Len(g) /\ g[n] = w
    BY <1>1
  <2>2. SubSeq(g, n, n) = SubSeq(g, n, n - 1) \o <<g[n]>>
    BY <2>1, SubSeqRecursiveSecond
  <2>3. SubSeq(g, n, n - 1) = <<>>
    BY <2>1, SubSeqEmpty
  <2>4. <<>> \o <<w>> = <<w>>
    OBVIOUS
  <2> QED BY <2>1, <2>2, <2>3, <2>4
<1>3. b \o <<w>> = Append(b, w)
  BY AppendIsConcat
<1> QED BY <1>1, <1>2, <1>3

LEMMA WordsKept ==
  ASSUME PhoneInvTypes, WordsInv, [PhoneNext]_phoneVars
  PROVE  WordsInv'
<1> USE DEF PhoneInvTypes, PhoneShape
<1>1. ASSUME UNCHANGED <<box, dictation, history>> PROVE WordsInv'
  BY <1>1 DEF WordsInv, NoEcho, dictation, history
<1>2. CASE Route
  BY <1>1, <1>2 DEF Route, Begins, Replays, Refuses, Answers, GivesUp, phone, draft
<1>3. CASE Directs \/ Chooses \/ Fails
  BY <1>1, <1>3 DEF Directs, Chooses, Fails, phone, draft
<1>4. CASE Control
  <2>1. ASSUME NEW changed, Controls(changed) PROVE WordsInv'
    BY <1>1, <2>1 DEF Controls, draft
  <2> QED
    BY <1>4, <2>1 DEF Control, TakesControl, PassesControl, Switches, MovesMicrophone
<1>5. CASE Refreshes
  <2>1. CASE Live(view')
    BY <2>1, <1>1, <1>5 DEF Refreshes, draft, history
  <2>2. CASE ~ Live(view')
    <3>1. /\ box' = <<>> /\ finalTranscript' = <<>> /\ lastAppended' = <<>> /\ lastKey' = NoKey
          /\ heard' = heard /\ spent' = spent
      BY <2>2, <1>5 DEF Refreshes
    <3> QED BY <3>1 DEF WordsInv, NoEcho, NoKey
  <2> QED BY <2>1, <2>2
<1>6. CASE Types
  <2>1. PICK t \in Texts \cup {<<>>} : box' = t
    BY <1>6 DEF Types
  <2>2. \A i \in DOMAIN box' : box'[i] = 0
    <3>1. CASE t \in Texts
      BY <2>1, <3>1, TextsAssumption
    <3>2. CASE t = <<>>
      BY <2>1, <3>2
    <3> QED BY <2>1, <3>1, <3>2
  <2>3. UNCHANGED <<dictation, history>> /\ heard \in Nat
    BY <1>6 DEF Types, Word
  <2> QED BY <2>2, <2>3 DEF WordsInv, NoEcho, dictation, history
<1>7. CASE StartsSpeech \/ SpeechEnds
  BY <1>7 DEF StartsSpeech, SpeechEnds, SpeechOnly, history, WordsInv, NoEcho
<1>8. CASE Hears
  <2>1. /\ heard \in Nat /\ heard' = heard + 1
        /\ finalTranscript' = Append(finalTranscript, heard')
        /\ lastAppended' = finalTranscript' /\ lastAppended = finalTranscript
        /\ box' = box \o SubSeq(finalTranscript', Len(finalTranscript) + 1, Len(finalTranscript'))
        /\ UNCHANGED history
    BY <1>8 DEF Hears, SpeechOnly, Word, WordsInv
  <2>2. heard' \in Word
    BY <1>8, PhoneBoundsAssumption DEF Hears, Word
  <2>3. box' = Append(box, heard') /\ box \in Seq(Word)
    BY <2>1, <2>2, NewWord
  <2>4. \A i \in DOMAIN box : box[i] \in Nat /\ box[i] <= heard
    BY <2>3, PhoneBoundsAssumption DEF WordsInv, Word
  <2>5. \A i \in DOMAIN box' : \/ i \in DOMAIN box /\ box'[i] = box[i]
                               \/ i = Len(box) + 1 /\ box'[i] = heard + 1
    <3>1. DOMAIN box = 1 .. Len(box) /\ DOMAIN box' = 1 .. (Len(box) + 1)
      BY <2>2, <2>3
    <3>2. \A i \in 1 .. Len(box) : box'[i] = box[i]
      BY <2>2, <2>3
    <3>3. box'[Len(box) + 1] = heard + 1
      BY <2>1, <2>2, <2>3
    <3> QED BY <2>3, <3>1, <3>2, <3>3
  <2>6. \A w \in spent : w \in Nat /\ w <= heard
    BY PhoneBoundsAssumption DEF WordsInv, Word
  <2>7. \A i \in DOMAIN lastKey.text : lastKey.text[i] \in Nat /\ lastKey.text[i] <= heard
    <3>1. lastKey.text \in Seq(Word)
      <4>1. <<>> \in Seq(Word)
        OBVIOUS
      <4>2. NoKey.text = <<>>
        BY DEF NoKey
      <4>3. \A k \in Key : k.text \in Seq(Word)
        BY DEF Key
      <4> QED BY <4>1, <4>2, <4>3
    <3>2. \A i \in DOMAIN lastKey.text : lastKey.text[i] \in Word
      BY <3>1
    <3> QED BY <3>2, PhoneBoundsAssumption DEF WordsInv, Word
  <2>8. spent' = spent /\ lastKey' = lastKey
    BY <2>1 DEF history
  <2>9. NoEcho'
    <3>1. ASSUME NEW i \in DOMAIN box', NEW j \in DOMAIN box', box'[i] # 0, box'[i] = box'[j]
          PROVE  i = j
      <4>1. CASE i \in DOMAIN box /\ box'[i] = box[i] /\ j \in DOMAIN box /\ box'[j] = box[j]
        BY <3>1, <4>1 DEF WordsInv, NoEcho
      <4>2. ~ (i \in DOMAIN box /\ box'[i] = box[i] /\ box'[j] = heard + 1)
        BY <2>1, <2>4, <3>1
      <4>3. ~ (j \in DOMAIN box /\ box'[j] = box[j] /\ box'[i] = heard + 1)
        BY <2>1, <2>4, <3>1
      <4> QED BY <2>5, <3>1, <4>1, <4>2, <4>3
    <3>2. ASSUME NEW i \in DOMAIN box' PROVE box'[i] \notin spent
      <4>1. CASE i \in DOMAIN box /\ box'[i] = box[i]
        BY <4>1 DEF WordsInv, NoEcho
      <4>2. CASE box'[i] = heard + 1
        BY <2>1, <2>6, <4>2
      <4> QED BY <2>5, <4>1, <4>2
    <3> QED BY <2>8, <3>1, <3>2 DEF NoEcho
  <2>10. \A i \in DOMAIN box' : box'[i] <= heard'
    BY <2>1, <2>4, <2>5
  <2>11. \A w \in spent' : w # 0 /\ w <= heard'
    BY <2>1, <2>6, <2>8 DEF WordsInv
  <2>12. \A i \in DOMAIN lastKey'.text : lastKey'.text[i] <= heard'
    BY <2>1, <2>7, <2>8
  <2> QED BY <2>1, <2>9, <2>10, <2>11, <2>12 DEF WordsInv
<1>9. CASE Asks
  BY <1>9 DEF Asks, ResetsSpeech, WordsInv, NoEcho
<1>10. CASE TakesAnswer
  <2>1. /\ box' = <<>> /\ lastKey' = NoKey /\ UNCHANGED dictation
        /\ spent' = spent \cup ({lastKey.text[i] : i \in DOMAIN lastKey.text} \ {0})
    BY <1>10 DEF TakesAnswer
  <2> QED BY <2>1 DEF WordsInv, NoEcho, NoKey, dictation
<1>11. CASE UNCHANGED phoneVars
  BY <1>1, <1>11 DEF phoneVars, phone, draft
<1> QED
  BY <1>2, <1>3, <1>4, <1>5, <1>6, <1>7, <1>8, <1>9, <1>10, <1>11
  DEF PhoneNext, Question, Dictates, TakesRefusal, StopsWaiting

-----------------------------------------------------------------------------
(* Phone: the theorems.                                                    *)

PhoneInv == PhoneInvTypes /\ PairsInv /\ ClaimsInv /\ WordsInv

LEMMA PhoneInitially == PhoneInit => PhoneInv
<1> SUFFICES ASSUME PhoneInit PROVE PhoneInv
  OBVIOUS
<1>1. PhoneInvTypes
  BY PhoneTypesInitially
<1>2. PairsInv
  BY DEF PhoneInit, Server!Init, PairsInv, Pairs, Held, Pending
<1>3. ClaimsInv
  <2>1. Recorded = {}
    BY DEF PhoneInit, Recorded
  <2> QED BY <2>1 DEF PhoneInit, ClaimsInv, Claims, Drafted
<1>4. WordsInv
  BY DEF PhoneInit, WordsInv, NoEcho, NoKey
<1> QED BY <1>1, <1>2, <1>3, <1>4 DEF PhoneInv

\* The inductive invariant: every place that knows an id, round or content agrees
\* with every other one, and no number of the future is anywhere.
THEOREM PhoneInvariant == PhoneSpec => []PhoneInv
<1>1. PhoneInv /\ [PhoneNext]_phoneVars => PhoneInv'
  <2> SUFFICES ASSUME PhoneInv, [PhoneNext]_phoneVars PROVE PhoneInv'
    OBVIOUS
  <2>1. PhoneInvTypes'
    BY AsksTypes, PhoneTypesKept DEF PhoneInv
  <2> QED BY <2>1, PairsKept, ClaimsKept, WordsKept DEF PhoneInv
<1> QED BY <1>1, PhoneInitially, PTL DEF PhoneSpec

\* A question repeated until its answer is seen has one answer.
THEOREM QuestionsAskedOnce == PhoneSpec => []AskedOnce
<1>1. PhoneInv => AskedOnce
  <2> SUFFICES ASSUME PhoneInv, NEW a \in published, NEW b \in published, a.round = b.round
               PROVE  a = b
    BY DEF AskedOnce
  <2>1. a \in Pairs /\ b \in Pairs /\ a \in Answer /\ b \in Answer
    BY DEF Pairs, PhoneInv, PhoneInvTypes, PhoneShape
  <2>2. a.id = b.id
    BY <2>1 DEF PhoneInv, PairsInv
  <2> QED BY <2>1, <2>2 DEF Answer
<1> QED BY <1>1, PhoneInvariant, PTL

\* No request is refused because its id was used for something else.
THEOREM IdsNameQuestions == PhoneSpec => []IdNamesOneQuestion
<1>1. PhoneInv => IdNamesOneQuestion
  <2> SUFFICES ASSUME PhoneInv, NEW m \in sent
               PROVE  SameInput(m) /\ \A n \in sent : n.id = m.id => n.content = m.content
    BY DEF IdNamesOneQuestion
  <2>1. \A n \in sent : ClaimOf(n) \in Claims
    BY DEF Claims
  <2>2. \A n \in sent : n.id = m.id => n.content = m.content
    BY <2>1 DEF PhoneInv, ClaimsInv, ClaimOf
  <2>3. m.id \in Ids
    BY DEF PhoneInv, PhoneInvTypes, PhoneShape, Press
  <2>4. inputs[m.id] # NoContent => [id |-> m.id, content |-> inputs[m.id]] \in Claims
    BY <2>3 DEF Claims, Recorded
  <2>5. SameInput(m)
    BY <2>1, <2>4 DEF PhoneInv, ClaimsInv, ClaimOf, SameInput
  <2> QED BY <2>2, <2>5
<1> QED BY <1>1, PhoneInvariant, PTL

\* What was dictated is in the box once, and not after it was answered.
THEOREM WordsSaidOnce == PhoneSpec => []NoEcho
<1>1. PhoneInv => NoEcho
  BY DEF PhoneInv, WordsInv
<1> QED BY <1>1, PhoneInvariant, PTL

-----------------------------------------------------------------------------
(* Phone: who asks next.  A seat's place counts the seats below it, so the *)
(* place after the microphone's is the lowest seat above it, and the place *)
(* after the last one is the first.                                        *)

Below(S, p) == {q \in S : q < p}

\* A place is a number of seats.
LEMMA PlaceCounts ==
  ASSUME NEW S \in SUBSET Nat, IsFiniteSet(S), NEW p
  PROVE  IsFiniteSet(Below(S, p)) /\ Place(S, p) = Cardinality(Below(S, p)) /\ Place(S, p) \in Nat
<1>1. Below(S, p) \subseteq S
  BY DEF Below
<1>2. IsFiniteSet(Below(S, p))
  BY <1>1, FS_Subset
<1>3. Cardinality(Below(S, p)) \in Nat
  BY <1>2, FS_CardinalityType
<1> QED BY <1>2, <1>3 DEF Place, Below

\* A higher seat has a higher place.
LEMMA PlaceGrows ==
  ASSUME NEW S \in SUBSET Nat, IsFiniteSet(S), NEW q \in S, NEW p \in S, q < p
  PROVE  Place(S, q) + 1 <= Place(S, p)
<1>1. q \notin Below(S, q) /\ Below(S, q) \cup {q} \subseteq Below(S, p)
  <2>1. \A r \in S : ~ (r < r) /\ (r < q => r < p)
    OBVIOUS
  <2> QED BY <2>1 DEF Below
<1>2. Cardinality(Below(S, q) \cup {q}) = Place(S, q) + 1
  <2>1. IsFiniteSet(Below(S, q)) /\ Place(S, q) = Cardinality(Below(S, q))
    BY PlaceCounts
  <2> QED BY <1>1, <2>1, FS_AddElement
<1>3. Cardinality(Below(S, q) \cup {q}) <= Place(S, p)
  BY <1>1, PlaceCounts, FS_Subset
<1> QED BY <1>2, <1>3

\* The seat at a seat's place is that seat.
LEMMA SeatAtPlace ==
  ASSUME NEW S \in SUBSET Nat, IsFiniteSet(S), NEW p \in S
  PROVE  SeatAt(S, Place(S, p)) = p
<1>1. ASSUME NEW q \in S, Place(S, q) = Place(S, p) PROVE q = p
  <2>1. Place(S, q) \in Nat /\ Place(S, p) \in Nat
    BY PlaceCounts
  <2>2. ~ (q < p) /\ ~ (p < q)
    BY <1>1, <2>1, PlaceGrows
  <2> QED BY <2>2
<1> QED BY <1>1 DEF SeatAt

\* The lowest seat above another one has the next place, within the table.
LEMMA PlaceAfter ==
  ASSUME NEW S \in SUBSET Nat, IsFiniteSet(S), NEW m \in S, NEW p \in S, m < p,
         \A q \in S : q > m => p <= q
  PROVE  Place(S, p) = Place(S, m) + 1 /\ Place(S, p) < Cardinality(S)
<1>1. m \notin Below(S, m) /\ Below(S, p) = Below(S, m) \cup {m}
  <2>1. \A r \in S : ~ (r < r) /\ (r < p <=> r < m \/ r = m)
    OBVIOUS
  <2> QED BY <2>1 DEF Below
<1>2. Place(S, p) = Place(S, m) + 1
  <2>1. /\ IsFiniteSet(Below(S, m)) /\ Place(S, m) = Cardinality(Below(S, m))
        /\ Place(S, p) = Cardinality(Below(S, p))
    BY PlaceCounts
  <2>2. Cardinality(Below(S, m) \cup {m}) = Cardinality(Below(S, m)) + 1
    BY <1>1, <2>1, FS_AddElement
  <2> QED BY <1>1, <2>1, <2>2
<1>3. p \notin Below(S, p) /\ Below(S, p) \cup {p} \subseteq S
  <2>1. ~ (p < p)
    OBVIOUS
  <2> QED BY <2>1 DEF Below
<1>4. Cardinality(Below(S, p) \cup {p}) = Place(S, p) + 1
  BY <1>3, PlaceCounts, FS_AddElement
<1>5. Cardinality(Below(S, p) \cup {p}) <= Cardinality(S)
  BY <1>3, FS_Subset
<1>6. Cardinality(S) \in Nat /\ Place(S, p) \in Nat
  BY PlaceCounts, FS_CardinalityType
<1> QED BY <1>2, <1>4, <1>5, <1>6

\* The highest seat has the last place, and the lowest the first.
LEMMA PlaceOfTheLast ==
  ASSUME NEW S \in SUBSET Nat, IsFiniteSet(S), NEW m \in S, \A q \in S : q <= m
  PROVE  Place(S, m) + 1 = Cardinality(S)
<1>1. m \notin Below(S, m) /\ S = Below(S, m) \cup {m}
  <2>1. \A r \in S : ~ (r < r) /\ (r < m \/ r = m)
    OBVIOUS
  <2> QED BY <2>1 DEF Below
<1>2. IsFiniteSet(Below(S, m)) /\ Place(S, m) = Cardinality(Below(S, m))
  BY PlaceCounts
<1> QED BY <1>1, <1>2, FS_AddElement

LEMMA PlaceOfTheFirst ==
  ASSUME NEW S \in SUBSET Nat, IsFiniteSet(S), NEW p \in S, \A q \in S : p <= q
  PROVE  Place(S, p) = 0
<1>1. Below(S, p) = {}
  <2>1. \A r \in S : ~ (r < p)
    OBVIOUS
  <2> QED BY <2>1 DEF Below
<1>2. Place(S, p) = Cardinality(Below(S, p))
  BY PlaceCounts
<1> QED BY <1>1, <1>2, FS_EmptySet

\* pickNextInterviewer chooses the seat that the clock chooses.
LEMMA NextSeat ==
  ASSUME NEW S \in SUBSET Nat, IsFiniteSet(S), NEW m \in S, S # {m}
  PROVE  pickNextInterviewer(S, m) \in S /\ ClockPicks(S, m, pickNextInterviewer(S, m))
<1> DEFINE above == {q \in S : q > m}
<1>1. Place(S, m) \in Nat /\ Cardinality(S) \in Nat
  BY PlaceCounts, FS_CardinalityType
<1>2. pickNextInterviewer(S, m) = SeatAt(S, (Place(S, m) + 1) % Cardinality(S))
  BY DEF pickNextInterviewer
<1>3. CASE above # {}
  <2>1. PICK p \in above : \A q \in above : p <= q
    BY <1>3, LeastNatural
  <2>2. Place(S, p) = Place(S, m) + 1 /\ Place(S, p) < Cardinality(S)
    BY <2>1, PlaceAfter
  <2>3. (Place(S, m) + 1) % Cardinality(S) = Place(S, p)
    BY <1>1, <2>2
  <2>4. pickNextInterviewer(S, m) = p
    BY <1>2, <2>1, <2>3, SeatAtPlace
  <2> QED BY <1>3, <2>1, <2>4 DEF ClockPicks
<1>4. CASE above = {}
  <2>1. \A q \in S : q <= m
    BY <1>4
  <2>2. PICK p \in S : \A q \in S : p <= q
    BY LeastNatural
  <2>3. (Place(S, m) + 1) % Cardinality(S) = Place(S, p)
    <3>1. Place(S, m) + 1 = Cardinality(S) /\ Place(S, p) = 0
      BY <2>1, <2>2, PlaceOfTheLast, PlaceOfTheFirst
    <3> QED BY <1>1, <3>1
  <2>4. pickNextInterviewer(S, m) = p
    BY <1>2, <2>3, SeatAtPlace
  <2>5. p # m
    <3>1. PICK q \in S : q # m
      OBVIOUS
    <3> QED BY <2>1, <2>2, <3>1
  <2>6. p \in S \ {m} /\ \A q \in S \ {m} : p <= q
    BY <2>2, <2>5
  <2> QED BY <1>4, <2>4, <2>6 DEF ClockPicks
<1> QED BY <1>3, <1>4

\* The next detective is the one whom the phone announces, whoever plays.
THEOREM TheNextIsAnnounced == PhoneSpec => []NextIsAnnounced
<1>1. NextIsAnnounced
  <2> SUFFICES ASSUME NEW S \in SUBSET Seats, view.mic \in S, S # {view.mic}
               PROVE  ClockPicks(S, view.mic, pickNextInterviewer(S, view.mic))
    BY DEF NextIsAnnounced
  <2>1. S \in SUBSET Nat /\ IsFiniteSet(S)
    BY SeatsAssumption, FS_Subset
  <2> QED BY <2>1, NextSeat
<1> QED BY <1>1, PTL

-----------------------------------------------------------------------------
(* Phone: the rest of the types.                                           *)

RoomsTyped ==
  /\ room.mic \in Seats \cup {NoSeat} /\ room.paused \in BOOLEAN
  /\ view.mic \in Seats \cup {NoSeat} /\ view.paused \in BOOLEAN /\ view.pending \in BOOLEAN

\* The microphone is passed to a seat, to the phone's own when it is alone.
LEMMA PassedToASeat == pickNextInterviewer(Seats, Me) \in Seats
<1>1. Seats \in SUBSET Nat /\ IsFiniteSet(Seats) /\ Me \in Seats
  BY SeatsAssumption
<1>2. CASE Seats # {Me}
  BY <1>1, <1>2, NextSeat
<1>3. CASE Seats = {Me}
  <2>1. Cardinality(Seats) = 1
    BY <1>3, FS_Singleton
  <2>2. Place(Seats, Me) = 0
    BY <1>1, <1>3, PlaceOfTheFirst
  <2>3. (Place(Seats, Me) + 1) % Cardinality(Seats) = Place(Seats, Me)
    BY <2>1, <2>2
  <2> QED BY <1>1, <2>3, SeatAtPlace DEF pickNextInterviewer
<1> QED BY <1>2, <1>3

LEMMA RoomsTypedKept ==
  ASSUME PhoneInvTypes, RoomsTyped, [PhoneNext]_phoneVars
  PROVE  RoomsTyped'
<1> USE DEF RoomsTyped
<1>1. /\ room = [suspect |-> room.suspect, mic |-> room.mic, paused |-> room.paused]
      /\ view = [suspect |-> view.suspect, mic |-> view.mic, paused |-> view.paused,
                 pending |-> view.pending]
  BY DEF PhoneInvTypes, PhoneShape, Rooms, Views
<1>2. ASSUME UNCHANGED <<room, view>> PROVE RoomsTyped'
  BY <1>2
<1>3. CASE Route
  BY <1>2, <1>3 DEF Route, Begins, Replays, Refuses, Answers, GivesUp, serverVars, phone
<1>4. CASE Directs
  <2>1. room'.mic \in Seats \cup {NoSeat} /\ room'.paused \in BOOLEAN
    BY <1>1, <1>4 DEF Directs
  <2> QED BY <1>4, <2>1 DEF Directs, phone
<1>5. CASE Refreshes
  BY <1>5 DEF Refreshes, Fresh, serverVars
<1>6. CASE Types \/ Chooses \/ Dictates \/ Asks \/ Fails
  BY <1>2, <1>6
  DEF Types, Chooses, Dictates, StartsSpeech, Hears, SpeechEnds, SpeechOnly, Asks, Fails, serverVars
<1>7. CASE TakesAnswer
  <2>1. view' = view \/ view' = [Fresh EXCEPT !.pending = view.pending]
    BY <1>7 DEF TakesAnswer
  <2>2. view'.mic \in Seats \cup {NoSeat} /\ view'.paused \in BOOLEAN /\ view'.pending \in BOOLEAN
    BY <2>1 DEF Fresh
  <2> QED BY <1>7, <2>2 DEF TakesAnswer, serverVars
<1>8. ASSUME NEW seat \in Seats, MovesMicrophone(seat) PROVE RoomsTyped'
  <2>1. room' = [room EXCEPT !.mic = seat]
    BY <1>8 DEF MovesMicrophone, Controls
  <2>2. room'.mic \in Seats \cup {NoSeat} /\ room'.paused \in BOOLEAN
    BY <1>1, <2>1
  <2>3. view' = view \/ view' = [view EXCEPT !.suspect = room.suspect, !.mic = seat, !.paused = FALSE]
    BY <1>8 DEF MovesMicrophone
  <2>4. view'.mic \in Seats \cup {NoSeat} /\ view'.paused \in BOOLEAN /\ view'.pending \in BOOLEAN
    BY <1>1, <2>3
  <2> QED BY <2>2, <2>4
<1>9. CASE Switches
  <2>1. PICK s \in Onstage : room' = [room EXCEPT !.suspect = s] /\ view' = view
    BY <1>9 DEF Switches, Controls
  <2>2. room'.mic = room.mic /\ room'.paused = room.paused
    BY <1>1, <2>1
  <2> QED BY <2>1, <2>2
<1>10. CASE Control
  BY <1>8, <1>9, <1>10, PassedToASeat, SeatsAssumption DEF Control, TakesControl, PassesControl
<1>11. CASE UNCHANGED phoneVars
  BY <1>2, <1>11 DEF phoneVars, serverVars, phone
<1> QED
  BY <1>3, <1>4, <1>5, <1>6, <1>7, <1>10, <1>11
  DEF PhoneNext, Question, TakesRefusal, StopsWaiting

\* Server and phone keep their types, the announced detective's seat among them.
THEOREM PhoneTyped == PhoneSpec => []PhoneTypeOK
<1>1. PhoneInit => RoomsTyped
  BY SeatsAssumption DEF PhoneInit, RoomsTyped
<1>2. PhoneInv /\ RoomsTyped /\ [PhoneNext]_phoneVars => RoomsTyped'
  BY RoomsTypedKept DEF PhoneInv
<1>3. PhoneInv /\ RoomsTyped => PhoneTypeOK
  BY DEF PhoneInv, PhoneInvTypes, PhoneShape, Rooms, Views, RoomsTyped, PhoneTypeOK, Room
<1> QED BY <1>1, <1>2, <1>3, PhoneInvariant, PTL DEF PhoneSpec

-----------------------------------------------------------------------------
(* Screens: for any number of screens, of requests in flight and of        *)
(* suspects, what is on a screen never goes back.                          *)

\* What is known of a request: an action's answer is read after its commit, and
\* the tables after the row; and no row of the present revision has another suspect
\* on stage.
CallKnows(k) ==
  /\ k.made <= revision
  /\ k.at = "row" => /\ k.kind # "load"
                     /\ k.made <= k.snap.row /\ k.snap.row <= revision
  /\ k.at = "acted" => k.kind # "load"
  /\ k.at = "answered" /\ k.kind # "load" => /\ k.made <= k.snap.row
                                             /\ k.snap.row <= k.snap.tables
                                             /\ k.snap.tables <= revision
  /\ k.at \in {"row", "answered"} /\ k.kind # "load" /\ k.snap.row = revision =>
       k.snap.suspect = stage

CallsKnow == \A s \in Screens, c \in Calls : CallKnows(call[s][c])

ScreensInv == ScreensTypeOK /\ CallsKnow /\ CaseIsCovered

-----------------------------------------------------------------------------

(* The records that steps leave behind. *)

Acted(k, n)         == [k EXCEPT !.at = "acted", !.made = n]
RowRead(k, n, x)    == [k EXCEPT !.at = "row", !.snap.row = n, !.snap.suspect = x]
TablesRead(k, n, a) == [k EXCEPT !.at = "answered", !.snap.tables = n, !.snap.aside = a]
MessagesRead(k, n)  == [k EXCEPT !.at = "answered", !.snap.row = n]
MergedLobby(l, n, x) == [l EXCEPT !.row = n, !.suspect = x]

LEMMA ActedFields ==
  ASSUME NEW k \in Call, NEW n \in Nat
  PROVE  /\ Acted(k, n) \in Call
         /\ Acted(k, n).at = "acted" /\ Acted(k, n).made = n /\ Acted(k, n).kind = k.kind
BY DEF Call, Steps, Acted

LEMMA RowReadFields ==
  ASSUME NEW k \in Call, NEW n \in Nat, NEW x \in Suspects
  PROVE  /\ RowRead(k, n, x) \in Call
         /\ RowRead(k, n, x).at = "row" /\ RowRead(k, n, x).made = k.made
         /\ RowRead(k, n, x).kind = k.kind
         /\ RowRead(k, n, x).snap.row = n /\ RowRead(k, n, x).snap.suspect = x
BY DEF Call, Steps, Snapshot, RowRead

LEMMA TablesReadFields ==
  ASSUME NEW k \in Call, NEW n \in Nat, NEW a \in Nat
  PROVE  /\ TablesRead(k, n, a) \in Call
         /\ TablesRead(k, n, a).at = "answered" /\ TablesRead(k, n, a).made = k.made
         /\ TablesRead(k, n, a).kind = k.kind
         /\ TablesRead(k, n, a).snap.row = k.snap.row
         /\ TablesRead(k, n, a).snap.suspect = k.snap.suspect
         /\ TablesRead(k, n, a).snap.tables = n /\ TablesRead(k, n, a).snap.aside = a
BY DEF Call, Steps, Snapshot, TablesRead

LEMMA MessagesReadFields ==
  ASSUME NEW k \in Call, NEW n \in Nat
  PROVE  /\ MessagesRead(k, n) \in Call
         /\ MessagesRead(k, n).at = "answered" /\ MessagesRead(k, n).made = k.made
         /\ MessagesRead(k, n).kind = k.kind /\ MessagesRead(k, n).snap.row = n
BY DEF Call, Steps, Snapshot, MessagesRead

LEMMA MergedLobbyFields ==
  ASSUME NEW l \in Lobby, NEW n \in Nat, NEW x \in Suspects
  PROVE  /\ MergedLobby(l, n, x) \in Lobby
         /\ MergedLobby(l, n, x).row = n
         /\ MergedLobby(l, n, x).case = l.case /\ MergedLobby(l, n, x).tables = l.tables
BY DEF Lobby, MergedLobby

-----------------------------------------------------------------------------

LEMMA AnyoneIsSomebody == Anyone \in Suspects
BY SuspectsAssumption DEF Anyone

\* Requests that are not under way are of the right type and know nothing.
LEMMA FreshCalls ==
  ASSUME ScreensTypeOK
  PROVE  /\ Idle \in Call /\ CallKnows(Idle)
         /\ \A kind \in Kinds, x \in Suspects : Sent(kind, x) \in Call /\ CallKnows(Sent(kind, x))
BY AnyoneIsSomebody DEF ScreensTypeOK, Idle, Sent, Blank, Call, Kinds, Steps, Snapshot, CallKnows

\* A step that changes one request, and leaves the screens alone.
LEMMA OneCall ==
  ASSUME ScreensInv, NEW s \in Screens, NEW c \in Calls, NEW k \in Call, CallKnows(k),
         call' = [call EXCEPT ![s][c] = k], UNCHANGED <<server, shown>>,
         up' \in [Screens -> BOOLEAN], transcript' \in [Screens -> [Suspects -> Nat]]
  PROVE  ScreensInv'
<1>1. /\ call' \in [Screens -> [Calls -> Call]]
      /\ \A t \in Screens, d \in Calls : call'[t][d] = IF t = s /\ d = c THEN k ELSE call[t][d]
  BY DEF ScreensInv, ScreensTypeOK
<1>2. CallsKnow'
  <2> SUFFICES ASSUME NEW t \in Screens, NEW d \in Calls
               PROVE  CallKnows(call[t][d])'
    BY DEF CallsKnow
  <2>1. CallKnows(call'[t][d])
    BY <1>1 DEF ScreensInv, CallsKnow
  <2> QED BY <2>1 DEF CallKnows, server
<1> QED BY <1>1, <1>2 DEF ScreensInv, ScreensTypeOK, CaseIsCovered, server

\* A step in which screen s comes to show the lobby l.
LEMMA ShowsPreserves ==
  ASSUME ScreensInv, NEW s \in Screens, NEW c \in Calls, NEW k \in Call, CallKnows(k),
         NEW l \in Lobby, l.case <= l.row, l.case <= l.tables,
         Shows(s, l, After(s, c, k)), UNCHANGED <<server, up, transcript>>
  PROVE  ScreensInv'
<1>1. /\ shown' \in [Screens -> Lobby]
      /\ \A t \in Screens : shown'[t] = IF t = s THEN l ELSE shown[t]
  BY DEF ScreensInv, ScreensTypeOK, Shows
<1>2. /\ call' \in [Screens -> [Calls -> Call]]
      /\ \A t \in Screens, d \in Calls : call'[t][d] \in {call[t][d], k, Idle}
  <2>1. After(s, c, k) \in [Calls -> Call] /\ \A d \in Calls : After(s, c, k)[d] \in {call[s][d], k}
    BY DEF ScreensInv, ScreensTypeOK, After
  <2> DEFINE f == [d \in Calls |->
                     IF After(s, c, k)[d].kind = "load" /\ l.suspect # shown[s].suspect
                     THEN Idle ELSE After(s, c, k)[d]]
  <2>2. f \in [Calls -> Call] /\ \A d \in Calls : f[d] \in {call[s][d], k, Idle}
    BY <2>1, FreshCalls DEF ScreensInv
  <2>3. call' = [call EXCEPT ![s] = f]
    BY DEF Shows
  <2> HIDE DEF f
  <2>4. /\ call' \in [Screens -> [Calls -> Call]]
        /\ \A t \in Screens, d \in Calls : call'[t][d] = IF t = s THEN f[d] ELSE call[t][d]
    BY <2>2, <2>3 DEF ScreensInv, ScreensTypeOK
  <2> QED BY <2>2, <2>4
<1>3. CallsKnow'
  <2> SUFFICES ASSUME NEW t \in Screens, NEW d \in Calls
               PROVE  CallKnows(call[t][d])'
    BY DEF CallsKnow
  <2>1. CallKnows(call'[t][d])
    BY <1>2, FreshCalls DEF ScreensInv, CallsKnow
  <2> QED BY <2>1 DEF CallKnows, server
<1>4. CaseIsCovered'
  BY <1>1 DEF ScreensInv, CaseIsCovered
<1> QED BY <1>1, <1>2, <1>3, <1>4 DEF ScreensInv, ScreensTypeOK, server

\* What lands on a screen is in order, and not behind what the screen shows.
LEMMA LandingLobby ==
  ASSUME ScreensInv, NEW s \in Screens, NEW c \in Calls,
         call[s][c].at = "answered", call[s][c].kind # "load",
         NEW l, l \in {Taken(s, call[s][c].snap), Merged(s, call[s][c].snap)}
  PROVE  /\ l \in Lobby
         /\ l.case <= l.row /\ l.case <= l.tables
         /\ l.row >= shown[s].row /\ l.case >= shown[s].case
         /\ l.row >= call[s][c].made
<1>1. /\ call[s][c] \in Call /\ call[s][c].snap \in Snapshot
      /\ shown[s] \in Lobby
      /\ call[s][c].made <= call[s][c].snap.row
      /\ call[s][c].snap.row <= call[s][c].snap.tables
      /\ shown[s].case <= shown[s].row /\ shown[s].case <= shown[s].tables
  BY DEF ScreensInv, ScreensTypeOK, Call, CallsKnow, CallKnows, CaseIsCovered
<1> DEFINE snap == call[s][c].snap
<1>2. snap.row \in Nat /\ snap.tables \in Nat /\ snap.aside \in Nat /\ snap.suspect \in Suspects
      /\ call[s][c].made \in Nat
  BY <1>1 DEF Snapshot, Call
<1>3. /\ shown[s].row \in Nat /\ shown[s].case \in Nat /\ shown[s].tables \in Nat
      /\ shown[s].aside \in Nat
  BY <1>1 DEF Lobby
<1>4. CASE ~ Newer(s, snap)
  <2>1. l = shown[s] /\ shown[s].row > snap.row
    BY <1>2, <1>3, <1>4 DEF Taken, Merged, Newer
  <2> QED BY <1>1, <1>2, <1>3, <2>1
<1>5. CASE Newer(s, snap) /\ l = Taken(s, snap)
  <2>1. l = Whole(snap) /\ snap.row >= shown[s].row
    BY <1>5 DEF Taken, Newer
  <2> QED BY <1>1, <1>2, <1>3, <2>1 DEF Whole, Lobby
<1>6. CASE Newer(s, snap) /\ l = Merged(s, snap)
  <2>1. snap.row >= shown[s].row
    BY <1>6 DEF Newer
  <2>2. l \in Lobby /\ l.row = snap.row /\ l.case = shown[s].case /\ l.tables = shown[s].tables
    <3>1. l = MergedLobby(shown[s], snap.row, snap.suspect)
      BY <1>6 DEF Merged, MergedLobby
    <3>2. shown[s] \in Lobby /\ snap.row \in Nat /\ snap.suspect \in Suspects
      BY <1>1, <1>2
    <3> HIDE DEF snap
    <3> QED BY <3>1, <3>2, MergedLobbyFields
  <2> QED BY <1>1, <1>2, <1>3, <2>1, <2>2
<1> QED BY <1>4, <1>5, <1>6

-----------------------------------------------------------------------------

\* A commit keeps what requests know.
LEMMA CommitsPreserve ==
  ASSUME ScreensInv, Commits, UNCHANGED <<up, shown, transcript, call>>
  PROVE  ScreensInv'
<1>1. CallsKnow'
  <2> SUFFICES ASSUME NEW s \in Screens, NEW c \in Calls
               PROVE  CallKnows(call[s][c])'
    BY DEF CallsKnow
  <2>1. call[s][c] \in Call /\ call[s][c].snap \in Snapshot /\ CallKnows(call[s][c])
    BY DEF ScreensInv, ScreensTypeOK, Call, CallsKnow
  <2>2. revision' = revision + 1 /\ revision \in Nat /\ call'[s][c] = call[s][c]
    BY DEF Commits, ScreensInv, ScreensTypeOK
  <2> QED BY <2>1, <2>2 DEF CallKnows, Call, Snapshot
<1> QED BY <1>1 DEF ScreensInv, ScreensTypeOK, Commits, CaseIsCovered

LEMMA RequestPreserves ==
  ASSUME ScreensInv, NEW s \in Screens, NEW c \in Calls, Request(s, c)
  PROVE  ScreensInv'
<1>1. shown[s].suspect \in Suspects /\ Anyone \in Suspects
  BY AnyoneIsSomebody DEF ScreensInv, ScreensTypeOK, Lobby
<1>2. PICK k : /\ k \in Call /\ CallKnows(k)
               /\ Sends(s, c, k)
  BY <1>1, FreshCalls DEF Request, Refetch, Load, Act, ScreensInv, Kinds
<1>3. UNCHANGED up
  BY DEF Request, Refetch, Load, Act
<1> QED BY <1>2, <1>3, OneCall DEF Sends, ScreensInv, ScreensTypeOK

LEMMA ServePreserves ==
  ASSUME ScreensInv, NEW s \in Screens, NEW c \in Calls, Serve(s, c)
  PROVE  ScreensInv'
<1> DEFINE old == call[s][c]
<1>0. old \in Call /\ revision \in Nat /\ aside \in Nat /\ stage \in Suspects
  BY DEF ScreensInv, ScreensTypeOK
<1>1. /\ old \in Call /\ old.snap \in Snapshot /\ CallKnows(old)
      /\ revision \in Nat /\ aside \in Nat /\ stage \in Suspects
  BY DEF ScreensInv, ScreensTypeOK, Call, CallsKnow
<1>2. CASE ActionCommits(s, c)
  <2> DEFINE k == Acted(old, revision + 1)
  <2>1. /\ call' = [call EXCEPT ![s][c] = k]
        /\ call' \in [Screens -> [Calls -> Call]]
        /\ \A t \in Screens, d \in Calls : call'[t][d] = IF t = s /\ d = c THEN k ELSE call[t][d]
    <3>1. call' = [call EXCEPT ![s][c] = k]
      BY <1>2 DEF ActionCommits, Acted, ScreensInv, ScreensTypeOK
    <3>2. k \in Call
      BY <1>0, ActedFields
    <3> QED BY <3>1, <3>2 DEF ScreensInv, ScreensTypeOK
  <2>2. revision' = revision + 1 /\ stage' \in Suspects /\ aside' = aside
    BY <1>2 DEF ActionCommits, Commits
  <2>3. CallsKnow'
    <3> SUFFICES ASSUME NEW t \in Screens, NEW d \in Calls
                 PROVE  CallKnows(call[t][d])'
      BY DEF CallsKnow
    <3>1. CASE t = s /\ d = c
      <4>1. call'[t][d] = k
        BY <2>1, <3>1
      <4>2. k.at = "acted" /\ k.made = revision' /\ k.kind = "action"
        <5>1. old.kind = "action" /\ revision + 1 \in Nat
          BY <1>1, <1>2 DEF ActionCommits
        <5>2. k.at = "acted" /\ k.made = revision + 1 /\ k.kind = old.kind
          BY <1>0, <5>1, ActedFields
        <5> QED BY <2>2, <5>1, <5>2
      <4> QED BY <1>1, <2>2, <4>1, <4>2 DEF CallKnows
    <3>2. CASE ~ (t = s /\ d = c)
      <4>1. call'[t][d] = call[t][d]
        BY <2>1, <3>2
      <4>2. call[t][d] \in Call /\ call[t][d].snap \in Snapshot /\ CallKnows(call[t][d])
        BY DEF ScreensInv, ScreensTypeOK, Call, CallsKnow
      <4> QED BY <1>1, <2>2, <4>1, <4>2 DEF CallKnows, Call, Snapshot
    <3> QED BY <3>1, <3>2
  <2> QED BY <1>1, <1>2, <2>1, <2>2, <2>3 DEF ActionCommits, ScreensInv, ScreensTypeOK, CaseIsCovered
<1>3. CASE ActionRefused(s, c)
  BY <1>3, FreshCalls, OneCall DEF ActionRefused, ScreensInv, ScreensTypeOK
<1>4. CASE ReadRow(s, c)
  <2> DEFINE k == RowRead(old, revision, stage)
  <2>1. call' = [call EXCEPT ![s][c] = k]
    BY <1>4 DEF ReadRow, RowRead, ScreensInv, ScreensTypeOK
  <2>2. k \in Call /\ k.at = "row" /\ k.made = old.made /\ k.kind = old.kind /\ k.snap.row = revision
        /\ k.snap.suspect = stage
    <3> HIDE DEF old
    <3> QED BY <1>0, RowReadFields
  <2>3. k.kind # "load"
    BY <1>1, <1>4, <2>2 DEF ReadRow, CallKnows
  <2>4. CallKnows(k)
    <3> HIDE DEF k
    <3> QED BY <1>1, <2>2, <2>3 DEF CallKnows
  <2>5. UNCHANGED <<server, up, shown, transcript>>
    BY <1>4 DEF ReadRow
  <2> HIDE DEF k
  <2> QED BY <2>1, <2>2, <2>4, <2>5, OneCall DEF ScreensInv, ScreensTypeOK
<1>5. CASE ReadTables(s, c)
  <2> DEFINE k == TablesRead(old, revision, aside)
  <2>1. call' = [call EXCEPT ![s][c] = k]
    BY <1>5 DEF ReadTables, TablesRead, ScreensInv, ScreensTypeOK
  <2>2. /\ k \in Call /\ k.at = "answered" /\ k.kind = old.kind /\ k.made = old.made
        /\ k.snap.row = old.snap.row /\ k.snap.suspect = old.snap.suspect
        /\ k.snap.tables = revision
    <3> HIDE DEF old
    <3> QED BY <1>0, TablesReadFields
  <2>3. old.at = "row" /\ UNCHANGED <<server, up, shown, transcript>>
    BY <1>5 DEF ReadTables
  <2>4. CallKnows(k)
    <3> HIDE DEF k
    <3> QED BY <1>1, <2>2, <2>3 DEF CallKnows
  <2> HIDE DEF k
  <2> QED BY <2>1, <2>2, <2>3, <2>4, OneCall DEF ScreensInv, ScreensTypeOK
<1>6. CASE ReadMessages(s, c)
  <2> DEFINE k == MessagesRead(old, revision)
  <2>1. call' = [call EXCEPT ![s][c] = k]
    BY <1>6 DEF ReadMessages, MessagesRead, ScreensInv, ScreensTypeOK
  <2>2. k \in Call /\ k.at = "answered" /\ k.kind = old.kind /\ k.made = old.made
    <3> HIDE DEF old
    <3> QED BY <1>0, MessagesReadFields
  <2>3. old.kind = "load" /\ UNCHANGED <<server, up, shown, transcript>>
    BY <1>6 DEF ReadMessages
  <2>4. CallKnows(k)
    <3> HIDE DEF k
    <3> QED BY <1>1, <2>2, <2>3 DEF CallKnows
  <2> HIDE DEF k
  <2> QED BY <2>1, <2>2, <2>3, <2>4, OneCall DEF ScreensInv, ScreensTypeOK
<1> QED BY <1>2, <1>3, <1>4, <1>5, <1>6 DEF Serve

LEMMA LandPreserves ==
  ASSUME ScreensInv, NEW s \in Screens, NEW c \in Calls, Land(s, c)
  PROVE  ScreensInv'
<1> DEFINE snap == call[s][c].snap
<1>1. Idle \in Call /\ CallKnows(Idle) /\ Sent("lobby", Anyone) \in Call
      /\ CallKnows(Sent("lobby", Anyone))
  BY FreshCalls, AnyoneIsSomebody DEF ScreensInv, Kinds
<1>2. CASE LobbyLands(s, c) \/ ControlLands(s, c)
  <2>1. Answered(s, c, "lobby") \/ Answered(s, c, "action")
    BY <1>2 DEF LobbyLands, ControlLands
  <2>2. /\ Taken(s, snap) \in Lobby
        /\ Taken(s, snap).case <= Taken(s, snap).row
        /\ Taken(s, snap).case <= Taken(s, snap).tables
    BY <2>1, LandingLobby DEF Answered
  <2>3. Shows(s, Taken(s, snap), After(s, c, Idle)) /\ UNCHANGED <<server, up, transcript>>
    BY <1>2 DEF LobbyLands, ControlLands
  <2> QED BY <1>1, <2>2, <2>3, ShowsPreserves
<1>3. CASE AskLands(s, c)
  <2>1. Answered(s, c, "action")
    BY <1>3 DEF AskLands
  <2>2. /\ Merged(s, snap) \in Lobby
        /\ Merged(s, snap).case <= Merged(s, snap).row
        /\ Merged(s, snap).case <= Merged(s, snap).tables
    BY <2>1, LandingLobby DEF Answered
  <2>3. /\ Shows(s, Merged(s, snap), After(s, c, Sent("lobby", Anyone)))
        /\ UNCHANGED <<server, up, transcript>>
    BY <1>3 DEF AskLands
  <2> QED BY <1>1, <2>2, <2>3, ShowsPreserves
<1>4. CASE LoadLands(s, c)
  <2>1. snap.suspect \in Suspects /\ snap.row \in Nat
    BY DEF ScreensInv, ScreensTypeOK, Call, Snapshot
  <2>2. transcript' \in [Screens -> [Suspects -> Nat]]
    BY <1>4, <2>1 DEF LoadLands, ScreensInv, ScreensTypeOK
  <2> QED BY <1>1, <1>4, <2>2, OneCall DEF LoadLands, ScreensInv, ScreensTypeOK
<1> QED BY <1>2, <1>3, <1>4 DEF Land

THEOREM ScreensInduction == ScreensInv /\ [ScreensNext]_screensVars => ScreensInv'
<1> SUFFICES ASSUME ScreensInv, [ScreensNext]_screensVars PROVE ScreensInv'
  OBVIOUS
<1>1. CASE Elsewhere
  BY <1>1, CommitsPreserve DEF Elsewhere
<1>2. CASE Aside
  <2>1. CallsKnow'
    BY <1>2 DEF Aside, ScreensInv, CallsKnow, CallKnows
  <2> QED BY <1>2, <2>1 DEF Aside, ScreensInv, ScreensTypeOK, CaseIsCovered
<1>3. ASSUME NEW s \in Screens, Start(s) PROVE ScreensInv'
  <2>1. CallsKnow'
    BY <1>3 DEF Start, server, ScreensInv, CallsKnow, CallKnows
  <2> QED BY <1>3, <2>1 DEF Start, server, ScreensInv, ScreensTypeOK, CaseIsCovered
<1>4. ASSUME NEW s \in Screens, NEW c \in Calls, Lost(s, c) PROVE ScreensInv'
  BY <1>4, FreshCalls, OneCall DEF Lost, ScreensInv, ScreensTypeOK
<1>5. CASE UNCHANGED screensVars
  <2>1. CallsKnow'
    BY <1>5 DEF screensVars, server, ScreensInv, CallsKnow, CallKnows
  <2> QED BY <1>5, <2>1 DEF screensVars, server, ScreensInv, ScreensTypeOK, CaseIsCovered
<1> QED BY <1>1, <1>2, <1>3, <1>4, <1>5, RequestPreserves, ServePreserves, LandPreserves
        DEF ScreensNext, ScreenStep

LEMMA ScreensInitially == ScreensInit => ScreensInv
<1> SUFFICES ASSUME ScreensInit PROVE ScreensInv
  OBVIOUS
<1>1. ScreensTypeOK
  BY AnyoneIsSomebody
  DEF ScreensInit, ScreensTypeOK, Lobby, Idle, Sent, Blank, Call, Kinds, Steps, Snapshot
<1>2. CallsKnow
  BY <1>1, FreshCalls DEF ScreensInit, CallsKnow
<1> QED BY <1>1, <1>2 DEF ScreensInit, ScreensInv, CaseIsCovered

THEOREM ScreensInvariant == ScreensSpec => []ScreensInv
<1> QED BY ScreensInitially, ScreensInduction, PTL DEF ScreensSpec

\* Types.
THEOREM ScreensTyped == ScreensSpec => []ScreensTypeOK
<1>1. ScreensInv => ScreensTypeOK
  BY DEF ScreensInv
<1> QED BY <1>1, ScreensInvariant, PTL

\* The case file of a screen is never ahead of its session, and its votes and
\* players are never older than its case file.
THEOREM CaseFilesAreCovered == ScreensSpec => []CaseIsCovered
<1>1. ScreensInv => CaseIsCovered
  BY DEF ScreensInv
<1> QED BY <1>1, ScreensInvariant, PTL

-----------------------------------------------------------------------------

LEMMA StepMovesForward ==
  ASSUME ScreensInv, [ScreensNext]_screensVars, NEW t \in Screens
  PROVE  shown'[t].row >= shown[t].row /\ shown'[t].case >= shown[t].case
<1>1. shown[t].row \in Nat /\ shown[t].case \in Nat
  BY DEF ScreensInv, ScreensTypeOK, Lobby
<1>2. ASSUME NEW s \in Screens, NEW c \in Calls,
             LobbyLands(s, c) \/ ControlLands(s, c) \/ AskLands(s, c)
      PROVE  shown'[t].row >= shown[t].row /\ shown'[t].case >= shown[t].case
  <2>1. PICK l \in {Taken(s, call[s][c].snap), Merged(s, call[s][c].snap)} :
               shown' = [shown EXCEPT ![s] = l]
    BY <1>2 DEF LobbyLands, ControlLands, AskLands, Shows
  <2>2. call[s][c].at = "answered" /\ call[s][c].kind # "load"
    BY <1>2 DEF LobbyLands, ControlLands, AskLands, Answered
  <2>3. l.row >= shown[s].row /\ l.case >= shown[s].case
    BY <2>2, LandingLobby
  <2>4. shown'[t] = IF t = s THEN l ELSE shown[t]
    BY <2>1 DEF ScreensInv, ScreensTypeOK
  <2> QED BY <1>1, <2>3, <2>4
<1>3. CASE UNCHANGED shown
  BY <1>1, <1>3
<1>4. \/ UNCHANGED shown
      \/ \E s \in Screens, c \in Calls : LobbyLands(s, c) \/ ControlLands(s, c) \/ AskLands(s, c)
  <2>1. CASE ScreensNext
    <3>1. \A s \in Screens, c \in Calls :
            Request(s, c) \/ Serve(s, c) \/ Lost(s, c) \/ LoadLands(s, c) => UNCHANGED shown
      <4>1. \A s \in Screens, c \in Calls : Request(s, c) => UNCHANGED shown
        BY DEF Request, Refetch, Load, Act, Sends
      <4>2. \A s \in Screens, c \in Calls : Serve(s, c) => UNCHANGED shown
        BY DEF Serve, ActionCommits, ActionRefused, ReadRow, ReadTables, ReadMessages
      <4>3. \A s \in Screens, c \in Calls : Lost(s, c) \/ LoadLands(s, c) => UNCHANGED shown
        BY DEF Lost, LoadLands
      <4> QED BY <4>1, <4>2, <4>3
    <3>2. Elsewhere \/ Aside \/ (\E s \in Screens : Start(s)) => UNCHANGED shown
      BY DEF Elsewhere, Aside, Start
    <3> QED BY <2>1, <3>1, <3>2 DEF ScreensNext, ScreenStep, Land
  <2>2. CASE UNCHANGED screensVars
    BY <2>2 DEF screensVars
  <2> QED BY <2>1, <2>2
<1> QED BY <1>2, <1>3, <1>4

\* Neither the session nor the case file on a screen goes back, whatever order
\* answers arrive in and however many are in flight.
THEOREM ScreensMoveForward == ScreensSpec => MovesForward
<1>1. ScreensInv /\ [ScreensNext]_screensVars =>
        [\A s \in Screens : /\ shown'[s].row >= shown[s].row
                            /\ shown'[s].case >= shown[s].case]_screensVars
  BY StepMovesForward
<1> QED BY <1>1, ScreensInvariant, PTL DEF ScreensSpec, MovesForward

\* An action that is answered is on the screen.
THEOREM ActionsAreShown == ScreensSpec => ActionsShow
<1>1. ASSUME ScreensInv, NEW s \in Screens, NEW c \in Calls,
             ControlLands(s, c) \/ AskLands(s, c)
      PROVE  shown'[s].row >= call[s][c].made
  <2>1. PICK l \in {Taken(s, call[s][c].snap), Merged(s, call[s][c].snap)} :
               shown' = [shown EXCEPT ![s] = l]
    BY <1>1 DEF ControlLands, AskLands, Shows
  <2>2. call[s][c].at = "answered" /\ call[s][c].kind # "load"
    BY <1>1 DEF ControlLands, AskLands, Answered
  <2>3. l.row >= call[s][c].made
    BY <1>1, <2>2, LandingLobby
  <2> QED BY <1>1, <2>1, <2>3 DEF ScreensInv, ScreensTypeOK
<1>2. ScreensInv /\ [ScreensNext]_screensVars =>
        [\A s \in Screens, c \in Calls :
           ControlLands(s, c) \/ AskLands(s, c) => shown'[s].row >= call[s][c].made]_screensVars
  BY <1>1
<1> QED BY <1>2, ScreensInvariant, PTL DEF ScreensSpec, ActionsShow

-----------------------------------------------------------------------------
(* A screen that has settled.                                              *)

LEMMA NothingOldFresh ==
  NothingOld(Idle) /\ \A kind, x : NothingOld(Sent(kind, x))
BY DEF NothingOld, Idle, Sent

\* A step that leaves what the screen shows of the game, and starts no old answer.
LEMMA StaysSettled ==
  ASSUME NEW s \in Screens, Settled(s), UNCHANGED server,
         shown'[s] = shown[s], transcript'[s][stage] = transcript[s][stage],
         \A c \in Calls : NothingOld(call'[s][c])
  PROVE  Settled(s)'
BY DEF Settled, UpToDate, NothingOld, server

\* The step of one request of the screen.
LEMMA OneCallSettled ==
  ASSUME ScreensInv, NEW s \in Screens, Settled(s), UNCHANGED <<server, shown>>,
         transcript'[s][stage] = transcript[s][stage],
         NEW t \in Screens, NEW c \in Calls, NEW k, NothingOld(k),
         call' = [call EXCEPT ![t][c] = k]
  PROVE  Settled(s)'
<1>1. \A d \in Calls : call'[s][d] \in {call[s][d], k}
  BY DEF ScreensInv, ScreensTypeOK
<1>2. \A d \in Calls : NothingOld(call'[s][d])
  BY <1>1 DEF Settled
<1>3. QED
  BY <1>2, StaysSettled

LEMMA MergedInto ==
  ASSUME NEW l \in Lobby, NEW n, NEW x, l.row = n, l.suspect = x
  PROVE  [l EXCEPT !.row = n, !.suspect = x] = l
BY DEF Lobby

\* What lands on a settled screen is what it shows, or older and not heeded.
LEMMA LandsSettled ==
  ASSUME ScreensInv, NEW s \in Screens, Settled(s), NEW c \in Calls,
         call[s][c].at = "answered", call[s][c].kind # "load"
  PROVE  Taken(s, call[s][c].snap) = shown[s] /\ Merged(s, call[s][c].snap) = shown[s]
<1> DEFINE snap == call[s][c].snap
<1>1. /\ snap.row \in Nat /\ snap.tables \in Nat /\ snap.aside \in Nat /\ revision \in Nat
      /\ snap.row <= snap.tables /\ snap.tables <= revision
      /\ snap.row = revision => snap.suspect = stage
      /\ snap.row = revision => snap.aside = aside
  BY DEF ScreensInv, ScreensTypeOK, Call, Snapshot, CallsKnow, CallKnows, Settled, NothingOld
<1>2. shown[s] = [row |-> revision, suspect |-> stage, case |-> revision,
                  tables |-> revision, aside |-> aside]
  BY DEF Settled, UpToDate
<1>3. CASE ~ Newer(s, snap)
  BY <1>3 DEF Taken, Merged
<1>4. CASE Newer(s, snap)
  <2>1. snap.row = revision /\ snap.tables = revision
    BY <1>1, <1>2, <1>4 DEF Newer
  <2>2. Whole(snap) = shown[s]
    BY <1>1, <1>2, <2>1 DEF Whole
  <2>3. [shown[s] EXCEPT !.row = snap.row, !.suspect = snap.suspect] = shown[s]
    <3>1. snap.row = revision /\ snap.suspect = stage
      BY <1>1, <2>1
    <3>2. shown[s] \in Lobby
      BY DEF ScreensInv, ScreensTypeOK
    <3>3. shown[s].row = snap.row /\ shown[s].suspect = snap.suspect
      BY <1>2, <3>1
    <3> HIDE DEF snap
    <3>4. QED
      BY <3>2, <3>3, MergedInto, Zenon
  <2>4. QED
    BY <2>2, <2>3 DEF Taken, Merged
<1>5. QED
  BY <1>3, <1>4

LEMMA ShowsSettled ==
  ASSUME ScreensInv, NEW s \in Screens, Settled(s),
         NEW t \in Screens, NEW c \in Calls, NEW k, NothingOld(k), NEW l,
         t = s => l = shown[s],
         Shows(t, l, After(t, c, k)), UNCHANGED <<server, transcript>>
  PROVE  Settled(s)'
<1>1. shown'[s] = shown[s]
  BY DEF Shows, ScreensInv, ScreensTypeOK
<1>2. ASSUME NEW d \in Calls
      PROVE  call'[s][d] \in {call[s][d], k, Idle}
  <2>1. CASE t = s
    <3>1. call'[s][d] \in {Idle, After(s, c, k)[d]}
      BY <2>1 DEF Shows, ScreensInv, ScreensTypeOK
    <3>2. After(s, c, k)[d] \in {call[s][d], k}
      BY DEF After, ScreensInv, ScreensTypeOK
    <3>3. QED
      BY <3>1, <3>2
  <2>2. CASE t # s
    BY <2>2 DEF Shows, ScreensInv, ScreensTypeOK
  <2>3. QED
    BY <2>1, <2>2
<1>3. \A d \in Calls : NothingOld(call'[s][d])
  BY <1>2, NothingOldFresh DEF Settled
<1>4. QED
  BY <1>1, <1>3, StaysSettled

LEMMA ServeSettled ==
  ASSUME ScreensInv, NEW s \in Screens, Settled(s), UNCHANGED server,
         NEW t \in Screens, NEW c \in Calls, Serve(t, c)
  PROVE  Settled(s)'
<1> DEFINE old == call[t][c]
<1>1. old \in Call /\ revision \in Nat /\ aside \in Nat /\ stage \in Suspects
  BY DEF ScreensInv, ScreensTypeOK
<1>2. UNCHANGED <<shown, transcript>>
  BY DEF Serve, ActionCommits, ActionRefused, ReadRow, ReadTables, ReadMessages
<1>3. ASSUME NEW k, call' = [call EXCEPT ![t][c] = k], NothingOld(k)
      PROVE  Settled(s)'
  BY <1>2, <1>3, OneCallSettled
<1>4. CASE ActionCommits(t, c)
  BY <1>1, <1>4 DEF ActionCommits, Commits, server
<1>5. CASE ActionRefused(t, c)
  BY <1>3, <1>5, NothingOldFresh DEF ActionRefused
<1>6. CASE ReadRow(t, c)
  <2>1. call' = [call EXCEPT ![t][c] = RowRead(old, revision, stage)]
    BY <1>6 DEF ReadRow, RowRead, ScreensInv, ScreensTypeOK
  <2>2. NothingOld(RowRead(old, revision, stage))
    BY <1>1, RowReadFields DEF NothingOld
  <2>3. QED
    BY <1>3, <2>1, <2>2
<1>7. CASE ReadTables(t, c)
  <2>1. call' = [call EXCEPT ![t][c] = TablesRead(old, revision, aside)]
    BY <1>7 DEF ReadTables, TablesRead, ScreensInv, ScreensTypeOK
  <2>2. old.kind # "load"
    BY <1>7 DEF ReadTables, ScreensInv, CallsKnow, CallKnows
  <2>3. NothingOld(TablesRead(old, revision, aside))
    <3> HIDE DEF old
    <3>1. /\ TablesRead(old, revision, aside).kind # "load"
          /\ TablesRead(old, revision, aside).snap.aside = aside
      BY <1>1, <2>2, TablesReadFields
    <3>2. QED
      BY <3>1 DEF NothingOld
  <2>4. QED
    BY <1>3, <2>1, <2>3
<1>8. CASE ReadMessages(t, c)
  <2>1. call' = [call EXCEPT ![t][c] = MessagesRead(old, revision)]
    BY <1>8 DEF ReadMessages, MessagesRead, ScreensInv, ScreensTypeOK
  <2>2. old.kind = "load"
    BY <1>8 DEF ReadMessages
  <2>3. NothingOld(MessagesRead(old, revision))
    <3> HIDE DEF old
    <3>1. /\ MessagesRead(old, revision).kind = "load"
          /\ MessagesRead(old, revision).snap.row = revision
      BY <1>1, <2>2, MessagesReadFields
    <3>2. QED
      BY <3>1 DEF NothingOld
  <2>4. QED
    BY <1>3, <2>1, <2>3
<1>9. QED
  BY <1>4, <1>5, <1>6, <1>7, <1>8 DEF Serve

LEMMA LandSettled ==
  ASSUME ScreensInv, NEW s \in Screens, Settled(s), UNCHANGED server,
         NEW t \in Screens, NEW c \in Calls, Land(t, c)
  PROVE  Settled(s)'
<1> DEFINE snap == call[t][c].snap
<1>1. CASE LobbyLands(t, c) \/ ControlLands(t, c)
  <2>1. call[t][c].at = "answered" /\ call[t][c].kind # "load"
    BY <1>1 DEF LobbyLands, ControlLands, Answered
  <2>2. t = s => Taken(t, snap) = shown[s]
    BY <2>1, LandsSettled
  <2>3. Shows(t, Taken(t, snap), After(t, c, Idle)) /\ UNCHANGED transcript
    BY <1>1 DEF LobbyLands, ControlLands
  <2>4. QED
    BY <2>2, <2>3, NothingOldFresh, ShowsSettled
<1>2. CASE AskLands(t, c)
  <2>1. call[t][c].at = "answered" /\ call[t][c].kind # "load"
    BY <1>2 DEF AskLands, Answered
  <2>2. t = s => Merged(t, snap) = shown[s]
    BY <2>1, LandsSettled
  <2>3. Shows(t, Merged(t, snap), After(t, c, Sent("lobby", Anyone))) /\ UNCHANGED transcript
    BY <1>2 DEF AskLands
  <2>4. QED
    BY <2>2, <2>3, NothingOldFresh, ShowsSettled
<1>3. CASE LoadLands(t, c)
  <2>1. /\ call[t][c].at = "answered" /\ call[t][c].kind = "load"
        /\ transcript' = [transcript EXCEPT ![t][snap.suspect] = snap.row]
        /\ call' = [call EXCEPT ![t][c] = Idle] /\ UNCHANGED shown
    BY <1>3 DEF LoadLands, Answered
  <2>2. t = s /\ snap.suspect = stage => snap.row = transcript[s][stage]
    BY <2>1 DEF Settled, UpToDate, NothingOld
  <2>3. transcript'[s][stage] = transcript[s][stage]
    BY <2>1, <2>2 DEF ScreensInv, ScreensTypeOK
  <2>4. QED
    BY <2>1, <2>3, NothingOldFresh, OneCallSettled
<1>4. QED
  BY <1>1, <1>2, <1>3 DEF Land

\* A screen that shows the game as it is, with nothing older on its way, does so
\* until the game changes (SettledStays): for any number of requests in flight, of
\* any kind, that are answered in any order or lost.  Settles needs in addition
\* that the requests of before are answered or lost, and new ones made.
THEOREM SettledScreensStay == ScreensSpec => SettledStays
<1>1. ASSUME ScreensInv, ScreensNext, NEW s \in Screens, Settled(s), UNCHANGED server
      PROVE  Settled(s)'
  <2>1. CASE Elsewhere \/ Aside
    BY <1>1, <2>1 DEF Elsewhere, Aside, Commits, server, ScreensInv, ScreensTypeOK
  <2>2. ASSUME NEW t \in Screens, Start(t)
        PROVE  Settled(s)'
    BY <1>1, <2>2, StaysSettled DEF Start, Settled
  <2>3. ASSUME NEW t \in Screens, NEW c \in Calls, Request(t, c) \/ Lost(t, c)
        PROVE  Settled(s)'
    <3>1. PICK k : /\ k = Idle \/ \E kind, x : k = Sent(kind, x)
                   /\ call' = [call EXCEPT ![t][c] = k]
                   /\ UNCHANGED <<shown, transcript>>
      BY <2>3 DEF Request, Refetch, Load, Act, Sends, Lost
    <3>2. NothingOld(k)
      BY <3>1, NothingOldFresh
    <3>3. QED
      BY <1>1, <3>1, <3>2, OneCallSettled
  <2>4. QED
    BY <1>1, <2>1, <2>2, <2>3, ServeSettled, LandSettled DEF ScreensNext, ScreenStep
<1>2. ScreensInv /\ [ScreensNext]_screensVars =>
        [\A s \in Screens : Settled(s) /\ UNCHANGED server => Settled(s)']_screensVars
  BY <1>1
<1>3. QED
  BY <1>2, ScreensInvariant, PTL DEF ScreensSpec, SettledStays
=============================================================================
