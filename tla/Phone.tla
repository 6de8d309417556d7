------------------------------- MODULE Phone --------------------------------
(***************************************************************************)
(* A detective's phone in the interview: the question box, dictation, the  *)
(* exhibit to present, and the request id that makes a retry harmless.     *)
(* The phone acts on a view of the room that may be old, its requests are  *)
(* late or lost, and it gives up waiting after a while.                    *)
(*                                                                         *)
(* The server is TurnLedger, which InterviewTurns implements, with what    *)
(* the phone can tell of it: the input recorded with a request id, and who *)
(* is on stage with whom at the microphone.  The clocks are left out: the  *)
(* room may change at any time and a question may be refused at any time.  *)
(***************************************************************************)
EXTENDS Naturals, Sequences, FiniteSets

CONSTANTS
  Seats,       \* seat numbers of the detectives
  Me,          \* the seat of this phone
  Onstage,     \* the suspects of the second round, who may be switched
  NoOne,       \* no interview: another scene is shown
  Exhibits, NoExhibit,
  Presentable, \* by suspect, the exhibits that may be presented
  Texts,       \* what the detective types, as sequences of words
  MaxPresses,  \* bound on the presses of "Ask suspect"
  MaxVersion,  \* bound on the versions of the game
  MaxWords     \* bound on the words dictated

ASSUME SeatsAssumption == Seats \subseteq Nat \ {0} /\ IsFiniteSet(Seats) /\ Me \in Seats
ASSUME NoneAssumption  == NoOne \notin Onstage /\ NoExhibit \notin Exhibits
ASSUME PresentableAssumption == Presentable \in [Onstage -> SUBSET Exhibits]
\* Words are numbered: the dictated ones as they are spoken, and a typed word is 0.
ASSUME TextsAssumption == Texts \subseteq Seq({0})
ASSUME PhoneBoundsAssumption ==
  MaxPresses \in Nat /\ MaxVersion \in Nat /\ MaxWords \in Nat

VARIABLES
  \* the server
  version, holder, granted, answered,
  room,        \* the sessions row, as far as the phone is concerned
  inputs,      \* interview_turns: the input recorded with each request id
  worker,      \* the request that is being answered
  published,   \* the answered questions: id and round
  sent,        \* requests on their way to the server
  \* the phone
  view,        \* the room as the phone last saw it
  box, exhibit, pendingQuestion,
  asking,      \* the call that askSuspect is waiting for
  isListening, finalTranscript, lastAppended,
  heard,       \* words dictated so far
  \* history
  round,       \* number of the question: a press on the same content repeats it
  lastKey,     \* the content of the last press, unless it was answered or forgotten
  spent        \* the dictated words of questions that the phone saw answered

ledger  == <<version, holder, granted, answered>>
serverVars == <<ledger, room, inputs, worker, published>>
dictation == <<isListening, finalTranscript, lastAppended, heard>>
draft   == <<box, exhibit, pendingQuestion>>
history == <<round, lastKey, spent>>
phone   == <<view, draft, asking, dictation, history>>
phoneVars == <<serverVars, sent, phone>>

NoId   == 0
NoSeat == 0
Ids    == 1..MaxPresses
Word   == 0..MaxWords

Content == [text : Seq(Word), exhibit : Exhibits \cup {NoExhibit}]
Key     == [suspect : Onstage, text : Seq(Word), exhibit : Exhibits \cup {NoExhibit}]
Press   == [press : Ids, id : Ids, content : Content, round : Ids]
Room    == [suspect : Onstage \cup {NoOne}, mic : Seats \cup {NoSeat}, paused : BOOLEAN]
Answer  == [id : Ids, round : Ids]

NoContent  == [text |-> <<>>, exhibit |-> NoExhibit]
NoKey      == [suspect |-> NoOne, text |-> <<>>, exhibit |-> NoExhibit]
NoQuestion == [key |-> NoKey, id |-> NoId]
NoPress    == [press |-> 0, id |-> NoId, content |-> NoContent, round |-> 0]

Server == INSTANCE TurnLedger WITH Requests <- Ids, Nobody <- NoId

PhoneTypeOK ==
  /\ version \in Nat /\ holder \in Ids \cup {NoId} /\ granted \in Nat /\ answered \subseteq Ids
  /\ room \in Room /\ inputs \in [Ids -> Content]
  /\ worker \in Press \cup {NoPress} /\ published \subseteq Answer /\ sent \subseteq Press
  /\ view \in [suspect : Onstage \cup {NoOne}, mic : Seats \cup {NoSeat},
               paused : BOOLEAN, pending : BOOLEAN]
  /\ box \in Seq(Word) /\ exhibit \in Exhibits \cup {NoExhibit}
  /\ pendingQuestion \in [key : Key, id : Ids] \cup {NoQuestion}
  /\ asking \in [at : {"idle", "out", "ok", "no"}, press : 0..MaxPresses]
  /\ isListening \in BOOLEAN /\ heard \in Word
  /\ finalTranscript \in Seq(Word) /\ lastAppended \in Seq(Word)
  /\ round \in 0..MaxPresses /\ lastKey \in Key \cup {NoKey} /\ spent \subseteq Word

PhoneInit ==
  /\ Server!Init
  /\ \E s \in Onstage : room = [suspect |-> s, mic |-> Me, paused |-> FALSE]
  /\ inputs = [i \in Ids |-> NoContent]
  /\ worker = NoPress /\ published = {} /\ sent = {}
  /\ view = [suspect |-> room.suspect, mic |-> room.mic, paused |-> FALSE, pending |-> FALSE]
  /\ box = <<>> /\ exhibit = NoExhibit /\ pendingQuestion = NoQuestion
  /\ asking = [at |-> "idle", press |-> 0]
  /\ isListening = FALSE /\ finalTranscript = <<>> /\ lastAppended = <<>> /\ heard = 0
  /\ round = 0 /\ lastKey = NoKey /\ spent = {}

-----------------------------------------------------------------------------
(* Who asks next.                                                          *)

\* listRotatingDetectives, as the place of a seat in it and the seat at a place.
Place(S, p)  == Cardinality({q \in S : q < p})
SeatAt(S, i) == CHOOSE p \in S : Place(S, p) = i

\* Mutant: places are counted from one.
PickFromOne(S, p) ==
  IF S = {} THEN NoSeat
  ELSE SeatAt(S, (IF p \in S THEN Place(S, p) + 2 ELSE 1) % Cardinality(S))

pickNextInterviewer(S, p) ==
  IF S = {} THEN NoSeat
  ELSE SeatAt(S, (IF p \in S THEN Place(S, p) + 1 ELSE 1) % Cardinality(S))

\* tick_interview_clock chooses the next seat above, or else the lowest.
ClockPicks(S, m, p) ==
  LET above == {q \in S : q > m}
      pool  == IF above # {} THEN above ELSE S \ {m}
  IN  p \in pool /\ \A q \in pool : p <= q

-----------------------------------------------------------------------------
(* The interview route.                                                    *)

Respond(m, how) ==
  asking' = IF asking.at = "out" /\ asking.press = m.press
            THEN [asking EXCEPT !.at = how] ELSE asking

\* begin_interview_turn compares the input with the one recorded.
SameInput(m) == inputs[m.id] \in {NoContent, m.content}

Accepts(m) ==
  /\ SameInput(m) /\ m.id \notin answered /\ holder = NoId
  /\ room.suspect # NoOne /\ ~ room.paused /\ room.mic = Me

Received(m) == m \in sent /\ sent' = sent \ {m}

Begins(m) ==
  /\ Received(m) /\ Accepts(m)
  /\ Server!Grant(m.id) /\ version' = version
  /\ inputs' = [inputs EXCEPT ![m.id] = m.content]
  /\ worker' = m
  /\ UNCHANGED <<room, published, phone>>

\* The request is answered already: its answer is sent again.
Replays(m) ==
  /\ Received(m)
  /\ m.id \in answered /\ inputs[m.id] = m.content
  /\ Respond(m, "ok")
  /\ UNCHANGED <<serverVars, view, draft, dictation, history>>

\* Refused for any reason: another holder of the microphone, another question in
\* progress, another input, the clocks, a fault.
Refuses(m) ==
  /\ Received(m)
  /\ Respond(m, "no")
  /\ UNCHANGED <<serverVars, view, draft, dictation, history>>

\* The answer is for the suspect on stage, and only with an exhibit that may be
\* presented there.
Answers ==
  /\ holder # NoId /\ version < MaxVersion
  /\ worker.content.exhibit \in Presentable[room.suspect] \cup {NoExhibit}
  /\ Server!Publish
  /\ published' = published \cup {[id |-> worker.id, round |-> worker.round]}
  /\ worker' = NoPress
  /\ Respond(worker, "ok")
  /\ UNCHANGED <<room, inputs, sent, view, draft, dictation, history>>

\* The exhibit is refused, the answer fails, or its lease expires.
GivesUp ==
  /\ Server!GiveBack
  /\ worker' = NoPress
  /\ Respond(worker, "no")
  /\ UNCHANGED <<room, inputs, published, sent, view, draft, dictation, history>>

\* Host and clock change the room; over the head of a question only to stop it.
Directs ==
  /\ version < MaxVersion
  /\ Server!Change
  /\ worker' = NoPress
  /\ \/ holder = NoId /\ \E s \in Onstage \cup {NoOne} : room' = [room EXCEPT !.suspect = s]
     \/ holder = NoId /\ \E p \in Seats \cup {NoSeat} : room' = [room EXCEPT !.mic = p]
     \/ holder = NoId /\ room' = [room EXCEPT !.paused = FALSE]
     \/ room' = [room EXCEPT !.paused = TRUE]
  /\ room' # room
  /\ UNCHANGED <<inputs, published, sent, phone>>

-----------------------------------------------------------------------------
(* What the phone shows.                                                   *)

Live(v)   == v.suspect # NoOne
\* The page's fieldset, and the screen of the detective who asks.
Enabled   == Live(view) /\ ~ view.paused /\ ~ view.pending
MayAsk    == Enabled /\ view.mic = Me
MayEdit   == MayAsk /\ asking.at = "idle"

Fresh == [suspect |-> room.suspect, mic |-> room.mic, paused |-> room.paused,
          pending |-> holder # NoId]

\* A poll or a change event.  With another scene InterviewMode is unmounted: what
\* it kept is forgotten, and nobody waits for its requests.
Refreshes ==
  /\ view' = Fresh /\ view' # view
  /\ IF Live(view')
     THEN UNCHANGED <<draft, asking, dictation, lastKey>>
     ELSE /\ box' = <<>> /\ exhibit' = NoExhibit /\ pendingQuestion' = NoQuestion
          /\ asking' = [asking EXCEPT !.at = "idle"]
          /\ isListening' = FALSE /\ finalTranscript' = <<>> /\ lastAppended' = <<>>
          /\ lastKey' = NoKey
          /\ UNCHANGED heard
  /\ UNCHANGED <<serverVars, sent, round, spent>>

Types ==
  /\ MayEdit
  /\ \E t \in Texts \cup {<<>>} : box' = t
  /\ UNCHANGED <<serverVars, sent, view, exhibit, pendingQuestion, asking, dictation, history>>

\* The picker offers getPresentableEvidence; an exhibit once chosen stays chosen
\* when another suspect is called for whom it is not offered.  With nothing to offer
\* there is no picker, to clear the choice with either.
Chooses ==
  /\ MayEdit /\ Presentable[view.suspect] # {}
  /\ \E x \in Presentable[view.suspect] \cup {NoExhibit} : exhibit' = x
  /\ UNCHANGED <<serverVars, sent, view, box, pendingQuestion, asking, dictation, history>>

-----------------------------------------------------------------------------
(* useSpeechToText, and the effect that appends what it hears to the box.  *)

SpeechOnly ==
  UNCHANGED <<serverVars, sent, view, exhibit, pendingQuestion, asking, history>>

StartsSpeech ==
  /\ MayEdit /\ ~ isListening
  /\ isListening' = TRUE /\ finalTranscript' = <<>> /\ lastAppended' = <<>>
  /\ UNCHANGED <<box, heard>> /\ SpeechOnly

\* A result, perhaps after the recognition was told to stop, or while another
\* detective has the microphone of the game.
Hears ==
  /\ isListening /\ heard < MaxWords
  /\ heard' = heard + 1
  /\ finalTranscript' = Append(finalTranscript, heard')
  /\ box' = box \o SubSeq(finalTranscript', Len(lastAppended) + 1, Len(finalTranscript'))
  /\ lastAppended' = finalTranscript'
  /\ UNCHANGED isListening /\ SpeechOnly

\* onend, some time after stop or by itself.
SpeechEnds ==
  /\ isListening
  /\ isListening' = FALSE
  /\ UNCHANGED <<box, finalTranscript, lastAppended, heard>> /\ SpeechOnly

\* Mutant: only the effect's own memory is reset.
ResetsMemory ==
  /\ lastAppended' = <<>>
  /\ UNCHANGED <<isListening, finalTranscript, heard>>

\* Before a question is sent the recognition is told to stop, which takes effect
\* when onend is called.
ResetsSpeech ==
  /\ finalTranscript' = <<>> /\ lastAppended' = <<>>
  /\ UNCHANGED <<isListening, heard>>

-----------------------------------------------------------------------------
(* askSuspect.                                                             *)

\* Mutant: the exhibit is no part of the key.
KeyWithoutExhibit == [suspect |-> view.suspect, text |-> box, exhibit |-> NoExhibit]

requestKey == [suspect |-> view.suspect, text |-> box, exhibit |-> exhibit]

Asks ==
  /\ MayEdit /\ box # <<>>
  /\ asking.press < MaxPresses
  /\ LET n  == asking.press + 1
         id == IF pendingQuestion.key = requestKey THEN pendingQuestion.id ELSE n
         content == [suspect |-> view.suspect, text |-> box, exhibit |-> exhibit]
     IN  /\ pendingQuestion' = [key |-> requestKey, id |-> id]
         /\ round' = IF lastKey = content THEN round ELSE round + 1
         /\ lastKey' = content
         /\ sent' = sent \cup {[press |-> n, id |-> id, round |-> round',
                                content |-> [text |-> box, exhibit |-> exhibit]]}
         /\ asking' = [at |-> "out", press |-> n]
  /\ ResetsSpeech
  /\ UNCHANGED <<serverVars, view, box, exhibit, spent>>

\* The answer: question, exhibit and request id are cleared, and with them what was
\* dictated since; the session in it is merged into the view unless it is older.
TakesAnswer ==
  /\ asking.at = "ok"
  /\ view' \in {view, [Fresh EXCEPT !.pending = view.pending]} /\ Live(view')
  /\ box' = <<>> /\ exhibit' = NoExhibit /\ pendingQuestion' = NoQuestion
  /\ asking' = [asking EXCEPT !.at = "idle"]
  /\ lastKey' = NoKey
  /\ spent' = spent \cup ({lastKey.text[i] : i \in DOMAIN lastKey.text} \ {0})
  /\ UNCHANGED <<serverVars, sent, dictation, round>>

\* Mutant: a failed question forgets its request id.
FailsForgetting ==
  /\ asking' = [asking EXCEPT !.at = "idle"]
  /\ pendingQuestion' = NoQuestion
  /\ UNCHANGED <<serverVars, sent, view, box, exhibit, dictation, history>>

Fails ==
  /\ asking' = [asking EXCEPT !.at = "idle"]
  /\ UNCHANGED <<serverVars, sent, view, draft, dictation, history>>

TakesRefusal == asking.at = "no" /\ Fails

\* gameFetch: the network fails, or 110 seconds have passed.
StopsWaiting == asking.at = "out" /\ Fails

-----------------------------------------------------------------------------
(* claimInterviewer and jumpTo.  A control is taken together with its effect: *)
(* whatever happens while its request is on its way, host and clock can do    *)
(* before it.  Refused or lost, it has no effect.                             *)

Controls(changed) ==
  /\ ~ room.paused /\ holder = NoId /\ version < MaxVersion
  /\ Server!Change
  /\ room' = changed
  /\ UNCHANGED <<inputs, worker, published, sent, draft, asking, dictation, history>>

\* setSessionInterviewer; its answer brings the session.
MovesMicrophone(seat) ==
  /\ Controls([room EXCEPT !.mic = seat])
  /\ view' \in {view, [view EXCEPT !.suspect = room.suspect, !.mic = seat, !.paused = FALSE]}
  /\ Live(view')

TakesControl  == Enabled /\ view.mic # Me /\ room.mic = NoSeat /\ MovesMicrophone(Me)
PassesControl == MayEdit /\ room.mic = Me /\ MovesMicrophone(pickNextInterviewer(Seats, Me))

\* setSessionScene; jumpTo waits for the next poll.
Switches ==
  /\ MayEdit /\ room.mic = Me
  /\ \E s \in Onstage \ {view.suspect} : Controls([room EXCEPT !.suspect = s])
  /\ UNCHANGED view

-----------------------------------------------------------------------------

Route    == \/ \E m \in sent : Begins(m) \/ Replays(m) \/ Refuses(m)
            \/ Answers \/ GivesUp
Dictates == StartsSpeech \/ Hears \/ SpeechEnds
Question == Types \/ Chooses \/ Asks \/ TakesAnswer \/ TakesRefusal \/ StopsWaiting
Control  == TakesControl \/ PassesControl \/ Switches

PhoneNext == Route \/ Directs \/ Refreshes \/ Dictates \/ Question \/ Control

PhoneSpec == PhoneInit /\ [][PhoneNext]_phoneVars

-----------------------------------------------------------------------------
(* Properties.                                                             *)

\* A question that the detective repeats until its answer is seen is asked and
\* answered once, however many of its answers are lost: the presses of one round
\* never have two answers in the transcript.
AskedOnce == \A a, b \in published : a.round = b.round => a = b

\* A request id stands for one question: no request on its way is refused because
\* its id was used with other words or another exhibit, now or when an earlier
\* request overtakes it.
IdNamesOneQuestion ==
  \A m \in sent : /\ SameInput(m)
                  /\ \A n \in sent : n.id = m.id => n.content = m.content

\* What was said once is in the question box once, and not again after its
\* question was answered, although stopping the recognition takes time and the
\* effect that appends its results compares lengths only.
NoEcho ==
  /\ \A i, j \in DOMAIN box : box[i] # 0 /\ box[i] = box[j] => i = j
  /\ \A i \in DOMAIN box : box[i] \notin spent

\* The detective whom the phone announces, and passes the microphone to, is the
\* one whom the clock would choose, whoever plays.
NextIsAnnounced ==
  \A S \in SUBSET Seats : view.mic \in S /\ S # {view.mic} =>
    ClockPicks(S, view.mic, pickNextInterviewer(S, view.mic))
=============================================================================
