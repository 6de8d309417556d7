------------------------------- MODULE Lobby --------------------------------
(***************************************************************************)
(* A game from its creation to its removal: the devices that belong to it, *)
(* the seats they take, the controls that start, pause and end it, the     *)
(* expiry that every committed control puts off, and the hourly job that   *)
(* deletes what has expired.  Joining locks the row but does not move its  *)
(* revision, so it runs beside controls that have read the row.            *)
(*                                                                         *)
(* A browser is not yet a device.  The server makes a device up for every  *)
(* request that brings no cookie, and the cookie comes with the answer: a  *)
(* browser whose first answer is lost asks again as somebody else.         *)
(***************************************************************************)
EXTENDS Naturals, FiniteSets

CONSTANTS
  Browsers,     \* the host's and the players'
  Devices,      \* the identities that the server can make up, each once
  NoDevice,     \* no cookie
  Nobody,       \* the browser of a device that is not made up yet
  Controls,     \* requests from the host's controls
  Capacity,     \* recommendedPlayers.max of the case
  Retention,    \* seven days
  MaxTime,      \* bound on the time
  MaxRevision   \* bound on the revision

ASSUME IdentityAssumption == NoDevice \notin Devices /\ Nobody \notin Browsers
ASSUME CapacityAssumption == Capacity \in Nat
ASSUME RetentionAssumption == Retention \in Nat \ {0}
ASSUME LobbyBoundsAssumption == MaxTime \in Nat /\ MaxRevision \in Nat

VARIABLES
  now,
  status, revision, expires,   \* the sessions row
  players,                     \* the players table
  member,                      \* the session_memberships table, by device
  maker,                       \* whose request a device was made up for (history)
  cookie,                      \* the device that each browser's cookie names
  told,                        \* the seat that each browser was told, and has saved
  requests,                    \* the joins under way at the server
  control                      \* the host's requests in progress

row     == <<status, revision, expires>>
tables  == <<row, players, member>>
browser == <<maker, cookie, told>>
vars    == <<now, tables, browser, requests, control>>

NoSeat == 0

Stored  == {"lobby", "in_progress", "paused", "finished"}
Player  == [seat : Nat \ {0}, observer : BOOLEAN]
Member  == [in : BOOLEAN, host : BOOLEAN, seat : Nat]
Control == [at : {"idle", "roster", "start", "play", "pause", "resume", "end"}, saw : Nat]

\* "awaited" until the browser gives the request up; the server goes on with it.
Request == [device : Devices, awaited : BOOLEAN]

Stranger    == [in |-> FALSE, host |-> FALSE, seat |-> NoSeat]
IdleControl == [at |-> "idle", saw |-> 0]

TypeOK ==
  /\ now \in Nat /\ revision \in Nat /\ expires \in Nat
  /\ status \in Stored \cup {"none", "deleted"}
  /\ players \subseteq Player
  /\ member \in [Devices -> Member]
  /\ maker \in [Devices -> Browsers \cup {Nobody}]
  /\ cookie \in [Browsers -> Devices \cup {NoDevice}]
  /\ told \in [Browsers -> Nat]
  /\ requests \subseteq Request
  /\ control \in [Controls -> Control]

\* A browser may have its cookie from an earlier game.
Init ==
  /\ now = 1
  /\ status = "none" /\ revision = 0 /\ expires = 0
  /\ players = {}
  /\ member = [d \in Devices |-> Stranger]
  /\ maker \in [Devices -> Browsers \cup {Nobody}]
  /\ cookie \in [Browsers -> Devices \cup {NoDevice}]
  /\ \A d \in Devices, b \in Browsers : maker[d] = b <=> cookie[b] = d
  /\ told = [b \in Browsers |-> NoSeat]
  /\ requests = {}
  /\ control = [c \in Controls |-> IdleControl]

-----------------------------------------------------------------------------

Detectives == {p \in players : ~ p.observer}
Seats      == {p.seat : p \in players}
Hosts      == {d \in Devices : member[d].host}
Expired    == expires <= now

-----------------------------------------------------------------------------
(* Who is asking.                                                          *)

\* Mutant: every request is somebody new.
AlwaysNewDevice(b) == {d \in Devices : maker[d] = Nobody}

\* The device of the cookie, or one that is made up for this request alone.
ensureDevice(b) ==
  IF cookie[b] # NoDevice THEN {cookie[b]} ELSE {d \in Devices : maker[d] = Nobody}

\* The device of the request is known as the browser's from here on.
MadeFor(b, d) == maker' = [maker EXCEPT ![d] = b]

\* An answer brings the cookie.
setDeviceCookie(b, d) == cookie' = [cookie EXCEPT ![b] = d]

\* create_game_session: the game, its host and the first event in one call.  The
\* answer may be lost, and with it the only copy of a new cookie.
Create(b) ==
  /\ status = "none"
  /\ \E d \in ensureDevice(b) :
       /\ member' = [member EXCEPT ![d] = [in |-> TRUE, host |-> TRUE, seat |-> NoSeat]]
       /\ MadeFor(b, d)
       /\ setDeviceCookie(b, d) \/ UNCHANGED cookie
  /\ status' = "lobby" /\ expires' = now + Retention
  /\ UNCHANGED <<now, revision, players, told, requests, control>>

-----------------------------------------------------------------------------
(* joinSessionByCode.                                                      *)

Waits(b) == \E r \in requests : r.awaited /\ maker[r.device] = b

\* The join code is on the host's page, and nowhere else before somebody has joined.
CodeIsShown == \E b \in Browsers : cookie[b] \in Hosts

\* The request gets its device, and the case is looked up by join code.
LookUp(b) ==
  /\ status \in Stored /\ CodeIsShown
  /\ ~ Waits(b)
  /\ \E d \in ensureDevice(b) :
       /\ requests' = requests \cup {[device |-> d, awaited |-> TRUE]}
       /\ MadeFor(b, d)
  /\ UNCHANGED <<now, tables, cookie, told, control>>

\* The form, or what the page does by itself when it finds a saved seat.
HasSaved(b) == told[b] # NoSeat
Joins(b)    == ~ HasSaved(b) /\ LookUp(b)
Resumes(b)  == HasSaved(b) /\ LookUp(b)

\* gameFetch times out, or the page is closed.
StopsWaiting(r) ==
  /\ r.awaited
  /\ requests' = (requests \ {r}) \cup {[r EXCEPT !.awaited = FALSE]}
  /\ UNCHANGED <<now, tables, browser, control>>

\* writeActivePlayerSession: the browser saves the seat, or does not let it.
Saves(b, seat) == told' \in {told, [told EXCEPT ![b] = seat]}

\* join_game_session answers, and the answer arrives or is lost.
Answers(r, seat) ==
  /\ requests' = requests \ {r}
  /\ \/ /\ r.awaited
        /\ setDeviceCookie(maker[r.device], r.device)
        /\ Saves(maker[r.device], seat)
     \/ UNCHANGED <<cookie, told>>
  /\ UNCHANGED <<now, row, maker, control>>

\* Mutant: observers are not counted.
SeatByDetectives == Cardinality(Detectives) + 1

\* coalesce(max(seat_number), 0) + 1
NextSeat == 1 + CHOOSE m \in Seats \cup {0} : \A s \in Seats : s <= m

\* Mutants: only a full game makes observers; the capacity is off by one.
LateIfFull    == Cardinality(Detectives) >= Capacity
LateIfCrowded == status # "lobby" \/ Cardinality(Detectives) > Capacity

\* Detectives join in the lobby, as many as the case allows.
Late == status # "lobby" \/ Cardinality(Detectives) >= Capacity

\* Mutant: a device that has a seat takes another one.
NewcomerAlways(d) == status \in Stored \ {"finished"} /\ ~ Expired

Newcomer(d) == status \in Stored \ {"finished"} /\ ~ Expired /\ member[d].seat = NoSeat

\* Mutant: the upsert overwrites is_host as well.
EnrolAsGuest(d, seat) == [member EXCEPT ![d] = [in |-> TRUE, host |-> FALSE, seat |-> seat]]

Enrol(d, seat) == [member EXCEPT ![d].in = TRUE, ![d].seat = seat]

\* A device without a player, the host's included, takes the next seat: as a
\* detective while the game is in the lobby and not full.
JoinNew(r) ==
  /\ Newcomer(r.device)
  /\ players' = players \cup {[seat |-> NextSeat, observer |-> Late]}
  /\ member' = Enrol(r.device, NextSeat)
  /\ Answers(r, NextSeat)

\* A device that has a player gets it back, renamed, even after the game.
JoinAgain(r) ==
  /\ status \in Stored /\ ~ Expired
  /\ member[r.device].seat # NoSeat
  /\ UNCHANGED <<players, member>>
  /\ Answers(r, member[r.device].seat)

\* The game is over, expired or gone, or the request fails.  An error brings no
\* cookie.  The saved seat stays: errors reach the form without the code that
\* would make it forget the game.
JoinFails(r) ==
  /\ requests' = requests \ {r}
  /\ UNCHANGED <<now, tables, browser, control>>

-----------------------------------------------------------------------------
(* The host's controls.                                                    *)

\* requireSessionAccess, for a browser with the host's cookie, then getLobbyState.
Reads(c, next) ==
  /\ control[c].at = "idle"
  /\ CodeIsShown /\ ~ Expired
  /\ control' = [control EXCEPT ![c] = [at |-> next, saw |-> revision]]
  /\ UNCHANGED <<now, tables, browser, requests>>

ReadForStart(c)  == status = "lobby" /\ Reads(c, "roster")
ReadForPlay(c)   == status = "in_progress" /\ Reads(c, "play")
ReadForPause(c)  == status = "in_progress" /\ Reads(c, "pause")
ReadForResume(c) == status = "paused" /\ Reads(c, "resume")
ReadForEnd(c)    == status \in {"in_progress", "paused"} /\ Reads(c, "end")

\* startSession's look at the players, which getLobbyState reads after the row.
ReadRoster(c) ==
  /\ control[c].at = "roster"
  /\ Detectives # {}
  /\ control' = [control EXCEPT ![c].at = "start"]
  /\ UNCHANGED <<now, tables, browser, requests>>

\* commit_game_update.
Commit(c, at) ==
  /\ control[c].at = at
  /\ status \in Stored \ {"finished"} /\ ~ Expired /\ control[c].saw = revision
  /\ revision < MaxRevision
  /\ revision' = revision + 1 /\ expires' = now + Retention
  /\ control' = [control EXCEPT ![c] = IdleControl]
  /\ UNCHANGED <<now, players, member, browser, requests>>

Start(c)  == Commit(c, "start") /\ status' = "in_progress"
Play(c)   == Commit(c, "play") /\ UNCHANGED status
Pause(c)  == Commit(c, "pause") /\ status' = "paused"
Resume(c) == Commit(c, "resume") /\ status' = "in_progress"
End(c)    == Commit(c, "end") /\ status' = "finished"

GivesUp(c) ==
  /\ control[c].at # "idle"
  /\ control' = [control EXCEPT ![c] = IdleControl]
  /\ UNCHANGED <<now, tables, browser, requests>>

-----------------------------------------------------------------------------
(* The games that a browser is offered to return to.                       *)

Active  == {"lobby", "in_progress", "paused"}
NoLinks == [host |-> FALSE, seat |-> NoSeat]

\* The links of the browser: to the host's page, to the page of its player; none
\* without a cookie or for a stranger.
Links(b) ==
  IF status \in Active /\ ~ Expired /\ cookie[b] # NoDevice
  THEN [host |-> member[cookie[b]].host, seat |-> member[cookie[b]].seat]
  ELSE NoLinks

-----------------------------------------------------------------------------

PassTime == now < MaxTime /\ now' = now + 1 /\ UNCHANGED <<tables, browser, requests, control>>

\* gc_expired_sessions; the tables around the game go with it.
Collect ==
  /\ status \in Stored /\ expires < now
  /\ status' = "deleted" /\ players' = {}
  /\ member' = [d \in Devices |-> Stranger]
  /\ UNCHANGED <<now, revision, expires, browser, requests, control>>

BrowserStep(b) == Create(b) \/ Joins(b) \/ Resumes(b)

JoinStep(r) == StopsWaiting(r) \/ JoinNew(r) \/ JoinAgain(r) \/ JoinFails(r)

ControlStep(c) ==
  \/ ReadForStart(c) \/ ReadRoster(c) \/ ReadForPlay(c) \/ ReadForPause(c)
  \/ ReadForResume(c) \/ ReadForEnd(c)
  \/ Start(c) \/ Play(c) \/ Pause(c) \/ Resume(c) \/ End(c) \/ GivesUp(c)

Next ==
  \/ \E b \in Browsers : BrowserStep(b)
  \/ \E r \in requests : JoinStep(r)
  \/ \E c \in Controls : ControlStep(c)
  \/ PassTime \/ Collect

Spec == Init /\ [][Next]_vars

-----------------------------------------------------------------------------
(* Properties.                                                             *)

\* The players table and the memberships agree: seats count up from one without
\* a gap and each player belongs to exactly one device, whatever order the joins
\* are handled in, and however often a device is sent again.  It says nothing of
\* people: a browser without a cookie is another device each time it asks.
RosterAgrees ==
  /\ Seats = 1 .. Cardinality(players)
  /\ \A d \in Devices : member[d].seat # NoSeat => member[d].in
  /\ Seats = {member[d].seat : d \in Devices} \ {NoSeat}
  /\ \A d, e \in Devices : member[d].seat = member[e].seat /\ d # e => member[d].seat = NoSeat

\* "A device_id cookie MUST identify each device for reconnect; closing/reopening the
\* page MUST rejoin the same seat" (docs/PRD.md:194).  It does not while the browser
\* waits for its first answer: whoever reloads then, or whose first answer is lost,
\* joins again as a second player, and the first is a detective whom nobody plays.
OneSeatEach ==
  \A d, e \in Devices :
    maker[d] = maker[e] /\ member[d].seat # NoSeat /\ member[e].seat # NoSeat => d = e

\* There are never more detectives than the case allows, and a game that has
\* started has one: nobody waits for a microphone that no player can hold.
Playable ==
  /\ Cardinality(Detectives) <= Capacity
  /\ status \in {"in_progress", "paused", "finished"} => Detectives # {}

\* What a browser was told is still so when it comes back: the seat came with the
\* cookie of the device that has it, and no later answer takes either away, not
\* even that of an older request for another device.
ToldSeatHolds ==
  \A b \in Browsers : told[b] # NoSeat =>
    /\ cookie[b] # NoDevice
    /\ status \in Stored => member[cookie[b]].seat = told[b]

\* While the game can be played there is a way back to it for every player who was
\* told a seat, to that very seat, and, once anybody has joined, for one host.
\* Before that there may be no host: a creation whose answer is lost leaves a game
\* with a host whom no browser is, and a code that nobody was shown.
WayBack ==
  status \in Active /\ ~ Expired =>
    /\ players # {} => Cardinality({b \in Browsers : Links(b).host}) = 1
    /\ \A b \in Browsers : told[b] # NoSeat => Links(b).seat = told[b]

\* Once a browser has a cookie it is the same device for good, whatever requests
\* without a cookie it sent before and whenever they are answered.
CookieIsKept == [][\A b \in Browsers : cookie[b] # NoDevice => cookie'[b] = cookie[b]]_vars

\* Once the game has started no detective comes or goes, and a join that was
\* under way when it started makes an observer: the vote that ends the game
\* waits for exactly the detectives who began it.
RosterKept ==
  status \in Stored /\ status' \in Stored =>
    /\ players \subseteq players'
    /\ status # "lobby" => {p \in players' : ~ p.observer} = Detectives
RosterClosed == [][RosterKept]_vars

\* The device that created the game is its host until the game is gone, also
\* when it joins as a detective, and nobody else becomes one.
HostKept ==
  status \in Stored /\ status' \in Stored =>
    /\ Cardinality(Hosts) = 1
    /\ \A d \in Devices : member'[d].host = member[d].host
HostIsFixed == [][HostKept]_vars

\* An expired game is dead: nothing that was under way when it expired is saved,
\* so the clean-up never deletes a game that somebody has just played.
ExpiredIsStill == [][Expired /\ status \in Stored => status' = "deleted" \/ UNCHANGED tables]_vars
=============================================================================
