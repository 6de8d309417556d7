---------------------------- MODULE LobbyProofs -----------------------------
(***************************************************************************)
(* Proofs about Lobby, for any browsers, devices, controls, capacity and   *)
(* bounds.                                                                 *)
(***************************************************************************)
EXTENDS Lobby, FiniteSetTheorems, TLAPS

USE IdentityAssumption, CapacityAssumption, RetentionAssumption, LobbyBoundsAssumption

\* The tables around a game exist as long as the game does.
Bounded ==
  /\ IsFiniteSet(players)
  /\ status \notin Stored => players = {} /\ member = [d \in Devices |-> Stranger]
  /\ status \in Stored => \E h \in Devices : Hosts = {h}
  /\ status = "none" => /\ \A b \in Browsers : told[b] = NoSeat
                        /\ requests = {}
                        /\ \A c \in Controls : control[c].at = "idle"

\* A cookie names a device that was made up for its browser.  A browser awaits one
\* answer at a time, and one that has a cookie awaits it as that device.
Identity ==
  /\ \A b \in Browsers : cookie[b] # NoDevice => maker[cookie[b]] = b
  /\ \A r \in requests : maker[r.device] \in Browsers
  /\ \A r \in requests : r.awaited /\ cookie[maker[r.device]] # NoDevice =>
       cookie[maker[r.device]] = r.device
  /\ \A r, q \in requests : r.awaited /\ q.awaited /\ maker[r.device] = maker[q.device] => r = q

\* Whoever joins has the code from a browser that is the host.
HostIsKnown == status \in Stored /\ (players # {} \/ requests # {}) => CodeIsShown

\* Whoever is about to commit a control has seen a detective, and detectives
\* stay as long as the game does.
Committing == {"start", "play", "pause", "resume", "end"}
ControlsKnow ==
  \A c \in Controls : control[c].at \in Committing /\ status \in Stored => Detectives # {}

LobbyInv ==
  /\ TypeOK /\ Bounded /\ Identity /\ HostIsKnown
  /\ RosterAgrees /\ Playable /\ ToldSeatHolds /\ ControlsKnow

-----------------------------------------------------------------------------
(* Lemmas about seats and detectives.                                      *)

\* The next seat after 1 .. n is n + 1, also when there is no seat yet.
LEMMA NextSeatFollows ==
  ASSUME NEW n \in Nat, Seats = 1 .. n
  PROVE  NextSeat = n + 1
<1>1. n \in Seats \cup {0} /\ \A s \in Seats : s <= n
  OBVIOUS
<1>2. ASSUME NEW m \in Seats \cup {0}, \A s \in Seats : s <= m PROVE m = n
  <2>1. m \in 0 .. n
    BY <1>2
  <2>2. n > 0 => n <= m
    BY <1>2
  <2> QED
    BY <2>1, <2>2
<1> DEFINE top == CHOOSE m \in Seats \cup {0} : \A s \in Seats : s <= m
<1>3. top \in Seats \cup {0} /\ \A s \in Seats : s <= top
  BY <1>1, Zenon
<1>4. top = n
  BY <1>2, <1>3
<1>5. NextSeat = 1 + top
  BY DEF NextSeat
<1> HIDE DEF top
<1> QED
  BY <1>4, <1>5

\* A new player has a new seat, and counts.
LEMMA NewPlayer ==
  ASSUME LobbyInv, NEW p, p = [seat |-> NextSeat, observer |-> Late],
         players' = players \cup {p}
  PROVE  /\ NextSeat = Cardinality(players) + 1
         /\ NextSeat \in Nat \ {0} /\ NextSeat \notin Seats
         /\ p \in Player /\ p \notin players
         /\ IsFiniteSet(players')
         /\ Cardinality(players') = Cardinality(players) + 1
         /\ Seats' = Seats \cup {NextSeat}
         /\ Seats' = 1 .. Cardinality(players')
<1>1. Cardinality(players) \in Nat
  BY FS_CardinalityType DEF LobbyInv, Bounded
<1>2. NextSeat = Cardinality(players) + 1
  BY <1>1, NextSeatFollows DEF LobbyInv, RosterAgrees
<1>3. NextSeat \in Nat \ {0} /\ NextSeat \notin Seats
  BY <1>1, <1>2 DEF LobbyInv, RosterAgrees
<1>4. p \in Player
  BY <1>3 DEF Player, Late
<1>5. p \notin players
  BY <1>3 DEF Seats
<1>6. IsFiniteSet(players') /\ Cardinality(players') = Cardinality(players) + 1
  BY <1>5, FS_AddElement DEF LobbyInv, Bounded
<1>7. Seats' = Seats \cup {NextSeat}
  BY DEF Seats
<1>8. Seats' = 1 .. Cardinality(players')
  BY <1>1, <1>2, <1>6, <1>7 DEF LobbyInv, RosterAgrees
<1> QED
  BY <1>2, <1>3, <1>4, <1>5, <1>6, <1>7, <1>8

\* A new player is a detective only while the case has room, in the lobby.
LEMMA NewDetective ==
  ASSUME LobbyInv, NEW p, p = [seat |-> NextSeat, observer |-> Late],
         players' = players \cup {p}
  PROVE  /\ Late => Detectives' = Detectives
         /\ Cardinality(Detectives') <= Capacity
         /\ Detectives \subseteq Detectives'
<1>1. IsFiniteSet(Detectives) /\ Cardinality(Detectives) \in Nat
  BY FS_Subset, FS_CardinalityType DEF LobbyInv, Bounded, Detectives
<1>2. CASE Late
  <2>1. Detectives' = Detectives
    BY <1>2 DEF Detectives
  <2> QED
    BY <2>1 DEF LobbyInv, Playable
<1>3. CASE ~ Late
  <2>1. Detectives' = Detectives \cup {p}
    BY <1>3 DEF Detectives
  <2>2. p \notin Detectives
    BY NewPlayer DEF Detectives
  <2>3. Cardinality(Detectives') = Cardinality(Detectives) + 1
    BY <1>1, <2>1, <2>2, FS_AddElement
  <2> QED
    BY <1>1, <1>3, <2>1, <2>3 DEF Late
<1> QED
  BY <1>2, <1>3

-----------------------------------------------------------------------------
(* Lemmas about browsers and devices.                                      *)

\* What the answer to a request does to the cookies.
Cookies(r) ==
  \/ r.awaited /\ cookie' = [cookie EXCEPT ![maker[r.device]] = r.device]
  \/ UNCHANGED cookie

\* The answer to a request changes no cookie that is there.
LEMMA AnswersKeepCookies ==
  ASSUME LobbyInv, NEW r \in requests, Cookies(r)
  PROVE  \A b \in Browsers : cookie[b] # NoDevice => cookie'[b] = cookie[b]
BY DEF LobbyInv, TypeOK, Identity, Cookies

\* A host who was known stays known.
LEMMA CodeStaysShown ==
  ASSUME \A b \in Browsers : cookie[b] # NoDevice => cookie'[b] = cookie[b],
         Hosts \subseteq Devices, Hosts' = Hosts, CodeIsShown
  PROVE  CodeIsShown'
BY DEF CodeIsShown

\* The answer to a request leaves everybody who they are.
LEMMA AnswersKeepIdentity ==
  ASSUME LobbyInv, NEW r \in requests, Cookies(r),
         requests' = requests \ {r}, maker' = maker
  PROVE  Identity'
<1>1. r.device \in Devices /\ maker[r.device] \in Browsers
  BY DEF LobbyInv, TypeOK, Request, Identity
<1>2. CASE UNCHANGED cookie
  BY <1>2 DEF LobbyInv, Identity
<1>3. CASE r.awaited /\ cookie' = [cookie EXCEPT ![maker[r.device]] = r.device]
  <2>1. /\ cookie'[maker[r.device]] = r.device
        /\ \A b \in Browsers \ {maker[r.device]} : cookie'[b] = cookie[b]
    BY <1>1, <1>3 DEF LobbyInv, TypeOK
  <2>2. \A b \in Browsers : cookie'[b] # NoDevice => maker'[cookie'[b]] = b
    BY <2>1 DEF LobbyInv, Identity
  <2>3. ASSUME NEW q \in requests', q.awaited, cookie'[maker[q.device]] # NoDevice
        PROVE  cookie'[maker[q.device]] = q.device
    <3>1. q \in requests /\ q # r /\ maker[q.device] \in Browsers
      BY DEF LobbyInv, Identity
    <3>2. maker[q.device] # maker[r.device]
      BY <1>3, <2>3, <3>1 DEF LobbyInv, Identity
    <3> QED
      BY <2>1, <2>3, <3>1, <3>2 DEF LobbyInv, Identity
  <2> QED
    BY <2>2, <2>3 DEF LobbyInv, Identity
<1> QED
  BY <1>2, <1>3 DEF Cookies

-----------------------------------------------------------------------------
(* The invariant.                                                          *)

\* It holds before the game is created.
LEMMA LobbyStarts == Init => LobbyInv
<1> SUFFICES ASSUME Init PROVE LobbyInv
  OBVIOUS
<1>1. TypeOK
  BY DEF Init, TypeOK, Stored, Member, Stranger, NoSeat, Control, IdleControl
<1>2. IsFiniteSet({}) /\ Cardinality({}) = 0
  BY FS_EmptySet
<1>3. Bounded /\ HostIsKnown
  BY <1>2 DEF Init, Bounded, Stored, IdleControl, HostIsKnown
<1>4. players = {} /\ Detectives = {} /\ Seats = {}
  BY DEF Init, Detectives, Seats
<1>5. RosterAgrees
  BY <1>2, <1>4 DEF Init, RosterAgrees, Stranger, NoSeat
<1>6. Playable
  BY <1>2, <1>4 DEF Init, Playable
<1>7. ToldSeatHolds /\ ControlsKnow
  BY DEF Init, ToldSeatHolds, ControlsKnow, Stored, Committing, IdleControl
<1>8. Identity
  <2>1. ASSUME NEW b \in Browsers, cookie[b] # NoDevice PROVE maker[cookie[b]] = b
    BY <2>1 DEF Init
  <2> QED
    BY <2>1 DEF Init, Identity
<1> QED
  BY <1>1, <1>3, <1>5, <1>6, <1>7, <1>8 DEF LobbyInv

\* The creation keeps it.
LEMMA CreateKeeps ==
  ASSUME LobbyInv, NEW b \in Browsers, Create(b)
  PROVE  LobbyInv'
<1>1. PICK d \in ensureDevice(b) :
        /\ member' = [member EXCEPT ![d] = [in |-> TRUE, host |-> TRUE, seat |-> NoSeat]]
        /\ maker' = [maker EXCEPT ![d] = b]
        /\ cookie' = [cookie EXCEPT ![b] = d] \/ UNCHANGED cookie
  BY DEF Create, MadeFor, setDeviceCookie
<1>2. /\ status = "none" /\ status' = "lobby" /\ expires' = now + Retention
      /\ UNCHANGED <<now, revision, players, told, requests, control>>
  BY DEF Create
<1>3. /\ d \in Devices /\ maker[d] \in {b, Nobody}
      /\ cookie[b] # NoDevice => cookie[b] = d
  BY DEF ensureDevice, LobbyInv, TypeOK, Identity
<1>4. TypeOK'
  <2>1. member' \in [Devices -> Member]
    BY <1>1 DEF LobbyInv, TypeOK, Member, NoSeat
  <2>2. maker' \in [Devices -> Browsers \cup {Nobody}] /\ cookie' \in [Browsers -> Devices \cup {NoDevice}]
    BY <1>1, <1>3 DEF LobbyInv, TypeOK
  <2> QED
    BY <1>2, <2>1, <2>2 DEF LobbyInv, TypeOK, Stored
<1>5. players = {} /\ member = [e \in Devices |-> Stranger] /\ requests = {}
  BY <1>2 DEF LobbyInv, Bounded, Stored
<1>6. Hosts' = {d}
  BY <1>1, <1>3, <1>5 DEF Hosts, Stranger
<1>7. Bounded' /\ HostIsKnown'
  BY <1>2, <1>3, <1>5, <1>6 DEF LobbyInv, Bounded, HostIsKnown, Stored
<1>8. Identity'
  <2>1. ASSUME NEW a \in Browsers, cookie'[a] # NoDevice PROVE maker'[cookie'[a]] = a
    <3>1. CASE a = b
      <4>1. cookie'[a] = d
        BY <1>1, <1>3, <2>1, <3>1 DEF LobbyInv, TypeOK
      <4> QED
        BY <1>1, <1>3, <3>1, <4>1 DEF LobbyInv, TypeOK
    <3>2. CASE a # b
      <4>1. cookie'[a] = cookie[a] /\ cookie[a] \in Devices /\ maker[cookie[a]] = a
        BY <1>1, <2>1, <3>2 DEF LobbyInv, TypeOK, Identity
      <4>2. cookie[a] # d
        BY <1>3, <3>2, <4>1
      <4> QED
        BY <1>1, <4>1, <4>2 DEF LobbyInv, TypeOK
    <3> QED
      BY <3>1, <3>2
  <2> QED
    BY <1>2, <1>5, <2>1 DEF Identity
<1>9. RosterAgrees'
  BY <1>1, <1>2, <1>5 DEF LobbyInv, RosterAgrees, Seats, Stranger, NoSeat
<1>10. Playable'
  BY <1>2, <1>5 DEF LobbyInv, Playable, Detectives
<1>11. ToldSeatHolds' /\ ControlsKnow'
  BY <1>2 DEF LobbyInv, Bounded, ToldSeatHolds, ControlsKnow, Committing
<1> QED
  BY <1>4, <1>7, <1>8, <1>9, <1>10, <1>11 DEF LobbyInv

\* A join that sets out keeps it.
LEMMA LookUpKeeps ==
  ASSUME LobbyInv, NEW b \in Browsers, LookUp(b)
  PROVE  LobbyInv'
<1>1. PICK d \in ensureDevice(b) :
        /\ requests' = requests \cup {[device |-> d, awaited |-> TRUE]}
        /\ maker' = [maker EXCEPT ![d] = b]
  BY DEF LookUp, MadeFor
<1>2. /\ status \in Stored /\ CodeIsShown /\ ~ Waits(b)
      /\ UNCHANGED <<now, status, revision, expires, players, member, cookie, told, control>>
  BY DEF LookUp, tables, row
<1>3. /\ d \in Devices /\ maker[d] \in {b, Nobody}
      /\ cookie[b] # NoDevice => cookie[b] = d
  BY DEF ensureDevice, LobbyInv, TypeOK, Identity
<1>4. TypeOK'
  <2>1. maker' \in [Devices -> Browsers \cup {Nobody}]
    BY <1>1, <1>3 DEF LobbyInv, TypeOK
  <2>2. requests' \subseteq Request
    <3>1. [device |-> d, awaited |-> TRUE] \in Request
      BY <1>3 DEF Request
    <3>2. requests \subseteq Request
      BY DEF LobbyInv, TypeOK
    <3> QED
      BY <1>1, <3>1, <3>2
  <2> QED
    BY <1>2, <2>1, <2>2 DEF LobbyInv, TypeOK
<1>5. /\ maker'[d] = b
      /\ \A e \in Devices : maker[e] # Nobody => maker'[e] = maker[e]
  BY <1>1, <1>3 DEF LobbyInv, TypeOK
<1>6. Identity'
  <2>1. \A a \in Browsers : cookie'[a] # NoDevice => maker'[cookie'[a]] = a
    BY <1>2, <1>5 DEF LobbyInv, TypeOK, Identity
  <2>2. \A r \in requests : r.device \in Devices /\ maker[r.device] \in Browsers /\ maker'[r.device] = maker[r.device]
    BY <1>5 DEF LobbyInv, TypeOK, Request, Identity
  <2> DEFINE q == [device |-> d, awaited |-> TRUE]
  <2>3. q.device = d /\ q.awaited /\ requests' = requests \cup {q}
    BY <1>1
  <2> HIDE DEF q
  <2>4. \A r \in requests' : maker'[r.device] \in Browsers
    BY <1>5, <2>2, <2>3
  <2>5. ASSUME NEW r \in requests', r.awaited, cookie'[maker'[r.device]] # NoDevice
        PROVE  cookie'[maker'[r.device]] = r.device
    BY <1>2, <1>3, <1>5, <2>2, <2>3, <2>5 DEF LobbyInv, Identity
  <2>6. \A r \in requests : r.awaited => maker'[r.device] # b
    BY <1>2, <2>2 DEF Waits
  <2>7. ASSUME NEW r \in requests', NEW p \in requests', r.awaited, p.awaited,
               maker'[r.device] = maker'[p.device]
        PROVE  r = p
    <3>1. CASE r \in requests /\ p \in requests
      BY <2>2, <2>7, <3>1 DEF LobbyInv, Identity
    <3>2. CASE r = q \/ p = q
      BY <1>5, <2>3, <2>6, <2>7, <3>2
    <3> QED
      BY <2>3, <3>1, <3>2
  <2> QED
    BY <2>1, <2>4, <2>5, <2>7 DEF Identity
<1>7. Bounded' /\ HostIsKnown'
  <2>1. Hosts' = Hosts /\ status # "none" /\ CodeIsShown'
    BY <1>2 DEF Hosts, CodeIsShown, Stored
  <2> QED
    BY <1>2, <2>1 DEF LobbyInv, Bounded, HostIsKnown
<1>8. RosterAgrees' /\ Playable' /\ ToldSeatHolds' /\ ControlsKnow'
  <2>1. Seats' = Seats /\ Detectives' = Detectives
    BY <1>2 DEF Seats, Detectives
  <2> QED
    BY <1>2, <2>1 DEF LobbyInv, RosterAgrees, Playable, ToldSeatHolds, ControlsKnow
<1> QED
  BY <1>4, <1>6, <1>7, <1>8 DEF LobbyInv

\* A request that ends without an answer, or that its browser gives up, keeps it.
LEMMA DroppedKeeps ==
  ASSUME LobbyInv, NEW r \in requests, StopsWaiting(r) \/ JoinFails(r)
  PROVE  LobbyInv'
<1> DEFINE p == [r EXCEPT !.awaited = FALSE]
<1>1. p \in Request /\ p.device = r.device /\ ~ p.awaited
  BY DEF LobbyInv, TypeOK, Request
<1>2. /\ requests' \subseteq (requests \ {r}) \cup {p}
      /\ UNCHANGED <<now, status, revision, expires, players, member, maker, cookie, told, control>>
  BY DEF StopsWaiting, JoinFails, tables, row, browser
<1> HIDE DEF p
<1>3. TypeOK'
  BY <1>1, <1>2 DEF LobbyInv, TypeOK
<1>4. Identity'
  BY <1>1, <1>2 DEF LobbyInv, Identity
<1>5. Hosts' = Hosts /\ Seats' = Seats /\ Detectives' = Detectives /\ status = status' /\ cookie' = cookie
  BY <1>2 DEF Hosts, Seats, Detectives
<1>6. Bounded' /\ HostIsKnown'
  <2>1. requests # {} /\ CodeIsShown' = CodeIsShown
    BY <1>5 DEF CodeIsShown
  <2> QED
    BY <1>2, <1>5, <2>1 DEF LobbyInv, Bounded, HostIsKnown
<1>7. RosterAgrees' /\ Playable' /\ ToldSeatHolds' /\ ControlsKnow'
  BY <1>2, <1>5 DEF LobbyInv, RosterAgrees, Playable, ToldSeatHolds, ControlsKnow
<1> QED
  BY <1>3, <1>4, <1>6, <1>7 DEF LobbyInv

\* A new player keeps it.
LEMMA JoinNewKeeps ==
  ASSUME LobbyInv, NEW r \in requests, JoinNew(r)
  PROVE  LobbyInv'
<1> DEFINE p == [seat |-> NextSeat, observer |-> Late]
           d == r.device
           b == maker[r.device]
<1>1. players' = players \cup {p}
  BY DEF JoinNew
<1> HIDE DEF p
<1>2. /\ NextSeat \in Nat \ {0} /\ NextSeat \notin Seats
      /\ p \in Player /\ IsFiniteSet(players')
      /\ Seats' = Seats \cup {NextSeat} /\ Seats' = 1 .. Cardinality(players')
  BY <1>1, NewPlayer DEF p
<1>3. Cardinality(Detectives') <= Capacity /\ Detectives \subseteq Detectives'
  BY <1>1, NewDetective DEF p
<1>4. /\ status \in Stored /\ status' = status /\ member[d].seat = NoSeat
      /\ member' = [member EXCEPT ![d].in = TRUE, ![d].seat = NextSeat]
      /\ requests' = requests \ {r}
      /\ UNCHANGED <<now, revision, expires, maker, control>>
  BY DEF JoinNew, Newcomer, Enrol, Answers, row
<1>5. \/ /\ r.awaited /\ cookie' = [cookie EXCEPT ![b] = d]
         /\ told' \in {told, [told EXCEPT ![b] = NextSeat]}
      \/ UNCHANGED <<cookie, told>>
  BY DEF JoinNew, Answers, Saves, setDeviceCookie
<1>6. d \in Devices /\ b \in Browsers /\ Cookies(r)
  BY <1>5 DEF LobbyInv, TypeOK, Request, Identity, Cookies
<1>7. member \in [Devices -> Member] /\ told \in [Browsers -> Nat]
      /\ cookie \in [Browsers -> Devices \cup {NoDevice}]
  BY DEF LobbyInv, TypeOK
<1>8. /\ member'[d].seat = NextSeat /\ member'[d].in /\ member'[d].host = member[d].host
      /\ \A e \in Devices \ {d} : member'[e] = member[e]
  BY <1>4, <1>6, <1>7 DEF Member
<1>9. TypeOK'
  <2>1. member' \in [Devices -> Member]
    BY <1>2, <1>4, <1>6, <1>7 DEF Member
  <2>2. told' \in [Browsers -> Nat] /\ cookie' \in [Browsers -> Devices \cup {NoDevice}]
    BY <1>2, <1>5, <1>6, <1>7
  <2> QED
    BY <1>1, <1>2, <1>4, <2>1, <2>2 DEF LobbyInv, TypeOK
<1>10. Identity'
  BY <1>4, <1>6, AnswersKeepIdentity
<1>11. Bounded' /\ HostIsKnown'
  <2>1. Hosts' = Hosts /\ Hosts \subseteq Devices
    BY <1>6, <1>8 DEF Hosts
  <2>2. CodeIsShown
    BY <1>4 DEF LobbyInv, HostIsKnown
  <2>3. CodeIsShown'
    BY <1>6, <2>1, <2>2, AnswersKeepCookies, CodeStaysShown
  <2> QED
    BY <1>2, <1>4, <2>1, <2>3 DEF LobbyInv, Bounded, HostIsKnown, Stored
<1>12. RosterAgrees'
  <2>1. \A e \in Devices : member[e].seat # NoSeat => member[e].seat \in Seats
    BY DEF LobbyInv, RosterAgrees
  <2>2. Seats' = {member'[e].seat : e \in Devices} \ {NoSeat}
    <3>1. ASSUME NEW x \in Seats' PROVE x \in {member'[e].seat : e \in Devices} \ {NoSeat}
      <4>1. CASE x = NextSeat
        BY <4>1, <1>2, <1>6, <1>8 DEF NoSeat
      <4>2. CASE x # NextSeat
        <5>1. PICK e \in Devices : member[e].seat = x /\ x # NoSeat
          BY <4>2, <3>1, <1>2 DEF LobbyInv, RosterAgrees
        <5>2. e # d
          BY <5>1, <1>4
        <5> QED
          BY <5>1, <5>2, <1>8
      <4> QED
        BY <4>1, <4>2
    <3>2. ASSUME NEW e \in Devices, member'[e].seat # NoSeat PROVE member'[e].seat \in Seats'
      BY <3>2, <2>1, <1>2, <1>8
    <3> QED
      BY <3>1, <3>2
  <2>3. ASSUME NEW e \in Devices, NEW f \in Devices, member'[e].seat = member'[f].seat, e # f
        PROVE  member'[e].seat = NoSeat
    BY <2>1, <2>3, <1>2, <1>8 DEF LobbyInv, RosterAgrees
  <2>4. \A e \in Devices : member'[e].seat # NoSeat => member'[e].in
    BY <1>8 DEF LobbyInv, RosterAgrees
  <2> QED
    BY <1>2, <2>2, <2>3, <2>4 DEF RosterAgrees
<1>13. Playable' /\ ControlsKnow'
  BY <1>3, <1>4 DEF LobbyInv, Playable, ControlsKnow
<1>14. ToldSeatHolds'
  <2>1. ASSUME NEW a \in Browsers, told[a] # NoSeat
        PROVE  /\ cookie[a] \in Devices /\ cookie'[a] = cookie[a]
               /\ member[cookie[a]].seat = told[a] /\ cookie[a] # d
    <3>1. cookie[a] # NoDevice /\ member[cookie[a]].seat = told[a]
      BY <1>4, <2>1 DEF LobbyInv, ToldSeatHolds
    <3> QED
      BY <1>4, <1>6, <1>7, <2>1, <3>1, AnswersKeepCookies
  <2>2. ASSUME NEW a \in Browsers, told'[a] # NoSeat
        PROVE  cookie'[a] # NoDevice /\ member'[cookie'[a]].seat = told'[a]
    <3>1. CASE told'[a] = told[a]
      BY <1>8, <2>1, <2>2, <3>1
    <3>2. CASE told'[a] # told[a]
      <4>1. a = b /\ told'[a] = NextSeat /\ cookie'[a] = d
        BY <1>5, <1>6, <1>7, <3>2
      <4> QED
        BY <1>6, <1>8, <4>1
    <3> QED
      BY <3>1, <3>2
  <2> QED
    BY <2>2 DEF ToldSeatHolds
<1> QED
  BY <1>9, <1>10, <1>11, <1>12, <1>13, <1>14 DEF LobbyInv

\* A player who comes back keeps it.
LEMMA JoinAgainKeeps ==
  ASSUME LobbyInv, NEW r \in requests, JoinAgain(r)
  PROVE  LobbyInv'
<1> DEFINE d == r.device
           b == maker[r.device]
<1>1. /\ UNCHANGED <<now, status, revision, expires, players, member, maker, control>>
      /\ requests' = requests \ {r}
      /\ status \in Stored /\ member[d].seat # NoSeat
  BY DEF JoinAgain, Answers, row
<1>2. \/ /\ r.awaited /\ cookie' = [cookie EXCEPT ![b] = d]
         /\ told' \in {told, [told EXCEPT ![b] = member[d].seat]}
      \/ UNCHANGED <<cookie, told>>
  BY DEF JoinAgain, Answers, Saves, setDeviceCookie
<1>3. d \in Devices /\ b \in Browsers /\ Cookies(r)
  BY <1>2 DEF LobbyInv, TypeOK, Request, Identity, Cookies
<1>4. member \in [Devices -> Member] /\ told \in [Browsers -> Nat]
      /\ cookie \in [Browsers -> Devices \cup {NoDevice}]
  BY DEF LobbyInv, TypeOK
<1>5. TypeOK'
  <2>1. member[d].seat \in Nat
    BY <1>3, <1>4 DEF Member
  <2>2. told' \in [Browsers -> Nat] /\ cookie' \in [Browsers -> Devices \cup {NoDevice}]
    BY <1>2, <1>3, <1>4, <2>1
  <2> QED
    BY <1>1, <2>2 DEF LobbyInv, TypeOK
<1>6. Identity'
  BY <1>1, <1>3, AnswersKeepIdentity
<1>7. Hosts' = Hosts /\ Hosts \subseteq Devices /\ Seats' = Seats /\ Detectives' = Detectives
  BY <1>1 DEF Hosts, Seats, Detectives
<1>8. Bounded' /\ HostIsKnown'
  <2>1. CodeIsShown
    BY <1>1 DEF LobbyInv, HostIsKnown
  <2>2. CodeIsShown' /\ status # "none"
    BY <1>1, <1>3, <1>7, <2>1, AnswersKeepCookies, CodeStaysShown DEF Stored
  <2> QED
    BY <1>1, <1>7, <2>2 DEF LobbyInv, Bounded, HostIsKnown
<1>9. RosterAgrees' /\ Playable' /\ ControlsKnow'
  BY <1>1, <1>7 DEF LobbyInv, RosterAgrees, Playable, ControlsKnow
<1>10. ToldSeatHolds'
  <2>1. ASSUME NEW a \in Browsers, told[a] # NoSeat
        PROVE  cookie[a] # NoDevice /\ cookie'[a] = cookie[a] /\ member[cookie[a]].seat = told[a]
    BY <1>1, <1>3, <2>1, AnswersKeepCookies DEF LobbyInv, ToldSeatHolds
  <2>2. ASSUME NEW a \in Browsers, told'[a] # NoSeat
        PROVE  cookie'[a] # NoDevice /\ member'[cookie'[a]].seat = told'[a]
    <3>1. CASE told'[a] = told[a]
      BY <1>1, <2>1, <2>2, <3>1
    <3>2. CASE told'[a] # told[a]
      <4>1. a = b /\ told'[a] = member[d].seat /\ cookie'[a] = d
        BY <1>2, <1>3, <1>4, <3>2
      <4> QED
        BY <1>1, <1>3, <4>1
    <3> QED
      BY <3>1, <3>2
  <2> QED
    BY <2>2 DEF ToldSeatHolds
<1> QED
  BY <1>5, <1>6, <1>8, <1>9, <1>10 DEF LobbyInv

\* A step of a control that commits nothing keeps it.
LEMMA ControlMovesKeep ==
  ASSUME LobbyInv, NEW c \in Controls, NEW k \in Control,
         control' = [control EXCEPT ![c] = k],
         k.at \in Committing => Detectives # {},
         status # "none",
         UNCHANGED <<now, tables, browser, requests>>
  PROVE  LobbyInv'
<1>1. UNCHANGED <<now, status, revision, expires, players, member, maker, cookie, told, requests>>
  BY DEF tables, row, browser
<1>2. TypeOK'
  BY <1>1 DEF LobbyInv, TypeOK
<1>3. ControlsKnow'
  BY <1>1 DEF LobbyInv, TypeOK, ControlsKnow, Detectives
<1>4. Bounded' /\ RosterAgrees' /\ Playable' /\ ToldSeatHolds' /\ Identity' /\ HostIsKnown'
  <2>1. Hosts' = Hosts /\ Seats' = Seats /\ Detectives' = Detectives
    BY <1>1 DEF Hosts, Seats, Detectives
  <2>2. CodeIsShown' = CodeIsShown
    BY <1>1, <2>1 DEF CodeIsShown
  <2> QED
    BY <1>1, <2>1, <2>2 DEF LobbyInv, Bounded, RosterAgrees, Playable, ToldSeatHolds, Identity,
                            HostIsKnown, Stored
<1> QED
  BY <1>2, <1>3, <1>4 DEF LobbyInv

\* A commit keeps it, whatever status it gives the game.
LEMMA CommitKeeps ==
  ASSUME LobbyInv, NEW c \in Controls, NEW at \in Committing, Commit(c, at),
         status' \in Stored
  PROVE  LobbyInv'
<1>1. /\ UNCHANGED <<now, players, member, maker, cookie, told, requests>>
      /\ status \in Stored /\ control[c].at = at
      /\ control' = [control EXCEPT ![c] = IdleControl]
      /\ revision' \in Nat /\ expires' \in Nat
  BY DEF Commit, LobbyInv, TypeOK, browser
<1>2. Detectives # {}
  BY <1>1 DEF LobbyInv, ControlsKnow
<1>3. TypeOK'
  BY <1>1 DEF LobbyInv, TypeOK, IdleControl, Control
<1>4. Playable' /\ ControlsKnow'
  BY <1>1, <1>2 DEF LobbyInv, Playable, ControlsKnow, Detectives
<1>5. Bounded' /\ HostIsKnown'
  <2>1. Hosts' = Hosts
    BY <1>1 DEF Hosts
  <2>2. CodeIsShown' = CodeIsShown
    BY <1>1, <2>1 DEF CodeIsShown
  <2> QED
    BY <1>1, <2>1, <2>2 DEF LobbyInv, Bounded, HostIsKnown, Stored
<1>6. RosterAgrees' /\ ToldSeatHolds' /\ Identity'
  <2>1. RosterAgrees'
    BY <1>1 DEF LobbyInv, RosterAgrees, Seats
  <2>2. ToldSeatHolds'
    BY <1>1 DEF LobbyInv, ToldSeatHolds
  <2>3. Identity'
    BY <1>1 DEF LobbyInv, Identity
  <2> QED
    BY <2>1, <2>2, <2>3
<1> QED
  BY <1>3, <1>4, <1>5, <1>6 DEF LobbyInv

\* The clean-up keeps it.
LEMMA CollectKeeps ==
  ASSUME LobbyInv, Collect
  PROVE  LobbyInv'
<1>1. /\ status' = "deleted" /\ players' = {} /\ member' = [d \in Devices |-> Stranger]
      /\ UNCHANGED <<now, revision, expires, maker, cookie, told, requests, control>>
  BY DEF Collect, browser
<1>2. IsFiniteSet({}) /\ Cardinality({}) = 0
  BY FS_EmptySet
<1>3. TypeOK'
  BY <1>1 DEF LobbyInv, TypeOK, Stranger, Member, NoSeat
<1>4. Bounded' /\ ToldSeatHolds' /\ ControlsKnow' /\ Identity' /\ HostIsKnown'
  BY <1>1, <1>2 DEF LobbyInv, Bounded, ToldSeatHolds, ControlsKnow, Identity, HostIsKnown, Stored
<1>5. Seats' = {} /\ Detectives' = {}
  BY <1>1 DEF Seats, Detectives
<1>6. RosterAgrees'
  BY <1>1, <1>2, <1>5 DEF RosterAgrees, Stranger, NoSeat
<1>7. Playable'
  BY <1>1, <1>2, <1>5 DEF Playable
<1> QED
  BY <1>3, <1>4, <1>6, <1>7 DEF LobbyInv

\* So does every step.
LEMMA LobbyGoesOn ==
  ASSUME LobbyInv, [Next]_vars
  PROVE  LobbyInv'
<1>1. ASSUME NEW b \in Browsers, BrowserStep(b) PROVE LobbyInv'
  BY <1>1, CreateKeeps, LookUpKeeps DEF BrowserStep, Joins, Resumes
<1>4. ASSUME NEW r \in requests, JoinStep(r) PROVE LobbyInv'
  BY <1>4, DroppedKeeps, JoinNewKeeps, JoinAgainKeeps DEF JoinStep
<1>2. ASSUME NEW c \in Controls, ControlStep(c) PROVE LobbyInv'
  <2>1. status \in {"in_progress", "paused"} => Detectives # {}
    BY DEF LobbyInv, Playable
  <2>2. ASSUME NEW next \in {"roster", "play", "pause", "resume", "end"}, Reads(c, next),
               next # "roster" => status \in {"in_progress", "paused"},
               status \in Stored
        PROVE  LobbyInv'
    <3> DEFINE k == [at |-> next, saw |-> revision]
    <3>1. k \in Control /\ k.at = next
      BY DEF Control, LobbyInv, TypeOK
    <3>2. control' = [control EXCEPT ![c] = k] /\ UNCHANGED <<now, tables, browser, requests>>
      BY <2>2 DEF Reads
    <3>3. k.at \in Committing => Detectives # {}
      BY <2>1, <2>2, <3>1 DEF Committing
    <3> HIDE DEF k
    <3> QED
      BY <2>2, <3>1, <3>2, <3>3, ControlMovesKeep DEF Stored
  <2>3. CASE ReadForStart(c)
    BY <2>2, <2>3 DEF ReadForStart, Stored
  <2>4. CASE ReadForPlay(c)
    BY <2>2, <2>4 DEF ReadForPlay, Stored
  <2>5. CASE ReadForPause(c)
    BY <2>2, <2>5 DEF ReadForPause, Stored
  <2>6. CASE ReadForResume(c)
    BY <2>2, <2>6 DEF ReadForResume, Stored
  <2>7. CASE ReadForEnd(c)
    BY <2>2, <2>7 DEF ReadForEnd, Stored
  <2>8. CASE ReadRoster(c)
    <3> DEFINE k == [control[c] EXCEPT !.at = "start"]
    <3>1. k \in Control /\ control' = [control EXCEPT ![c] = k]
      BY <2>8 DEF ReadRoster, LobbyInv, TypeOK, Control
    <3>2. status # "none"
      BY <2>8 DEF ReadRoster, LobbyInv, Bounded, Stored
    <3>3. Detectives # {} /\ UNCHANGED <<now, tables, browser, requests>>
      BY <2>8 DEF ReadRoster
    <3> HIDE DEF k
    <3> QED
      BY <3>1, <3>2, <3>3, ControlMovesKeep
  <2>9. CASE GivesUp(c)
    <3>1. IdleControl \in Control /\ IdleControl.at \notin Committing
      BY DEF IdleControl, Control, Committing
    <3>2. status # "none"
      BY <2>9 DEF GivesUp, LobbyInv, Bounded, Stored
    <3>3. control' = [control EXCEPT ![c] = IdleControl] /\ UNCHANGED <<now, tables, browser, requests>>
      BY <2>9 DEF GivesUp
    <3> QED
      BY <3>1, <3>2, <3>3, ControlMovesKeep
  <2>10. CASE Start(c) \/ Pause(c) \/ Resume(c) \/ End(c)
    BY <2>10, CommitKeeps DEF Start, Pause, Resume, End, Committing, Stored
  <2>11. CASE Play(c)
    <3>1. Commit(c, "play") /\ status' \in Stored
      BY <2>11 DEF Play, Commit
    <3> QED
      BY <3>1, CommitKeeps DEF Committing
  <2> QED
    BY <1>2, <2>3, <2>4, <2>5, <2>6, <2>7, <2>8, <2>9, <2>10, <2>11 DEF ControlStep
<1>3. CASE PassTime \/ UNCHANGED vars
  <2>1. /\ UNCHANGED <<status, revision, expires, players, member, maker, cookie, told, requests, control>>
        /\ now' \in Nat
    BY <1>3 DEF PassTime, vars, tables, row, browser, LobbyInv, TypeOK
  <2>2. TypeOK' /\ ToldSeatHolds'
    BY <2>1 DEF LobbyInv, TypeOK, ToldSeatHolds
  <2>3. Seats' = Seats /\ Detectives' = Detectives /\ Hosts' = Hosts
    BY <2>1 DEF Seats, Detectives, Hosts
  <2>4. CodeIsShown' = CodeIsShown
    BY <2>1, <2>3 DEF CodeIsShown
  <2>5. Bounded' /\ RosterAgrees' /\ Identity' /\ HostIsKnown'
    BY <2>1, <2>3, <2>4 DEF LobbyInv, Bounded, RosterAgrees, Identity, HostIsKnown
  <2>6. Playable' /\ ControlsKnow'
    BY <2>1, <2>3 DEF LobbyInv, Playable, ControlsKnow
  <2> QED
    BY <2>2, <2>5, <2>6 DEF LobbyInv
<1> QED
  BY <1>1, <1>2, <1>3, <1>4, CollectKeeps DEF Next

\* The invariant that the others follow from.
THEOREM LobbyInvariant == Spec => []LobbyInv
<1>1. LobbyInv /\ [Next]_vars => LobbyInv'
  BY LobbyGoesOn
<1> QED
  BY <1>1, LobbyStarts, PTL DEF Spec

\* Every row and every request has its type.
THEOREM LobbyTypes == Spec => []TypeOK
<1>1. LobbyInv => TypeOK
  BY DEF LobbyInv
<1> QED
  BY <1>1, LobbyInvariant, PTL

\* Seats count up from one, and each belongs to one device.
THEOREM SeatsAgree == Spec => []RosterAgrees
<1>1. LobbyInv => RosterAgrees
  BY DEF LobbyInv
<1> QED
  BY <1>1, LobbyInvariant, PTL

\* A case is never overcrowded, and a started game has a detective.
THEOREM SomebodyPlays == Spec => []Playable
<1>1. LobbyInv => Playable
  BY DEF LobbyInv
<1> QED
  BY <1>1, LobbyInvariant, PTL

\* What a browser was told stays the seat of its device.
THEOREM SeatsAreKept == Spec => []ToldSeatHolds
<1>1. LobbyInv => ToldSeatHolds
  BY DEF LobbyInv
<1> QED
  BY <1>1, LobbyInvariant, PTL

\* There is a way back for every player who was told a seat, and for one host.
THEOREM WaysBack == Spec => []WayBack
<1>1. ASSUME LobbyInv PROVE WayBack
  <2> SUFFICES ASSUME status \in Active, ~ Expired
               PROVE  /\ players # {} => Cardinality({b \in Browsers : Links(b).host}) = 1
                      /\ \A b \in Browsers : told[b] # NoSeat => Links(b).seat = told[b]
    BY DEF WayBack
  <2>1. status \in Stored
    BY DEF Active, Stored
  <2>2. \A b \in Browsers : cookie[b] # NoDevice =>
          Links(b) = [host |-> member[cookie[b]].host, seat |-> member[cookie[b]].seat]
    BY DEF Links
  <2>3. ASSUME players # {} PROVE Cardinality({b \in Browsers : Links(b).host}) = 1
    <3>1. PICK h \in Devices : Hosts = {h}
      BY <1>1, <2>1 DEF LobbyInv, Bounded
    <3>2. PICK a \in Browsers : cookie[a] = h
      BY <1>1, <2>1, <2>3, <3>1 DEF LobbyInv, HostIsKnown, CodeIsShown
    <3>3. Links(a).host
      BY <2>2, <3>1, <3>2 DEF Hosts
    <3>4. ASSUME NEW b \in Browsers, Links(b).host PROVE b = a
      <4>1. cookie[b] # NoDevice
        BY <3>4 DEF Links, NoLinks
      <4>2. cookie[b] \in Devices /\ member[cookie[b]].host
        BY <1>1, <2>2, <3>4, <4>1 DEF LobbyInv, TypeOK
      <4>3. cookie[b] = h
        BY <3>1, <4>2 DEF Hosts
      <4> QED
        BY <1>1, <3>2, <4>1, <4>3 DEF LobbyInv, Identity
    <3>5. {b \in Browsers : Links(b).host} = {a}
      BY <3>3, <3>4
    <3> QED
      BY <3>5, FS_Singleton
  <2>4. ASSUME NEW b \in Browsers, told[b] # NoSeat PROVE Links(b).seat = told[b]
    BY <1>1, <2>1, <2>2, <2>4 DEF LobbyInv, ToldSeatHolds
  <2> QED
    BY <2>3, <2>4
<1> QED
  BY <1>1, LobbyInvariant, PTL

-----------------------------------------------------------------------------
(* Steps.                                                                  *)

\* From the start on, the detectives are those of the start.
THEOREM RosterIsClosed == Spec => RosterClosed
<1>1. ASSUME LobbyInv, Next PROVE RosterKept
  <2> SUFFICES ASSUME status \in Stored, status' \in Stored
               PROVE  players \subseteq players' /\ (status # "lobby" => Detectives' = Detectives)
    BY DEF RosterKept, Detectives
  <2>1. ASSUME NEW b \in Browsers, BrowserStep(b) PROVE players' = players
    BY <2>1 DEF BrowserStep, Create, Joins, Resumes, LookUp, tables
  <2>2. ASSUME NEW r \in requests, JoinStep(r)
        PROVE  players \subseteq players' /\ (status # "lobby" => Detectives' = Detectives)
    <3>1. CASE JoinNew(r)
      <4>1. players' = players \cup {[seat |-> NextSeat, observer |-> Late]}
        BY <3>1 DEF JoinNew
      <4>2. Late => Detectives' = Detectives
        BY <1>1, <4>1, NewDetective
      <4> QED
        BY <4>1, <4>2 DEF Late
    <3>2. CASE StopsWaiting(r) \/ JoinAgain(r) \/ JoinFails(r)
      BY <3>2 DEF StopsWaiting, JoinAgain, JoinFails, tables, Detectives
    <3> QED
      BY <2>2, <3>1, <3>2 DEF JoinStep
  <2>3. ASSUME NEW c \in Controls, ControlStep(c) PROVE players' = players
    BY <2>3 DEF ControlStep, ReadForStart, ReadForPlay, ReadForPause, ReadForResume, ReadForEnd,
                Reads, ReadRoster, Start, Play, Pause, Resume, End, Commit, GivesUp, tables
  <2>4. CASE PassTime
    BY <2>4 DEF PassTime, tables, Detectives
  <2>5. CASE Collect
    BY <2>5 DEF Collect, Stored
  <2> QED
    BY <1>1, <2>1, <2>2, <2>3, <2>4, <2>5 DEF Next, Detectives
<1>2. LobbyInv /\ [Next]_vars => [RosterKept]_vars
  BY <1>1
<1> QED
  BY <1>2, LobbyInvariant, PTL DEF Spec, RosterClosed

\* The device that is the host stays the host.
THEOREM HostStays == Spec => HostIsFixed
<1>1. ASSUME LobbyInv, Next PROVE HostKept
  <2> SUFFICES ASSUME status \in Stored, status' \in Stored
               PROVE  /\ Cardinality(Hosts) = 1
                      /\ \A d \in Devices : member'[d].host = member[d].host
    BY DEF HostKept
  <2>1. Cardinality(Hosts) = 1
    BY <1>1, FS_Singleton DEF LobbyInv, Bounded
  <2>2. ASSUME NEW b \in Browsers, BrowserStep(b) PROVE member' = member
    BY <2>2 DEF BrowserStep, Create, Joins, Resumes, LookUp, tables, Stored
  <2>3. ASSUME NEW r \in requests, JoinStep(r)
        PROVE  \A e \in Devices : member'[e].host = member[e].host
    <3>1. CASE JoinNew(r)
      BY <1>1, <3>1 DEF JoinNew, Enrol, LobbyInv, TypeOK, Member
    <3>2. CASE StopsWaiting(r) \/ JoinAgain(r) \/ JoinFails(r)
      BY <3>2 DEF StopsWaiting, JoinAgain, JoinFails, tables
    <3> QED
      BY <2>3, <3>1, <3>2 DEF JoinStep
  <2>4. ASSUME NEW c \in Controls, ControlStep(c) PROVE member' = member
    BY <2>4 DEF ControlStep, ReadForStart, ReadForPlay, ReadForPause, ReadForResume, ReadForEnd,
                Reads, ReadRoster, Start, Play, Pause, Resume, End, Commit, GivesUp, tables
  <2>5. ASSUME PassTime PROVE member' = member
    BY <2>5 DEF PassTime, tables, row
  <2>6. CASE Collect
    BY <2>6 DEF Collect, Stored
  <2> QED
    BY <1>1, <2>1, <2>2, <2>3, <2>4, <2>5, <2>6 DEF Next
<1>2. LobbyInv /\ [Next]_vars => [HostKept]_vars
  BY <1>1
<1> QED
  BY <1>2, LobbyInvariant, PTL DEF Spec, HostIsFixed

\* A browser that has a cookie stays the device that it is.
THEOREM CookiesAreKept == Spec => CookieIsKept
<1>1. ASSUME LobbyInv, Next
      PROVE  \A b \in Browsers : cookie[b] # NoDevice => cookie'[b] = cookie[b]
  <2>1. ASSUME NEW a \in Browsers, BrowserStep(a)
        PROVE  \A b \in Browsers : cookie[b] # NoDevice => cookie'[b] = cookie[b]
    <3>1. CASE LookUp(a)
      BY <3>1 DEF LookUp
    <3>2. CASE Create(a)
      <4>1. PICK d \in ensureDevice(a) : cookie' = [cookie EXCEPT ![a] = d] \/ UNCHANGED cookie
        BY <3>2 DEF Create, setDeviceCookie
      <4>2. cookie[a] # NoDevice => d = cookie[a]
        BY DEF ensureDevice
      <4> QED
        BY <1>1, <4>1, <4>2 DEF LobbyInv, TypeOK
    <3> QED
      BY <2>1, <3>1, <3>2 DEF BrowserStep, Joins, Resumes
  <2>2. ASSUME NEW r \in requests, JoinStep(r)
        PROVE  \A b \in Browsers : cookie[b] # NoDevice => cookie'[b] = cookie[b]
    <3>1. Cookies(r)
      BY <2>2 DEF JoinStep, StopsWaiting, JoinNew, JoinAgain, JoinFails, Answers, setDeviceCookie,
                  browser, Cookies
    <3> QED
      BY <1>1, <3>1, AnswersKeepCookies
  <2>3. ASSUME NEW c \in Controls, ControlStep(c) PROVE cookie' = cookie
    BY <2>3 DEF ControlStep, ReadForStart, ReadForPlay, ReadForPause, ReadForResume, ReadForEnd,
                Reads, ReadRoster, Start, Play, Pause, Resume, End, Commit, GivesUp, browser
  <2>4. CASE PassTime \/ Collect
    BY <2>4 DEF PassTime, Collect, browser
  <2> QED
    BY <1>1, <2>1, <2>2, <2>3, <2>4 DEF Next
<1>2. LobbyInv /\ [Next]_vars =>
        [\A b \in Browsers : cookie[b] # NoDevice => cookie'[b] = cookie[b]]_vars
  BY <1>1
<1> QED
  BY <1>2, LobbyInvariant, PTL DEF Spec, CookieIsKept

\* Nothing revives an expired game.
THEOREM ExpiredStays == Spec => ExpiredIsStill
<1>1. ASSUME Next, Expired, status \in Stored PROVE status' = "deleted" \/ UNCHANGED tables
  <2>1. ASSUME NEW b \in Browsers, BrowserStep(b) PROVE UNCHANGED tables
    BY <1>1, <2>1 DEF BrowserStep, Joins, Resumes, Create, LookUp, Stored
  <2>2. ASSUME NEW r \in requests, JoinStep(r) PROVE UNCHANGED tables
    BY <1>1, <2>2 DEF JoinStep, StopsWaiting, JoinNew, Newcomer, JoinAgain, JoinFails
  <2>3. ASSUME NEW c \in Controls, ControlStep(c) PROVE UNCHANGED tables
    BY <1>1, <2>3 DEF ControlStep, ReadForStart, ReadForPlay, ReadForPause, ReadForResume,
                      ReadForEnd, Reads, ReadRoster, Start, Play, Pause, Resume, End, Commit, GivesUp
  <2> QED
    BY <1>1, <2>1, <2>2, <2>3 DEF Next, PassTime, Collect
<1>2. [Next]_vars =>
        [Expired /\ status \in Stored => status' = "deleted" \/ UNCHANGED tables]_vars
  BY <1>1
<1> QED
  BY <1>2, PTL DEF Spec, ExpiredIsStill
=============================================================================
