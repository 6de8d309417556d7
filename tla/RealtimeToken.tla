--------------------------- MODULE RealtimeToken ----------------------------
(***************************************************************************)
(* The token that lets a browser follow the changes of its game.  All      *)
(* hooks of a page that subscribe to something share one client, whose     *)
(* token is the one that was set last; but each hook fetches a token of    *)
(* its own and renews it on a timer of its own, until it is unmounted.     *)
(* Answers arrive late, in any order, or not at all.                       *)
(*                                                                         *)
(* Time is relative: everything counts down to zero with Tick.             *)
(***************************************************************************)
EXTENDS Naturals

CONSTANTS
  Hooks,     \* instances of the hooks on the page
  Lifetime,  \* DEFAULT_TTL_SECONDS: an hour
  Margin,    \* REFRESH_MARGIN_SECONDS: a minute
  MinWait,   \* thirty seconds
  Slack      \* a fetch that is answered within it is punctual

ASSUME TokenTimesAssumption ==
  /\ Lifetime \in Nat /\ Margin \in Nat /\ MinWait \in Nat /\ Slack \in Nat
  /\ Margin > 2 * Slack
  /\ Lifetime >= Margin + MinWait + Slack

VARIABLES
  token,    \* time until the client's token expires
  hook,
  trouble   \* whether an answer or a timer was ever late, or a renewal failed

vars == <<token, hook, trouble>>

\* "first" is the fetch when the hook is mounted; "left" the same after it was
\* unmounted.  left is the time in which an answer is punctual, due the time until
\* the timer fires, life what remains of the token in the answer.
Hook == [at : {"off", "first", "left", "waiting", "renewing"}, minted : BOOLEAN,
         life : Nat, left : Nat, due : Nat]

Off == [at |-> "off", minted |-> FALSE, life |-> 0, left |-> 0, due |-> 0]

TypeOK == token \in Nat /\ hook \in [Hooks -> Hook] /\ trouble \in BOOLEAN

Init == token = 0 /\ hook = [h \in Hooks |-> Off] /\ trouble = FALSE

Fetching(h)   == hook[h].at \in {"first", "left", "renewing"}
Subscribed(h) == hook[h].at \notin {"off", "first", "left"}

-----------------------------------------------------------------------------

\* Mutant: the margin is forgotten.
DueAtExpiry(life) == IF life > MinWait THEN life ELSE MinWait

\* scheduleRefresh.
Due(life) == IF life > Margin + MinWait THEN life - Margin ELSE MinWait

Fetches(h, why) ==
  /\ hook' = [hook EXCEPT ![h] = [Off EXCEPT !.at = why, !.left = Slack]]
  /\ UNCHANGED <<token, trouble>>

Waits(h, due) == hook' = [hook EXCEPT ![h] = [Off EXCEPT !.at = "waiting", !.due = due]]

Mount(h) == hook[h].at = "off" /\ Fetches(h, "first")

\* The timer fires.
Fire(h) == hook[h].at = "waiting" /\ hook[h].due = 0 /\ Fetches(h, "renewing")

\* The route mints a token.
Mint(h) ==
  /\ Fetching(h) /\ ~ hook[h].minted
  /\ hook' = [hook EXCEPT ![h] = [@ EXCEPT !.minted = TRUE, !.life = Lifetime]]
  /\ UNCHANGED <<token, trouble>>

\* The answer of a first fetch is set even when the hook is gone by then.
Arrive(h) ==
  /\ Fetching(h) /\ hook[h].minted
  /\ token' = hook[h].life
  /\ IF hook[h].at = "left" THEN hook' = [hook EXCEPT ![h] = Off]
                            ELSE Waits(h, Due(hook[h].life))
  /\ UNCHANGED trouble

\* Without a first token the hook polls, and never asks again.
FirstFails(h) ==
  /\ hook[h].at \in {"first", "left"}
  /\ hook' = [hook EXCEPT ![h] = Off]
  /\ UNCHANGED <<token, trouble>>

\* Mutant: a hook whose renewal fails does not try again.
RenewalGivenUp(h) ==
  /\ hook[h].at = "renewing" /\ hook[h].minted
  /\ hook' = [hook EXCEPT ![h] = [Off EXCEPT !.at = "silent"]]
  /\ trouble' = TRUE
  /\ UNCHANGED token

\* The answer is lost, or was a refusal.
RenewalFails(h) ==
  /\ hook[h].at = "renewing" /\ hook[h].minted
  /\ Waits(h, MinWait)
  /\ trouble' = TRUE
  /\ UNCHANGED token

\* dispose: the timer is cleared, the answer of a renewal is not heeded.
Unmount(h) ==
  /\ hook[h].at \in {"first", "waiting", "renewing"}
  /\ hook' = [hook EXCEPT ![h] = IF @.at = "first" THEN [@ EXCEPT !.at = "left"] ELSE Off]
  /\ UNCHANGED <<token, trouble>>

Down(n) == IF n = 0 THEN 0 ELSE n - 1

\* Time passes, also over a timer that should have fired (the phone sleeps) and an
\* answer that should have come.
Tick ==
  /\ token' = Down(token)
  /\ hook' = [h \in Hooks |-> [hook[h] EXCEPT !.life = Down(@), !.left = Down(@), !.due = Down(@)]]
  /\ trouble' = (trouble \/ \E h \in Hooks : \/ Fetching(h) /\ hook[h].left = 0
                                             \/ hook[h].at = "waiting" /\ hook[h].due = 0)

HookStep(h) ==
  \/ Mount(h) \/ Fire(h) \/ Mint(h) \/ Arrive(h)
  \/ FirstFails(h) \/ RenewalFails(h) \/ Unmount(h)

Next == Tick \/ \E h \in Hooks : HookStep(h)

\* Clocks advance, timers fire, the route answers, a request ends one way or the
\* other, and of renewals that are tried for ever one comes through before its
\* token has expired.
Fairness ==
  /\ WF_vars(Tick)
  /\ \A h \in Hooks : /\ WF_vars(Fire(h)) /\ WF_vars(Mint(h))
                      /\ WF_vars(Arrive(h) \/ FirstFails(h) \/ RenewalFails(h))
                      /\ SF_vars(Arrive(h) /\ hook[h].life > 0)

Spec == Init /\ [][Next]_vars /\ Fairness

-----------------------------------------------------------------------------
(* Properties.                                                             *)

\* As long as fetches are punctual, the token of the client never expires under a
\* subscription, although it may be an older one than some hook believes: an
\* answer that was overtaken replaces a newer token, and the hook that brought it
\* may be gone before it would renew it.
NeverExpires == ~ trouble /\ (\E h \in Hooks : Subscribed(h)) => token > 0

\* Whatever goes wrong, a hook that stays mounted gets the client a valid token
\* again, and again.
TokenHeals == \A h \in Hooks : <>[]Subscribed(h) => []<>(token > 0)

\* For that it never loses its timer: while it is subscribed it renews, or will
\* before a token minted now would come to its margin, also after failures.
KeepsRenewing ==
  \A h \in Hooks : Subscribed(h) =>
    \/ hook[h].at = "renewing"
    \/ hook[h].at = "waiting" /\ hook[h].due + Margin <= Lifetime
=============================================================================
