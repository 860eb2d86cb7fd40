------------------------------- MODULE Sessions -------------------------------
(***************************************************************************)
(* Sign-in sessions: the middleware db_and_auth of main.py around the      *)
(* handlers of auth.py, and one device with one cookie that sends requests *)
(* to them.  A request reads its session when it enters and extends it     *)
(* when its handler has returned, minutes later for a recognition.         *)
(*                                                                         *)
(* A login is its callback; the token it issues is the request itself.     *)
(***************************************************************************)
EXTENDS Naturals

CONSTANTS
  Users,      \* the accounts an invitation can name
  Requests,   \* HTTP requests of the device, each sent once
  Lifetime,   \* session_days
  Retention,  \* session_revoked_retention_days, at least one
  NoToken,    \* the device has no session cookie
  NoRow,      \* no such session
  Horizon     \* bound: the last day of the run

ASSUME TimeAssumption ==
  Lifetime \in Nat \ {0} /\ Retention \in Nat \ {0} /\ Horizon \in Nat
ASSUME TokenAssumption == {NoToken, "keep"} \cap Requests = {}

Row == [user : Users, expires : Nat, revoked : BOOLEAN, revokedAt : Nat]

ASSUME RowAssumption == NoRow \notin Row

VARIABLES
  clock,      \* the day
  status,     \* users.status, "none" before the invitation
  session,    \* the rows of sessions, by token
  cookie,     \* the device's session cookie
  pc,         \* where each request is
  kind,       \* "login", "call" or "logout"
  user,       \* whom a login is for, whom another request was served as
  token,      \* the cookie each request was sent with
  entered,    \* the day it was authenticated
  renew,      \* the middleware's authenticated_session.should_renew
  sets,       \* the last Set-Cookie of its response: a token, NoToken or "keep"
  answer,     \* what each request was answered
  lastCall    \* history: the last day a call that completed came in, by token

server == <<status, session>>
device == <<cookie>>
request == <<pc, kind, user, token, entered, renew, sets, answer>>
vars == <<clock, server, device, request, lastCall>>

TypeOK ==
  /\ clock \in Nat
  /\ status \in [Users -> {"none", "invited", "active", "disabled"}]
  /\ session \in [Requests -> Row \cup {NoRow}]
  /\ cookie \in Requests \cup {NoToken}
  /\ pc \in [Requests -> {"idle", "gate", "handle", "renew", "reply", "done", "lost"}]
  /\ kind \in [Requests -> {"login", "call", "logout"}]
  /\ user \in [Requests -> Users]
  /\ token \in [Requests -> Requests \cup {NoToken}]
  /\ entered \in [Requests -> Nat]
  /\ renew \in [Requests -> BOOLEAN]
  /\ sets \in [Requests -> Requests \cup {NoToken, "keep"}]
  /\ answer \in [Requests -> {"", "ok", "unauthorized", "forbidden"}]
  /\ lastCall \in [Requests -> Nat]

-----------------------------------------------------------------------------
Init ==
  /\ clock = 0
  /\ status \in [Users -> {"none", "invited"}]
  /\ session = [t \in Requests |-> NoRow]
  /\ cookie = NoToken
  /\ pc = [r \in Requests |-> "idle"]
  /\ kind = [r \in Requests |-> "call"]
  /\ user \in {[r \in Requests |-> u] : u \in Users}
  /\ token = [r \in Requests |-> NoToken]
  /\ entered = [r \in Requests |-> 0]
  /\ renew = [r \in Requests |-> FALSE]
  /\ sets = [r \in Requests |-> "keep"]
  /\ answer = [r \in Requests |-> ""]
  /\ lastCall = [t \in Requests |-> 0]

Goto(r, place) == pc' = [pc EXCEPT ![r] = place]

\* The device sends its cookie of the moment.
Send(r) ==
  /\ pc[r] = "idle"
  /\ \E k \in {"login", "call", "logout"}, u \in Users :
       /\ kind' = [kind EXCEPT ![r] = k]
       /\ user' = [user EXCEPT ![r] = IF k = "login" THEN u ELSE @]
  /\ token' = [token EXCEPT ![r] = cookie]
  /\ Goto(r, "gate")
  /\ UNCHANGED <<clock, server, device, entered, renew, sets, answer, lastCall>>

\* authenticate_session: a row of an active user, not revoked, not expired.
Live(t) ==
  /\ t # NoToken
  /\ session[t] # NoRow
  /\ status[session[t].user] = "active"
  /\ ~ session[t].revoked
  /\ session[t].expires > clock

\* Half a lifetime, at least a day.
RenewalDays == IF Lifetime \div 2 >= 1 THEN Lifetime \div 2 ELSE 1

\* Seeded bug: strictly inside the renewal window.
DueLate(t) == session[t].expires < clock + RenewalDays

Due(t) == session[t].expires <= clock + RenewalDays

\* The middleware on the way in; the callback is public.
Gate(r) ==
  /\ pc[r] = "gate"
  /\ LET live == Live(token[r]) IN
       /\ renew' = [renew EXCEPT ![r] = live /\ Due(token[r])]
       /\ entered' = [entered EXCEPT ![r] = clock]
       /\ user' = [user EXCEPT ![r] = IF live /\ kind[r] # "login"
                                        THEN session[token[r]].user ELSE @]
       /\ IF live \/ kind[r] = "login"
            THEN Goto(r, "handle") /\ UNCHANGED answer
            ELSE Goto(r, "reply") /\ answer' = [answer EXCEPT ![r] = "unauthorized"]
  /\ UNCHANGED <<clock, server, device, kind, token, sets, lastCall>>

-----------------------------------------------------------------------------
(* The handlers.                                                           *)

\* callback: an invited or active account becomes active and gets a session.
Login(r) ==
  /\ pc[r] = "handle" /\ kind[r] = "login"
  /\ IF status[user[r]] \in {"invited", "active"}
       THEN /\ status' = [status EXCEPT ![user[r]] = "active"]
            /\ session' = [session EXCEPT ![r] =
                             [user |-> user[r], expires |-> clock + Lifetime,
                              revoked |-> FALSE, revokedAt |-> 0]]
            /\ sets' = [sets EXCEPT ![r] = r]
            /\ answer' = [answer EXCEPT ![r] = "ok"]
            /\ lastCall' = [lastCall EXCEPT ![r] = clock]
       ELSE /\ answer' = [answer EXCEPT ![r] = "forbidden"]
            /\ UNCHANGED <<status, session, sets, lastCall>>
  /\ Goto(r, "renew")
  /\ UNCHANGED <<clock, device, kind, user, token, entered, renew>>

\* Seeded bug: only the device forgets.
LogoutCookieOnly(r) ==
  /\ pc[r] = "handle" /\ kind[r] = "logout"
  /\ sets' = [sets EXCEPT ![r] = NoToken]
  /\ answer' = [answer EXCEPT ![r] = "ok"]
  /\ Goto(r, "renew")
  /\ UNCHANGED <<clock, server, device, kind, user, token, entered, renew, lastCall>>

\* logout: revoked again if another one came first, and the cookie deleted.
Logout(r) ==
  /\ pc[r] = "handle" /\ kind[r] = "logout"
  /\ session' = [session EXCEPT ![token[r]] =
       IF @ = NoRow THEN NoRow
       ELSE [@ EXCEPT !.revoked = TRUE, !.revokedAt = clock]]
  /\ sets' = [sets EXCEPT ![r] = NoToken]
  /\ answer' = [answer EXCEPT ![r] = "ok"]
  /\ Goto(r, "renew")
  /\ UNCHANGED <<clock, status, device, kind, user, token, entered, renew, lastCall>>

\* Any other handler.
Call(r) ==
  /\ pc[r] = "handle" /\ kind[r] = "call"
  /\ answer' = [answer EXCEPT ![r] = "ok"]
  /\ Goto(r, "renew")
  /\ UNCHANGED <<clock, server, device, kind, user, token, entered, renew, sets,
                 lastCall>>

\* Seeded bug: the renewal writes the row as it was read.
RenewUpserts(r) ==
  /\ pc[r] = "renew"
  /\ session' = IF renew[r]
       THEN [session EXCEPT ![token[r]] =
               [user |-> user[r], expires |-> clock + Lifetime,
                revoked |-> FALSE, revokedAt |-> 0]]
       ELSE session
  /\ Goto(r, "reply")
  /\ UNCHANGED <<clock, status, device, kind, user, token, entered, renew, sets,
                 answer, lastCall>>

\* renew_session on the way out, on a decision made on the way in: the row is
\* extended unless it was revoked, and the cookie of the request is set again,
\* after whatever the handler set.
Renew(r) ==
  /\ pc[r] = "renew"
  /\ LET t == token[r]
         extended == renew[r] /\ session[t] # NoRow /\ ~ session[t].revoked
     IN  /\ session' = IF extended
                         THEN [session EXCEPT ![t].expires = clock + Lifetime]
                         ELSE session
         /\ sets' = IF extended THEN [sets EXCEPT ![r] = t] ELSE sets
         /\ lastCall' = IF kind[r] # "login" /\ entered[r] > lastCall[t]
                          THEN [lastCall EXCEPT ![t] = entered[r]] ELSE lastCall
  /\ Goto(r, "reply")
  /\ UNCHANGED <<clock, status, device, kind, user, token, entered, renew, answer>>

-----------------------------------------------------------------------------
(* The device and the world.                                               *)

\* The response arrives, in any order with the others.
Deliver(r) ==
  /\ pc[r] = "reply"
  /\ cookie' = IF sets[r] = "keep" THEN cookie ELSE sets[r]
  /\ Goto(r, "done")
  /\ UNCHANGED <<clock, server, kind, user, token, entered, renew, sets, answer,
                 lastCall>>

\* It is lost, or its handler raised, which skips the renewal.
Lose(r) ==
  /\ pc[r] \in {"handle", "reply"}
  /\ Goto(r, "lost")
  /\ UNCHANGED <<clock, server, device, kind, user, token, entered, renew, sets,
                 answer, lastCall>>

\* invite_user, by the owner.
Invite(u) ==
  /\ status[u] = "none"
  /\ status' = [status EXCEPT ![u] = "invited"]
  /\ UNCHANGED <<clock, session, device, request, lastCall>>

\* No route disables an account: an operator does, in the database.
Disable(u) ==
  /\ status[u] = "active"
  /\ status' = [status EXCEPT ![u] = "disabled"]
  /\ UNCHANGED <<clock, session, device, request, lastCall>>

\* Seeded bug: revoked sessions are dropped at once, and with them the ones
\* issued before the retention.
PruneOld(t) == session[t] # NoRow /\ session[t].expires <= clock + Retention

\* prune_expired: past its expiry, or revoked longer ago than the retention.
Prunable(t) ==
  /\ session[t] # NoRow
  /\ \/ session[t].expires <= clock
     \/ session[t].revoked /\ session[t].revokedAt + Retention < clock

\* A restart loses every request; a prune that fails does not stop it.
Boot ==
  /\ \/ session' = [t \in Requests |-> IF Prunable(t) THEN NoRow ELSE session[t]]
     \/ UNCHANGED session
  /\ pc' = [r \in Requests |-> IF pc[r] \in {"gate", "handle", "renew", "reply"}
                                 THEN "lost" ELSE pc[r]]
  /\ UNCHANGED <<clock, status, device, kind, user, token, entered, renew, sets,
                 answer, lastCall>>

Tick ==
  /\ clock < Horizon
  /\ clock' = clock + 1
  /\ UNCHANGED <<server, device, request, lastCall>>

Step(r) == Gate(r) \/ Login(r) \/ Logout(r) \/ Call(r) \/ Renew(r)

Next ==
  \/ \E r \in Requests : Send(r) \/ Step(r) \/ Deliver(r) \/ Lose(r)
  \/ \E u \in Users : Invite(u) \/ Disable(u)
  \/ Boot
  \/ Tick

Spec == Init /\ [][Next]_vars

-----------------------------------------------------------------------------
(* Properties.                                                             *)

\* A revoked session stays revoked, and one that is gone stays gone: no
\* renewal, late or not, brings it back.
RevokedIsFinal ==
  [][\A t \in Requests :
       /\ session[t] # NoRow /\ session[t].revoked
            => session'[t] = NoRow \/ session'[t].revoked
       /\ session[t] = NoRow /\ answer[t] = "ok" => session'[t] = NoRow]_vars

\* Once a logout has been answered, no request with its token is served again,
\* across renewals of requests that were already in, prunes and restarts.
NoServiceAfterLogout ==
  [][\A r, q \in Requests :
       /\ kind[q] = "logout" /\ answer[q] = "ok"
       /\ token[r] = token[q] /\ kind[r] # "login"
       /\ pc[r] = "gate"
       => pc'[r] # "handle"]_vars

\* The boot prune takes only sessions that would not have been served.
PruneDropsOnlyDead ==
  [][\A t \in Requests : Live(t) => session'[t] # NoRow]_vars

\* A device whose last completed call is at most half a lifetime old is not
\* signed out by expiry, at any boundary of the renewal window.
SteadyDeviceStays ==
  \A t \in Requests :
    /\ session[t] # NoRow /\ ~ session[t].revoked
    /\ clock <= lastCall[t] + Lifetime \div 2
    => session[t].expires > clock

\* What the sign-in test asserts of a callback that succeeded: the device is
\* that user's from then on.
LoginTakesEffect ==
  [][\A r \in Requests :
       /\ kind[r] = "login" /\ answer[r] = "ok"
       /\ pc[r] = "reply" /\ pc'[r] = "done"
       => cookie' = r]_vars
=============================================================================
