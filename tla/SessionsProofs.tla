---------------------------- MODULE SessionsProofs ----------------------------
(***************************************************************************)
(* What holds of Sessions for every set of users and requests and every    *)
(* lifetime and retention of at least a day.                               *)
(***************************************************************************)
EXTENDS Sessions, TLAPS

Half == Lifetime \div 2

\* A session that a request with its token could still renew.
Open(t) == session[t] # NoRow /\ ~ session[t].revoked

\* A request that has not been through its handler has answered nothing, and
\* the token it would issue is nobody's.
Unanswered ==
  \A r \in Requests :
    pc[r] \in {"idle", "gate", "handle"} => answer[r] = "" /\ session[r] = NoRow

\* A token that anyone holds was issued by a login that is answered.
Issued ==
  /\ cookie # NoToken => answer[cookie] = "ok"
  /\ \A r \in Requests : token[r] # NoToken => answer[token[r]] = "ok"
  /\ \A r \in Requests : sets[r] \in Requests => answer[sets[r]] = "ok"

\* What the gate established still holds when the handler has returned.
Admitted ==
  \A r \in Requests : pc[r] \in {"handle", "renew"} =>
    /\ entered[r] <= clock
    /\ kind[r] # "login" \/ renew[r] => token[r] \in Requests
    /\ kind[r] # "login" /\ ~ renew[r] /\ Open(token[r])
         => session[token[r]].expires > entered[r] + Half

\* An answered logout leaves its session closed.
LoggedOut ==
  \A q \in Requests : kind[q] = "logout" /\ answer[q] = "ok" =>
    token[q] \in Requests /\ ~ Open(token[q])

\* A session expires more than half a lifetime after its last call.
Ahead ==
  \A t \in Requests :
    /\ lastCall[t] <= clock
    /\ Open(t) => session[t].expires > lastCall[t] + Half

Inv == TypeOK /\ Unanswered /\ Issued /\ Admitted /\ LoggedOut /\ Ahead

-----------------------------------------------------------------------------
\* Half a lifetime is less than a lifetime and within the renewal window.
LEMMA HalfLife == Half \in Nat /\ Half < Lifetime /\ Half <= RenewalDays
                    /\ RenewalDays \in Nat
BY TimeAssumption DEF Half, RenewalDays

\* A session issued or renewed now expires on a day.
LEMMA NewExpiry == TypeOK => clock \in Nat /\ clock + Lifetime \in Nat
<1>1. TypeOK => clock \in Nat
  BY DEF TypeOK
<1> QED
  BY <1>1, TimeAssumption

\* An open session is a row.
LEMMA OpenRow ==
  ASSUME TypeOK, NEW t \in Requests, session[t] # NoRow
  PROVE  /\ session[t] \in Row
         /\ session[t].user \in Users /\ session[t].expires \in Nat
         /\ session[t].revoked \in BOOLEAN
<1>1. session[t] \in Row
  BY DEF TypeOK
<1> QED
  BY <1>1 DEF Row

\* Only a session that exists is live.
LEMMA LiveRow ==
  ASSUME TypeOK, NEW r \in Requests, Live(token[r])
  PROVE  /\ token[r] \in Requests /\ session[token[r]] # NoRow
         /\ session[token[r]].user \in Users
<1>1. token[r] \in Requests /\ session[token[r]] # NoRow
  BY DEF Live, TypeOK
<1> QED
  BY <1>1, OpenRow

LEMMA InitInv == Init => Inv
<1> SUFFICES ASSUME Init PROVE Inv
  OBVIOUS
<1>1. TypeOK
  BY DEF Init, TypeOK
<1>2. Unanswered /\ LoggedOut
  BY DEF Init, Unanswered, LoggedOut
<1>3. Issued
  BY TokenAssumption DEF Init, Issued
<1>4. Admitted
  BY DEF Init, Admitted
<1>5. Ahead
  <2>1. \A t \in Requests : ~ Open(t) /\ lastCall[t] = 0 /\ clock = 0
    BY DEF Init, Open
  <2> QED
    BY <2>1 DEF Ahead
<1> QED
  BY <1>1, <1>2, <1>3, <1>4, <1>5 DEF Inv

\* Every action keeps the types.
LEMMA NextType == TypeOK /\ Admitted /\ [Next]_vars => TypeOK'
<1> SUFFICES ASSUME TypeOK, Admitted, [Next]_vars PROVE TypeOK'
  OBVIOUS
<1> USE DEF Goto, server, device, request
<1>1. ASSUME NEW r \in Requests, Send(r) PROVE TypeOK'
  <2>1. kind' \in [Requests -> {"login", "call", "logout"}]
    BY <1>1 DEF Send, TypeOK
  <2>4. user' \in [Requests -> Users]
    <3>1. user \in [Requests -> Users]
      BY DEF TypeOK
    <3>2. PICK k \in {"login", "call", "logout"}, u \in Users :
            user' = [user EXCEPT ![r] = IF k = "login" THEN u ELSE user[r]]
      BY <1>1 DEF Send
    <3> DEFINE new == IF k = "login" THEN u ELSE user[r]
    <3>3. new \in Users
      BY <3>1
    <3> HIDE DEF new
    <3>4. user' = [user EXCEPT ![r] = new]
      BY <3>2 DEF new
    <3> QED
      BY <3>1, <3>3, <3>4
  <2>2. token' \in [Requests -> Requests \cup {NoToken}]
    BY <1>1 DEF Send, TypeOK
  <2>3. pc' = [pc EXCEPT ![r] = "gate"]
        /\ UNCHANGED <<clock, status, session, cookie, entered, renew, sets,
                       answer, lastCall>>
    BY <1>1 DEF Send
  <2> QED
    BY <2>1, <2>2, <2>3, <2>4 DEF TypeOK
<1>2. ASSUME NEW r \in Requests, Gate(r) PROVE TypeOK'
  <2>1. renew' \in [Requests -> BOOLEAN] /\ entered' \in [Requests -> Nat]
    BY <1>2 DEF Gate, TypeOK
  <2>2. user' \in [Requests -> Users]
    BY <1>2, LiveRow DEF Gate, TypeOK
  <2>3. pc' \in [Requests -> {"idle", "gate", "handle", "renew", "reply", "done", "lost"}]
    <3>1. \E p \in {"handle", "reply"} : pc' = [pc EXCEPT ![r] = p]
      BY <1>2 DEF Gate
    <3> QED
      BY <3>1 DEF TypeOK
  <2>4. answer' \in [Requests -> {"", "ok", "unauthorized", "forbidden"}]
    BY <1>2 DEF Gate, TypeOK
  <2>5. UNCHANGED <<clock, status, session, cookie, kind, token, sets, lastCall>>
    BY <1>2 DEF Gate
  <2> QED
    BY <2>1, <2>2, <2>3, <2>4, <2>5 DEF TypeOK
<1>3. ASSUME NEW r \in Requests, Login(r) PROVE TypeOK'
  <2>1. status' \in [Users -> {"none", "invited", "active", "disabled"}]
    <3>1. status' = status \/ status' = [status EXCEPT ![user[r]] = "active"]
      BY <1>3 DEF Login
    <3> QED
      BY <3>1 DEF TypeOK
  <2>5. sets' \in [Requests -> Requests \cup {NoToken, "keep"}]
    <3>1. sets' = sets \/ sets' = [sets EXCEPT ![r] = r]
      BY <1>3 DEF Login
    <3> QED
      BY <3>1 DEF TypeOK
  <2>6. lastCall' \in [Requests -> Nat]
    <3>1. lastCall' = lastCall \/ lastCall' = [lastCall EXCEPT ![r] = clock]
      BY <1>3 DEF Login
    <3> QED
      BY <3>1, NewExpiry DEF TypeOK
  <2>2. session' \in [Requests -> Row \cup {NoRow}]
    <3> DEFINE row == [user |-> user[r], expires |-> clock + Lifetime,
                       revoked |-> FALSE, revokedAt |-> 0]
    <3>1. row \in Row
      <4>1. user[r] \in Users
        BY DEF TypeOK
      <4> QED
        BY <4>1, NewExpiry DEF Row
    <3>2. session' = session \/ session' = [session EXCEPT ![r] = row]
      BY <1>3 DEF Login
    <3> QED
      BY <3>1, <3>2 DEF TypeOK
  <2>3. answer' \in [Requests -> {"", "ok", "unauthorized", "forbidden"}]
        /\ pc' = [pc EXCEPT ![r] = "renew"]
    BY <1>3 DEF Login, TypeOK
  <2>4. UNCHANGED <<clock, cookie, kind, user, token, entered, renew>>
    BY <1>3 DEF Login
  <2> QED
    BY <2>1, <2>2, <2>3, <2>4, <2>5, <2>6 DEF TypeOK
<1>4. ASSUME NEW r \in Requests, Logout(r) PROVE TypeOK'
  BY <1>4 DEF Logout, Row, TypeOK
<1>5. ASSUME NEW r \in Requests, Call(r) PROVE TypeOK'
  BY <1>5 DEF Call, TypeOK
<1>6. ASSUME NEW r \in Requests, Renew(r) PROVE TypeOK'
  <2> DEFINE t == token[r]
             extended == renew[r] /\ session[t] # NoRow /\ ~ session[t].revoked
  <2>1. pc' = [pc EXCEPT ![r] = "reply"]
        /\ UNCHANGED <<clock, status, cookie, kind, user, token, entered, renew,
                       answer>>
    BY <1>6 DEF Renew
  <2>2. lastCall' \in [Requests -> Nat]
    BY <1>6 DEF Renew, TypeOK
  <2>3. CASE ~ extended
    <3>1. UNCHANGED <<session, sets>>
      BY <1>6, <2>3 DEF Renew
    <3> QED
      BY <2>1, <2>2, <3>1 DEF TypeOK
  <2>4. CASE extended
    <3>1. t \in Requests
      BY <1>6, <2>4 DEF Admitted, Renew
    <3>2. session' = [session EXCEPT ![t].expires = clock + Lifetime]
          /\ sets' = [sets EXCEPT ![r] = t]
      BY <1>6, <2>4 DEF Renew
    <3>3. session[t] \in Row /\ clock + Lifetime \in Nat
      BY <2>4, <3>1, OpenRow, NewExpiry
    <3>4. [session[t] EXCEPT !.expires = clock + Lifetime] \in Row
      BY <3>3 DEF Row
    <3>5. session' \in [Requests -> Row \cup {NoRow}]
      BY <3>1, <3>2, <3>4 DEF TypeOK
    <3> HIDE DEF t
    <3> QED
      BY <2>1, <2>2, <3>1, <3>2, <3>5 DEF TypeOK
  <2> QED
    BY <2>3, <2>4
<1>7. ASSUME NEW r \in Requests, Deliver(r) PROVE TypeOK'
  BY <1>7 DEF Deliver, TypeOK
<1>8. ASSUME NEW r \in Requests, Lose(r) PROVE TypeOK'
  BY <1>8 DEF Lose, TypeOK
<1>9. ASSUME NEW u \in Users, Invite(u) \/ Disable(u) PROVE TypeOK'
  BY <1>9 DEF Invite, Disable, TypeOK
<1>10. CASE Boot
  BY <1>10 DEF Boot, TypeOK
<1>11. CASE Tick
  <2>1. clock \in Nat /\ clock' = clock + 1
    BY <1>11 DEF Tick, TypeOK
  <2>2. clock' \in Nat
    BY <2>1
  <2> QED
    BY <1>11, <2>2 DEF Tick, TypeOK
<1>12. CASE UNCHANGED vars
  BY <1>12 DEF vars, TypeOK
<1> QED
  BY <1>1, <1>2, <1>3, <1>4, <1>5, <1>6, <1>7, <1>8, <1>9, <1>10, <1>11, <1>12
  DEF Next, Step

-----------------------------------------------------------------------------
\* What an action may do to sessions: a login that is being handled issues its
\* own, and nothing else brings one back or opens it again.
LEMMA Reopens ==
  ASSUME TypeOK, Unanswered, Next, NEW t \in Requests, Open(t)'
  PROVE  Open(t) \/ Login(t)
<1> USE DEF Open
<1>1. CASE \E r \in Requests : Login(r)
  <2>1. PICK r \in Requests : Login(r)
    BY <1>1
  <2>2. r # t => session'[t] = session[t]
    BY <2>1 DEF Login, TypeOK
  <2> QED
    BY <2>1, <2>2
<1>2. CASE \E r \in Requests : Logout(r)
  <2>1. PICK r \in Requests : Logout(r)
    BY <1>2
  <2>2. token[r] # t => session'[t] = session[t]
    BY <2>1 DEF Logout, TypeOK
  <2>3. ASSUME token[r] = t, session[t] # NoRow PROVE session'[t].revoked
    <3>1. session[t] \in Row
      BY <2>3, OpenRow
    <3>2. session'[t] = [session[t] EXCEPT !.revoked = TRUE, !.revokedAt = clock]
      BY <2>1, <2>3 DEF Logout, TypeOK
    <3> QED
      BY <3>1, <3>2 DEF Row
  <2>4. token[r] = t /\ session[t] = NoRow => session'[t] = NoRow
    BY <2>1 DEF Logout, TypeOK
  <2> QED
    BY <2>2, <2>3, <2>4
<1>3. CASE \E r \in Requests : Renew(r)
  <2>1. PICK r \in Requests : Renew(r)
    BY <1>3
  <2>2. CASE token[r] = t /\ Open(t)
    BY <2>2
  <2>3. CASE ~ (token[r] = t /\ Open(t))
    BY <2>1, <2>3 DEF Renew, TypeOK
  <2> QED
    BY <2>2, <2>3
<1>4. CASE Boot
  BY <1>4 DEF Boot, TypeOK
<1>5. CASE UNCHANGED session
  BY <1>5
<1> QED
  BY <1>1, <1>2, <1>3, <1>4, <1>5
  DEF Next, Step, Send, Gate, Call, Deliver, Lose, Invite, Disable, Tick, server

\* An answer once given is not taken back.
LEMMA AnswerStays ==
  ASSUME TypeOK, Unanswered, Next, NEW q \in Requests, answer[q] = "ok"
  PROVE  /\ answer'[q] = "ok" /\ kind'[q] = kind[q] /\ token'[q] = token[q]
         /\ pc'[q] \notin {"idle", "gate", "handle"}
<1>1. pc[q] \notin {"idle", "gate", "handle"}
  BY DEF Unanswered
<1>2. CASE \E r \in Requests : Send(r)
  <2>1. PICK r \in Requests : Send(r)
    BY <1>2
  <2>2. r # q
    BY <1>1, <2>1 DEF Send
  <2>3. kind'[q] = kind[q]
    BY <2>1, <2>2 DEF Send, TypeOK
  <2>4. token'[q] = token[q] /\ pc'[q] = pc[q] /\ answer' = answer
    BY <2>1, <2>2 DEF Send, Goto, TypeOK
  <2> QED
    BY <1>1, <2>3, <2>4
<1>3. CASE \E r \in Requests : Gate(r)
  <2>1. PICK r \in Requests : Gate(r)
    BY <1>3
  <2>2. r # q
    BY <1>1, <2>1 DEF Gate
  <2>3. answer'[q] = answer[q]
    BY <2>1, <2>2 DEF Gate, TypeOK
  <2>4. pc'[q] = pc[q] /\ kind' = kind /\ token' = token
    BY <2>1, <2>2 DEF Gate, Goto, TypeOK
  <2> QED
    BY <1>1, <2>3, <2>4
<1>4. CASE \E r \in Requests : Login(r)
  <2>1. PICK r \in Requests : Login(r)
    BY <1>4
  <2>2. r # q
    BY <1>1, <2>1 DEF Login
  <2>3. answer'[q] = answer[q] /\ pc'[q] = pc[q]
    BY <2>1, <2>2 DEF Login, Goto, TypeOK
  <2>4. kind' = kind /\ token' = token
    BY <2>1 DEF Login
  <2> QED
    BY <1>1, <2>3, <2>4
<1>5. CASE \E r \in Requests : Logout(r) \/ Call(r)
  <2>1. PICK r \in Requests : Logout(r) \/ Call(r)
    BY <1>5
  <2>2. r # q
    BY <1>1, <2>1 DEF Logout, Call
  <2> QED
    BY <1>1, <2>1, <2>2 DEF Logout, Call, Goto, TypeOK
<1>6. CASE \E r \in Requests : Renew(r) \/ Deliver(r) \/ Lose(r)
  <2>1. PICK r \in Requests : Renew(r) \/ Deliver(r) \/ Lose(r)
    BY <1>6
  <2>2. kind' = kind /\ token' = token /\ answer' = answer
    BY <2>1 DEF Renew, Deliver, Lose
  <2>3. pc'[q] \notin {"idle", "gate", "handle"}
    BY <1>1, <2>1 DEF Renew, Deliver, Lose, Goto, TypeOK
  <2> QED
    BY <2>2, <2>3
<1>7. CASE (\E u \in Users : Invite(u) \/ Disable(u)) \/ Tick
  BY <1>1, <1>7 DEF Invite, Disable, Tick, request
<1>8. CASE Boot
  BY <1>1, <1>8 DEF Boot, TypeOK
<1> QED
  BY <1>2, <1>3, <1>4, <1>5, <1>6, <1>7, <1>8 DEF Next, Step

-----------------------------------------------------------------------------
\* A session somebody was told of is not opened again.
LEMMA StaysClosed ==
  ASSUME TypeOK, Unanswered, Next, NEW t \in Requests, answer[t] = "ok", ~ Open(t)
  PROVE  ~ Open(t)'
BY Reopens DEF Unanswered, Login

LEMMA NextUnanswered == TypeOK /\ Unanswered /\ Issued /\ Admitted /\ Next => Unanswered'
<1> SUFFICES ASSUME TypeOK, Unanswered, Issued, Admitted, Next,
                    NEW q \in Requests, pc'[q] \in {"idle", "gate", "handle"}
             PROVE  answer'[q] = "" /\ session'[q] = NoRow
  BY DEF Unanswered
<1> USE DEF Goto
<1>1. pc[q] \in {"idle", "gate", "handle"} => answer[q] = "" /\ session[q] = NoRow
  BY DEF Unanswered
<1>2. CASE \E r \in Requests : Send(r)
  BY <1>1, <1>2 DEF Send, TypeOK, server
<1>3. CASE \E r \in Requests : Gate(r)
  <2>1. PICK r \in Requests : Gate(r)
    BY <1>3
  <2>2. UNCHANGED session
    BY <2>1 DEF Gate, server
  <2>3. CASE r = q
    <3>1. pc'[q] = "handle" => answer' = answer
      BY <2>1, <2>3 DEF Gate, TypeOK
    <3>2. pc'[q] \in {"handle", "reply"} /\ pc[q] = "gate"
      BY <2>1, <2>3 DEF Gate, TypeOK
    <3> QED
      BY <1>1, <2>2, <3>1, <3>2
  <2>4. CASE r # q
    <3>1. pc'[q] = pc[q] /\ answer'[q] = answer[q]
      BY <2>1, <2>4 DEF Gate, TypeOK
    <3> QED
      BY <1>1, <2>2, <3>1
  <2> QED
    BY <2>3, <2>4
<1>4. CASE \E r \in Requests : Login(r)
  <2>1. PICK r \in Requests : Login(r)
    BY <1>4
  <2>2. r # q
    BY <2>1 DEF Login, TypeOK
  <2>3. pc'[q] = pc[q] /\ answer'[q] = answer[q] /\ session'[q] = session[q]
    BY <2>1, <2>2 DEF Login, TypeOK
  <2> QED
    BY <1>1, <2>3
<1>5. CASE \E r \in Requests : Logout(r)
  <2>1. PICK r \in Requests : Logout(r)
    BY <1>5
  <2>2. r # q
    BY <2>1 DEF Logout, TypeOK
  <2>3. pc'[q] = pc[q] /\ answer'[q] = answer[q]
    BY <2>1, <2>2 DEF Logout, TypeOK
  <2>4. session[q] = NoRow => session'[q] = NoRow
    BY <2>1 DEF Logout, TypeOK
  <2> QED
    BY <1>1, <2>3, <2>4
<1>6. CASE \E r \in Requests : Call(r)
  <2>1. PICK r \in Requests : Call(r)
    BY <1>6
  <2>2. r # q
    BY <2>1 DEF Call, TypeOK
  <2> QED
    BY <1>1, <2>1, <2>2 DEF Call, TypeOK, server
<1>7. CASE \E r \in Requests : Renew(r)
  <2>1. PICK r \in Requests : Renew(r)
    BY <1>7
  <2>2. r # q
    BY <2>1 DEF Renew, TypeOK
  <2>3. pc'[q] = pc[q] /\ answer' = answer
    BY <2>1, <2>2 DEF Renew, TypeOK
  <2>4. session[q] = NoRow => session'[q] = NoRow
    BY <2>1 DEF Renew, TypeOK
  <2> QED
    BY <1>1, <2>3, <2>4
<1>8. CASE \E r \in Requests : Deliver(r) \/ Lose(r)
  <2>1. PICK r \in Requests : Deliver(r) \/ Lose(r)
    BY <1>8
  <2> QED
    BY <1>1, <2>1 DEF Deliver, Lose, TypeOK, server
<1>9. CASE (\E u \in Users : Invite(u) \/ Disable(u)) \/ Tick
  BY <1>1, <1>9 DEF Invite, Disable, Tick, request, server
<1>10. CASE Boot
  <2>1. pc'[q] = pc[q] /\ answer' = answer
    BY <1>10 DEF Boot, TypeOK
  <2>2. session[q] = NoRow => session'[q] = NoRow
    BY <1>10 DEF Boot, TypeOK
  <2> QED
    BY <1>1, <2>1, <2>2
<1> QED
  BY <1>2, <1>3, <1>4, <1>5, <1>6, <1>7, <1>8, <1>9, <1>10 DEF Next, Step

\* A cookie comes from an answer, a request's token from the cookie, and an
\* answer's from the request or from the login it answers.
LEMMA CookieFrom ==
  ASSUME TypeOK, Next
  PROVE  cookie' = cookie \/ \E r \in Requests : cookie' = sets[r] /\ sets[r] # "keep"
BY DEF Next, Step, Send, Gate, Login, Logout, Call, Renew, Deliver, Lose, Invite,
       Disable, Boot, Tick, device

LEMMA TokenFrom ==
  ASSUME TypeOK, Next, NEW q \in Requests
  PROVE  token'[q] \in {token[q], cookie}
<1>1. CASE \E r \in Requests : Send(r)
  BY <1>1 DEF Send, TypeOK
<1>2. CASE UNCHANGED token
  BY <1>2
<1> QED
  BY <1>1, <1>2 DEF Next, Step, Gate, Login, Logout, Call, Renew, Deliver, Lose,
                    Invite, Disable, Boot, Tick, request

LEMMA SetsFrom ==
  ASSUME TypeOK, Next, NEW q \in Requests
  PROVE  \/ sets'[q] \in {sets[q], NoToken, token[q]}
         \/ sets'[q] = q /\ answer'[q] = "ok"
<1>1. CASE \E r \in Requests : Login(r)
  <2>1. PICK r \in Requests : Login(r)
    BY <1>1
  <2>2. r # q => sets'[q] = sets[q]
    BY <2>1 DEF Login, TypeOK
  <2>3. CASE r = q /\ status[user[r]] \in {"invited", "active"}
    BY <2>1, <2>3 DEF Login, TypeOK
  <2>4. CASE status[user[r]] \notin {"invited", "active"}
    BY <2>1, <2>4 DEF Login
  <2> QED
    BY <2>2, <2>3, <2>4
<1>2. CASE \E r \in Requests : Logout(r)
  BY <1>2 DEF Logout, TypeOK
<1>3. CASE \E r \in Requests : Renew(r)
  <2>1. PICK r \in Requests : Renew(r)
    BY <1>3
  <2>2. sets' = sets \/ sets' = [sets EXCEPT ![r] = token[r]]
    BY <2>1 DEF Renew
  <2> QED
    BY <2>2 DEF TypeOK
<1>4. CASE UNCHANGED sets
  BY <1>4
<1> QED
  BY <1>1, <1>2, <1>3, <1>4 DEF Next, Step, Send, Gate, Call, Deliver, Lose,
                                Invite, Disable, Boot, Tick, request

LEMMA NextIssued == TypeOK /\ Unanswered /\ Issued /\ Next => Issued'
<1> SUFFICES ASSUME TypeOK, Unanswered, Issued, Next PROVE Issued'
  OBVIOUS
<1>1. \A t \in Requests : answer[t] = "ok" => answer'[t] = "ok"
  BY AnswerStays
<1>2. ASSUME cookie' # NoToken PROVE answer'[cookie'] = "ok"
  <2>1. CASE cookie' = cookie
    BY <1>1, <1>2, <2>1 DEF Issued, TypeOK
  <2>2. CASE \E r \in Requests : cookie' = sets[r] /\ sets[r] # "keep"
    <3>1. PICK r \in Requests : cookie' = sets[r] /\ sets[r] # "keep"
      BY <2>2
    <3>2. sets[r] \in Requests
      BY <1>2, <3>1 DEF TypeOK
    <3> QED
      BY <1>1, <3>1, <3>2 DEF Issued
  <2> QED
    BY <2>1, <2>2, CookieFrom
<1>3. ASSUME NEW q \in Requests, token'[q] # NoToken PROVE answer'[token'[q]] = "ok"
  <2>1. token[q] \in Requests \cup {NoToken} /\ cookie \in Requests \cup {NoToken}
    BY DEF TypeOK
  <2> QED
    BY <1>1, <1>3, <2>1, TokenFrom DEF Issued
<1>4. ASSUME NEW q \in Requests, sets'[q] \in Requests PROVE answer'[sets'[q]] = "ok"
  <2>1. CASE sets'[q] \in {sets[q], token[q]}
    BY <1>1, <1>4, <2>1, TokenAssumption DEF Issued
  <2> QED
    BY <1>4, <2>1, SetsFrom, TokenAssumption
<1> QED
  BY <1>2, <1>3, <1>4 DEF Issued

\* A logout's session is closed when it answers, and it is somebody's.
LEMMA NextLoggedOut ==
  TypeOK /\ Unanswered /\ Issued /\ Admitted /\ LoggedOut /\ Next => LoggedOut'
<1> SUFFICES ASSUME TypeOK, Unanswered, Issued, Admitted, LoggedOut, Next,
                    NEW q \in Requests, kind'[q] = "logout", answer'[q] = "ok"
             PROVE  token'[q] \in Requests /\ ~ Open(token[q])' /\ token'[q] = token[q]
  BY DEF LoggedOut, Open
<1>1. CASE answer[q] = "ok"
  <2>1. token[q] \in Requests /\ ~ Open(token[q]) /\ token'[q] = token[q]
    BY <1>1, AnswerStays DEF LoggedOut
  <2>2. answer[token[q]] = "ok"
    BY <2>1, TokenAssumption DEF Issued
  <2> QED
    BY <2>1, <2>2, StaysClosed
<1>2. CASE answer[q] # "ok"
  <2>1. Logout(q)
    <3>1. ASSUME NEW r \in Requests, Login(r) PROVE FALSE
      <4>1. r = q
        BY <1>2, <3>1 DEF Login, TypeOK
      <4> QED
        BY <3>1, <4>1 DEF Login
    <3>2. ASSUME NEW r \in Requests, Call(r) PROVE FALSE
      <4>1. r = q
        BY <1>2, <3>2 DEF Call, TypeOK
      <4> QED
        BY <3>2, <4>1 DEF Call
    <3>3. ASSUME NEW r \in Requests, Gate(r) PROVE FALSE
      <4>1. answer' = answer \/ answer' = [answer EXCEPT ![r] = "unauthorized"]
        BY <3>3 DEF Gate
      <4> QED
        BY <1>2, <4>1 DEF TypeOK
    <3>4. ASSUME NEW r \in Requests, Logout(r) PROVE r = q
      BY <1>2, <3>4 DEF Logout, TypeOK
    <3>5. answer' # answer
      BY <1>2
    <3> QED
      BY <3>1, <3>2, <3>3, <3>4, <3>5
      DEF Next, Step, Send, Renew, Deliver, Lose, Invite, Disable, Boot, Tick, request
  <2>2. token[q] \in Requests
    BY <2>1 DEF Logout, Admitted
  <2>3. token' = token
    BY <2>1 DEF Logout
  <2>4. session'[token[q]] =
          IF session[token[q]] = NoRow THEN NoRow
          ELSE [session[token[q]] EXCEPT !.revoked = TRUE, !.revokedAt = clock]
    BY <2>1, <2>2 DEF Logout, TypeOK
  <2>5. CASE session[token[q]] # NoRow
    <3>1. session[token[q]] \in Row
      BY <2>2, <2>5, OpenRow
    <3>2. session'[token[q]].revoked
      BY <2>4, <2>5, <3>1 DEF Row
    <3> QED
      BY <2>2, <2>3, <3>2 DEF Open
  <2>6. CASE session[token[q]] = NoRow
    BY <2>2, <2>3, <2>4, <2>6 DEF Open
  <2> QED
    BY <2>5, <2>6
<1> QED
  BY <1>1, <1>2

-----------------------------------------------------------------------------
\* An action leaves an open session's expiry alone, sets it a lifetime from
\* now, or is the login that issues it.
LEMMA ExpiryStep ==
  ASSUME TypeOK, Unanswered, Next, NEW t \in Requests, Open(t)'
  PROVE  \/ Open(t) /\ session'[t].expires = session[t].expires
         \/ session'[t].expires = clock + Lifetime /\ clock' = clock
<1>1. CASE \E r \in Requests : Login(r)
  <2>1. PICK r \in Requests : Login(r)
    BY <1>1
  <2>2. session'[t] = session[t] \/ session'[t].expires = clock + Lifetime
    <3>1. CASE r = t /\ status[user[r]] \in {"invited", "active"}
      <4>1. session' = [session EXCEPT ![t] =
                         [user |-> user[r], expires |-> clock + Lifetime,
                          revoked |-> FALSE, revokedAt |-> 0]]
        BY <2>1, <3>1 DEF Login
      <4>2. session'[t] = [user |-> user[r], expires |-> clock + Lifetime,
                           revoked |-> FALSE, revokedAt |-> 0]
        BY <4>1 DEF TypeOK
      <4> QED
        BY <4>2
    <3>2. CASE ~ (r = t /\ status[user[r]] \in {"invited", "active"})
      BY <2>1, <3>2 DEF Login, TypeOK
    <3> QED
      BY <3>1, <3>2
  <2>3. clock' = clock
    BY <2>1 DEF Login
  <2> QED
    BY <2>2, <2>3 DEF Open
<1>2. CASE \E r \in Requests : Logout(r)
  <2>1. PICK r \in Requests : Logout(r)
    BY <1>2
  <2>2. \/ session'[t] = session[t]
        \/ /\ session[t] # NoRow
           /\ session'[t] = [session[t] EXCEPT !.revoked = TRUE, !.revokedAt = clock]
    BY <2>1 DEF Logout, TypeOK
  <2>3. session'[t] = session[t]
    BY <2>2, OpenRow DEF Open, Row
  <2> QED
    BY <2>3 DEF Open
<1>3. CASE \E r \in Requests : Renew(r)
  <2>1. PICK r \in Requests : Renew(r)
    BY <1>3
  <2>2. CASE session' = session
    BY <2>2 DEF Open
  <2>3. CASE session' # session
    <3>1. /\ Open(token[r])
          /\ session' = [session EXCEPT ![token[r]].expires = clock + Lifetime]
          /\ clock' = clock
      BY <2>1, <2>3 DEF Renew, Open
    <3>2. CASE token[r] = t
      <4>1. session[t] \in Row
        BY <3>1, <3>2, OpenRow DEF Open
      <4>2. session'[t] = [session[t] EXCEPT !.expires = clock + Lifetime]
        BY <3>1, <3>2 DEF TypeOK
      <4> QED
        BY <3>1, <4>1, <4>2 DEF Row
    <3>3. CASE token[r] # t
      <4>1. session'[t] = session[t]
        BY <3>1, <3>3 DEF TypeOK
      <4> QED
        BY <4>1 DEF Open
    <3> QED
      BY <3>2, <3>3
  <2> QED
    BY <2>2, <2>3
<1>4. CASE Boot
  BY <1>4 DEF Boot, TypeOK, Open
<1>5. CASE UNCHANGED session
  BY <1>5 DEF Open
<1> QED
  BY <1>1, <1>2, <1>3, <1>4, <1>5
  DEF Next, Step, Send, Gate, Call, Deliver, Lose, Invite, Disable, Tick, server

\* Time does not go back.
LEMMA ClockStep ==
  ASSUME TypeOK, Next
  PROVE  clock \in Nat /\ clock' \in Nat /\ clock <= clock'
<1>1. clock \in Nat
  BY DEF TypeOK
<1>2. clock' = clock \/ clock' = clock + 1
  BY DEF Next, Step, Send, Gate, Login, Logout, Call, Renew, Deliver, Lose, Invite,
         Disable, Boot, Tick
<1> QED
  BY <1>1, <1>2

\* The last call of a session moves when it is issued and when a call of its
\* has returned.
LEMMA LastCallStep ==
  ASSUME TypeOK, Next, NEW t \in Requests
  PROVE  \/ lastCall'[t] = lastCall[t]
         \/ /\ lastCall'[t] = clock /\ clock' = clock
            /\ session'[t].expires = clock + Lifetime
         \/ \E r \in Requests : Renew(r) /\ kind[r] # "login" /\ token[r] = t
                                  /\ lastCall'[t] = entered[r]
<1>1. CASE \E r \in Requests : Login(r)
  <2>1. PICK r \in Requests : Login(r)
    BY <1>1
  <2>2. CASE r = t /\ status[user[r]] \in {"invited", "active"}
    <3>1. session' = [session EXCEPT ![t] =
                       [user |-> user[r], expires |-> clock + Lifetime,
                        revoked |-> FALSE, revokedAt |-> 0]]
          /\ lastCall' = [lastCall EXCEPT ![t] = clock] /\ clock' = clock
      BY <2>1, <2>2 DEF Login
    <3>2. session'[t] = [user |-> user[r], expires |-> clock + Lifetime,
                         revoked |-> FALSE, revokedAt |-> 0]
          /\ lastCall'[t] = clock
      BY <3>1 DEF TypeOK
    <3> QED
      BY <3>1, <3>2
  <2>3. CASE ~ (r = t /\ status[user[r]] \in {"invited", "active"})
    BY <2>1, <2>3 DEF Login, TypeOK
  <2> QED
    BY <2>2, <2>3
<1>2. CASE \E r \in Requests : Renew(r)
  <2>1. PICK r \in Requests : Renew(r)
    BY <1>2
  <2>2. \/ lastCall' = lastCall
        \/ kind[r] # "login" /\ lastCall' = [lastCall EXCEPT ![token[r]] = entered[r]]
    BY <2>1 DEF Renew
  <2>3. CASE lastCall' = lastCall \/ token[r] # t
    BY <2>2, <2>3 DEF TypeOK
  <2>4. CASE lastCall' # lastCall /\ token[r] = t
    BY <2>1, <2>2, <2>4 DEF TypeOK
  <2> QED
    BY <2>3, <2>4
<1>3. CASE UNCHANGED lastCall
  BY <1>3
<1> QED
  BY <1>1, <1>2, <1>3
  DEF Next, Step, Send, Gate, Logout, Call, Deliver, Lose, Invite, Disable, Boot, Tick

LEMMA NextAhead ==
  TypeOK /\ Unanswered /\ Admitted /\ Ahead /\ Next => Ahead'
<1> SUFFICES ASSUME TypeOK, Unanswered, Admitted, Ahead, Next, NEW t \in Requests
             PROVE  /\ lastCall'[t] <= clock'
                    /\ Open(t)' => session'[t].expires > lastCall'[t] + Half
  BY DEF Ahead, Open
<1> DEFINE late == lastCall'[t]
           end == session'[t].expires
<1>1. clock \in Nat /\ clock' \in Nat /\ clock <= clock'
  BY ClockStep
<1>2. late \in Nat /\ lastCall[t] \in Nat
  BY NextType DEF TypeOK
<1>3. Open(t)' => end \in Nat
  <2>1. TypeOK'
    BY NextType
  <2>2. session'[t] \in Row \cup {NoRow}
    BY <2>1 DEF TypeOK
  <2> QED
    BY <2>2 DEF Open, Row
<1>4. lastCall[t] <= clock
  BY DEF Ahead
<1>5. Open(t)' => \/ Open(t) /\ end = session[t].expires
                  \/ end = clock + Lifetime
  BY ExpiryStep
<1>6. CASE late = lastCall[t]
  <2>1. Open(t) => session[t].expires > late + Half
    BY <1>6 DEF Ahead
  <2> HIDE DEF late, end
  <2>2. late <= clock'
    BY <1>1, <1>2, <1>4, <1>6
  <2>3. end = clock + Lifetime => end > late + Half
    BY <1>1, <1>2, <1>4, <1>6, HalfLife, TimeAssumption
  <2>4. Open(t)' => end > late + Half
    BY <1>5, <2>1, <2>3
  <2> QED
    BY <2>2, <2>4 DEF late, end
<1>7. CASE late = clock /\ clock' = clock /\ end = clock + Lifetime
  <2> HIDE DEF late, end
  <2>1. late <= clock' /\ end > late + Half
    BY <1>1, <1>7, HalfLife, TimeAssumption
  <2> QED
    BY <2>1 DEF late, end
<1>8. CASE \E r \in Requests : Renew(r) /\ kind[r] # "login" /\ token[r] = t
                                 /\ late = entered[r]
  <2>1. PICK r \in Requests : Renew(r) /\ kind[r] # "login" /\ token[r] = t
                                /\ late = entered[r]
    BY <1>8
  <2>2. pc[r] = "renew" /\ clock' = clock
    BY <2>1 DEF Renew
  <2>3. late <= clock /\ (~ renew[r] /\ Open(t) => session[t].expires > late + Half)
    BY <2>1, <2>2 DEF Admitted
  <2>4. ASSUME renew[r], Open(t)' PROVE end = clock + Lifetime
    <3>1. CASE Open(t)
      <4>1. session' = [session EXCEPT ![t].expires = clock + Lifetime]
        BY <2>1, <2>4, <3>1 DEF Renew, Open
      <4>2. session[t] \in Row
        BY <3>1, OpenRow DEF Open
      <4>3. session'[t] = [session[t] EXCEPT !.expires = clock + Lifetime]
        BY <4>1 DEF TypeOK
      <4> QED
        BY <4>2, <4>3 DEF Row
    <3> QED
      BY <1>5, <2>4, <3>1
  <2> HIDE DEF late, end
  <2>5. late <= clock'
    BY <2>2, <2>3
  <2>6. end = clock + Lifetime => end > late + Half
    BY <1>1, <1>2, <2>3, HalfLife, TimeAssumption
  <2>7. Open(t)' => end > late + Half
    BY <1>5, <2>3, <2>4, <2>6, Zenon DEF TypeOK
  <2> QED
    BY <2>5, <2>7 DEF late, end
<1> QED
  BY <1>6, <1>7, <1>8, LastCallStep

\* Only the gate lets a request in, and what it decided stays.
LEMMA LocalsStay ==
  ASSUME TypeOK, Next, NEW r \in Requests, pc'[r] \in {"handle", "renew"}, ~ Gate(r)
  PROVE  /\ pc[r] \in {"handle", "renew"}
         /\ entered'[r] = entered[r] /\ kind'[r] = kind[r]
         /\ token'[r] = token[r] /\ renew'[r] = renew[r]
<1> USE DEF Goto
<1>1. CASE \E q \in Requests : Send(q)
  <2>1. PICK q \in Requests : Send(q)
    BY <1>1
  <2>2. q # r
    BY <2>1 DEF Send, TypeOK
  <2>3. kind'[r] = kind[r]
    BY <2>1, <2>2 DEF Send, TypeOK
  <2> QED
    BY <2>1, <2>2, <2>3 DEF Send, TypeOK
<1>2. CASE \E q \in Requests : Gate(q)
  <2>1. PICK q \in Requests : Gate(q)
    BY <1>2
  <2>2. q # r
    BY <2>1
  <2>3. entered'[r] = entered[r] /\ renew'[r] = renew[r]
    BY <2>1, <2>2 DEF Gate, TypeOK
  <2>4. pc'[r] = pc[r] /\ kind' = kind /\ token' = token
    BY <2>1, <2>2 DEF Gate, TypeOK
  <2> QED
    BY <2>3, <2>4
<1>3. CASE UNCHANGED <<entered, kind, token, renew>>
  <2>1. CASE \E q \in Requests : Login(q) \/ Logout(q) \/ Call(q)
    BY <2>1, <1>3 DEF Login, Logout, Call, TypeOK
  <2>2. CASE \E q \in Requests : Renew(q) \/ Deliver(q) \/ Lose(q)
    <3>1. PICK q \in Requests : Renew(q) \/ Deliver(q) \/ Lose(q)
      BY <2>2
    <3>2. \E p \in {"reply", "done", "lost"} : pc' = [pc EXCEPT ![q] = p]
      BY <3>1 DEF Renew, Deliver, Lose
    <3> QED
      BY <1>3, <3>2 DEF TypeOK
  <2>3. CASE UNCHANGED pc
    BY <1>3, <2>3
  <2>4. CASE Boot
    BY <1>3, <2>4 DEF Boot, TypeOK
  <2> QED
    BY <1>1, <1>2, <2>1, <2>2, <2>3, <2>4 DEF Next, Step, Invite, Disable, Tick, request
<1> QED
  BY <1>1, <1>2, <1>3 DEF Next, Step, Login, Logout, Call, Renew, Deliver, Lose,
                          Invite, Disable, Boot, Tick, request

\* What the gate decided of a request holds until it is renewed: its session's
\* expiry only moves away.
LEMMA NextAdmitted ==
  TypeOK /\ Unanswered /\ Admitted /\ Next => Admitted'
<1> SUFFICES ASSUME TypeOK, Unanswered, Admitted, Next, NEW r \in Requests,
                    pc'[r] \in {"handle", "renew"}
             PROVE  /\ entered'[r] <= clock'
                    /\ kind'[r] # "login" \/ renew'[r] => token'[r] \in Requests
                    /\ kind'[r] # "login" /\ ~ renew'[r] /\ Open(token[r])'
                         => session'[token'[r]].expires > entered'[r] + Half
  BY DEF Admitted, Open
<1>1. clock \in Nat /\ clock' \in Nat /\ clock <= clock'
  BY ClockStep
<1>2. CASE Gate(r)
  <2>1. /\ entered'[r] = clock /\ clock' = clock
        /\ kind' = kind /\ token' = token /\ session' = session
    BY <1>2 DEF Gate, TypeOK, server
  <2>2. renew'[r] <=> Live(token[r]) /\ Due(token[r])
    BY <1>2 DEF Gate, TypeOK
  <2>3. Live(token[r]) \/ kind[r] = "login"
    BY <1>2 DEF Gate, Goto, TypeOK
  <2>4. Live(token[r]) => token[r] \in Requests
    BY LiveRow
  <2>5. ASSUME Live(token[r]), ~ Due(token[r])
        PROVE  session[token[r]].expires > clock + Half
    <3>1. session[token[r]].expires \in Nat
      BY <2>5, LiveRow, OpenRow
    <3>2. ~ (session[token[r]].expires <= clock + RenewalDays)
      BY <2>5 DEF Due
    <3> QED
      BY <1>1, <3>1, <3>2, HalfLife
  <2>6. entered'[r] <= clock'
    BY <1>1, <2>1
  <2> QED
    BY <2>1, <2>2, <2>3, <2>4, <2>5, <2>6
<1>3. CASE ~ Gate(r)
  <2>1. /\ pc[r] \in {"handle", "renew"}
        /\ entered'[r] = entered[r] /\ kind'[r] = kind[r]
        /\ token'[r] = token[r] /\ renew'[r] = renew[r]
    BY <1>3, LocalsStay
  <2>2. /\ entered[r] <= clock /\ entered[r] \in Nat
        /\ kind[r] # "login" \/ renew[r] => token[r] \in Requests
        /\ kind[r] # "login" /\ ~ renew[r] /\ Open(token[r])
             => session[token[r]].expires > entered[r] + Half
    BY <2>1 DEF Admitted, TypeOK
  <2>3. entered'[r] <= clock'
    BY <1>1, <2>1, <2>2
  <2>4. ASSUME kind[r] # "login", ~ renew[r], Open(token[r])'
        PROVE  session'[token[r]].expires > entered[r] + Half
    <3>1. token[r] \in Requests
      BY <2>2, <2>4
    <3>2. Open(token[r])' <=> session'[token[r]] # NoRow /\ ~ session'[token[r]].revoked
      BY <2>1 DEF Open
    <3> DEFINE t == token[r]
    <3>3. ASSUME NEW s \in Requests, Open(s)'
          PROVE  \/ Open(s) /\ session'[s].expires = session[s].expires
                 \/ session'[s].expires = clock + Lifetime
      BY <3>3, ExpiryStep
    <3>4. \/ Open(t) /\ session'[t].expires = session[t].expires
          \/ session'[t].expires = clock + Lifetime
      BY <2>4, <3>1, <3>2, <3>3 DEF Open
    <3>5. clock + Lifetime > entered[r] + Half
      BY <1>1, <2>2, HalfLife, TimeAssumption
    <3> QED
      BY <2>2, <2>4, <3>4, <3>5
  <2> QED
    BY <2>1, <2>2, <2>3, <2>4 DEF Open
<1> QED
  BY <1>2, <1>3

-----------------------------------------------------------------------------
\* The invariant holds in every state, whatever the number of requests.
LEMMA StutterInv == Inv /\ UNCHANGED vars => Inv'
<1> SUFFICES ASSUME Inv, UNCHANGED vars PROVE Inv'
  OBVIOUS
<1>1. UNCHANGED <<clock, status, session, cookie, pc, kind, user, token, entered,
                  renew, sets, answer, lastCall>>
  BY DEF vars, server, device, request
<1>2. TypeOK'
  BY <1>1 DEF Inv, TypeOK
<1>3. Unanswered' /\ Issued' /\ LoggedOut'
  BY <1>1 DEF Inv, Unanswered, Issued, LoggedOut, Open
<1>4. Admitted' /\ Ahead'
  BY <1>1 DEF Inv, Admitted, Ahead, Open
<1> QED
  BY <1>2, <1>3, <1>4 DEF Inv

LEMMA NextInv == Inv /\ [Next]_vars => Inv'
<1> SUFFICES ASSUME Inv, Next PROVE Inv'
  BY StutterInv
<1>1. TypeOK' /\ Unanswered'
  BY NextType, NextUnanswered DEF Inv
<1>2. Issued' /\ LoggedOut'
  BY NextIssued, NextLoggedOut DEF Inv
<1>3. Admitted' /\ Ahead'
  BY NextAdmitted, NextAhead DEF Inv
<1> QED
  BY <1>1, <1>2, <1>3 DEF Inv

\* The inductive invariant: who holds which token, what the gate decided, what
\* a logout closed, and how far every session is paid ahead.
THEOREM Invariant == Spec => []Inv
BY InitInv, NextInv, PTL DEF Spec

\* Rows, cookies, requests and answers keep their types.
THEOREM TypeCorrect == Spec => []TypeOK
<1>1. Inv => TypeOK
  BY DEF Inv
<1> QED
  BY <1>1, Invariant, PTL

\* authenticate_session's renewal window: a device whose last completed call is
\* at most half a lifetime old is not signed out by expiry, for every lifetime.
THEOREM DeviceStays == Spec => []SteadyDeviceStays
<1>1. Inv => SteadyDeviceStays
  <2> SUFFICES ASSUME Inv, NEW t \in Requests, Open(t), clock <= lastCall[t] + Half
               PROVE  session[t].expires > clock
    BY DEF SteadyDeviceStays, Open, Half
  <2>1. clock \in Nat /\ lastCall[t] \in Nat
    BY DEF Inv, TypeOK
  <2>2. session[t].expires \in Nat
    BY OpenRow DEF Inv, Open
  <2>3. session[t].expires > lastCall[t] + Half
    BY DEF Inv, Ahead
  <2> QED
    BY <2>1, <2>2, <2>3, HalfLife
<1> QED
  BY <1>1, Invariant, PTL

\* renew_session and create_session never undo a logout: a revoked session stays
\* revoked or is pruned, and a pruned one stays gone.
THEOREM RevokedStays == Spec => RevokedIsFinal
<1> DEFINE Final(t) ==
      /\ session[t] # NoRow /\ session[t].revoked
           => session'[t] = NoRow \/ session'[t].revoked
      /\ session[t] = NoRow /\ answer[t] = "ok" => session'[t] = NoRow
<1>1. ASSUME Inv, Next, NEW t \in Requests PROVE Final(t)
  <2>1. TypeOK /\ Unanswered
    BY <1>1 DEF Inv
  <2>2. ASSUME ~ Open(t), session[t] # NoRow \/ answer[t] = "ok"
        PROVE  ~ Open(t)'
    BY <1>1, <2>1, <2>2, Reopens DEF Unanswered, Login
  <2>3. session[t] = NoRow /\ answer[t] = "ok" => session'[t] = NoRow
    <3>1. CASE \E r \in Requests : Login(r)
      <4>1. PICK r \in Requests : Login(r)
        BY <3>1
      <4>2. answer[t] = "ok" => r # t
        BY <2>1, <4>1 DEF Unanswered, Login
      <4>3. r # t => session'[t] = session[t]
        BY <2>1, <4>1 DEF Login, TypeOK
      <4> QED
        BY <4>2, <4>3
    <3>2. CASE \E r \in Requests : Logout(r)
      BY <2>1, <3>2 DEF Logout, TypeOK
    <3>3. CASE \E r \in Requests : Renew(r)
      BY <2>1, <3>3 DEF Renew, TypeOK
    <3>4. CASE Boot
      BY <2>1, <3>4 DEF Boot, TypeOK
    <3>5. CASE UNCHANGED session
      BY <3>5
    <3> QED
      BY <1>1, <3>1, <3>2, <3>3, <3>4, <3>5
      DEF Next, Step, Send, Gate, Call, Deliver, Lose, Invite, Disable, Tick, server
  <2> QED
    BY <2>2, <2>3 DEF Open
<1>2. UNCHANGED vars => \A t \in Requests : Final(t)
  BY DEF vars, server
<1>3. Inv /\ [Next]_vars => [\A t \in Requests : Final(t)]_vars
  BY <1>1, <1>2
<1> QED
  BY <1>3, Invariant, PTL DEF Spec, RevokedIsFinal

\* logout, authenticate_session: once a logout is answered its token serves no
\* request any more.
THEOREM LogoutHolds == Spec => NoServiceAfterLogout
<1> DEFINE Refused ==
      \A r, q \in Requests :
        /\ kind[q] = "logout" /\ answer[q] = "ok"
        /\ token[r] = token[q] /\ kind[r] # "login"
        /\ pc[r] = "gate"
        => pc'[r] # "handle"
<1>1. ASSUME Inv, Next PROVE Refused
  <2> SUFFICES ASSUME NEW r \in Requests, NEW q \in Requests,
                      kind[q] = "logout", answer[q] = "ok",
                      token[r] = token[q], kind[r] # "login", pc[r] = "gate",
                      pc'[r] = "handle"
               PROVE  FALSE
    OBVIOUS
  <2>1. token[r] \in Requests /\ ~ Open(token[r])
    BY <1>1 DEF Inv, LoggedOut
  <2>2. ~ Live(token[r])
    BY <2>1 DEF Live, Open
  <2>3. CASE Gate(r)
    BY <1>1, <2>2, <2>3 DEF Gate, Goto, Inv, TypeOK
  <2>4. CASE ~ Gate(r)
    BY <1>1, <2>4, LocalsStay DEF Inv
  <2> QED
    BY <2>3, <2>4
<1>2. UNCHANGED vars => Refused
  BY DEF vars, request
<1>3. Inv /\ [Next]_vars => [Refused]_vars
  BY <1>1, <1>2
<1> QED
  BY <1>3, Invariant, PTL DEF Spec, NoServiceAfterLogout

\* prune_expired: what the prune at a boot deletes would not have been served.
THEOREM PruneIsSafe == Spec => PruneDropsOnlyDead
<1> DEFINE Kept == \A t \in Requests : Live(t) => session'[t] # NoRow
<1>1. ASSUME Inv, Next PROVE Kept
  <2> SUFFICES ASSUME NEW t \in Requests, Live(t) PROVE session'[t] # NoRow
    OBVIOUS
  <2>1. TypeOK /\ session[t] # NoRow /\ session[t] \in Row
    BY <1>1, OpenRow DEF Inv, Live
  <2>2. CASE Boot
    <3>1. clock \in Nat /\ session[t].expires \in Nat
      BY <2>1 DEF TypeOK, Row
    <3>2. ~ Prunable(t)
      BY <3>1 DEF Live, Prunable
    <3> QED
      BY <2>1, <2>2, <3>2 DEF Boot
  <2>3. CASE \E r \in Requests : Login(r) \/ Logout(r) \/ Renew(r)
    <3>1. PICK r \in Requests : Login(r) \/ Logout(r) \/ Renew(r)
      BY <2>3
    <3>2. CASE session' = session
      BY <2>1, <3>2
    <3>3. CASE Login(r) /\ session' # session
      <4>1. \E row \in Row : session' = [session EXCEPT ![r] = row]
        BY <2>1, <3>3, NewExpiry DEF Login, TypeOK, Row
      <4> QED
        BY <2>1, <4>1, RowAssumption DEF TypeOK
    <3>4. CASE Logout(r)
      <4>1. [session[t] EXCEPT !.revoked = TRUE, !.revokedAt = clock] \in Row
        BY <2>1 DEF TypeOK, Row
      <4>2. session'[t] = session[t]
            \/ session'[t] = [session[t] EXCEPT !.revoked = TRUE, !.revokedAt = clock]
        BY <2>1, <3>4 DEF Logout, TypeOK
      <4> QED
        BY <2>1, <4>1, <4>2, RowAssumption
    <3>5. CASE Renew(r) /\ session' # session
      <4>1. session' = [session EXCEPT ![token[r]].expires = clock + Lifetime]
        BY <3>5 DEF Renew
      <4>2. session'[t] = session[t]
            \/ session'[t] = [session[t] EXCEPT !.expires = clock + Lifetime]
        BY <2>1, <4>1 DEF TypeOK
      <4>3. [session[t] EXCEPT !.expires = clock + Lifetime] \in Row
        BY <2>1, NewExpiry DEF Row
      <4> QED
        BY <2>1, <4>2, <4>3, RowAssumption
    <3> QED
      BY <3>1, <3>2, <3>3, <3>4, <3>5
  <2>4. CASE UNCHANGED session
    BY <2>1, <2>4
  <2> QED
    BY <1>1, <2>2, <2>3, <2>4
    DEF Next, Step, Send, Gate, Call, Deliver, Lose, Invite, Disable, Tick, server
<1>2. UNCHANGED vars => Kept
  <2> SUFFICES ASSUME UNCHANGED vars PROVE Kept
    OBVIOUS
  <2>1. session' = session
    BY DEF vars, server
  <2> QED
    BY <2>1 DEF Live
<1>3. Inv /\ [Next]_vars => [Kept]_vars
  BY <1>1, <1>2
<1> QED
  BY <1>3, Invariant, PTL DEF Spec, PruneDropsOnlyDead
=============================================================================
