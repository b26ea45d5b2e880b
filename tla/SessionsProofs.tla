--------------------------- MODULE SessionsProofs ---------------------------
(***************************************************************************)
(* What Sessions promises for any number of tabs, users and requests.      *)
(***************************************************************************)
EXTENDS Sessions, SequenceTheorems, TLAPS

Rows == [user : Users, ended : {"no", "revoked", "replaced"},
         expired : BOOLEAN, successors : Nat]

(* A login names its user until it is answered, and only good answers are  *)
(* on their way with a cookie.                                             *)
RequestsSound ==
  \A r \in requests :
    /\ r.op = "login" /\ r.stage \in {"sent", "read"} => r.user \in Users
    /\ r.stage = "served" => r.answer = "ok"

(* The cookies somebody can present to the server, and the answers that    *)
(* carry a cookie nobody has yet.                                          *)
Presented == {jar} \cup {r.cookie : r \in requests}
InFlight  == {r \in requests : r.op = "login" /\ r.stage = "served" /\ r.answer = "ok"}

CookiesKnown == Presented \subseteq 0 .. Len(sessions)

(* Why nobody ends a session whose cookie is on its way: to name it one    *)
(* has to present its cookie, and each is in one answer only.              *)
TokensUnseen ==
  /\ \A r \in InFlight : /\ r.token \in 1 .. Len(sessions) /\ r.token \notin Presented
                         /\ sessions[r.token].ended = "no"
  /\ \A q, r \in InFlight : q.token = r.token => q = r

SessionsInv ==
  TypeOK /\ OneSuccessor /\ RequestsSound /\ CookiesKnown /\ TokensUnseen

-----------------------------------------------------------------------------
(* Cookies.                                                                *)

(* A step that presents no new cookie, starts no answer with one and ends  *)
(* at most a session somebody presents.                                    *)
LEMMA QuietStep ==
  ASSUME TypeOK, CookiesKnown, TokensUnseen,
         sessions' \in Seq(Rows), Len(sessions') = Len(sessions),
         \A c \in 1 .. Len(sessions) :
           c \notin Presented /\ sessions[c].ended = "no" => sessions'[c].ended = "no",
         Presented' \subseteq Presented \cup {NoCookie},
         InFlight' \subseteq InFlight
  PROVE  CookiesKnown' /\ TokensUnseen'
<1>1. Len(sessions) \in Nat
  BY DEF TypeOK
<1>2. CookiesKnown'
  BY <1>1 DEF CookiesKnown, NoCookie
<1>3. ASSUME NEW r \in InFlight'
      PROVE  /\ r.token \in 1 .. Len(sessions') /\ r.token \notin Presented'
             /\ sessions'[r.token].ended = "no"
  BY <1>1, <1>3 DEF TokensUnseen, NoCookie
<1>4. \A q, r \in InFlight' : q.token = r.token => q = r
  BY DEF TokensUnseen
<1> QED
  BY <1>2, <1>3, <1>4 DEF TokensUnseen

(* A new session, whose cookie at most one answer carries.                 *)
LEMMA NewSessionStep ==
  ASSUME TypeOK, CookiesKnown, TokensUnseen,
         sessions' \in Seq(Rows), Len(sessions') = Len(sessions) + 1,
         sessions'[Len(sessions) + 1].ended = "no",
         \A c \in 1 .. Len(sessions) :
           c \notin Presented /\ sessions[c].ended = "no" => sessions'[c].ended = "no",
         Presented' \subseteq Presented,
         NEW q, q.token = Len(sessions) + 1, InFlight' \subseteq InFlight \cup {q}
  PROVE  CookiesKnown' /\ TokensUnseen'
<1>1. Len(sessions) \in Nat
  BY DEF TypeOK
<1>2. CookiesKnown'
  BY <1>1 DEF CookiesKnown
<1>3. Len(sessions) + 1 \notin Presented'
  BY <1>1 DEF CookiesKnown
<1>4. \A r \in InFlight : r.token \in 1 .. Len(sessions) /\ r.token # Len(sessions) + 1
  BY <1>1 DEF TokensUnseen
<1>5. ASSUME NEW r \in InFlight'
      PROVE  /\ r.token \in 1 .. Len(sessions') /\ r.token \notin Presented'
             /\ sessions'[r.token].ended = "no"
  <2>1. CASE r = q
    BY <1>1, <1>3, <2>1
  <2>2. CASE r \in InFlight
    BY <1>1, <2>2 DEF TokensUnseen
  <2> QED
    BY <1>5, <2>1, <2>2
<1>6. \A p, r \in InFlight' : p.token = r.token => p = r
  BY <1>4 DEF TokensUnseen
<1> QED
  BY <1>2, <1>5, <1>6 DEF TokensUnseen

-----------------------------------------------------------------------------
(* Requests.                                                               *)

(* A request a step may leave behind without a new session.                *)
Harmless(q) ==
  /\ q \in Requests /\ q.cookie \in Presented
  /\ q.stage = "served" => q.op # "login" /\ q.answer = "ok"
  /\ q.op = "login" /\ q.stage \in {"sent", "read"} => q.user \in Users

LEMMA HarmlessRequests ==
  ASSUME TypeOK, RequestsSound, UNCHANGED jar,
         \A q \in requests' : q \in requests \/ Harmless(q)
  PROVE  /\ requests' \subseteq Requests /\ RequestsSound'
         /\ Presented' \subseteq Presented /\ InFlight' \subseteq InFlight
<1>1. requests' \subseteq Requests
  BY DEF TypeOK, Harmless
<1>2. RequestsSound'
  BY DEF RequestsSound, Harmless
<1>3. Presented' \subseteq Presented
  BY DEF Presented, Harmless
<1>4. InFlight' \subseteq InFlight
  BY DEF InFlight, Harmless
<1> QED
  BY <1>1, <1>2, <1>3, <1>4

LEMMA RequestIsHarmless ==
  ASSUME TypeOK, NEW t \in Tabs, NEW op \in Ops, NEW u \in Users \cup {NoUser},
         op = "login" => u \in Users
  PROVE  Harmless(Request(t, op, u))
  BY DEF TypeOK, Request, Requests, Harmless, Presented, Answers, NoCookie

LEMMA AbortedIsHarmless ==
  ASSUME TypeOK, RequestsSound, NEW r \in requests, r.stage \in {"sent", "read"}
  PROVE  Harmless(Aborted(r))
<1>1. r \in Requests
  BY DEF TypeOK
<1>2. Aborted(r) \in Requests
  BY <1>1 DEF Aborted, Requests
<1>3. /\ Aborted(r).cookie = r.cookie /\ Aborted(r).stage = r.stage
      /\ Aborted(r).op = r.op /\ Aborted(r).user = r.user
  BY <1>1 DEF Aborted, Requests
<1> QED
  BY <1>2, <1>3 DEF Harmless, Presented, RequestsSound

LEMMA AbandonIsHarmless ==
  ASSUME TypeOK, RequestsSound, NEW rs, rs \subseteq requests
  PROVE  \A q \in Abandon(rs) : Harmless(q)
  BY AbortedIsHarmless DEF Abandon

(* Every answer but the good one to a login.                               *)
LEMMA ServeIsHarmless ==
  ASSUME TypeOK, RequestsSound, NEW r \in requests,
         NEW answer \in Answers, NEW u \in Users \cup {NoUser},
         r.op = "login" => answer # "ok", Serve(r, answer, u, NoCookie)
  PROVE  \A q \in requests' : q \in requests \/ Harmless(q)
<1> DEFINE stage == IF r.op \in {"login", "logout"} /\ answer = "ok" THEN "served" ELSE "arrived"
           q == [r EXCEPT !.stage = stage, !.answer = answer, !.user = u, !.token = NoCookie]
<1>1. requests' = (requests \ {r}) \cup IF r.waited THEN {q} ELSE {}
  BY DEF Serve
<1>2. stage \in {"served", "arrived"} /\ NoCookie \in Nat
  BY DEF NoCookie
<1>3. /\ q \in Requests /\ q.cookie = r.cookie /\ q.op = r.op
      /\ q.stage = stage /\ q.answer = answer
  <2>1. r \in Requests
    BY DEF TypeOK
  <2> HIDE DEF stage
  <2>2. q \in Requests
    BY <1>2, <2>1 DEF Requests
  <2>3. q.cookie = r.cookie /\ q.op = r.op /\ q.stage = stage /\ q.answer = answer
    BY <2>1 DEF Requests
  <2> QED
    BY <2>2, <2>3
<1>4. Harmless(q)
  <2> HIDE DEF q
  <2> QED
    BY <1>3 DEF Harmless, Presented
<1> HIDE DEF q
<1> QED
  BY <1>1, <1>4

(* A login answered with the cookie of the session it created.             *)
LEMMA ServeLogin ==
  ASSUME TypeOK, RequestsSound, NEW r \in requests, r.op = "login", r.stage \in {"sent", "read"},
         UNCHANGED jar, Serve(r, "ok", r.user, Len(sessions) + 1)
  PROVE  /\ requests' \subseteq Requests /\ RequestsSound'
         /\ Presented' \subseteq Presented
         /\ \E q : q.token = Len(sessions) + 1 /\ InFlight' \subseteq InFlight \cup {q}
<1> DEFINE token == Len(sessions) + 1
           q == [r EXCEPT !.stage = "served", !.answer = "ok", !.user = r.user, !.token = token]
<1>1. requests' \subseteq requests \cup {q}
  BY DEF Serve
<1>2. token \in Nat /\ r.user \in Users /\ "ok" \in Answers
  BY DEF TypeOK, RequestsSound, Answers
<1>3. /\ q \in Requests /\ q.cookie = r.cookie /\ q.op = r.op
      /\ q.stage = "served" /\ q.answer = "ok" /\ q.token = token
  <2>1. r \in Requests
    BY DEF TypeOK
  <2> HIDE DEF token
  <2>2. q \in Requests
    BY <1>2, <2>1 DEF Requests
  <2>3. /\ q.cookie = r.cookie /\ q.op = r.op /\ q.token = token
        /\ q.stage = "served" /\ q.answer = "ok"
    BY <2>1 DEF Requests
  <2> QED
    BY <2>2, <2>3
<1> HIDE DEF q
<1>4. requests' \subseteq Requests /\ RequestsSound'
  BY <1>1, <1>3 DEF TypeOK, RequestsSound
<1>5. Presented' \subseteq Presented /\ InFlight' \subseteq InFlight \cup {q}
  BY <1>1, <1>3 DEF Presented, InFlight
<1> QED
  BY <1>3, <1>4, <1>5

-----------------------------------------------------------------------------
(* Sessions.                                                               *)

Succeeded(row) == row.successors = IF row.ended = "replaced" THEN 1 ELSE 0

LEMMA RevokeRevokes ==
  ASSUME sessions \in Seq(Rows), OneSuccessor, NEW c \in Nat
  PROVE  /\ Revoke(c) \in Seq(Rows) /\ Len(Revoke(c)) = Len(sessions)
         /\ \A k \in 1 .. Len(sessions) :
              /\ Succeeded(Revoke(c)[k])
              /\ k # c => Revoke(c)[k] = sessions[k]
<1>1. \A k \in 1 .. Len(sessions) : sessions[k] \in Rows /\ Succeeded(sessions[k])
  BY DEF OneSuccessor, Succeeded
<1>2. CASE Known(c) /\ sessions[c].ended = "no"
  <2> DEFINE row == [sessions[c] EXCEPT !.ended = "revoked"]
  <2>1. c \in 1 .. Len(sessions)
    BY <1>2 DEF Known
  <2>2. row \in Rows
    BY <1>1, <2>1 DEF Rows
  <2>3. Succeeded(row)
    BY <1>1, <1>2, <2>1 DEF Rows, Succeeded
  <2>4. Revoke(c) = [sessions EXCEPT ![c] = row]
    BY <1>2 DEF Revoke
  <2> HIDE DEF row
  <2> QED
    BY <1>1, <2>1, <2>2, <2>3, <2>4
<1>3. CASE ~ (Known(c) /\ sessions[c].ended = "no")
  BY <1>1, <1>3 DEF Revoke
<1> QED
  BY <1>2, <1>3

LEMMA AppendCreates ==
  ASSUME NEW rows \in Seq(Rows), \A k \in 1 .. Len(rows) : Succeeded(rows[k]), NEW u \in Users
  PROVE  /\ Append(rows, Row(u)) \in Seq(Rows) /\ Len(Append(rows, Row(u))) = Len(rows) + 1
         /\ Append(rows, Row(u))[Len(rows) + 1].ended = "no"
         /\ \A k \in 1 .. Len(rows) : Append(rows, Row(u))[k] = rows[k]
         /\ \A k \in 1 .. Len(rows) + 1 : Succeeded(Append(rows, Row(u))[k])
<1>1. Row(u) \in Rows /\ Row(u).ended = "no" /\ Succeeded(Row(u))
  BY DEF Row, Rows, Succeeded
<1> DEFINE row == Row(u)
<1> HIDE DEF row
<1>2. row \in Rows /\ row.ended = "no" /\ Succeeded(row)
  BY <1>1 DEF row
<1>3. /\ Append(rows, row) \in Seq(Rows) /\ Len(Append(rows, row)) = Len(rows) + 1
      /\ Append(rows, row)[Len(rows) + 1] = row
      /\ \A k \in 1 .. Len(rows) : Append(rows, row)[k] = rows[k]
  BY <1>2
<1>4. \A k \in 1 .. Len(rows) + 1 : Succeeded(Append(rows, row)[k])
  <2>1. \A n \in Nat : \A k \in 1 .. n + 1 : k \in 1 .. n \/ k = n + 1
    OBVIOUS
  <2> QED
    BY <1>2, <1>3, <2>1
<1> QED
  BY <1>2, <1>3, <1>4 DEF row

(* The row of a session that is replaced, for the first time.              *)
LEMMA ReplaceReplaces ==
  ASSUME sessions \in Seq(Rows), OneSuccessor, NEW c \in Nat, Recheck(c), NEW rows,
         rows = [sessions EXCEPT ![c].ended = "replaced", ![c].successors = @ + 1]
  PROVE  /\ rows \in Seq(Rows) /\ Len(rows) = Len(sessions)
         /\ \A k \in 1 .. Len(sessions) :
              /\ Succeeded(rows[k])
              /\ k # c => rows[k] = sessions[k]
<1>1. \A k \in 1 .. Len(sessions) : sessions[k] \in Rows /\ Succeeded(sessions[k])
  BY DEF OneSuccessor, Succeeded
<1>2. c \in 1 .. Len(sessions) /\ sessions[c].ended = "no"
  BY DEF Recheck, Replaceable, Known
<1> DEFINE row == [sessions[c] EXCEPT !.ended = "replaced", !.successors = 1]
<1>3. sessions[c] \in Rows /\ sessions[c].successors = 0
  BY <1>1, <1>2 DEF Succeeded
<1>4. sessions[c].successors + 1 = 1
  BY <1>3
<1>5. row \in Rows
  BY <1>3 DEF Rows
<1>6. Succeeded(row)
  BY <1>3 DEF Rows, Succeeded
<1>7. rows = [sessions EXCEPT ![c] = row]
  <2>1. rows = [sessions EXCEPT ![c] = [sessions[c] EXCEPT !.ended = "replaced",
                                          !.successors = sessions[c].successors + 1]]
    BY <1>2, <1>3 DEF Rows
  <2> QED
    BY <1>4, <2>1
<1> HIDE DEF row
<1>8. rows \in Seq(Rows) /\ Len(rows) = Len(sessions)
  BY <1>2, <1>5, <1>7
<1>9. rows[c] = row /\ \A k \in 1 .. Len(sessions) : k # c => rows[k] = sessions[k]
  <2>1. DOMAIN sessions = 1 .. Len(sessions)
    OBVIOUS
  <2> QED
    BY <1>2, <1>7, <2>1, Zenon
<1> QED
  BY <1>1, <1>6, <1>8, <1>9

-----------------------------------------------------------------------------
(* Every step preserves the invariant.                                     *)

LEMMA InitEstablishes == Init => SessionsInv
<1> SUFFICES ASSUME Init PROVE SessionsInv
  OBVIOUS
<1>1. /\ jar \in Nat /\ events \in Nat
      /\ sessions \in Seq(Rows) /\ Len(sessions) = 0
  BY DEF Init, NoCookie
<1>2. \A r \in requests :
        /\ r \in Requests /\ r.cookie = NoCookie /\ r.op = "me" /\ r.stage = "sent"
  <2>1. ASSUME NEW t \in Tabs
        PROVE  /\ Request(t, "me", NoUser) \in Requests
               /\ Request(t, "me", NoUser).cookie = NoCookie
               /\ Request(t, "me", NoUser).op = "me" /\ Request(t, "me", NoUser).stage = "sent"
    BY DEF Init, NoCookie, Request, Requests, Ops, Answers
  <2> QED
    BY <2>1 DEF Init
<1>3. TypeOK
  BY <1>1, <1>2 DEF Init, TypeOK, Statuses, Rows
<1>4. OneSuccessor /\ RequestsSound
  BY <1>1, <1>2 DEF OneSuccessor, RequestsSound
<1>5. CookiesKnown /\ TokensUnseen
  BY <1>1, <1>2 DEF Init, CookiesKnown, TokensUnseen, Presented, InFlight, NoCookie
<1> QED
  BY <1>3, <1>4, <1>5 DEF SessionsInv

(* What is left of a server's step once its requests are harmless or carry *)
(* a new cookie.                                                           *)
LEMMA InvAfterServer ==
  ASSUME SessionsInv, UNCHANGED <<launch, fresh, jar, view, user, events>>,
         sessions' \in Seq(Rows), \A k \in 1 .. Len(sessions') : Succeeded(sessions'[k]),
         requests' \subseteq Requests, RequestsSound', CookiesKnown', TokensUnseen'
  PROVE  SessionsInv'
<1>1. TypeOK'
  BY DEF SessionsInv, TypeOK, Rows
<1>2. OneSuccessor'
  BY DEF OneSuccessor, Succeeded
<1> QED
  BY <1>1, <1>2 DEF SessionsInv

(* A server's step that touches no session.                                *)
LEMMA ReadOnlyStep ==
  ASSUME SessionsInv, UNCHANGED <<launch, fresh, jar, view, user, events, sessions>>,
         \A q \in requests' : q \in requests \/ Harmless(q)
  PROVE  SessionsInv'
<1>1. TypeOK /\ RequestsSound /\ CookiesKnown /\ TokensUnseen /\ OneSuccessor
  BY DEF SessionsInv
<1>2. /\ requests' \subseteq Requests /\ RequestsSound'
      /\ Presented' \subseteq Presented /\ InFlight' \subseteq InFlight
  BY <1>1, HarmlessRequests
<1>3. sessions' = sessions /\ sessions \in Seq(Rows)
  BY <1>1 DEF TypeOK, Rows
<1>4. CookiesKnown' /\ TokensUnseen'
  BY <1>1, <1>2, <1>3, QuietStep
<1>5. \A k \in 1 .. Len(sessions') : Succeeded(sessions'[k])
  BY <1>1, <1>3 DEF OneSuccessor, Succeeded
<1> QED
  BY <1>2, <1>3, <1>4, <1>5, InvAfterServer

LEMMA CreateStep ==
  ASSUME SessionsInv, UNCHANGED <<launch, fresh, jar, view, user, events>>,
         NEW r \in requests, r.op = "login", r.stage \in {"sent", "read"},
         NEW rows \in Seq(Rows), Len(rows) = Len(sessions),
         \A k \in 1 .. Len(sessions) :
           /\ Succeeded(rows[k])
           /\ k \notin Presented => rows[k] = sessions[k],
         sessions' = Append(rows, Row(r.user)), Serve(r, "ok", r.user, Len(sessions) + 1)
  PROVE  SessionsInv'
<1>1. TypeOK /\ RequestsSound /\ CookiesKnown /\ TokensUnseen /\ OneSuccessor
  BY DEF SessionsInv
<1>2. r.user \in Users
  BY <1>1 DEF RequestsSound
<1>3. /\ sessions' \in Seq(Rows) /\ Len(sessions') = Len(sessions) + 1
      /\ sessions'[Len(sessions) + 1].ended = "no"
      /\ \A k \in 1 .. Len(sessions) : sessions'[k] = rows[k]
      /\ \A k \in 1 .. Len(sessions) + 1 : Succeeded(sessions'[k])
  BY <1>2, AppendCreates
<1>4. /\ requests' \subseteq Requests /\ RequestsSound'
      /\ Presented' \subseteq Presented
      /\ \E q : q.token = Len(sessions) + 1 /\ InFlight' \subseteq InFlight \cup {q}
  BY <1>1, ServeLogin
<1>5. \A c \in 1 .. Len(sessions) :
        c \notin Presented /\ sessions[c].ended = "no" => sessions'[c].ended = "no"
  BY <1>3
<1>6. CookiesKnown' /\ TokensUnseen'
  BY <1>1, <1>3, <1>4, <1>5, NewSessionStep
<1> QED
  BY <1>3, <1>4, <1>6, InvAfterServer

LEMMA ServerStepPreserves ==
  ASSUME SessionsInv, NEW r \in requests, ServerStep(r)
  PROVE  SessionsInv'
<1>1. /\ TypeOK /\ RequestsSound /\ CookiesKnown /\ TokensUnseen /\ OneSuccessor
      /\ UNCHANGED <<launch, fresh, jar, view, user, events>>
  BY DEF SessionsInv, ServerStep
<1>2. /\ r \in Requests /\ r.cookie \in Presented /\ r.cookie \in Nat
      /\ sessions \in Seq(Rows)
  BY <1>1 DEF TypeOK, Requests, Presented, Rows
<1>3. \A k \in 1 .. Len(sessions) : Succeeded(sessions[k])
  BY <1>1, <1>2 DEF OneSuccessor, Succeeded
<1>4. CASE ServeMe(r)
  <2>1. CASE Active(r.cookie)
    <3>1. sessions[r.cookie].user \in Users
      <4>1. r.cookie \in 1 .. Len(sessions)
        BY <1>2, <2>1 DEF Active, Known
      <4>2. sessions[r.cookie] \in Rows
        BY <1>2, <4>1
      <4> QED
        BY <4>2 DEF Rows
    <3>2. Serve(r, "ok", sessions[r.cookie].user, NoCookie) /\ r.op # "login"
      BY <1>4, <2>1 DEF ServeMe
    <3>3. \A q \in requests' : q \in requests \/ Harmless(q)
      <4> DEFINE u == sessions[r.cookie].user
      <4>1. u \in Users \cup {NoUser} /\ "ok" \in Answers /\ Serve(r, "ok", u, NoCookie)
        BY <3>1, <3>2 DEF Answers
      <4> HIDE DEF u
      <4> QED
        BY <1>1, <3>2, <4>1, ServeIsHarmless
    <3> QED
      BY <1>1, <1>4, <3>3, ReadOnlyStep DEF ServeMe
  <2>2. CASE ~ Active(r.cookie)
    <3>1. Serve(r, "required", NoUser, NoCookie)
      BY <1>4, <2>2 DEF ServeMe
    <3>2. \A q \in requests' : q \in requests \/ Harmless(q)
      BY <1>1, <3>1, ServeIsHarmless DEF Answers
    <3> QED
      BY <1>1, <1>4, <3>2, ReadOnlyStep DEF ServeMe
  <2> QED
    BY <2>1, <2>2
<1>5. CASE ServeCapability(r)
  <2> DEFINE answer == IF launch = Development THEN "ok" ELSE "required"
  <2>1. answer \in Answers /\ Serve(r, answer, NoUser, NoCookie) /\ r.op # "login"
    BY <1>5 DEF ServeCapability, Answers
  <2> HIDE DEF answer
  <2>2. \A q \in requests' : q \in requests \/ Harmless(q)
    BY <1>1, <2>1, ServeIsHarmless
  <2> QED
    BY <1>1, <1>5, <2>2, ReadOnlyStep DEF ServeCapability
<1>6. CASE ServeStaleLogin(r)
  <2>1. \A q \in requests' : q \in requests \/ Harmless(q)
    BY <1>1, <1>6, ServeIsHarmless DEF ServeStaleLogin, Answers
  <2> QED
    BY <1>1, <1>6, <2>1, ReadOnlyStep DEF ServeStaleLogin
<1>7. CASE ServeLogout(r)
  <2>1. Serve(r, "ok", NoUser, NoCookie) /\ r.op # "login" /\ sessions' = Revoke(r.cookie)
    BY <1>7 DEF ServeLogout
  <2>2. /\ sessions' \in Seq(Rows) /\ Len(sessions') = Len(sessions)
        /\ \A k \in 1 .. Len(sessions) :
             Succeeded(sessions'[k]) /\ (k # r.cookie => sessions'[k] = sessions[k])
    BY <1>1, <1>2, <2>1, RevokeRevokes
  <2>3. /\ requests' \subseteq Requests /\ RequestsSound'
        /\ Presented' \subseteq Presented /\ InFlight' \subseteq InFlight
    <3>1. \A q \in requests' : q \in requests \/ Harmless(q)
      BY <1>1, <2>1, ServeIsHarmless DEF Answers
    <3> QED
      BY <1>1, <3>1, HarmlessRequests
  <2>4. CookiesKnown' /\ TokensUnseen'
    BY <1>1, <1>2, <2>2, <2>3, QuietStep
  <2> QED
    BY <1>1, <2>2, <2>3, <2>4, InvAfterServer
<1>8. ASSUME r.op = "login", r.stage \in {"sent", "read"}, CreateSession(r)
      PROVE  SessionsInv'
  <2>1. /\ sessions' = Append(sessions, Row(r.user))
        /\ Serve(r, "ok", r.user, Len(sessions) + 1)
    BY <1>8 DEF CreateSession
  <2> QED
    BY <1>1, <1>2, <1>3, <1>8, <2>1, CreateStep
<1>9. ASSUME Serve(r, "conflict", NoUser, NoCookie), UNCHANGED sessions
      PROVE  SessionsInv'
  <2>1. \A q \in requests' : q \in requests \/ Harmless(q)
    BY <1>1, <1>9, ServeIsHarmless DEF Answers
  <2> QED
    BY <1>1, <1>9, <2>1, ReadOnlyStep
<1>10. CASE ReadSession(r)
  <2>1. CASE /\ requests' = (requests \ {r}) \cup {[r EXCEPT !.stage = "read"]}
             /\ UNCHANGED sessions
    <3> DEFINE q == [r EXCEPT !.stage = "read"]
    <3>1. q \in Requests /\ q.cookie = r.cookie /\ q.stage = "read" /\ q.user = r.user
      BY <1>2 DEF Requests
    <3>2. r.user \in Users
      BY <1>1, <1>10 DEF ReadSession, RequestsSound
    <3> HIDE DEF q
    <3>3. Harmless(q)
      BY <1>2, <3>1, <3>2 DEF Harmless
    <3>4. \A p \in requests' : p \in requests \/ Harmless(p)
      BY <2>1, <3>3 DEF q
    <3> QED
      BY <1>1, <2>1, <3>4, ReadOnlyStep
  <2> QED
    BY <1>8, <1>9, <1>10, <2>1 DEF ReadSession
<1>11. CASE ReplaceSession(r)
  <2>1. CASE Recheck(r.cookie)
    <3> DEFINE rows == [sessions EXCEPT ![r.cookie].ended = "replaced",
                                        ![r.cookie].successors = @ + 1]
    <3>1. /\ sessions' = Append(rows, Row(r.user))
          /\ Serve(r, "ok", r.user, Len(sessions) + 1)
      BY <1>11, <2>1 DEF ReplaceSession
    <3>2. /\ rows \in Seq(Rows) /\ Len(rows) = Len(sessions)
          /\ \A k \in 1 .. Len(sessions) :
               Succeeded(rows[k]) /\ (k # r.cookie => rows[k] = sessions[k])
      BY <1>1, <1>2, <2>1, ReplaceReplaces
    <3> HIDE DEF rows
    <3>3. r.op = "login" /\ r.stage \in {"sent", "read"}
      BY <1>11 DEF ReplaceSession
    <3> QED
      BY <1>1, <1>2, <3>1, <3>2, <3>3, CreateStep
  <2>2. CASE ~ Recheck(r.cookie)
    BY <1>8, <1>9, <1>11, <2>2 DEF ReplaceSession
  <2> QED
    BY <2>1, <2>2
<1> QED
  BY <1>4, <1>5, <1>6, <1>7, <1>10, <1>11 DEF ServerStep

(* The answer is there: its cookie is seen from now on.                    *)
LEMMA ArriveStep ==
  ASSUME SessionsInv, NEW r \in requests, Arrive(r)
  PROVE  SessionsInv'
<1>1. /\ TypeOK /\ RequestsSound /\ CookiesKnown /\ TokensUnseen /\ OneSuccessor
      /\ UNCHANGED <<launch, fresh, sessions, view, user, events>>
  BY DEF SessionsInv, Arrive
<1> DEFINE q == [r EXCEPT !.stage = "arrived"]
<1>2. /\ r \in Requests /\ r.stage = "served" /\ r.answer = "ok" /\ jar' = CookieOf(r)
      /\ requests' = (requests \ {r}) \cup {q} /\ Len(sessions) \in Nat
  BY <1>1 DEF TypeOK, RequestsSound, Arrive
<1>3. q \in Requests /\ q.cookie = r.cookie /\ q.stage = "arrived"
  BY <1>2 DEF Requests
<1> HIDE DEF q
<1>4. requests' \subseteq Requests /\ RequestsSound'
  BY <1>1, <1>2, <1>3 DEF TypeOK, RequestsSound
<1>5. InFlight' \subseteq InFlight \ {r}
  BY <1>2, <1>3 DEF InFlight
<1>6. Presented' \subseteq Presented \cup {CookieOf(r)}
  BY <1>2, <1>3 DEF Presented
<1>7. /\ CookieOf(r) \in 0 .. Len(sessions)
      /\ \A p \in InFlight \ {r} : p.token # CookieOf(r)
  <2>1. CASE r.op = "login"
    <3>1. r \in InFlight /\ CookieOf(r) = r.token
      BY <1>2, <2>1 DEF InFlight, CookieOf
    <3> QED
      BY <1>1, <1>2, <3>1 DEF TokensUnseen
  <2>2. CASE r.op # "login"
    BY <1>1, <1>2, <2>2 DEF CookieOf, NoCookie, TokensUnseen
  <2> QED
    BY <2>1, <2>2
<1>8. CookiesKnown'
  BY <1>1, <1>6, <1>7 DEF CookiesKnown
<1>9. TokensUnseen'
  BY <1>1, <1>5, <1>6, <1>7 DEF TokensUnseen
<1>10. TypeOK'
  BY <1>1, <1>2, <1>4, <1>7 DEF TypeOK
<1>11. OneSuccessor'
  BY <1>1 DEF OneSuccessor
<1> QED
  BY <1>4, <1>8, <1>9, <1>10, <1>11 DEF SessionsInv

(* A step of the browser: no session, and no cookie but those it has.      *)
LEMMA BrowserStep ==
  ASSUME SessionsInv, UNCHANGED <<launch, fresh, sessions>>, jar' \in {jar, NoCookie},
         view' \in [Tabs -> Statuses], user' \in [Tabs -> Users \cup {NoUser}], events' \in Nat,
         \A q \in requests' : q \in requests \/ Harmless(q)
  PROVE  SessionsInv'
<1>1. TypeOK /\ RequestsSound /\ CookiesKnown /\ TokensUnseen /\ OneSuccessor
  BY DEF SessionsInv
<1>2. requests' \subseteq Requests /\ RequestsSound' /\ InFlight' \subseteq InFlight
  BY <1>1 DEF TypeOK, RequestsSound, Harmless, InFlight
<1>3. Presented' \subseteq Presented \cup {NoCookie}
  BY DEF Presented, Harmless
<1>4. sessions' \in Seq(Rows) /\ sessions' = sessions
  BY <1>1 DEF TypeOK, Rows
<1>5. CookiesKnown' /\ TokensUnseen'
  BY <1>1, <1>2, <1>3, <1>4, QuietStep
<1>6. TypeOK'
  BY <1>1, <1>2 DEF TypeOK, NoCookie
<1>7. OneSuccessor'
  BY <1>1 DEF OneSuccessor
<1> QED
  BY <1>2, <1>5, <1>6, <1>7 DEF SessionsInv

LEMMA FailStep ==
  ASSUME SessionsInv, NEW r \in requests, Fail(r)
  PROVE  SessionsInv'
<1>1. TypeOK /\ RequestsSound
  BY DEF SessionsInv
<1> DEFINE q == [r EXCEPT !.stage = "arrived", !.answer = "failed"]
<1>2. r \in Requests /\ r.cookie \in Presented
  BY <1>1 DEF TypeOK, Presented
<1>3. q \in Requests /\ q.cookie = r.cookie /\ q.stage = "arrived"
  BY <1>2 DEF Requests, Answers
<1>4. \A p \in requests' : p \in requests \/ p = q \/ p \in Abandon({r})
  BY DEF Fail
<1> HIDE DEF q
<1>5. Harmless(q)
  BY <1>2, <1>3 DEF Harmless
<1>6. \A p \in requests' : p \in requests \/ Harmless(p)
  BY <1>1, <1>4, <1>5, AbandonIsHarmless
<1>7. events' \in Nat
  BY <1>1 DEF Fail, TypeOK
<1> QED
  BY <1>1, <1>6, <1>7, BrowserStep DEF Fail, TypeOK

LEMMA BeginIsHarmless ==
  ASSUME TypeOK, RequestsSound, NEW t \in Tabs, NEW op \in Ops, NEW u \in Users \cup {NoUser},
         op = "login" => u \in Users, Begin(t, op, u)
  PROVE  \A q \in requests' : q \in requests \/ Harmless(q)
<1>1. Awaited(t) \subseteq requests
  BY DEF Awaited
<1>2. \A q \in Abandon(Awaited(t)) : Harmless(q)
  BY <1>1, AbandonIsHarmless
<1>3. Harmless(Request(t, op, u))
  BY RequestIsHarmless
<1> QED
  BY <1>2, <1>3 DEF Begin

LEMMA ShowTyped ==
  ASSUME TypeOK, NEW t \in Tabs, NEW status \in Statuses, NEW u \in Users \cup {NoUser},
         Show(t, status, u)
  PROVE  view' \in [Tabs -> Statuses] /\ user' \in [Tabs -> Users \cup {NoUser}]
  BY DEF TypeOK, Show

LEMMA HandleStep ==
  ASSUME SessionsInv, NEW r \in requests, Handle(r)
  PROVE  SessionsInv'
<1>1. TypeOK /\ RequestsSound /\ UNCHANGED <<launch, fresh, sessions, jar, events>>
  BY DEF SessionsInv, Handle
<1>2. r \in Requests /\ r.tab \in Tabs /\ r.user \in Users \cup {NoUser}
  BY <1>1 DEF TypeOK, Requests
<1>3. /\ view' \in [Tabs -> Statuses] /\ user' \in [Tabs -> Users \cup {NoUser}]
  <2>1. \/ Keep
        \/ \E status \in Statuses, u \in Users \cup {NoUser} : Show(r.tab, status, u)
    BY <1>2 DEF Handle, AfterMe, AfterCapability, AfterLogin, AfterFocus, AfterLogout, Statuses
  <2>2. CASE Keep
    BY <1>1, <2>2 DEF Keep, TypeOK
  <2> QED
    BY <1>1, <1>2, <2>1, <2>2, ShowTyped
<1>4. \/ Done(r)
      \/ launch \in Users /\ Continue(r, "login", launch)
      \/ \E op \in {"me", "capability"} : Continue(r, op, NoUser)
  BY DEF Handle, AfterMe, AfterCapability, AfterLogin, AfterFocus, AfterLogout
<1>5. \A q \in requests' : q \in requests \/ Harmless(q)
  <2>1. CASE Done(r)
    BY <2>1 DEF Done
  <2>2. CASE launch \in Users /\ Continue(r, "login", launch)
    <3>1. Harmless(Request(r.tab, "login", launch))
      BY <1>1, <1>2, <2>2, RequestIsHarmless DEF Ops
    <3> QED
      BY <2>2, <3>1 DEF Continue
  <2>3. ASSUME NEW op \in {"me", "capability"}, Continue(r, op, NoUser)
        PROVE  \A q \in requests' : q \in requests \/ Harmless(q)
    <3>1. Harmless(Request(r.tab, op, NoUser))
      BY <1>1, <1>2, <2>3, RequestIsHarmless DEF Ops
    <3> QED
      BY <2>3, <3>1 DEF Continue
  <2> QED
    BY <1>4, <2>1, <2>2, <2>3
<1> QED
  BY <1>1, <1>3, <1>5, BrowserStep DEF TypeOK

LEMMA UserStepPreserves ==
  ASSUME SessionsInv, NEW t \in Tabs, UserStep(t)
  PROVE  SessionsInv'
<1>1. TypeOK /\ RequestsSound /\ UNCHANGED <<launch, fresh, sessions, jar>>
  BY DEF SessionsInv, UserStep, Focus, Retry, Logout, Reload, SelectUser, SelectAgain, Act
<1>2. events' \in Nat
  BY <1>1 DEF UserStep, Focus, Retry, Logout, Reload, SelectUser, SelectAgain, Act, TypeOK
<1>3. view' \in [Tabs -> Statuses] /\ user' \in [Tabs -> Users \cup {NoUser}]
  <2>1. \/ UNCHANGED <<view, user>>
        \/ \E status \in Statuses : Show(t, status, NoUser)
    BY DEF UserStep, Focus, Retry, Logout, Reload, SelectUser, SelectAgain, Keep, Statuses
  <2> QED
    BY <1>1, <2>1, ShowTyped DEF TypeOK
<1>4. \/ \E op \in Ops \ {"login"} : Begin(t, op, NoUser)
      \/ \E u \in Users : Begin(t, "login", u)
  BY DEF UserStep, Focus, Retry, Logout, Reload, SelectUser, SelectAgain, Ops
<1>5. \A q \in requests' : q \in requests \/ Harmless(q)
  BY <1>1, <1>4, BeginIsHarmless DEF Ops
<1> QED
  BY <1>1, <1>2, <1>3, <1>5, BrowserStep

LEMMA RunOutStep ==
  ASSUME SessionsInv, RunOut
  PROVE  SessionsInv'
<1>1. TypeOK /\ RequestsSound /\ CookiesKnown /\ TokensUnseen /\ OneSuccessor
  BY DEF SessionsInv
<1>2. sessions \in Seq(Rows) /\ UNCHANGED <<launch, jar, view, user, requests>>
  BY <1>1 DEF TypeOK, RunOut, Rows
<1>3. \A k \in 1 .. Len(sessions) : sessions[k] \in Rows /\ Succeeded(sessions[k])
  BY <1>1, <1>2 DEF OneSuccessor, Succeeded
<1>4. /\ sessions' \in Seq(Rows) /\ Len(sessions') = Len(sessions)
      /\ \A k \in 1 .. Len(sessions) :
           Succeeded(sessions'[k]) /\ sessions'[k].ended = sessions[k].ended
  <2>1. CASE UNCHANGED sessions
    BY <1>2, <1>3, <2>1
  <2>2. ASSUME NEW c \in DOMAIN sessions, sessions' = [sessions EXCEPT ![c].expired = TRUE]
        PROVE  /\ sessions' \in Seq(Rows) /\ Len(sessions') = Len(sessions)
               /\ \A k \in 1 .. Len(sessions) :
                    Succeeded(sessions'[k]) /\ sessions'[k].ended = sessions[k].ended
    <3> DEFINE row == [sessions[c] EXCEPT !.expired = TRUE]
    <3>1. c \in 1 .. Len(sessions)
      BY <1>2, <2>2
    <3>2. row \in Rows
      BY <1>3, <3>1 DEF Rows
    <3>3. row.ended = sessions[c].ended /\ row.successors = sessions[c].successors
      BY <1>3, <3>1 DEF Rows
    <3>4. Succeeded(row)
      BY <1>3, <3>1, <3>3 DEF Succeeded
    <3>5. sessions' = [sessions EXCEPT ![c] = row]
      BY <2>2
    <3> HIDE DEF row
    <3> QED
      BY <1>2, <1>3, <3>1, <3>2, <3>3, <3>4, <3>5
  <2>3. \/ UNCHANGED sessions
        \/ \E c \in DOMAIN sessions : sessions' = [sessions EXCEPT ![c].expired = TRUE]
    BY DEF RunOut
  <2> QED
    BY <2>1, <2>2, <2>3
<1>5. Presented' = Presented /\ InFlight' = InFlight /\ RequestsSound'
  BY <1>1, <1>2 DEF Presented, InFlight, RequestsSound
<1>6. CookiesKnown' /\ TokensUnseen'
  BY <1>1, <1>4, <1>5, QuietStep
<1>7. TypeOK'
  <2>1. fresh' = fresh \/ fresh' = FALSE
    BY DEF RunOut
  <2>2. events' = events + 1
    BY DEF RunOut
  <2>3. fresh' \in BOOLEAN
    BY <1>1, <2>1, Zenon DEF TypeOK
  <2>4. events' \in Nat
    BY <1>1, <2>2 DEF TypeOK
  <2> QED
    BY <1>1, <1>2, <1>4, <2>3, <2>4 DEF TypeOK, Rows
<1>8. OneSuccessor'
  BY <1>4 DEF OneSuccessor, Succeeded
<1> QED
  BY <1>5, <1>6, <1>7, <1>8 DEF SessionsInv

LEMMA StepPreserves == SessionsInv /\ [Next]_vars => SessionsInv'
<1> SUFFICES ASSUME SessionsInv, [Next]_vars PROVE SessionsInv'
  OBVIOUS
<1>1. CASE CookieRunsOut
  BY <1>1, BrowserStep DEF CookieRunsOut, SessionsInv, TypeOK
<1>2. CASE UNCHANGED vars
  BY <1>2, BrowserStep DEF vars, SessionsInv, TypeOK
<1> QED
  BY <1>1, <1>2, ServerStepPreserves, ArriveStep, FailStep, HandleStep, UserStepPreserves,
     RunOutStep DEF Next

(* The invariant holds in every reachable state.                           *)
THEOREM InvariantHolds == Spec => []SessionsInv
<1> QED
  BY InitEstablishes, StepPreserves, PTL DEF Spec

(* Every variable keeps its type: a tab always shows one of its five       *)
(* states, and no answer the protocol does not know is ever handled.       *)
THEOREM TypeCorrect == Spec => []TypeOK
<1>1. SessionsInv => TypeOK
  BY DEF SessionsInv
<1> QED
  BY <1>1, InvariantHolds, PTL

(* A session has a successor exactly if it has been replaced, and then     *)
(* one, however many logins read it before one of them took the row lock   *)
(* (replaceSession checks again under the lock).                           *)
THEOREM OneSuccessorHolds == Spec => []OneSuccessor
<1>1. SessionsInv => OneSuccessor
  BY DEF SessionsInv
<1> QED
  BY <1>1, InvariantHolds, PTL

(* No sign-out and no other login ends the session an answer is bringing   *)
(* to the browser, for any number of tabs that share the jar: whoever ends *)
(* a session presents its cookie, and this one nobody has seen.            *)
THEOREM AnswersCarryLiveSessionsHolds == Spec => []AnswersCarryLiveSessions
<1>1. SessionsInv => AnswersCarryLiveSessions
  BY DEF SessionsInv, TypeOK, TokensUnseen, InFlight, AnswersCarryLiveSessions, Known
<1> QED
  BY <1>1, InvariantHolds, PTL

=============================================================================
