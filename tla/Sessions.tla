------------------------------ MODULE Sessions -------------------------------
(***************************************************************************)
(* Signing in and out (apps/api/src/auth and the App component of          *)
(* apps/web).  Several tabs share one cookie jar.  A tab has at most one   *)
(* request it waits for; starting another aborts it, but what it asked of  *)
(* the server may be done all the same.  A login with a cookie replaces    *)
(* the session of the cookie, in two steps: an unlocked read and a read    *)
(* under the row lock.                                                     *)
(***************************************************************************)
EXTENDS Naturals, FiniteSets, Sequences

CONSTANTS
  Tabs,       \* tabs of the browser
  Users,
  MaxEvents   \* bound on sign-outs, reloads, repeated clicks, lifetimes that end
              \* and requests that fail, together

ASSUME SessionsAssumption == MaxEvents \in Nat

NoUser   == "no user"
NoCookie == 0

(* How the application was opened: with init data of a Telegram account, in *)
(* a browser against a development server, or in a browser elsewhere.       *)
Development == "development"
Browser     == "browser"

VARIABLES
  launch,     \* how it was opened: the account, Development or Browser
  fresh,      \* are the init data still young enough for the server?
  sessions,   \* AuthSession rows in the order of creation; a cookie is an index
  jar,        \* the session cookie of the browser
  view,       \* tab -> AuthState.status
  user,       \* tab -> the user it shows as signed in
  requests,   \* requests the server has not finished or a tab waits for
  events

vars == <<launch, fresh, sessions, jar, view, user, requests, events>>

Ops == {"me", "focus", "capability", "login", "logout"}

(* "ok" carries the user; "required" is 401, "conflict" 409, "failed" any   *)
(* other error or none at all.                                             *)
Answers == {"ok", "required", "conflict", "failed"}

(* A tab waits for the requests it has not aborted.  "read": the session   *)
(* has been read without the lock.  "served": the answer sets a cookie.    *)
(* "arrived": what is left to run is the tab's code.                       *)
Requests ==
  [tab : Tabs, waited : BOOLEAN, op : Ops, user : Users \cup {NoUser}, cookie : Nat,
   stage : {"sent", "read", "served", "arrived"}, answer : Answers, token : Nat]

Awaited(t) == {r \in requests : r.tab = t /\ r.waited}

(* Only logins and sign-outs do anything on the server.                    *)
Aborted(r)  == [r EXCEPT !.waited = FALSE]
Abandon(rs) == {Aborted(r) : r \in {q \in rs : q.op \in {"login", "logout"}
                                               /\ q.stage \in {"sent", "read"}}}

Request(t, op, u) ==
  [tab |-> t, waited |-> TRUE, op |-> op, user |-> u, cookie |-> jar,
   stage |-> "sent", answer |-> "failed", token |-> NoCookie]

(* beginRequest aborts what the tab waits for.                             *)
Begin(t, op, u) ==
  requests' = (requests \ Awaited(t)) \cup Abandon(Awaited(t)) \cup {Request(t, op, u)}

(* The next request of the same chain: no beginRequest in between.          *)
Continue(r, op, u) == requests' = (requests \ {r}) \cup {Request(r.tab, op, u)}
Done(r)            == requests' = requests \ {r}

Init ==
  /\ launch \in Users \cup {Development, Browser}
  /\ fresh = TRUE /\ sessions = << >> /\ jar = NoCookie
  /\ view = [t \in Tabs |-> "booting"] /\ user = [t \in Tabs |-> NoUser]
  /\ requests = {Request(t, "me", NoUser) : t \in Tabs}
  /\ events = 0

-----------------------------------------------------------------------------
(* The server.                                                             *)

(* successors is history: how many sessions were created in its place.      *)
Row(u) == [user |-> u, ended |-> "no", expired |-> FALSE, successors |-> 0]

Known(c)  == c \in DOMAIN sessions
Active(c) == Known(c) /\ sessions[c].ended = "no" /\ ~sessions[c].expired

(* An answer nobody waits for is gone.  Only the good answers to a login    *)
(* and to a sign-out carry a cookie.                                       *)
Serve(r, answer, u, token) ==
  LET stage == IF r.op \in {"login", "logout"} /\ answer = "ok" THEN "served" ELSE "arrived" IN
  requests' = (requests \ {r}) \cup
    IF r.waited
    THEN {[r EXCEPT !.stage = stage, !.answer = answer, !.user = u, !.token = token]}
    ELSE {}

ServeMe(r) ==
  /\ r.op \in {"me", "focus"} /\ r.stage = "sent"
  /\ IF Active(r.cookie) THEN Serve(r, "ok", sessions[r.cookie].user, NoCookie)
                         ELSE Serve(r, "required", NoUser, NoCookie)
  /\ UNCHANGED sessions

ServeCapability(r) ==
  /\ r.op = "capability" /\ r.stage = "sent"
  /\ Serve(r, IF launch = Development THEN "ok" ELSE "required", NoUser, NoCookie)
  /\ UNCHANGED sessions

(* Faulty Revoke: every session of the user is revoked.                     *)
RevokeAllOfUser(c) ==
  [k \in DOMAIN sessions |->
    IF Known(c) /\ sessions[k].user = sessions[c].user /\ sessions[k].ended = "no"
    THEN [sessions[k] EXCEPT !.ended = "revoked"] ELSE sessions[k]]

(* revokeSession: the one row of the token, if it is not revoked yet.       *)
Revoke(c) ==
  IF Known(c) /\ sessions[c].ended = "no"
  THEN [sessions EXCEPT ![c].ended = "revoked"] ELSE sessions

ServeLogout(r) ==
  /\ r.op = "logout" /\ r.stage = "sent"
  /\ sessions' = Revoke(r.cookie)
  /\ Serve(r, "ok", NoUser, NoCookie)

(* Init data the server takes for too old are refused before anything.      *)
ServeStaleLogin(r) ==
  /\ r.op = "login" /\ r.stage = "sent" /\ launch \in Users /\ ~fresh
  /\ Serve(r, "required", NoUser, NoCookie)
  /\ UNCHANGED sessions

CreateSession(r) ==
  /\ sessions' = Append(sessions, Row(r.user))
  /\ Serve(r, "ok", r.user, Len(sessions) + 1)

(* The checks replaceSession makes twice.  The clock was read before both:  *)
(* a session that runs out in between is still replaced.                    *)
Conflict(c)    == Known(c) /\ sessions[c].ended = "replaced"
Replaceable(c) == Known(c) /\ sessions[c].ended = "no"

ReadSession(r) ==
  /\ r.op = "login" /\ r.stage = "sent" /\ (launch \in Users => fresh)
  /\ \/ Conflict(r.cookie) /\ Serve(r, "conflict", NoUser, NoCookie) /\ UNCHANGED sessions
     \/ /\ ~Conflict(r.cookie) /\ ~Active(r.cookie)
        /\ CreateSession(r)
     \/ /\ Active(r.cookie)
        /\ requests' = (requests \ {r}) \cup {[r EXCEPT !.stage = "read"]}
        /\ UNCHANGED sessions

(* Faulty Recheck: what was read before the lock is taken for granted.      *)
RecheckNothing(c) == TRUE

(* What the second read must find for the session to be replaced.           *)
Recheck(c) == Replaceable(c)

ReplaceSession(r) ==
  /\ r.op = "login" /\ r.stage = "read"
  /\ \/ /\ Recheck(r.cookie)
        /\ sessions' = Append([sessions EXCEPT ![r.cookie].ended = "replaced",
                                               ![r.cookie].successors = @ + 1], Row(r.user))
        /\ Serve(r, "ok", r.user, Len(sessions) + 1)
     \/ /\ ~Recheck(r.cookie) /\ Conflict(r.cookie)
        /\ Serve(r, "conflict", NoUser, NoCookie) /\ UNCHANGED sessions
     \/ /\ ~Recheck(r.cookie) /\ ~Conflict(r.cookie)
        /\ CreateSession(r)

ServerStep(r) ==
  /\ \/ ServeMe(r) \/ ServeCapability(r) \/ ServeLogout(r)
     \/ ServeStaleLogin(r) \/ ReadSession(r) \/ ReplaceSession(r)
  /\ UNCHANGED <<launch, fresh, jar, view, user, events>>

(* thirty days pass for a session, or too many seconds for the init data.   *)
RunOut ==
  /\ events < MaxEvents /\ events' = events + 1
  /\ \/ /\ \E c \in DOMAIN sessions :
             ~sessions[c].expired /\ sessions' = [sessions EXCEPT ![c].expired = TRUE]
        /\ UNCHANGED fresh
     \/ fresh /\ launch \in Users /\ fresh' = FALSE /\ UNCHANGED sessions
  /\ UNCHANGED <<launch, jar, view, user, requests>>

-----------------------------------------------------------------------------
(* The browser.                                                            *)

(* Set-Cookie of an answer: a login sets the new session, a sign-out clears *)
(* the jar whatever is in it by now.                                       *)
CookieOf(r) == IF r.op = "login" THEN r.token ELSE NoCookie

Arrive(r) ==
  /\ r.stage = "served"
  /\ jar' = CookieOf(r)
  /\ requests' = (requests \ {r}) \cup {[r EXCEPT !.stage = "arrived"]}
  /\ UNCHANGED <<launch, fresh, sessions, view, user, events>>

(* The network or the server fails: the tab learns nothing, and what was    *)
(* asked may or may not be done.                                           *)
Fail(r) ==
  /\ r.waited /\ r.stage \in {"sent", "read", "served"}
  /\ events < MaxEvents /\ events' = events + 1
  /\ \E left \in {{}, Abandon({r})} :
       requests' = (requests \ {r}) \cup left \cup
                   {[r EXCEPT !.stage = "arrived", !.answer = "failed"]}
  /\ UNCHANGED <<launch, fresh, sessions, jar, view, user>>

(* The cookie's lifetime ends no earlier than its session's.                *)
CookieRunsOut ==
  /\ Known(jar) /\ sessions[jar].expired
  /\ jar' = NoCookie
  /\ UNCHANGED <<launch, fresh, sessions, view, user, requests, events>>

-----------------------------------------------------------------------------
(* The application in a tab.                                               *)

Show(t, status, u) ==
  /\ view' = [view EXCEPT ![t] = status] /\ user' = [user EXCEPT ![t] = u]
Keep == UNCHANGED <<view, user>>

(* Faulty AfterMe: an answer that is neither is thrown away.                *)
AfterMeOrNothing(r) ==
  /\ r.op = "me"
  /\ \/ r.answer = "ok" /\ Show(r.tab, "authenticated", r.user) /\ Done(r)
     \/ /\ r.answer = "required" /\ launch \in Users
        /\ Show(r.tab, "authenticating", NoUser) /\ Continue(r, "login", launch)
     \/ r.answer = "required" /\ launch \notin Users /\ Keep /\ Continue(r, "capability", NoUser)
     \/ r.answer = "failed" /\ Keep /\ Done(r)

(* bootstrapAuth after /api/me: signed in, or on to a login with the init   *)
(* data, or to the choice of a development user.                            *)
AfterMe(r) ==
  /\ r.op = "me"
  /\ \/ r.answer = "ok" /\ Show(r.tab, "authenticated", r.user) /\ Done(r)
     \/ /\ r.answer = "required" /\ launch \in Users
        /\ Show(r.tab, "authenticating", NoUser) /\ Continue(r, "login", launch)
     \/ /\ r.answer = "required" /\ launch \notin Users
        /\ Keep /\ Continue(r, "capability", NoUser)
     \/ r.answer = "failed" /\ Show(r.tab, "error", NoUser) /\ Done(r)

AfterCapability(r) ==
  /\ r.op = "capability"
  /\ Show(r.tab, IF r.answer = "ok" THEN "choose" ELSE "error", NoUser)
  /\ Done(r)

AfterLogin(r) ==
  /\ r.op = "login"
  /\ IF r.answer = "ok" THEN Show(r.tab, "authenticated", r.user)
                        ELSE Show(r.tab, "error", NoUser)
  /\ Done(r)

(* A focused tab asks who it is, and ignores an answer that is an error.    *)
AfterFocus(r) ==
  /\ r.op = "focus"
  /\ IF r.answer = "ok" THEN Show(r.tab, "authenticated", r.user) ELSE Keep
  /\ Done(r)

AfterLogout(r) ==
  /\ r.op = "logout"
  /\ IF r.answer = "ok"
     THEN Show(r.tab, "booting", NoUser) /\ Continue(r, "me", NoUser)
     ELSE Show(r.tab, "error", NoUser) /\ Done(r)

Handle(r) ==
  /\ r.stage = "arrived" /\ r.waited
  /\ AfterMe(r) \/ AfterCapability(r) \/ AfterLogin(r) \/ AfterFocus(r) \/ AfterLogout(r)
  /\ UNCHANGED <<launch, fresh, sessions, jar, events>>

Focus(t) ==
  /\ view[t] = "authenticated" /\ Begin(t, "focus", NoUser)
  /\ UNCHANGED <<launch, fresh, sessions, jar, view, user, events>>

Retry(t) ==
  /\ view[t] = "error" /\ Show(t, "booting", NoUser) /\ Begin(t, "me", NoUser)
  /\ UNCHANGED <<launch, fresh, sessions, jar, events>>

Act == events < MaxEvents /\ events' = events + 1 /\ UNCHANGED <<launch, fresh, sessions, jar>>

SelectUser(t, u) ==
  /\ view[t] = "choose" /\ Show(t, "authenticating", NoUser) /\ Begin(t, "login", u)
  /\ UNCHANGED <<launch, fresh, sessions, jar, events>>

(* A second click before the choice is taken away.                          *)
SelectAgain(t, u) ==
  /\ launch = Development /\ view[t] = "authenticating"
  /\ \E r \in Awaited(t) : r.op = "login" /\ r.stage = "sent"
  /\ Keep /\ Begin(t, "login", u) /\ Act

Logout(t) ==
  /\ view[t] = "authenticated"
  /\ Show(t, "authenticating", NoUser) /\ Begin(t, "logout", NoUser) /\ Act

(* The application is closed and opened again in the tab.                   *)
Reload(t) == Show(t, "booting", NoUser) /\ Begin(t, "me", NoUser) /\ Act

UserStep(t) ==
  \/ Focus(t) \/ Retry(t) \/ Logout(t) \/ Reload(t) \/ \E u \in Users : SelectUser(t, u) \/ SelectAgain(t, u)

Next ==
  \/ \E r \in requests : ServerStep(r) \/ Arrive(r) \/ Fail(r) \/ Handle(r)
  \/ \E t \in Tabs : UserStep(t)
  \/ RunOut \/ CookieRunsOut

Spec == Init /\ [][Next]_vars

Progress(t) == \E r \in Awaited(t) : ServerStep(r) \/ Arrive(r) \/ Handle(r)

(* Requests are answered (or fail), and tabs run their callbacks; a user    *)
(* who sees the error presses the button it offers.                         *)
FairSpec == Spec /\ \A t \in Tabs : WF_vars(Progress(t)) /\ WF_vars(Retry(t))
-----------------------------------------------------------------------------
(* Properties.                                                             *)

Statuses == {"booting", "authenticating", "authenticated", "choose", "error"}

(* Sessions is a set of rows, cookies are tokens that were given out.       *)
TypeOK ==
  /\ launch \in Users \cup {Development, Browser} /\ fresh \in BOOLEAN
  /\ sessions \in Seq([user : Users, ended : {"no", "revoked", "replaced"},
                       expired : BOOLEAN, successors : Nat])
  /\ jar \in Nat /\ view \in [Tabs -> Statuses] /\ user \in [Tabs -> Users \cup {NoUser}]
  /\ requests \subseteq Requests /\ events \in Nat

(* However many logins present a cookie at the same time, its session is    *)
(* replaced once: the others find out under the lock (replaceSession).      *)
OneSuccessor ==
  \A c \in DOMAIN sessions :
    sessions[c].successors = IF sessions[c].ended = "replaced" THEN 1 ELSE 0

(* A session whose cookie is still on its way to the browser has been ended *)
(* by nobody: not by the sign-out of another tab, nor by another login.     *)
AnswersCarryLiveSessions ==
  \A r \in requests :
    r.op = "login" /\ r.stage = "served" /\ r.answer = "ok" =>
      Known(r.token) /\ sessions[r.token].ended = "no"

(* No tab shows the spinner for ever.                                       *)
SpinnerEnds ==
  \A t \in Tabs : view[t] \in {"booting", "authenticating"} ~>
                 view[t] \notin {"booting", "authenticating"}

(* The design: a login without a valid current cookie creates an            *)
(* independent session; so a tab of the Telegram application, with young    *)
(* init data, gets past the error its user keeps retrying.                  *)
LoginRecovers ==
  \A t \in Tabs : launch \in Users /\ view[t] = "error" ~> view[t] = "authenticated" \/ ~fresh
=============================================================================
