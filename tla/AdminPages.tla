----------------------------- MODULE AdminPages -----------------------------
(***************************************************************************)
(* The pages of one browser (views/admin/static/admin.js) over the         *)
(* sessions of the server: tabs that share the cookies, and in each tab    *)
(* calls of the API that share one refresh of the session.  A request      *)
(* leaves with the cookies of that moment, is served later, and its answer *)
(* arrives later still, with the cookies it sets; a request or an answer   *)
(* may be lost.  Scripts run between awaits in one step.  A pair of tokens *)
(* is named by its row of admin_sessions, a CSRF token by its family.      *)
(***************************************************************************)
EXTENDS AdminSessions

CONSTANTS Tabs, Jobs,     \* tabs, and the calls that may be under way at once
          TabOf,          \* job -> the tab it runs in
          MaxDeeds,       \* bound on what the user does
          MaxLosses       \* bound on what the network loses

ASSUME PagesAssumption ==
    /\ TabOf \in [Jobs -> Tabs] /\ Tabs \cap Jobs = {}
    /\ {MaxDeeds, MaxLosses} \subseteq Nat

VARIABLES jar,       \* the cookies: rows of the access and the refresh token
          shows,     \* tab -> what is loaded in it
          csrf,      \* tab -> family of the token it knows, 0 for null
          asks,      \* job -> state of api(), or Rest
          wire,      \* tab or job -> its request or the answer to it, or Free
          deeds,     \* what the user has done so far
          history    \* what the properties are about

pageVars == <<jar, shows, csrf, asks, wire, deeds, history>>

Rest == [what |-> "rest"]
Free == [what |-> "free"]
NoCookies == [at |-> 0, rt |-> 0]

Senders == Tabs \cup Jobs
HomeOf(s) == IF s \in Jobs THEN TabOf[s] ELSE s
JobsOf(t) == {j \in Jobs : TabOf[j] = t}

(* rawFetch.                                                               *)
Request(what, cookies, token) ==
    [what |-> what, at |-> cookies.at, rt |-> cookies.rt, csrf |-> token,
     status |-> "sent", row |-> 0, family |-> 0, gone |-> FALSE]

Pending(s, what) == wire[s].what = what /\ wire[s].status = "sent"
Answered(s) == wire[s] # Free /\ wire[s].status # "sent" /\ ~wire[s].gone

----------------------------------------------------------------------------
(* The server.  What it answers to a document that was left reaches nobody. *)
Answers(s, status, row, family) ==
    wire' = [wire EXCEPT ![s] =
                IF wire[s].gone THEN Free
                ELSE [wire[s] EXCEPT !.status = status, !.row = row, !.family = family]]

(* requireAccess, requirePage: purged rows are of no family.               *)
Enters(at) == at \in DOMAIN rows /\ AccessValid(at)

(* requireCsrf: asked of the methods that change something.                *)
Trusted(m) == m.what = "change" => m.csrf = rows[m.at].family

Served(s, family) ==
    history' = [history EXCEPT
        !.done = [j \in Jobs |-> IF j = s /\ wire[s].what = "change" THEN @[j] + 1 ELSE @[j]],
        !.overheard = @ \/ family \in history.out]

ServeProtected(s) ==
    LET m == wire[s]
    IN  /\ \E what \in {"change", "me", "page"} : Pending(s, what)
        /\ IF Enters(m.at) /\ Trusted(m)
           THEN /\ Answers(s, "ok", m.at, rows[m.at].family)
                /\ Served(s, rows[m.at].family)
           ELSE /\ Answers(s, IF Enters(m.at) THEN "403" ELSE "401", 0, 0)
                /\ UNCHANGED history
        /\ UNCHANGED <<vars, jar, shows, csrf, asks, deeds>>

(* POST /api/auth/refresh.                                                 *)
ServeRefresh(s) ==
    LET i == wire[s].rt
        known == i \in DOMAIN rows /\ ~rows[i].revoked
        replaced == known /\ rows[i].replacedBy # 0
        reused == replaced /\ now - rows[i].replacedAt > Grace
        rotates == known /\ ~replaced /\ Usable(i)
    IN  /\ Pending(s, "refresh")
        /\ IF reused \/ (known /\ ~replaced) THEN Refresh(i) ELSE UNCHANGED vars
        /\ IF rotates THEN Answers(s, "ok", lastId + 1, rows[i].family)
           ELSE Answers(s, IF replaced /\ ~reused THEN "409" ELSE "401", 0, 0)
        /\ history' = [history EXCEPT !.theft = @ \/ reused]
        /\ UNCHANGED <<jar, shows, csrf, asks, deeds>>

(* POST /api/auth/login with the right password of some administrator.     *)
ServeLogin(s) ==
    /\ Pending(s, "login") /\ Room
    /\ \E a \in Admins : Issue([login |-> a])
    /\ Answers(s, "ok", lastId + 1, lastId + 1)
    /\ UNCHANGED <<now, failures, users, inFlight, calls, cli, jar, shows, csrf, asks,
                   deeds, history>>

(* POST /api/auth/logout: with unknown cookies it only clears them.        *)
ServeLogout(s) ==
    LET m == wire[s]
    IN  /\ Pending(s, "logout")
        /\ IF m.rt \in DOMAIN rows
           THEN /\ Logout(m.at, m.rt)
                /\ history' = [history EXCEPT !.out = @ \cup {rows[m.rt].family}]
           ELSE UNCHANGED <<vars, history>>
        /\ Answers(s, "ok", 0, 0)
        /\ UNCHANGED <<jar, shows, csrf, asks, deeds>>

(* No connection, before or after the server did its part; of a refresh    *)
(* and a login also any other failure (429, 503).                          *)
Lost(s) ==
    /\ wire[s] # Free /\ wire[s].status # "lost" /\ history.losses < MaxLosses
    /\ Answers(s, "lost", wire[s].row, wire[s].family)
    /\ history' = [history EXCEPT !.losses = @ + 1, !.late = @ \/ wire[s].what = "refresh"]
    /\ UNCHANGED <<vars, jar, shows, csrf, asks, deeds>>

(* A refresh that is on its way for long is what the grace cannot cover.   *)
TimePasses ==
    /\ Tick
    /\ history' = [history EXCEPT !.late = @ \/ \E s \in Senders : wire[s].what = "refresh"]
    /\ UNCHANGED <<jar, shows, csrf, asks, wire, deeds>>

----------------------------------------------------------------------------
(* setAuthCookies, clearAuthCookies, when the answer m arrives.            *)
JarAfter(m) ==
    IF m.status = "ok" /\ m.what \in {"refresh", "login"} THEN [at |-> m.row, rt |-> m.row]
    ELSE IF <<m.what, m.status>> \in {<<"refresh", "401">>, <<"logout", "ok">>}
    THEN NoCookies
    ELSE jar

(* The tab loads another document: nothing of the old one goes on, but     *)
(* what its calls have sent may still be served.                           *)
Leave(t, document, first) ==
    /\ shows' = [shows EXCEPT ![t] = document]
    /\ csrf' = [csrf EXCEPT ![t] = 0]
    /\ asks' = [j \in Jobs |-> IF TabOf[j] = t THEN Rest ELSE asks[j]]
    /\ wire' = [s \in Senders |->
                   IF s = t THEN first
                   ELSE IF HomeOf(s) # t \/ wire[s] = Free THEN wire[s]
                   ELSE IF wire[s].status = "sent" THEN [wire[s] EXCEPT !.gone = TRUE]
                   ELSE Free]
    /\ history' = [history EXCEPT !.late = @ \/
                      /\ shows[t] \in {"app", "loading"} /\ wire[t].what = "refresh"
                      /\ wire[t].status \in {"sent", "ok"}]

Opens(t, cookies) == Leave(t, "opening", Request("page", cookies, 0))

(* redirectToLogin: what awaits it awaits for ever.                        *)
Goodbye(t) == Leave(t, "login", Free)

----------------------------------------------------------------------------
(* api(): a call, its loadMe after a 403, and what it has tried already.   *)
Call(what) == [what |-> what, nested |-> FALSE, waits |-> FALSE,
               refreshed |-> FALSE, meRefreshed |-> FALSE, csrfRetried |-> FALSE]

Sends(a) == IF a.nested THEN "me" ELSE a.what

Asks(j, a) == asks' = [asks EXCEPT ![j] = a]

Deed(j, what) ==
    /\ shows[TabOf[j]] = "app" /\ asks[j] = Rest /\ wire[j] = Free
    /\ deeds < MaxDeeds /\ deeds' = deeds + 1
    /\ Asks(j, Call(what))
    /\ wire' = [wire EXCEPT ![j] = Request(what, jar, csrf[TabOf[j]])]
    /\ history' = [history EXCEPT !.done[j] = 0]
    /\ UNCHANGED <<vars, jar, shows, csrf>>

(* Defect: a call is repeated when the connection broke, too. *)
RecoverableAny(status) == status \in {"401", "lost"}

(* The answers after which the session is refreshed and the call repeated. *)
Recoverable(status) == status = "401"

Tried(a) == IF a.nested THEN a.meRefreshed ELSE a.refreshed

(* 401: the first time the call awaits the refresh of the tab, which it    *)
(* starts when none is under way; the second time the page goes.           *)
Recovers(j) ==
    LET t == TabOf[j]  a == asks[j]
    IN  /\ Answered(j) /\ a.what # "logout" /\ Recoverable(wire[j].status)
        /\ IF Tried(a)
           THEN Goodbye(t)
           ELSE /\ Asks(j, IF a.nested THEN [a EXCEPT !.waits = TRUE, !.meRefreshed = TRUE]
                           ELSE [a EXCEPT !.waits = TRUE, !.refreshed = TRUE])
                /\ wire' = [wire EXCEPT ![j] = Free,
                               ![t] = IF @ = Free THEN Request("refresh", jar, 0) ELSE @]
                /\ UNCHANGED <<shows, csrf, history>>
        /\ UNCHANGED <<vars, jar, deeds>>

(* 403: the session changed in another tab; loadMe tells its token.        *)
Distrusted(j) ==
    /\ Answered(j) /\ wire[j].status = "403" /\ ~asks[j].csrfRetried
    /\ Asks(j, [asks[j] EXCEPT !.csrfRetried = TRUE, !.nested = TRUE])
    /\ wire' = [wire EXCEPT ![j] = Request("me", jar, 0)]
    /\ UNCHANGED <<vars, jar, shows, csrf, deeds, history>>

Told(j) ==
    LET t == TabOf[j]
    IN  /\ Answered(j) /\ wire[j].status = "ok" /\ Sends(asks[j]) = "me"
        /\ csrf' = [csrf EXCEPT ![t] = wire[j].family]
        /\ IF asks[j].nested
           THEN /\ Asks(j, [asks[j] EXCEPT !.nested = FALSE])
                /\ wire' = [wire EXCEPT ![j] = Request(asks[j].what, jar, wire[j].family)]
                /\ UNCHANGED shows
           ELSE /\ Asks(j, Rest)
                /\ wire' = [wire EXCEPT ![j] = Free]
                /\ shows' = [shows EXCEPT ![t] = "app"]
        /\ UNCHANGED <<vars, jar, deeds, history>>

(* An error of start() leaves a page without handlers.                     *)
ShowsAfter(failed) ==
    [t \in Tabs |-> IF \E j \in failed : TabOf[j] = t /\ asks[j].what = "me"
                    THEN "dead" ELSE shows[t]]

Ends(j) ==
    /\ Answered(j) /\ asks[j].what # "logout"
    /\ \/ wire[j].status = "ok" /\ Sends(asks[j]) = "change" /\ UNCHANGED shows
       \/ /\ wire[j].status = "lost" \/ (wire[j].status = "403" /\ asks[j].csrfRetried)
          /\ ~Recoverable(wire[j].status)
          /\ shows' = ShowsAfter({j})
    /\ Asks(j, Rest)
    /\ wire' = [wire EXCEPT ![j] = Free]
    /\ UNCHANGED <<vars, jar, csrf, deeds, history>>

(* The handler of the logout button leaves, whatever the answer.           *)
LogoutEnds(j) ==
    /\ Answered(j) /\ asks[j].what = "logout"
    /\ jar' = JarAfter(wire[j])
    /\ Goodbye(TabOf[j])
    /\ UNCHANGED <<vars, deeds>>

----------------------------------------------------------------------------
(* Defect: the refresh wakes the calls, not the loadMe inside a call. *)
AwaitersOuter(t) == {j \in JobsOf(t) : asks[j] # Rest /\ asks[j].waits /\ ~asks[j].nested}

(* refreshSession: those that await the promise of the tab.                *)
Awaiters(t) == {j \in JobsOf(t) : asks[j] # Rest /\ asks[j].waits}

(* The promise is fulfilled: every call that awaits it is sent again.      *)
Resumes(t, cookies, token) ==
    /\ csrf' = [csrf EXCEPT ![t] = token]
    /\ asks' = [j \in Jobs |->
                   IF j \in Awaiters(t) THEN [asks[j] EXCEPT !.waits = FALSE] ELSE asks[j]]
    /\ wire' = [s \in Senders |->
                   IF s = t THEN Free
                   ELSE IF s \in Awaiters(t) THEN Request(Sends(asks[s]), cookies, token)
                   ELSE wire[s]]
    /\ UNCHANGED <<shows, history>>

Refreshed(t) ==
    LET m == wire[t]
    IN  /\ shows[t] \in {"app", "loading"} /\ Answered(t) /\ m.what = "refresh"
        /\ jar' = JarAfter(m)
        /\ CASE m.status = "ok" -> Resumes(t, jar', m.family)
             [] m.status = "409" -> /\ wire' = [wire EXCEPT ![t] = Request("me", jar, 0)]
                                    /\ UNCHANGED <<shows, csrf, asks, history>>
             [] m.status = "401" -> Goodbye(t)
             [] OTHER -> /\ asks' = [j \in Jobs |-> IF j \in Awaiters(t) THEN Rest ELSE asks[j]]
                         /\ wire' = [wire EXCEPT ![t] = Free]
                         /\ shows' = ShowsAfter(Awaiters(t))
                         /\ UNCHANGED <<csrf, history>>
        /\ UNCHANGED <<vars, deeds>>

(* syncCsrfQuiet: with the token when the cookies are good already, and    *)
(* without it when they are not.                                           *)
Synced(t) ==
    /\ shows[t] \in {"app", "loading"} /\ Answered(t) /\ wire[t].what = "me"
    /\ Resumes(t, jar, IF wire[t].status = "ok" THEN wire[t].family ELSE csrf[t])
    /\ UNCHANGED <<vars, jar, deeds>>

----------------------------------------------------------------------------
(* A link or a reload; then start().                                       *)
Navigates(t) ==
    /\ shows[t] \in {"app", "dead"} /\ deeds < MaxDeeds /\ deeds' = deeds + 1
    /\ Opens(t, jar)
    /\ UNCHANGED <<vars, jar>>

PageArrives(t) ==
    /\ shows[t] = "opening" /\ Answered(t)
    /\ shows' = [shows EXCEPT ![t] = CASE wire[t].status = "ok" -> "starting"
                                       [] wire[t].status = "401" -> "login"
                                       [] OTHER -> "dead"]
    /\ wire' = [wire EXCEPT ![t] = Free]
    /\ UNCHANGED <<vars, jar, csrf, asks, deeds, history>>

Starts(j) ==
    LET t == TabOf[j]
    IN  /\ shows[t] = "starting" /\ wire[j] = Free
        /\ shows' = [shows EXCEPT ![t] = "loading"]
        /\ Asks(j, Call("me"))
        /\ wire' = [wire EXCEPT ![j] = Request("me", jar, 0)]
        /\ UNCHANGED <<vars, jar, csrf, deeds, history>>

(* pageLogin: a silent refresh, and the form if it does not help.          *)
LoginOpens(t) ==
    /\ shows[t] = "login"
    /\ shows' = [shows EXCEPT ![t] = "checking"]
    /\ wire' = [wire EXCEPT ![t] = Request("refresh", jar, 0)]
    /\ UNCHANGED <<vars, jar, csrf, asks, deeds, history>>

Checked(t) ==
    LET m == wire[t]
    IN  /\ shows[t] = "checking" /\ Answered(t)
        /\ jar' = JarAfter(m)
        /\ CASE m.status = "ok" -> Opens(t, jar')
             [] m.status = "409" -> /\ wire' = [wire EXCEPT ![t] = Request("me", jar, 0)]
                                    /\ UNCHANGED <<shows, csrf, asks, history>>
             [] OTHER -> /\ shows' = [shows EXCEPT ![t] = "form"]
                         /\ wire' = [wire EXCEPT ![t] = Free]
                         /\ UNCHANGED <<csrf, asks, history>>
        /\ UNCHANGED <<vars, deeds>>

Submits(t) ==
    /\ shows[t] = "form" /\ deeds < MaxDeeds /\ deeds' = deeds + 1
    /\ shows' = [shows EXCEPT ![t] = "submitted"]
    /\ wire' = [wire EXCEPT ![t] = Request("login", jar, 0)]
    /\ UNCHANGED <<vars, jar, csrf, asks, history>>

LoggedIn(t) ==
    /\ shows[t] = "submitted" /\ Answered(t)
    /\ jar' = JarAfter(wire[t])
    /\ IF wire[t].status = "ok"
       THEN Opens(t, jar')
       ELSE /\ shows' = [shows EXCEPT ![t] = "form"]
            /\ wire' = [wire EXCEPT ![t] = Free]
            /\ UNCHANGED <<csrf, asks, history>>
    /\ UNCHANGED <<vars, deeds>>

----------------------------------------------------------------------------
NoHistory == [done |-> [j \in Jobs |-> 0], out |-> {}, overheard |-> FALSE,
              theft |-> FALSE, late |-> FALSE, losses |-> 0]

PagesRest ==
    /\ jar = NoCookies /\ shows = [t \in Tabs |-> "dead"] /\ csrf = [t \in Tabs |-> 0]
    /\ asks = [j \in Jobs |-> Rest] /\ wire = [s \in Senders |-> Free]
    /\ deeds = MaxDeeds /\ history = NoHistory

(* An administrator has logged in; one tab may still show the form.        *)
PagesInit ==
    /\ now = 0 /\ failures = [l \in Logins |-> <<>>]
    /\ users \in [Admins -> [secret: Secrets, outdated: {FALSE}, enabled: {TRUE}]]
    /\ lastId = 1
    /\ rows \in {<<[admin |-> a, family |-> 1, created |-> 0,
                     expires |-> Before(RefreshTtl, AbsoluteTtl), absolute |-> AbsoluteTtl,
                     revoked |-> FALSE, replacedBy |-> 0, replacedAt |-> 0]>> : a \in Admins}
    /\ inFlight = 0 /\ calls = [c \in Callers |-> Idle] /\ cli = Idle
    /\ jar = [at |-> 1, rt |-> 1]
    /\ shows \in {[t \in Tabs |-> IF t \in form THEN "form" ELSE "app"] :
                     form \in {{}} \cup {{t} : t \in Tabs}}
    /\ csrf = [t \in Tabs |-> IF shows[t] = "app" THEN 1 ELSE 0]
    /\ asks = [j \in Jobs |-> Rest] /\ wire = [s \in Senders |-> Free]
    /\ deeds = 0 /\ history = NoHistory

ServerStep(s) ==
    ServeProtected(s) \/ ServeRefresh(s) \/ ServeLogin(s) \/ ServeLogout(s) \/ Lost(s)

CallStep(j) ==
    \/ \E what \in {"change", "logout"} : Deed(j, what)
    \/ Recovers(j) \/ Distrusted(j) \/ Told(j) \/ Ends(j) \/ LogoutEnds(j)

TabStep(t) ==
    \/ Refreshed(t) \/ Synced(t)
    \/ Navigates(t) \/ PageArrives(t)
    \/ LoginOpens(t) \/ Checked(t) \/ Submits(t) \/ LoggedIn(t)

PagesNext ==
    \/ \E s \in Senders : ServerStep(s)
    \/ \E j \in Jobs : CallStep(j)
    \/ \E t \in Tabs : TabStep(t) \/ \E j \in JobsOf(t) : Starts(j)
    \/ TimePasses

PagesSpec == PagesInit /\ [][PagesNext]_<<vars, pageVars>>

----------------------------------------------------------------------------
(* The two cookies of the browser are always of one pair, in whatever      *)
(* order the answers to its tabs arrive; the tab's slot carries what the   *)
(* document in it sends.                                                   *)
PagesTypeOK ==
    /\ jar.at = jar.rt /\ jar.at \in 0..lastId
    /\ csrf \in [Tabs -> 0..lastId]
    /\ \A t \in Tabs : wire[t] # Free =>
          wire[t].what \in CASE shows[t] \in {"app", "loading", "checking"} -> {"refresh", "me"}
                             [] shows[t] = "opening" -> {"page"}
                             [] shows[t] = "submitted" -> {"login"}
                             [] OTHER -> {}

(* api() repeats a call after 401 and after 403, in any mixture, and after *)
(* a refresh made by another tab: the server carries the change out at     *)
(* most once.                                                              *)
ChangesOnce == \A j \in Jobs : history.done[j] <= 1

(* Tabs that refresh at once never look like a thief: a reuse that revokes *)
(* the session and alerts (session-service.ts:170) is met only when a      *)
(* refresh or its answer was lost or was long on its way.                  *)
OnlyTheLateAreThieves == history.theft => history.late

(* After the server has handled a logout no request of any tab is served   *)
(* with the session that was left, not even with a pair issued to a        *)
(* refresh of another tab and not yet arrived (session-service.ts:195).    *)
LogoutIsHeard == ~history.overheard

(* A call that awaits the refresh of its tab is always going to hear:      *)
(* somebody's refresh, or the look at the token after a 409, is under way  *)
(* for that document (admin.js:333-354).                                   *)
AwaitersAreHeard ==
    \A t \in Tabs : (\E j \in JobsOf(t) : asks[j] # Rest /\ asks[j].waits) =>
        /\ shows[t] \in {"app", "loading"}
        /\ wire[t] # Free /\ wire[t].what \in {"refresh", "me"}

(* The pages of one browser, however the calls and answers of its tabs     *)
(* cross: cookies of one pair, no change twice, nothing after a logout,    *)
(* nobody left waiting.                                                    *)
PagesSound ==
    /\ PagesTypeOK /\ ChangesOnce
    /\ OnlyTheLateAreThieves /\ LogoutIsHeard /\ AwaitersAreHeard
=============================================================================
