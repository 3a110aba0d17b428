--------------------------- MODULE AdminSessions ---------------------------
(***************************************************************************)
(* Sessions of administrators (admin/auth/session-service.ts over          *)
(* storage/admin-sessions-repo.ts and admin-users-repo.ts) and the CLI     *)
(* commands that change the same rows from another process (cli/admin.ts). *)
(*                                                                         *)
(* A login reads the user's row, computes scrypt in the thread pool, and   *)
(* uses the row afterwards; a password change does so twice.  Everything   *)
(* between two awaits, and every transaction, is one step.  A password is  *)
(* a member of Secrets, a hash the secret with whether its scrypt          *)
(* parameters are out of date.  A family is named by the id of its first   *)
(* row.                                                                    *)
(***************************************************************************)
EXTENDS LoginThrottle

CONSTANTS Admins,        \* logins of existing administrators
          Secrets,       \* passwords that are set
          Guesses,       \* passwords that are typed, right or wrong
          Callers,       \* requests that may wait for scrypt at once
          MaxParallel,   \* MAX_PARALLEL_SCRYPT
          AccessTtl, RefreshTtl, AbsoluteTtl, Grace,
          Horizon, MaxRows   \* bounds of the instance

ASSUME SessionAssumption ==
    /\ Admins \subseteq Logins /\ Secrets \subseteq Guesses
    /\ IsFiniteSet(Callers)
    /\ MaxParallel \in Nat \ {0}
    /\ {AccessTtl, RefreshTtl, AbsoluteTtl} \subseteq Nat \ {0}
    /\ {Grace, Horizon, MaxRows} \subseteq Nat

VARIABLES users,     \* admin -> [secret, outdated, enabled]
          rows,      \* admin_sessions: id -> row, for the ids not purged
          lastId,    \* AUTOINCREMENT of admin_sessions
          inFlight,  \* inFlightScrypt
          calls,     \* caller -> request waiting for scrypt
          cli        \* the command the CLI process is in

vars == <<now, failures, users, rows, lastId, inFlight, calls, cli>>
repoVars == <<users, rows, lastId>>

Idle == [stage |-> "idle"]
Row == [admin: Admins, family: Nat, created: Nat, expires: Nat, absolute: Nat,
        revoked: BOOLEAN, replacedBy: Nat, replacedAt: Nat]

(* Room for one more row, whatever the requests under way add. *)
Room == lastId + Cardinality({c \in Callers : calls[c] # Idle}) < MaxRows

Before(a, b) == IF a < b THEN a ELSE b

----------------------------------------------------------------------------
(* admin-sessions-repo.ts.  Each operator is the new value of the table.   *)

Revoked(table, which) ==
    [i \in DOMAIN table |->
        IF i \in which THEN [table[i] EXCEPT !.revoked = TRUE] ELSE table[i]]

FamilyRows(f) == {i \in DOMAIN rows : rows[i].family = f}

RowsOf(a) == {i \in DOMAIN rows : rows[i].admin = a}

Live(i) == ~rows[i].revoked /\ rows[i].replacedBy = 0

(* isFamilyActive: on every request that carries an access token. *)
FamilyActive(f) ==
    \E i \in FamilyRows(f) : /\ Live(i)
                             /\ rows[i].absolute > now
                             /\ users[rows[i].admin].enabled

(* verifyAccess, for the access token issued together with row i. *)
AccessValid(i) == rows[i].created + AccessTtl > now /\ FamilyActive(rows[i].family)

(* A new row of a family, new (0) or given. *)
NewRow(a, family, absolute) ==
    [admin |-> a, family |-> IF family = 0 THEN lastId + 1 ELSE family,
     created |-> now, expires |-> Before(now + RefreshTtl, absolute),
     absolute |-> absolute, revoked |-> FALSE, replacedBy |-> 0,
     replacedAt |-> 0]

With(table, row) ==
    [i \in DOMAIN table \cup {lastId + 1} |-> IF i = lastId + 1 THEN row ELSE table[i]]

Unexpired == [i \in {j \in DOMAIN rows : rows[j].absolute >= now} |-> rows[i]]

SetPassword(a, secret) ==
    users' = [users EXCEPT ![a].secret = secret, ![a].outdated = FALSE]

----------------------------------------------------------------------------
(* scryptGuard: the check and the count are one step, the result another.  *)
Guarded(c, call) ==
    /\ inFlight < MaxParallel
    /\ inFlight' = inFlight + 1
    /\ calls' = [calls EXCEPT ![c] = call]

EndGuarded == inFlight' = inFlight - 1

Leaves(c) == calls' = [calls EXCEPT ![c] = Idle]

(* The new password is hashed, outside the guard. *)
Hashes(c) == calls' = [calls EXCEPT ![c] = [stage |-> "hash", for |-> @.for,
                                            login |-> @.login, next |-> @.next]]

(* Whether the row read now has this password.  An unknown login costs the *)
(* same time and has none.                                                 *)
Matches(login, guess) == login \in Admins /\ users[login].secret = guess

(* login, up to the await: a locked login, or too many computations, ends  *)
(* it.  The result is that of the row read here, whatever is written to it *)
(* during the computation.                                                 *)
Login(c, login, guess) ==
    /\ calls[c] = Idle /\ Room
    /\ Allowed(login)
    /\ Check
    /\ Guarded(c, [stage |-> "verify", for |-> "login", login |-> login,
                   next |-> guess,
                   proved |-> Matches(login, guess) /\ users[login].enabled,
                   outdated |-> login \in Admins /\ users[login].outdated])
    /\ UNCHANGED <<now, repoVars, cli>>

(* The answers 429 and 503, of a login and of a password change. *)
Refused(login) ==
    /\ Check
    /\ Allowed(login) => inFlight >= MaxParallel
    /\ UNCHANGED <<now, repoVars, inFlight, calls, cli>>

(* reset(name) is done before; touchLogin, purgeExpired and issue are one  *)
(* step.                                                                   *)
Issue(call) ==
    /\ rows' = [i \in DOMAIN Unexpired \cup {lastId + 1} |->
                   IF i = lastId + 1
                   THEN NewRow(call.login, 0, now + AbsoluteTtl)
                   ELSE rows[i]]
    /\ lastId' = lastId + 1

LoginFails(c) ==
    /\ calls[c].stage = "verify" /\ calls[c].for = "login"
    /\ ~calls[c].proved
    /\ EndGuarded
    /\ Fail(calls[c].login)
    /\ Leaves(c)
    /\ UNCHANGED <<now, repoVars, cli>>

LoginSucceeds(c) ==
    /\ calls[c].stage = "verify" /\ calls[c].for = "login"
    /\ calls[c].proved
    /\ EndGuarded
    /\ Reset(calls[c].login)
    /\ IF calls[c].outdated
       THEN /\ Hashes(c)
            /\ UNCHANGED <<rows, lastId>>
       ELSE /\ Issue(calls[c])
            /\ Leaves(c)
    /\ UNCHANGED <<now, users, cli>>

(* needsRehash: the second computation is outside the guard, and its       *)
(* result is written whatever happened to the row meanwhile.               *)
Rehashed(c) ==
    /\ calls[c].stage = "hash" /\ calls[c].for = "login"
    /\ SetPassword(calls[c].login, calls[c].next)
    /\ Issue(calls[c])
    /\ Leaves(c)
    /\ UNCHANGED <<now, failures, inFlight, cli>>

(* changePassword.  The access token is verified in onRequest, before the  *)
(* body is read; the rest goes by the administrator's id.  A new password  *)
(* that is too weak, or a disabled user, changes nothing.                  *)
ChangeArrives(c, i) ==
    /\ calls[c] = Idle
    /\ AccessValid(i)
    /\ calls' = [calls EXCEPT ![c] = [stage |-> "body", login |-> rows[i].admin]]
    /\ UNCHANGED <<now, failures, repoVars, inFlight, cli>>

Change(c, guess, next) ==
    /\ calls[c].stage = "body"
    /\ LET a == calls[c].login
       IN  /\ users[a].enabled
           /\ Allowed(a)
           /\ Guarded(c, [stage |-> "verify", for |-> "change", login |-> a,
                          next |-> next, proved |-> Matches(a, guess),
                          outdated |-> FALSE])
    /\ Check
    /\ UNCHANGED <<now, repoVars, cli>>

ChangeRefused(c) ==
    /\ calls[c].stage = "body"
    /\ Check
    /\ Leaves(c)
    /\ UNCHANGED <<now, repoVars, inFlight, cli>>

ChangeChecked(c) ==
    /\ calls[c].stage = "verify" /\ calls[c].for = "change"
    /\ EndGuarded
    /\ IF calls[c].proved
       THEN /\ Hashes(c)
            /\ UNCHANGED failures
       ELSE /\ Fail(calls[c].login)
            /\ Leaves(c)
    /\ UNCHANGED <<now, repoVars, cli>>

Changed(c) ==
    /\ calls[c].stage = "hash" /\ calls[c].for = "change"
    /\ SetPassword(calls[c].login, calls[c].next)
    /\ rows' = Revoked(rows, RowsOf(calls[c].login))
    /\ Leaves(c)
    /\ UNCHANGED <<now, failures, lastId, inFlight, cli>>

----------------------------------------------------------------------------
(* refresh, in one immediate transaction; the token of row i, kept by its  *)
(* owner, by another tab or by a thief, is presented again.  An unknown,   *)
(* purged or revoked token, and a replaced one within the grace, change    *)
(* nothing.                                                                *)
Usable(i) == /\ users[rows[i].admin].enabled
             /\ rows[i].expires > now
             /\ rows[i].absolute > now

(* Defect: the end of the session moves with every rotation. *)
RotateForever(i) ==
    /\ Live(i) /\ Usable(i) /\ Room
    /\ rows' = With([rows EXCEPT ![i].replacedBy = lastId + 1, ![i].replacedAt = now],
                    NewRow(rows[i].admin, rows[i].family, now + AbsoluteTtl))
    /\ lastId' = lastId + 1

(* Defect: a revoked token still rotates. *)
RotateRevoked(i) ==
    /\ rows[i].replacedBy = 0 /\ Usable(i) /\ Room
    /\ rows' = With([rows EXCEPT ![i].replacedBy = lastId + 1, ![i].replacedAt = now],
                    NewRow(rows[i].admin, rows[i].family, rows[i].absolute))
    /\ lastId' = lastId + 1

(* Defect: the row is marked as replaced, and when is not. *)
RotateUntimed(i) ==
    /\ Live(i) /\ Usable(i) /\ Room
    /\ rows' = With([rows EXCEPT ![i].replacedBy = lastId + 1],
                    NewRow(rows[i].admin, rows[i].family, rows[i].absolute))
    /\ lastId' = lastId + 1

Rotate(i) ==
    /\ Live(i) /\ Usable(i) /\ Room
    /\ rows' = With([rows EXCEPT ![i].replacedBy = lastId + 1, ![i].replacedAt = now],
                    NewRow(rows[i].admin, rows[i].family, rows[i].absolute))
    /\ lastId' = lastId + 1

EndFamily(i) ==
    /\ ~rows[i].revoked
    /\ IF rows[i].replacedBy # 0 THEN now - rows[i].replacedAt > Grace ELSE ~Usable(i)
    /\ rows' = Revoked(rows, FamilyRows(rows[i].family))
    /\ UNCHANGED lastId

Refresh(i) ==
    /\ Rotate(i) \/ EndFamily(i)
    /\ UNCHANGED <<now, failures, users, inFlight, calls, cli>>

(* Defect: the presented token is revoked, its successors are not. *)
LogoutToken(i, j) ==
    /\ rows' = Revoked(rows, {i, j})
    /\ UNCHANGED <<now, failures, users, lastId, inFlight, calls, cli>>

(* The cookies of a browser may belong to different sessions: the family   *)
(* of a valid access token and that of any refresh token are revoked.      *)
Logout(i, j) ==
    /\ rows' = Revoked(rows, (IF AccessValid(i) THEN FamilyRows(rows[i].family) ELSE {})
                             \cup FamilyRows(rows[j].family))
    /\ UNCHANGED <<now, failures, users, lastId, inFlight, calls, cli>>

----------------------------------------------------------------------------
(* The CLI is another process: every statement is a step of its own, and   *)
(* it may be killed between two.  A reset computes its hash first.         *)
CliReset(a, secret) ==
    /\ cli = Idle
    /\ cli' = [stage |-> "revoke", admin |-> a]
    /\ SetPassword(a, secret)
    /\ UNCHANGED <<now, failures, rows, lastId, inFlight, calls>>

(* disableAdmin refuses the last enabled administrator. *)
CliDisable(a) ==
    /\ cli = Idle
    /\ users[a].enabled => \E b \in Admins \ {a} : users[b].enabled
    /\ users' = [users EXCEPT ![a].enabled = FALSE]
    /\ cli' = [stage |-> "revoke", admin |-> a]
    /\ UNCHANGED <<now, failures, rows, lastId, inFlight, calls>>

CliRevokeSessions(a) ==
    /\ cli = Idle
    /\ cli' = [stage |-> "revoke", admin |-> a]
    /\ UNCHANGED <<now, failures, repoVars, inFlight, calls>>

CliRevokeAll ==
    /\ cli # Idle
    /\ rows' = Revoked(rows, RowsOf(cli.admin))
    /\ cli' = Idle
    /\ UNCHANGED <<now, failures, users, lastId, inFlight, calls>>

CliDies ==
    /\ cli # Idle
    /\ cli' = Idle
    /\ UNCHANGED <<now, failures, repoVars, inFlight, calls>>

(* The service stops at any point and starts again: the rows stay, what    *)
(* was in memory does not.                                                 *)
Restart ==
    /\ Forget
    /\ inFlight' = 0
    /\ calls' = [c \in Callers |-> Idle]
    /\ UNCHANGED <<now, repoVars, cli>>

Tick ==
    /\ now < Horizon
    /\ now' = now + 1
    /\ UNCHANGED <<failures, repoVars, inFlight, calls, cli>>

----------------------------------------------------------------------------
Init ==
    /\ now = 0
    /\ failures = [l \in Logins |-> <<>>]
    /\ users \in [Admins -> [secret: Secrets, outdated: BOOLEAN, enabled: {TRUE}]]
    /\ rows = <<>>
    /\ lastId = 0
    /\ inFlight = 0
    /\ calls = [c \in Callers |-> Idle]
    /\ cli = Idle

Serve(c) ==
    \/ \E login \in Logins, guess \in Guesses : Login(c, login, guess)
    \/ LoginFails(c)
    \/ LoginSucceeds(c)
    \/ Rehashed(c)
    \/ \E i \in DOMAIN rows : ChangeArrives(c, i)
    \/ \E guess \in Guesses, next \in Secrets : Change(c, guess, next)
    \/ ChangeRefused(c)
    \/ ChangeChecked(c)
    \/ Changed(c)

Command(a) ==
    \/ \E secret \in Secrets : CliReset(a, secret)
    \/ CliDisable(a)
    \/ CliRevokeSessions(a)

Next ==
    \/ \E c \in Callers : Serve(c)
    \/ \E login \in Logins : Refused(login)
    \/ \E i \in DOMAIN rows : Refresh(i)
    \/ \E i, j \in DOMAIN rows : Logout(i, j)
    \/ \E a \in Admins : Command(a)
    \/ CliRevokeAll
    \/ CliDies
    \/ Restart
    \/ Tick

Spec == Init /\ [][Next]_vars

----------------------------------------------------------------------------
Verifiers == {c \in Callers : calls[c].stage = "verify"}

VerifiersOf(l) == {c \in Verifiers : calls[c].login = l}

(* A computation that was proved, or made for a session, has a user. *)
CallOK(call) ==
    \/ call = Idle
    \/ call \in [stage: {"body"}, login: Admins]
    \/ /\ call \in [stage: {"verify"}, for: {"login", "change"}, login: Logins,
                    next: Guesses, proved: BOOLEAN, outdated: BOOLEAN]
       /\ call.proved \/ call.for = "change" => call.login \in Admins /\ call.next \in Secrets
    \/ call \in [stage: {"hash"}, for: {"login", "change"}, login: Admins, next: Secrets]

TypeOK ==
    /\ now \in Nat
    /\ failures \in [Logins -> Seq(Nat)]
    /\ users \in [Admins -> [secret: Secrets, outdated: BOOLEAN, enabled: BOOLEAN]]
    /\ DOMAIN rows \subseteq 1..lastId /\ \A i \in DOMAIN rows : rows[i] \in Row
    /\ lastId \in Nat /\ inFlight \in Nat
    /\ DOMAIN calls = Callers /\ \A c \in Callers : CallOK(calls[c])
    /\ cli \in {Idle} \cup [stage: {"revoke"}, admin: Admins]

(* scryptGuard counts exactly the requests whose password is being         *)
(* verified, through every way out, and keeps them within MAX_PARALLEL.    *)
ScryptBudget ==
    /\ inFlight = Cardinality(Verifiers)
    /\ inFlight <= MaxParallel

(* The throttle is asked before the password is verified and told after    *)
(* it, so attempts under way at once pass it together.  They exceed        *)
(* MaxAttempts by less than MaxParallel, whatever is mixed: logins,        *)
(* password changes, both at once.                                         *)
GuessesBounded ==
    \A l \in Logins :
        Len(failures[l]) + Cardinality(VerifiersOf(l)) <= MaxAttempts - 1 + MaxParallel

(* The rows of a family are one chain: the same administrator and an end   *)
(* fixed at the login, revoked together, and while they are not, exactly   *)
(* one of them is not replaced.                                            *)
FamiliesAreChains ==
    \A i \in DOMAIN rows :
        /\ rows[i].family \in FamilyRows(rows[i].family)
        /\ rows[i].expires <= rows[i].absolute
        /\ rows[i].absolute = rows[rows[i].family].created + AbsoluteTtl
        /\ \A j \in FamilyRows(rows[i].family) :
              /\ rows[j].admin = rows[i].admin
              /\ rows[j].revoked <=> rows[i].revoked
              /\ Live(i) /\ Live(j) => i = j
        /\ ~rows[i].revoked => \E j \in FamilyRows(rows[i].family) : Live(j)

(* Nothing brings a session back: a family that was logged out, revoked,   *)
(* expired, or whose administrator was disabled never passes               *)
(* isFamilyActive again (session-service.ts:67-69).                        *)
FamiliesStayDead ==
    [][\A f \in 1..lastId : ~FamilyActive(f) => ~FamilyActive(f)']_vars
============================================================================
