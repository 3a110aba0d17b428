------------------------ MODULE AdminSessionsProofs ------------------------
(***************************************************************************)
(* Theorems about the sessions of administrators, for every number of      *)
(* administrators, requests, attempts and times.                           *)
(*                                                                         *)
(* The invariant splits in two halves that share no variable but the       *)
(* clock: the computations under way with what the throttle counted        *)
(* (Attempts), and the table of sessions (Table).  The bound on guesses is *)
(* inductive only with the attempts under way counted beside the failures, *)
(* and needs ScryptBudget: a login is let through with fewer than          *)
(* MaxAttempts failures, so what can be added to them is what is computed. *)
(*                                                                         *)
(* The wait of a 429 needs that failures are recorded in the order of time *)
(* (Recorded).                                                             *)
(*                                                                         *)
(* The pages stand on the same table, whose invariant every step of a      *)
(* browser keeps (PagesInv).  A refresh is under way exactly as long as a  *)
(* call awaits it (Heard), so nobody waits in vain; a change that may be   *)
(* sent again has not been carried out (Once); nobody knows the row of an  *)
(* answer on its way (Unseen), so unless something was late a replaced     *)
(* token is presented in the moment of its replacement only (InTime); and  *)
(* a family that was left has only revoked rows (OutIsDead).               *)
(***************************************************************************)
EXTENDS AdminPages, FiniteSetTheorems, SequenceTheorems, WellFoundedInduction, TLAPS

Attempts ==
    /\ now \in Nat
    /\ failures \in [Logins -> Seq(Nat)]
    /\ inFlight \in Nat
    /\ DOMAIN calls = Callers /\ \A c \in Callers : CallOK(calls[c])
    /\ ScryptBudget
    /\ GuessesBounded

Accounts ==
    /\ users \in [Admins -> [secret: Secrets, outdated: BOOLEAN, enabled: BOOLEAN]]
    /\ cli \in {Idle} \cup [stage: {"revoke"}, admin: Admins]

Table ==
    /\ lastId \in Nat
    /\ DOMAIN rows \subseteq 1..lastId /\ \A i \in DOMAIN rows : rows[i] \in Row
    /\ FamiliesAreChains

Inv == Attempts /\ Accounts /\ Table

----------------------------------------------------------------------------
(* The throttle and the guard.                                             *)

\* Forgetting old failures only shortens the list.
LEMMA FreshIsShorter ==
    ASSUME NEW stamps \in Seq(Nat), NEW time \in Nat
    PROVE  /\ Fresh(stamps, time) \in Seq(Nat)
           /\ Len(Fresh(stamps, time)) <= Len(stamps)
<1> DEFINE old == {i \in DOMAIN stamps : stamps[i] <= time - Window}
           drop == Cardinality(old)
<1>1. drop \in Nat
  <2>1. IsFiniteSet(1..Len(stamps)) /\ old \in SUBSET (1..Len(stamps))
    BY FS_Interval
  <2>2. QED
    BY <2>1, FS_Subset, FS_CardinalityType
<1> HIDE DEF drop
<1>2. /\ drop + 1 \in Int /\ Len(stamps) \in Nat
      /\ \A i \in drop + 1..Len(stamps) : stamps[i] \in Nat
  BY <1>1
<1>3. /\ SubSeq(stamps, drop + 1, Len(stamps)) \in Seq(Nat)
      /\ Len(SubSeq(stamps, drop + 1, Len(stamps)))
           = IF drop + 1 <= Len(stamps) THEN Len(stamps) - (drop + 1) + 1 ELSE 0
  BY <1>2, SubSeqProperties
<1>4. Fresh(stamps, time) = SubSeq(stamps, drop + 1, Len(stamps))
  BY DEF Fresh, drop
<1>5. QED
  BY <1>1, <1>2, <1>3, <1>4

\* Every list is pruned by a check, and none grows.
LEMMA PrunedIsShorter ==
    ASSUME Attempts
    PROVE  /\ Pruned \in [Logins -> Seq(Nat)]
           /\ \A l \in Logins : Len(Pruned[l]) \in Nat /\ Len(Pruned[l]) <= Len(failures[l])
<1>1. \A l \in Logins : failures[l] \in Seq(Nat)
  BY DEF Attempts
<1>2. \A l \in Logins : /\ Fresh(failures[l], now) \in Seq(Nat)
                        /\ Len(Fresh(failures[l], now)) <= Len(failures[l])
  BY <1>1, FreshIsShorter DEF Attempts
<1>3. QED
  BY <1>2 DEF Pruned

\* The computations under way are finitely many, those of a login among them.
LEMMA VerifiersFinite ==
    /\ IsFiniteSet(Verifiers) /\ Cardinality(Verifiers) \in Nat
    /\ \A l : /\ IsFiniteSet(VerifiersOf(l)) /\ Cardinality(VerifiersOf(l)) \in Nat
              /\ Cardinality(VerifiersOf(l)) <= Cardinality(Verifiers)
<1>1. IsFiniteSet(Verifiers)
  BY FS_Subset, SessionAssumption DEF Verifiers
<1>2. \A l : VerifiersOf(l) \in SUBSET Verifiers
  BY DEF VerifiersOf
<1>3. QED
  BY <1>1, <1>2, FS_Subset, FS_CardinalityType

\* A request that is let through raises the counts of its login by one.
LEMMA StartCounts ==
    ASSUME Attempts, NEW c \in Callers, NEW call, CallOK(call),
           call.stage = "verify", calls[c].stage # "verify",
           Allowed(call.login), call.login \in Logins, Check, Guarded(c, call), now' = now
    PROVE  Attempts'
<1>1. /\ failures' = Pruned
      /\ inFlight < MaxParallel /\ inFlight' = inFlight + 1
      /\ DOMAIN calls' = Callers
      /\ calls'[c] = call /\ \A d \in Callers \ {c} : calls'[d] = calls[d]
  BY DEF Check, Guarded, Attempts
<1>2. /\ failures' \in [Logins -> Seq(Nat)] /\ inFlight' \in Nat
      /\ \A d \in Callers : CallOK(calls'[d])
  <2>1. failures' \in [Logins -> Seq(Nat)]
    BY <1>1, PrunedIsShorter
  <2>2. inFlight' \in Nat
    BY <1>1 DEF Attempts
  <2>3. \A d \in Callers : CallOK(calls[d])
    BY DEF Attempts
  <2>4. \A d \in Callers : CallOK(calls'[d])
    BY <1>1, <2>3
  <2>5. QED
    BY <2>1, <2>2, <2>4
<1>3. Verifiers' = Verifiers \cup {c} /\ c \notin Verifiers
  BY <1>1 DEF Verifiers
<1>4. Cardinality(Verifiers') = Cardinality(Verifiers) + 1
  BY <1>3, VerifiersFinite, FS_AddElement
<1>5. ScryptBudget'
  BY <1>1, <1>4, SessionAssumption DEF ScryptBudget, Attempts
<1>6. ASSUME NEW l \in Logins
      PROVE  Len(failures'[l]) + Cardinality(VerifiersOf(l)') <= MaxAttempts - 1 + MaxParallel
  <2>1. /\ Len(failures'[l]) \in Nat /\ Len(failures[l]) \in Nat
        /\ Len(failures'[l]) <= Len(failures[l])
    BY <1>1, PrunedIsShorter DEF Attempts
  <2>2. CASE l = call.login
    <3>1. Len(failures'[l]) <= MaxAttempts - 1
      BY <1>1, <2>1, <2>2, ThrottleAssumption DEF Allowed
    <3>2. Cardinality(VerifiersOf(l)') <= MaxParallel
      <4>1. /\ IsFiniteSet(Verifiers') /\ VerifiersOf(l)' \in SUBSET Verifiers'
            /\ Cardinality(Verifiers') \in Nat
        BY <1>3, <1>4, VerifiersFinite, FS_AddElement DEF VerifiersOf
      <4>2. /\ Cardinality(VerifiersOf(l)') <= Cardinality(Verifiers')
            /\ Cardinality(VerifiersOf(l)') \in Nat
        BY <4>1, FS_Subset, FS_CardinalityType
      <4>3. QED
        BY <1>5, <4>1, <4>2, SessionAssumption DEF ScryptBudget
    <3>3. Cardinality(VerifiersOf(l)') \in Nat
      BY <1>3, VerifiersFinite, FS_AddElement, FS_Subset, FS_CardinalityType DEF VerifiersOf
    <3>4. QED
      BY <2>1, <3>1, <3>2, <3>3, SessionAssumption, ThrottleAssumption
  <2>3. CASE l # call.login
    <3>1. VerifiersOf(l)' = VerifiersOf(l)
      BY <1>1, <1>3, <2>3 DEF VerifiersOf, Verifiers
    <3>2. QED
      BY <2>1, <3>1, VerifiersFinite, SessionAssumption, ThrottleAssumption
         DEF Attempts, GuessesBounded
  <2>4. QED
    BY <2>2, <2>3
<1>7. QED
  BY <1>1, <1>2, <1>5, <1>6 DEF Attempts, GuessesBounded

\* A check shortens the lists, so the bound stays as long as nothing is started.
LEMMA FailuresShrink ==
    ASSUME Attempts, failures' = failures \/ Check,
           \A l \in Logins : VerifiersOf(l)' = VerifiersOf(l)
    PROVE  failures' \in [Logins -> Seq(Nat)] /\ GuessesBounded'
<1>1. /\ failures' \in [Logins -> Seq(Nat)]
      /\ \A l \in Logins : /\ Len(failures'[l]) \in Nat /\ Len(failures[l]) \in Nat
                            /\ Len(failures'[l]) <= Len(failures[l])
  <2>1. CASE failures' = failures
    BY <2>1 DEF Attempts
  <2>2. CASE Check
    BY <2>2, PrunedIsShorter DEF Check, Attempts
  <2>3. QED
    BY <2>1, <2>2
<1>2. ASSUME NEW l \in Logins
      PROVE  Len(failures'[l]) + Cardinality(VerifiersOf(l)') <= MaxAttempts - 1 + MaxParallel
  BY <1>1, VerifiersFinite, SessionAssumption, ThrottleAssumption DEF Attempts, GuessesBounded
<1>3. QED
  BY <1>1, <1>2 DEF GuessesBounded

\* A computation that ends takes the counts down by one, and a failure takes
\* its place among those of the login.
LEMMA EndCounts ==
    ASSUME Attempts, NEW c \in Callers, NEW call, CallOK(call),
           NEW login, login = calls[c].login, calls[c].stage = "verify", call.stage # "verify",
           EndGuarded, calls' = [calls EXCEPT ![c] = call], now' = now,
           \/ failures' = failures
           \/ Reset(login)
           \/ Fail(login)
    PROVE  Attempts'
<1>1. /\ DOMAIN calls' = Callers
      /\ calls'[c] = call /\ \A d \in Callers \ {c} : calls'[d] = calls[d]
  BY DEF Attempts
<1>2. login \in Logins
  <2>1. CallOK(calls[c])
    BY DEF Attempts
  <2>2. QED
    BY <2>1 DEF CallOK, Idle
<1>3. Verifiers' = Verifiers \ {c} /\ c \in Verifiers /\ c \in VerifiersOf(login)
  BY <1>1 DEF Verifiers, VerifiersOf
<1>4. /\ Cardinality(Verifiers') = Cardinality(Verifiers) - 1
      /\ Cardinality(Verifiers') \in Nat
  BY <1>3, VerifiersFinite, FS_RemoveElement, FS_CardinalityType
<1>5. ScryptBudget' /\ inFlight' \in Nat
  BY <1>4, VerifiersFinite, SessionAssumption DEF ScryptBudget, Attempts, EndGuarded
<1>6. \A d \in Callers : CallOK(calls'[d])
  <2>1. \A d \in Callers : CallOK(calls[d])
    BY DEF Attempts
  <2>2. QED
    BY <1>1, <2>1
<1>7. ASSUME NEW l \in Logins
      PROVE  /\ Cardinality(VerifiersOf(l)')
                  = IF l = login THEN Cardinality(VerifiersOf(l)) - 1 ELSE Cardinality(VerifiersOf(l))
             /\ Cardinality(VerifiersOf(l)) \in Nat
  <2>1. CASE l = login
    <3>1. VerifiersOf(l)' = VerifiersOf(l) \ {c} /\ c \in VerifiersOf(l)
      BY <1>1, <1>3, <2>1 DEF VerifiersOf, Verifiers
    <3>2. QED
      BY <2>1, <3>1, VerifiersFinite, FS_RemoveElement, FS_CardinalityType
  <2>2. CASE l # login
    <3>1. VerifiersOf(l)' = VerifiersOf(l)
      BY <1>1, <1>3, <2>2 DEF VerifiersOf, Verifiers
    <3>2. QED
      BY <2>2, <3>1, VerifiersFinite
  <2>3. QED
    BY <2>1, <2>2
<1>9. /\ failures' \in [Logins -> Seq(Nat)]
      /\ \A l \in Logins :
            /\ Len(failures'[l]) \in Nat /\ Len(failures[l]) \in Nat
            /\ Len(failures'[l]) <= Len(failures[l]) + 1
            /\ (l # login) => Len(failures'[l]) <= Len(failures[l])
  <2>1. failures \in [Logins -> Seq(Nat)] /\ now \in Nat
    BY DEF Attempts
  <2>2. CASE failures' = failures
    BY <2>1, <2>2
  <2>3. CASE Reset(login)
    <3>1. <<>> \in Seq(Nat) /\ Len(<<>>) = 0
      OBVIOUS
    <3>2. /\ \A l \in Logins : failures'[l] = IF l = login THEN <<>> ELSE failures[l]
          /\ failures' \in [Logins -> Seq(Nat)]
      BY <2>1, <2>3, <3>1 DEF Reset
    <3>3. \A l \in Logins : Len(failures[l]) \in Nat
      BY <2>1
    <3>4. ASSUME NEW l \in Logins
          PROVE  Len(failures'[l]) \in Nat /\ Len(failures'[l]) <= Len(failures[l])
      <4>1. CASE l = login
        BY <3>1, <3>2, <3>3, <4>1
      <4>2. CASE l # login
        BY <3>2, <3>3, <4>2
      <4>3. QED
        BY <4>1, <4>2
    <3>5. QED
      BY <3>2, <3>3, <3>4
  <2>4. CASE Fail(login)
    <3>1. failures' = [Pruned EXCEPT ![login] = Append(Pruned[login], now)]
      BY <2>4 DEF Fail
    <3>2. /\ Pruned \in [Logins -> Seq(Nat)]
          /\ \A l \in Logins : Len(Pruned[l]) \in Nat /\ Len(Pruned[l]) <= Len(failures[l])
      BY PrunedIsShorter
    <3>3. /\ Append(Pruned[login], now) \in Seq(Nat)
          /\ Len(Append(Pruned[login], now)) = Len(Pruned[login]) + 1
      BY <1>2, <2>1, <3>2
    <3>4. failures' \in [Logins -> Seq(Nat)]
      BY <3>1, <3>2, <3>3
    <3>5. failures'[login] = Append(Pruned[login], now)
      BY <1>2, <3>1, <3>2
    <3>6. \A l \in Logins \ {login} : failures'[l] = Pruned[l]
      BY <3>1, <3>2
    <3>7. ASSUME NEW l \in Logins
          PROVE  /\ Len(failures'[l]) \in Nat /\ Len(failures[l]) \in Nat
                 /\ Len(failures'[l]) <= Len(failures[l]) + 1
                 /\ l # login => Len(failures'[l]) <= Len(failures[l])
      BY <2>1, <3>2, <3>3, <3>5, <3>6
    <3>8. QED
      BY <3>4, <3>7
  <2>5. QED
    BY <2>2, <2>3, <2>4
<1>10. ASSUME NEW l \in Logins
       PROVE  Len(failures'[l]) + Cardinality(VerifiersOf(l)') <= MaxAttempts - 1 + MaxParallel
  <2>1. /\ Len(failures[l]) + Cardinality(VerifiersOf(l)) <= MaxAttempts - 1 + MaxParallel
        /\ Cardinality(VerifiersOf(l)) \in Nat
    BY VerifiersFinite DEF Attempts, GuessesBounded
  <2>2. /\ Len(failures'[l]) <= Len(failures[l]) + 1
        /\ (l # login) => Len(failures'[l]) <= Len(failures[l])
    BY <1>9
  <2>3. Len(failures'[l]) \in Nat /\ Len(failures[l]) \in Nat
    BY <1>9
  <2>4. MaxAttempts \in Nat /\ MaxParallel \in Nat
    BY SessionAssumption, ThrottleAssumption
  <2>5. CASE l = login
    <3>1. Cardinality(VerifiersOf(l)') = Cardinality(VerifiersOf(l)) - 1
      BY <1>7, <2>5
    <3>2. QED
      BY <2>1, <2>2, <2>3, <2>4, <2>5, <3>1
  <2>6. CASE l # login
    <3>1. Cardinality(VerifiersOf(l)') = Cardinality(VerifiersOf(l))
      BY <1>7, <2>6
    <3>2. Len(failures'[l]) <= Len(failures[l])
      BY <2>2, <2>3, <2>6
    <3>3. QED
      BY <2>1, <2>3, <2>4, <3>1, <3>2
  <2>7. QED
    BY <2>5, <2>6
<1>11. QED
  BY <1>1, <1>5, <1>6, <1>9, <1>10 DEF Attempts, GuessesBounded

\* A request that is not computing for the guard moves between other stages.
LEMMA OtherStages ==
    ASSUME Attempts, NEW c \in Callers, NEW call, CallOK(call),
           calls[c].stage # "verify", call.stage # "verify",
           calls' = [calls EXCEPT ![c] = call], now' = now, inFlight' = inFlight,
           failures' = failures \/ Check
    PROVE  Attempts'
<1>1. /\ DOMAIN calls' = Callers
      /\ calls'[c] = call /\ \A d \in Callers \ {c} : calls'[d] = calls[d]
  BY DEF Attempts
<1>2. \A d \in Callers : CallOK(calls'[d])
  <2>1. \A d \in Callers : CallOK(calls[d])
    BY DEF Attempts
  <2>2. QED
    BY <1>1, <2>1
<1>3. Verifiers' = Verifiers /\ \A l \in Logins : VerifiersOf(l)' = VerifiersOf(l)
  BY <1>1 DEF Verifiers, VerifiersOf
<1>4. QED
  BY <1>1, <1>2, <1>3, FailuresShrink DEF Attempts, ScryptBudget

\* A step that leaves the computations alone at most forgets old failures.
LEMMA Untouched ==
    ASSUME Attempts, calls' = calls, inFlight' = inFlight, now' \in Nat,
           failures' = failures \/ Check
    PROVE  Attempts'
<1>1. Verifiers' = Verifiers /\ \A l \in Logins : VerifiersOf(l)' = VerifiersOf(l)
  BY DEF Verifiers, VerifiersOf
<1>2. \A d \in Callers : CallOK(calls[d])
  BY DEF Attempts
<1>3. DOMAIN calls' = Callers /\ \A d \in Callers : CallOK(calls'[d])
  BY <1>2 DEF Attempts
<1>4. failures' \in [Logins -> Seq(Nat)] /\ GuessesBounded'
  BY <1>1, FailuresShrink
<1>5. ScryptBudget' /\ inFlight' \in Nat
  BY <1>1 DEF Attempts, ScryptBudget
<1>6. QED
  BY <1>3, <1>4, <1>5 DEF Attempts

\* Nothing is counted after a restart.
LEMMA NothingCounted ==
    ASSUME now' \in Nat, failures' = [l \in Logins |-> <<>>], inFlight' = 0,
           calls' = [c \in Callers |-> Idle]
    PROVE  Attempts'
<1>1. DOMAIN calls' = Callers /\ \A c \in Callers : CallOK(calls'[c])
  BY DEF CallOK
<1>2. Verifiers' = {} /\ \A l \in Logins : VerifiersOf(l)' = {}
  BY DEF Verifiers, VerifiersOf, Idle
<1>3. Cardinality({}) = 0
  BY FS_EmptySet
<1>4. ScryptBudget'
  BY <1>2, <1>3, SessionAssumption DEF ScryptBudget
<1>5. <<>> \in Seq(Nat) /\ Len(<<>>) = 0
  OBVIOUS
<1>6. \A l \in Logins : Len(failures'[l]) = 0
  BY <1>5
<1>7. GuessesBounded'
  <2>1. MaxAttempts \in Nat \ {0} /\ MaxParallel \in Nat \ {0}
    BY SessionAssumption, ThrottleAssumption
  <2>2. ASSUME NEW l \in Logins
        PROVE  Len(failures'[l]) + Cardinality(VerifiersOf(l)') <= MaxAttempts - 1 + MaxParallel
    <3>1. VerifiersOf(l)' = {}
      BY <1>2
    <3>2. QED
      BY <1>3, <1>6, <2>1, <3>1
  <2>3. QED
    BY <2>2 DEF GuessesBounded
<1>8. failures' \in [Logins -> Seq(Nat)]
  BY <1>5
<1>9. QED
  BY <1>1, <1>4, <1>7, <1>8 DEF Attempts

\* The steps of one request keep the counts.
LEMMA ServeCounts ==
    ASSUME Attempts, Accounts, Table, NEW c \in Callers, Serve(c)
    PROVE  Attempts'
<1>1. CallOK(calls[c])
  BY DEF Attempts
<1>2. CallOK(Idle) /\ Idle.stage # "verify"
  BY DEF CallOK, Idle
<1>3. ASSUME NEW login \in Logins, NEW guess \in Guesses, Login(c, login, guess)
      PROVE  Attempts'
  <2> DEFINE call == [stage |-> "verify", for |-> "login", login |-> login,
                      next |-> guess,
                      proved |-> Matches(login, guess) /\ users[login].enabled,
                      outdated |-> login \in Admins /\ users[login].outdated]
  <2>1. Matches(login, guess) => login \in Admins /\ guess \in Secrets
    BY DEF Matches, Accounts
  <2>2. call.proved \in BOOLEAN /\ call.outdated \in BOOLEAN
    BY DEF Matches, Accounts
  <2>3. CallOK(call) /\ call.stage = "verify" /\ call.login = login
    BY <2>1, <2>2 DEF CallOK
  <2>4. /\ Allowed(login) /\ Check /\ Guarded(c, call) /\ now' = now
        /\ calls[c].stage # "verify"
    BY <1>2, <1>3 DEF Login
  <2> HIDE DEF call
  <2>5. QED
    BY <2>3, <2>4, StartCounts
<1>4. CASE LoginFails(c)
  <2>1. PICK login : login = calls[c].login
    OBVIOUS
  <2>2. /\ EndGuarded /\ Fail(login) /\ calls' = [calls EXCEPT ![c] = Idle]
        /\ calls[c].stage = "verify" /\ now' = now
    BY <1>4, <2>1 DEF LoginFails, Leaves
  <2>3. QED
    BY <1>2, <2>1, <2>2, EndCounts
<1>5. ASSUME calls[c].stage = "verify", calls[c].proved
      PROVE  \E call : /\ call = [stage |-> "hash", for |-> calls[c].for,
                                  login |-> calls[c].login, next |-> calls[c].next]
                       /\ CallOK(call) /\ call.stage # "verify"
  <2>1. /\ calls[c].for \in {"login", "change"}
        /\ calls[c].login \in Admins /\ calls[c].next \in Secrets
    BY <1>1, <1>5 DEF CallOK, Idle
  <2>2. PICK call : call = [stage |-> "hash", for |-> calls[c].for,
                            login |-> calls[c].login, next |-> calls[c].next]
    OBVIOUS
  <2>3. CallOK(call) /\ call.stage # "verify"
    BY <2>1, <2>2 DEF CallOK
  <2>4. QED
    BY <2>2, <2>3
<1>6. CASE LoginSucceeds(c)
  <2>1. PICK login : login = calls[c].login
    OBVIOUS
  <2>2. /\ EndGuarded /\ Reset(login) /\ now' = now
        /\ calls[c].stage = "verify" /\ calls[c].proved
        /\ Hashes(c) \/ Leaves(c)
    BY <1>6, <2>1 DEF LoginSucceeds
  <2>3. PICK call : /\ CallOK(call) /\ call.stage # "verify"
                    /\ calls' = [calls EXCEPT ![c] = call]
    BY <1>2, <1>5, <2>2 DEF Hashes, Leaves
  <2>4. QED
    BY <2>1, <2>2, <2>3, EndCounts
<1>7. CASE Rehashed(c) \/ Changed(c) \/ ChangeRefused(c)
  <2>1. /\ calls' = [calls EXCEPT ![c] = Idle] /\ now' = now /\ inFlight' = inFlight
        /\ failures' = failures \/ Check
        /\ calls[c].stage # "verify"
    BY <1>7 DEF Rehashed, Changed, ChangeRefused, Leaves
  <2>2. QED
    BY <1>2, <2>1, OtherStages
<1>8. ASSUME NEW i \in DOMAIN rows, ChangeArrives(c, i)
      PROVE  Attempts'
  <2> DEFINE call == [stage |-> "body", login |-> rows[i].admin]
  <2>1. rows[i] \in Row
    BY DEF Table
  <2>2. CallOK(call) /\ call.stage # "verify"
    BY <2>1 DEF CallOK, Row
  <2>3. /\ calls' = [calls EXCEPT ![c] = call] /\ now' = now /\ inFlight' = inFlight
        /\ failures' = failures /\ calls[c].stage # "verify"
    BY <1>2, <1>8 DEF ChangeArrives
  <2> HIDE DEF call
  <2>4. QED
    BY <2>2, <2>3, OtherStages
<1>9. ASSUME NEW guess \in Guesses, NEW next \in Secrets, Change(c, guess, next)
      PROVE  Attempts'
  <2>1. PICK a : a = calls[c].login
    OBVIOUS
  <2> DEFINE call == [stage |-> "verify", for |-> "change", login |-> a,
                      next |-> next, proved |-> Matches(a, guess), outdated |-> FALSE]
  <2>2. a \in Admins
    BY <1>1, <1>9, <2>1 DEF Change, CallOK, Idle
  <2>3. a \in Logins /\ next \in Guesses
    BY <2>2, SessionAssumption
  <2>4. Matches(a, guess) \in BOOLEAN
    BY DEF Matches
  <2>5. CallOK(call) /\ call.stage = "verify" /\ call.login = a
    BY <2>2, <2>3, <2>4 DEF CallOK
  <2>6. /\ Allowed(a) /\ Check /\ Guarded(c, call) /\ now' = now
        /\ calls[c].stage # "verify"
    BY <1>9, <2>1 DEF Change
  <2> HIDE DEF call
  <2>7. QED
    BY <2>3, <2>5, <2>6, StartCounts
<1>10. CASE ChangeChecked(c)
  <2>1. PICK login : login = calls[c].login
    OBVIOUS
  <2>2. /\ EndGuarded /\ now' = now /\ calls[c].stage = "verify"
        /\ \/ calls[c].proved /\ Hashes(c) /\ failures' = failures
           \/ Fail(login) /\ Leaves(c)
    BY <1>10, <2>1 DEF ChangeChecked
  <2>3. PICK call : /\ CallOK(call) /\ call.stage # "verify"
                    /\ calls' = [calls EXCEPT ![c] = call]
    BY <1>2, <1>5, <2>2 DEF Hashes, Leaves
  <2>4. QED
    BY <2>1, <2>2, <2>3, EndCounts
<1>11. QED
  BY <1>3, <1>4, <1>6, <1>7, <1>8, <1>9, <1>10 DEF Serve

----------------------------------------------------------------------------
(* The table of sessions.                                                  *)

\* What FamiliesAreChains says of a row and of two rows of a family.
LEMMA ChainOfRow ==
    ASSUME Table, NEW i \in DOMAIN rows
    PROVE  /\ rows[i] \in Row
           /\ rows[i].family \in DOMAIN rows
           /\ rows[rows[i].family].family = rows[i].family
           /\ rows[i].expires <= rows[i].absolute
           /\ rows[i].absolute = rows[rows[i].family].created + AbsoluteTtl
BY DEF Table, FamiliesAreChains, FamilyRows

LEMMA ChainOfTwo ==
    ASSUME Table, NEW i \in DOMAIN rows, NEW j \in DOMAIN rows,
           rows[j].family = rows[i].family
    PROVE  /\ rows[j].admin = rows[i].admin
           /\ rows[j].revoked <=> rows[i].revoked
           /\ rows[j].absolute = rows[i].absolute
           /\ Live(i) /\ Live(j) => i = j
<1>1. j \in FamilyRows(rows[i].family)
  BY DEF FamilyRows
<1>2. QED
  BY <1>1, ChainOfRow DEF Table, FamiliesAreChains

\* What a revocation leaves of every row.
LEMMA RevokedRows ==
    ASSUME Table, NEW which, rows' = Revoked(rows, which)
    PROVE  /\ DOMAIN rows' = DOMAIN rows
           /\ \A i \in DOMAIN rows :
                /\ rows'[i] \in Row
                /\ rows'[i].admin = rows[i].admin /\ rows'[i].family = rows[i].family
                /\ rows'[i].created = rows[i].created /\ rows'[i].expires = rows[i].expires
                /\ rows'[i].absolute = rows[i].absolute
                /\ rows'[i].replacedBy = rows[i].replacedBy
                /\ rows'[i].revoked <=> rows[i].revoked \/ i \in which
<1>1. \A i \in DOMAIN rows : rows[i] \in Row
  BY DEF Table
<1>2. QED
  BY <1>1 DEF Revoked, Row

\* Revoking whole families keeps the chains.
LEMMA RevokedFamilies ==
    ASSUME Table, NEW which, rows' = Revoked(rows, which), lastId' = lastId,
           \A i, j \in DOMAIN rows :
              rows[i].family = rows[j].family /\ i \in which => j \in which
    PROVE  Table'
<1>1. DOMAIN rows' = DOMAIN rows
  BY RevokedRows
<1>2. \A i \in DOMAIN rows :
          /\ rows'[i] \in Row
          /\ rows'[i].admin = rows[i].admin /\ rows'[i].family = rows[i].family
          /\ rows'[i].created = rows[i].created /\ rows'[i].expires = rows[i].expires
          /\ rows'[i].absolute = rows[i].absolute
          /\ rows'[i].replacedBy = rows[i].replacedBy
          /\ rows'[i].revoked <=> rows[i].revoked \/ i \in which
  BY RevokedRows
<1>3. /\ lastId' \in Nat /\ DOMAIN rows' \subseteq 1..lastId'
      /\ \A i \in DOMAIN rows' : rows'[i] \in Row
  BY <1>1, <1>2 DEF Table
<1>4. ASSUME NEW i \in DOMAIN rows
      PROVE  /\ rows'[i].family \in DOMAIN rows'
             /\ rows'[rows'[i].family].family = rows'[i].family
             /\ rows'[i].expires <= rows'[i].absolute
             /\ rows'[i].absolute = rows'[rows'[i].family].created + AbsoluteTtl
  BY <1>1, <1>2, ChainOfRow
<1>5. ASSUME NEW i \in DOMAIN rows, NEW j \in DOMAIN rows, rows'[j].family = rows'[i].family
      PROVE  /\ rows'[j].admin = rows'[i].admin
             /\ rows'[j].revoked <=> rows'[i].revoked
             /\ Live(i)' /\ Live(j)' => i = j
  <2>1. j \in FamilyRows(rows[i].family) /\ rows[i].family = rows[j].family
    BY <1>2, <1>5 DEF FamilyRows
  <2>2. /\ rows[j].admin = rows[i].admin
        /\ rows[j].revoked <=> rows[i].revoked
        /\ Live(i) /\ Live(j) => i = j
    BY <2>1 DEF Table, FamiliesAreChains
  <2>3. i \in which <=> j \in which
    BY <2>1
  <2>4. QED
    BY <1>2, <2>2, <2>3 DEF Live
<1>6. ASSUME NEW i \in DOMAIN rows, ~rows'[i].revoked
      PROVE  \E j \in DOMAIN rows : rows'[j].family = rows'[i].family /\ Live(j)'
  <2>1. ~rows[i].revoked /\ i \notin which
    BY <1>2, <1>6
  <2>2. PICK j \in FamilyRows(rows[i].family) : Live(j)
    BY <2>1 DEF Table, FamiliesAreChains
  <2>3. j \in DOMAIN rows /\ rows[j].family = rows[i].family /\ j \notin which
    BY <2>1, <2>2 DEF FamilyRows
  <2>4. rows'[j].family = rows'[i].family /\ Live(j)'
    BY <1>2, <2>2, <2>3 DEF Live
  <2>5. QED
    BY <2>3, <2>4
<1>7. FamiliesAreChains'
  BY <1>1, <1>4, <1>5, <1>6 DEF FamiliesAreChains, FamilyRows
<1>8. QED
  BY <1>3, <1>7 DEF Table

\* An administrator's rows, and a family's, are whole families.
LEMMA WholeFamilies ==
    ASSUME Table
    PROVE  /\ \A f, i, j : /\ i \in DOMAIN rows /\ j \in DOMAIN rows
                           /\ rows[i].family = rows[j].family /\ i \in FamilyRows(f)
                           => j \in FamilyRows(f)
           /\ \A a, i, j : /\ i \in DOMAIN rows /\ j \in DOMAIN rows
                           /\ rows[i].family = rows[j].family /\ i \in RowsOf(a)
                           => j \in RowsOf(a)
<1>1. ASSUME NEW a, NEW i \in DOMAIN rows, NEW j \in DOMAIN rows,
             rows[i].family = rows[j].family, i \in RowsOf(a)
      PROVE  j \in RowsOf(a)
  <2>1. j \in FamilyRows(rows[i].family)
    BY <1>1 DEF FamilyRows
  <2>2. rows[j].admin = rows[i].admin
    BY <2>1 DEF Table, FamiliesAreChains
  <2>3. QED
    BY <1>1, <2>2 DEF RowsOf
<1>2. QED
  BY <1>1 DEF FamilyRows

\* A rotation puts the new row in the place of the live one.
LEMMA RotateKeeps ==
    ASSUME Table, now \in Nat, NEW i \in DOMAIN rows, Rotate(i)
    PROVE  Table'
<1>1. /\ lastId \in Nat /\ DOMAIN rows \subseteq 1..lastId
      /\ \A j \in DOMAIN rows : rows[j] \in Row
  BY DEF Table
<1>0. PICK n : n = lastId + 1
  OBVIOUS
<1>2. n \notin DOMAIN rows /\ n \in Nat /\ n # 0 /\ i # n
  BY <1>0, <1>1
<1>3. Live(i) /\ lastId' = n
  BY <1>0 DEF Rotate
<1>4. RefreshTtl \in Nat
  BY SessionAssumption
<1>5. PICK row : row = NewRow(rows[i].admin, rows[i].family, rows[i].absolute)
  OBVIOUS
<1>6. /\ row \in Row /\ row.admin = rows[i].admin /\ row.family = rows[i].family
      /\ row.absolute = rows[i].absolute /\ row.expires <= row.absolute
      /\ ~row.revoked /\ row.replacedBy = 0
  <2>1. /\ rows[i].family \in 1..lastId /\ rows[i].admin \in Admins
        /\ rows[i].absolute \in Nat
    BY <1>1, ChainOfRow DEF Row
  <2>2. /\ Before(now + RefreshTtl, rows[i].absolute) \in Nat
        /\ Before(now + RefreshTtl, rows[i].absolute) <= rows[i].absolute
    BY <1>4, <2>1 DEF Before
  <2>3. rows[i].family # 0 /\ rows[i].family \in Nat
    BY <1>1, <2>1
  <2>4. QED
    BY <1>1, <1>5, <2>1, <2>2, <2>3 DEF NewRow, Row
<1>7. rows' = [j \in DOMAIN rows \cup {n} |->
                 IF j = n THEN row
                 ELSE [rows EXCEPT ![i].replacedBy = n, ![i].replacedAt = now][j]]
  BY <1>0, <1>5 DEF Rotate, With
<1>8. DOMAIN rows' = DOMAIN rows \cup {n} /\ rows'[n] = row
  BY <1>7
<1>9. \A j \in DOMAIN rows :
          /\ rows'[j] \in Row
          /\ rows'[j].admin = rows[j].admin /\ rows'[j].family = rows[j].family
          /\ rows'[j].created = rows[j].created /\ rows'[j].expires = rows[j].expires
          /\ rows'[j].absolute = rows[j].absolute
          /\ rows'[j].revoked <=> rows[j].revoked
          /\ rows'[j].replacedBy = IF j = i THEN n ELSE rows[j].replacedBy
  <2>1. ASSUME NEW j \in DOMAIN rows
        PROVE  rows'[j] = IF j = i THEN [rows[i] EXCEPT !.replacedBy = n, !.replacedAt = now]
                          ELSE rows[j]
    BY <1>2, <1>7
  <2>2. \A j \in DOMAIN rows \ {i} : rows'[j] = rows[j]
    BY <2>1
  <2>3. /\ rows'[i] = [rows[i] EXCEPT !.replacedBy = n, !.replacedAt = now]
        /\ rows[i] \in Row
    BY <1>1, <2>1
  <2>4. /\ rows'[i] \in Row
        /\ rows'[i].admin = rows[i].admin /\ rows'[i].family = rows[i].family
        /\ rows'[i].created = rows[i].created /\ rows'[i].expires = rows[i].expires
        /\ rows'[i].absolute = rows[i].absolute
        /\ rows'[i].revoked = rows[i].revoked
        /\ rows'[i].replacedBy = n
    BY <1>2, <2>3 DEF Row
  <2>5. QED
    BY <1>1, <2>2, <2>4
<1>10. /\ lastId' \in Nat /\ DOMAIN rows' \subseteq 1..lastId'
       /\ \A j \in DOMAIN rows' : rows'[j] \in Row
  BY <1>0, <1>1, <1>2, <1>3, <1>6, <1>8, <1>9
<1>11. \A j \in DOMAIN rows : Live(j)' <=> Live(j) /\ j # i
  BY <1>2, <1>3, <1>9 DEF Live
<1>12. Live(n)' /\ ~rows[i].revoked
  BY <1>3, <1>6, <1>8 DEF Live
<1>13. ASSUME NEW j \in DOMAIN rows'
       PROVE  /\ rows'[j].family \in DOMAIN rows'
              /\ rows'[rows'[j].family].family = rows'[j].family
              /\ rows'[j].expires <= rows'[j].absolute
              /\ rows'[j].absolute = rows'[rows'[j].family].created + AbsoluteTtl
  <2>1. \A k \in DOMAIN rows : /\ rows[k].family \in DOMAIN rows
                               /\ rows[rows[k].family].family = rows[k].family
                               /\ rows[k].expires <= rows[k].absolute
                               /\ rows[k].absolute = rows[rows[k].family].created + AbsoluteTtl
    BY ChainOfRow
  <2>2. CASE j \in DOMAIN rows
    BY <1>8, <1>9, <2>1, <2>2
  <2>3. CASE j = n
    BY <1>6, <1>8, <1>9, <2>1, <2>3
  <2>4. QED
    BY <1>8, <2>2, <2>3
<1>14. ASSUME NEW j \in DOMAIN rows', NEW k \in DOMAIN rows', rows'[k].family = rows'[j].family
       PROVE  /\ rows'[k].admin = rows'[j].admin
              /\ rows'[k].revoked <=> rows'[j].revoked
              /\ Live(j)' /\ Live(k)' => j = k
  <2>1. CASE j \in DOMAIN rows /\ k \in DOMAIN rows
    <3>1. rows[j].family = rows[k].family
      BY <1>9, <1>14, <2>1
    <3>2. QED
      BY <1>9, <1>11, <2>1, <3>1, ChainOfTwo
  <2>2. CASE j = n /\ k \in DOMAIN rows
    <3>1. rows[i].family = rows[k].family
      BY <1>6, <1>8, <1>9, <1>14, <2>2
    <3>2. /\ rows[k].admin = rows[i].admin /\ ~rows[k].revoked
          /\ Live(k) => k = i
      BY <1>3, <1>12, <2>2, <3>1, ChainOfTwo
    <3>3. QED
      BY <1>6, <1>8, <1>9, <1>11, <2>2, <3>2
  <2>3. CASE j \in DOMAIN rows /\ k = n
    <3>1. rows[i].family = rows[j].family
      BY <1>6, <1>8, <1>9, <1>14, <2>3
    <3>2. /\ rows[j].admin = rows[i].admin /\ ~rows[j].revoked
          /\ Live(j) => j = i
      BY <1>3, <1>12, <2>3, <3>1, ChainOfTwo
    <3>3. QED
      BY <1>6, <1>8, <1>9, <1>11, <2>3, <3>2
  <2>4. CASE j = n /\ k = n
    BY <2>4
  <2>5. QED
    BY <1>8, <2>1, <2>2, <2>3, <2>4
<1>15. ASSUME NEW j \in DOMAIN rows', ~rows'[j].revoked
       PROVE  \E k \in DOMAIN rows' : rows'[k].family = rows'[j].family /\ Live(k)'
  <2>1. CASE j = n
    BY <1>8, <1>12, <2>1
  <2>2. CASE j \in DOMAIN rows
    <3>1. ~rows[j].revoked
      BY <1>9, <1>15, <2>2
    <3>2. PICK k \in FamilyRows(rows[j].family) : Live(k)
      BY <2>2, <3>1 DEF Table, FamiliesAreChains
    <3>3. k \in DOMAIN rows /\ rows[k].family = rows[j].family
      BY <3>2 DEF FamilyRows
    <3>4. CASE k = i
      <4>1. rows'[n].family = rows'[j].family
        BY <1>6, <1>8, <1>9, <2>2, <3>3, <3>4
      <4>2. QED
        BY <1>8, <1>12, <4>1
    <3>5. CASE k # i
      <4>1. rows'[k].family = rows'[j].family /\ k \in DOMAIN rows' /\ Live(k)'
        BY <1>8, <1>9, <1>11, <2>2, <3>2, <3>3, <3>5
      <4>2. QED
        BY <4>1
    <3>6. QED
      BY <3>4, <3>5
  <2>3. QED
    BY <1>8, <2>1, <2>2
<1>16. FamiliesAreChains'
  BY <1>13, <1>14, <1>15 DEF FamiliesAreChains, FamilyRows
<1>17. QED
  BY <1>10, <1>16 DEF Table

\* A login purges whole families and adds one of its own.
LEMMA IssueKeeps ==
    ASSUME Table, now \in Nat, NEW call, call.login \in Admins, Issue(call)
    PROVE  Table'
<1>1. /\ lastId \in Nat /\ DOMAIN rows \subseteq 1..lastId
      /\ \A j \in DOMAIN rows : rows[j] \in Row
  BY DEF Table
<1>2. PICK n : n = lastId + 1
  OBVIOUS
<1>3. n \notin DOMAIN rows /\ n \in Nat /\ n # 0 /\ lastId' = n
  BY <1>1, <1>2 DEF Issue
<1>4. RefreshTtl \in Nat /\ AbsoluteTtl \in Nat
  BY SessionAssumption
<1>5. PICK row : row = NewRow(call.login, 0, now + AbsoluteTtl)
  OBVIOUS
<1>6. /\ row \in Row /\ row.family = n /\ row.created = now
      /\ row.absolute = now + AbsoluteTtl /\ row.expires <= row.absolute
      /\ ~row.revoked /\ row.replacedBy = 0
  <2>1. /\ Before(now + RefreshTtl, now + AbsoluteTtl) \in Nat
        /\ Before(now + RefreshTtl, now + AbsoluteTtl) <= now + AbsoluteTtl
    BY <1>4 DEF Before
  <2>2. QED
    BY <1>2, <1>3, <1>4, <1>5, <2>1 DEF NewRow, Row
<1>7. PICK kept : kept = {j \in DOMAIN rows : rows[j].absolute >= now}
  OBVIOUS
<1>8. kept \subseteq DOMAIN rows /\ n \notin kept
  BY <1>3, <1>7
<1>9. /\ DOMAIN rows' = kept \cup {n} /\ rows'[n] = row
      /\ \A j \in kept : rows'[j] = rows[j]
  <2>1. DOMAIN Unexpired = kept
    BY <1>7 DEF Unexpired
  <2>2. rows' = [j \in kept \cup {n} |-> IF j = n THEN row ELSE rows[j]]
    BY <1>2, <1>5, <2>1 DEF Issue
  <2>3. QED
    BY <1>8, <2>2
<1>10. /\ lastId' \in Nat /\ DOMAIN rows' \subseteq 1..lastId'
       /\ \A j \in DOMAIN rows' : rows'[j] \in Row
  BY <1>1, <1>2, <1>3, <1>6, <1>8, <1>9
<1>11. \A j \in kept : rows[j].family \in kept /\ rows[j].family # n
  BY <1>3, <1>7, ChainOfRow, ChainOfTwo
<1>12. \A j \in kept : Live(j)' <=> Live(j)
  BY <1>9 DEF Live
<1>13. Live(n)'
  BY <1>6, <1>9 DEF Live
<1>14. ASSUME NEW j \in DOMAIN rows'
       PROVE  /\ rows'[j].family \in DOMAIN rows'
              /\ rows'[rows'[j].family].family = rows'[j].family
              /\ rows'[j].expires <= rows'[j].absolute
              /\ rows'[j].absolute = rows'[rows'[j].family].created + AbsoluteTtl
  <2>1. CASE j = n
    BY <1>6, <1>9, <2>1
  <2>2. CASE j \in kept
    BY <1>8, <1>9, <1>11, <2>2, ChainOfRow
  <2>3. QED
    BY <1>9, <2>1, <2>2
<1>15. ASSUME NEW j \in DOMAIN rows', NEW k \in DOMAIN rows', rows'[k].family = rows'[j].family
       PROVE  /\ rows'[k].admin = rows'[j].admin
              /\ rows'[k].revoked <=> rows'[j].revoked
              /\ Live(j)' /\ Live(k)' => j = k
  <2>1. CASE j = n \/ k = n
    <3>1. j = n /\ k = n
      BY <1>6, <1>9, <1>11, <1>15, <2>1
    <3>2. QED
      BY <3>1
  <2>2. CASE j \in kept /\ k \in kept
    <3>1. rows[k].family = rows[j].family
      BY <1>9, <1>15, <2>2
    <3>2. QED
      BY <1>8, <1>9, <1>12, <2>2, <3>1, ChainOfTwo
  <2>3. QED
    BY <1>9, <2>1, <2>2
<1>16. ASSUME NEW j \in DOMAIN rows', ~rows'[j].revoked
       PROVE  \E k \in DOMAIN rows' : rows'[k].family = rows'[j].family /\ Live(k)'
  <2>1. CASE j = n
    <3>1. rows'[n].family = rows'[j].family /\ n \in DOMAIN rows'
      BY <1>9, <2>1
    <3>2. QED
      BY <1>13, <3>1
  <2>2. CASE j \in kept
    <3>1. PICK k \in FamilyRows(rows[j].family) : Live(k)
      BY <1>8, <1>9, <1>16, <2>2 DEF Table, FamiliesAreChains
    <3>2. k \in DOMAIN rows /\ rows[k].family = rows[j].family
      BY <3>1 DEF FamilyRows
    <3>3. k \in kept
      BY <1>7, <2>2, <3>2, ChainOfTwo
    <3>4. rows'[k].family = rows'[j].family /\ k \in DOMAIN rows' /\ Live(k)'
      BY <1>9, <1>12, <2>2, <3>1, <3>2, <3>3
    <3>5. QED
      BY <3>4
  <2>3. QED
    BY <1>9, <2>1, <2>2
<1>17. FamiliesAreChains'
  BY <1>14, <1>15, <1>16 DEF FamiliesAreChains, FamilyRows
<1>18. QED
  BY <1>10, <1>17 DEF Table

----------------------------------------------------------------------------
(* What a step may do to the rows of both tables.                          *)

WholeFamily(which) ==
    \A i, j \in DOMAIN rows :
        rows[i].family = rows[j].family /\ i \in which => j \in which

RowsChange ==
    \/ rows' = rows /\ lastId' = lastId
    \/ \E which : /\ WholeFamily(which)
                  /\ rows' = Revoked(rows, which) /\ lastId' = lastId
    \/ \E i \in DOMAIN rows : Rotate(i)
    \/ \E call : call.login \in Admins /\ Issue(call)

UsersChange ==
    \/ users' = users
    \/ \E a \in Admins, secret \in Secrets : SetPassword(a, secret)
    \/ \E a \in Admins : users' = [users EXCEPT ![a].enabled = FALSE]

LEMMA RevokedWhole ==
    ASSUME Table, lastId' = lastId,
           \/ \E f : rows' = Revoked(rows, FamilyRows(f))
           \/ \E a : rows' = Revoked(rows, RowsOf(a))
           \/ \E i, j \in DOMAIN rows :
                 rows' = Revoked(rows,
                            (IF AccessValid(i) THEN FamilyRows(rows[i].family) ELSE {})
                            \cup FamilyRows(rows[j].family))
    PROVE  RowsChange
<1>1. ASSUME NEW f
      PROVE  WholeFamily(FamilyRows(f))
  BY WholeFamilies DEF WholeFamily
<1>2. ASSUME NEW a
      PROVE  WholeFamily(RowsOf(a))
  BY WholeFamilies DEF WholeFamily
<1>3. CASE \E f : rows' = Revoked(rows, FamilyRows(f))
  BY <1>1, <1>3 DEF RowsChange
<1>4. CASE \E a : rows' = Revoked(rows, RowsOf(a))
  BY <1>2, <1>4 DEF RowsChange
<1>5. CASE \E i, j \in DOMAIN rows :
                 rows' = Revoked(rows,
                            (IF AccessValid(i) THEN FamilyRows(rows[i].family) ELSE {})
                            \cup FamilyRows(rows[j].family))
  <2>1. PICK i \in DOMAIN rows, j \in DOMAIN rows :
                 rows' = Revoked(rows,
                            (IF AccessValid(i) THEN FamilyRows(rows[i].family) ELSE {})
                            \cup FamilyRows(rows[j].family))
    BY <1>5
  <2>2. PICK f, g : f = rows[i].family /\ g = rows[j].family
    OBVIOUS
  <2>3. PICK which : which = (IF AccessValid(i) THEN FamilyRows(rows[i].family) ELSE {})
                             \cup FamilyRows(rows[j].family)
    OBVIOUS
  <2>4. which = FamilyRows(g) \/ which = FamilyRows(f) \cup FamilyRows(g)
    BY <2>2, <2>3
  <2>5. WholeFamily(FamilyRows(f)) /\ WholeFamily(FamilyRows(g))
    BY <1>1
  <2>6. WholeFamily(which)
    BY <2>4, <2>5 DEF WholeFamily
  <2>7. QED
    BY <2>1, <2>3, <2>6 DEF RowsChange
<1>6. QED
  BY <1>3, <1>4, <1>5

\* A request opens a session, or ends those of its administrator.
LEMMA ServeShapes ==
    ASSUME Attempts, Accounts, Table, NEW c \in Callers, Serve(c)
    PROVE  RowsChange /\ UsersChange /\ now' = now /\ cli' = cli
<1>1. CallOK(calls[c])
  BY DEF Attempts
<1>2. ASSUME calls[c].stage = "hash" \/ (calls[c].stage = "verify" /\ calls[c].proved)
      PROVE  calls[c].login \in Admins /\ calls[c].next \in Secrets
  BY <1>1, <1>2 DEF CallOK, Idle
<1>3. CASE \/ \E login \in Logins, guess \in Guesses : Login(c, login, guess)
           \/ LoginFails(c)
           \/ \E i \in DOMAIN rows : ChangeArrives(c, i)
           \/ \E guess \in Guesses, next \in Secrets : Change(c, guess, next)
           \/ ChangeRefused(c)
           \/ ChangeChecked(c)
  <2>1. rows' = rows /\ lastId' = lastId /\ users' = users /\ now' = now /\ cli' = cli
    BY <1>3 DEF Login, LoginFails, ChangeArrives, Change, ChangeRefused, ChangeChecked, repoVars
  <2>2. QED
    BY <2>1 DEF RowsChange, UsersChange
<1>4. CASE LoginSucceeds(c)
  <2>1. /\ users' = users /\ now' = now /\ cli' = cli
        /\ calls[c].stage = "verify" /\ calls[c].proved
        /\ (rows' = rows /\ lastId' = lastId) \/ Issue(calls[c])
    BY <1>4 DEF LoginSucceeds
  <2>2. calls[c].login \in Admins
    BY <1>2, <2>1
  <2>3. QED
    BY <2>1, <2>2 DEF RowsChange, UsersChange
<1>5. CASE Rehashed(c)
  <2>1. /\ SetPassword(calls[c].login, calls[c].next) /\ now' = now /\ cli' = cli
        /\ calls[c].stage = "hash" /\ Issue(calls[c])
    BY <1>5 DEF Rehashed
  <2>2. calls[c].login \in Admins /\ calls[c].next \in Secrets
    BY <1>2, <2>1
  <2>3. QED
    BY <2>1, <2>2 DEF RowsChange, UsersChange
<1>6. CASE Changed(c)
  <2>1. /\ SetPassword(calls[c].login, calls[c].next) /\ now' = now /\ cli' = cli
        /\ calls[c].stage = "hash" /\ lastId' = lastId
        /\ rows' = Revoked(rows, RowsOf(calls[c].login))
    BY <1>6 DEF Changed
  <2>2. calls[c].login \in Admins /\ calls[c].next \in Secrets
    BY <1>2, <2>1
  <2>3. RowsChange
    BY <2>1, RevokedWhole
  <2>4. QED
    BY <2>1, <2>2, <2>3 DEF UsersChange
<1>7. QED
  BY <1>3, <1>4, <1>5, <1>6 DEF Serve

LEMMA Shapes ==
    ASSUME Inv, [Next]_vars
    PROVE  /\ RowsChange /\ UsersChange
           /\ now' = now \/ now' = now + 1
           /\ cli' \in {Idle} \cup [stage: {"revoke"}, admin: Admins]
<1> USE DEF Inv
<1>1. cli \in {Idle} \cup [stage: {"revoke"}, admin: Admins]
  BY DEF Accounts
<1>2. CASE \E c \in Callers : Serve(c)
  BY <1>1, <1>2, ServeShapes
<1>3. CASE \/ \E login \in Logins : Refused(login)
           \/ CliDies \/ Restart \/ Tick \/ UNCHANGED vars
  <2>1. /\ rows' = rows /\ lastId' = lastId /\ users' = users
        /\ now' = now \/ now' = now + 1
        /\ cli' = cli \/ cli' = Idle
    BY <1>3 DEF Refused, CliDies, Restart, Tick, vars, repoVars
  <2>2. QED
    BY <1>1, <2>1 DEF RowsChange, UsersChange
<1>4. ASSUME NEW i \in DOMAIN rows, Refresh(i)
      PROVE  RowsChange /\ UsersChange /\ now' = now /\ cli' = cli
  <2>1. users' = users /\ now' = now /\ cli' = cli
    BY <1>4 DEF Refresh
  <2>2. CASE Rotate(i)
    BY <2>1, <2>2 DEF RowsChange, UsersChange
  <2>3. CASE EndFamily(i)
    <3>1. RowsChange
      BY <2>3, RevokedWhole DEF EndFamily
    <3>2. QED
      BY <2>1, <3>1 DEF UsersChange
  <2>4. QED
    BY <1>4, <2>2, <2>3 DEF Refresh
<1>5. ASSUME NEW i \in DOMAIN rows, NEW j \in DOMAIN rows, Logout(i, j)
      PROVE  RowsChange /\ UsersChange /\ now' = now /\ cli' = cli
  BY <1>5, RevokedWhole DEF Logout, UsersChange
<1>6. ASSUME NEW a \in Admins, Command(a)
      PROVE  /\ RowsChange /\ UsersChange /\ now' = now
             /\ cli' \in [stage: {"revoke"}, admin: Admins]
  <2>1. cli' = [stage |-> "revoke", admin |-> a]
    BY <1>6 DEF Command, CliReset, CliDisable, CliRevokeSessions
  <2>2. CASE \E secret \in Secrets : CliReset(a, secret)
    BY <2>1, <2>2 DEF CliReset, UsersChange, RowsChange
  <2>3. CASE CliDisable(a)
    <3>1. /\ rows' = rows /\ lastId' = lastId /\ now' = now
          /\ users' = [users EXCEPT ![a].enabled = FALSE]
      BY <2>3 DEF CliDisable
    <3>2. UsersChange
      BY <3>1 DEF UsersChange
    <3>3. QED
      BY <2>1, <3>1, <3>2 DEF RowsChange
  <2>4. CASE CliRevokeSessions(a)
    BY <2>1, <2>4 DEF CliRevokeSessions, UsersChange, RowsChange, repoVars
  <2>5. QED
    BY <1>6, <2>2, <2>3, <2>4 DEF Command
<1>7. CASE CliRevokeAll
  <2>1. /\ rows' = Revoked(rows, RowsOf(cli.admin)) /\ lastId' = lastId
        /\ users' = users /\ now' = now /\ cli' = Idle
    BY <1>7 DEF CliRevokeAll
  <2>2. RowsChange
    BY <2>1, RevokedWhole
  <2>3. QED
    BY <2>1, <2>2 DEF UsersChange
<1>8. QED
  BY <1>1, <1>2, <1>3, <1>4, <1>5, <1>6, <1>7 DEF Next

----------------------------------------------------------------------------
(* The invariant.                                                          *)

\* A server that has just started computes nothing and remembers no failure.
LEMMA JustStarted ==
    ASSUME now = 0, failures = [l \in Logins |-> <<>>], inFlight = 0,
           calls = [c \in Callers |-> Idle]
    PROVE  Attempts
<1>1. Verifiers = {} /\ \A l \in Logins : VerifiersOf(l) = {}
  BY DEF Verifiers, VerifiersOf, Idle
<1>2. Cardinality({}) = 0
  BY FS_EmptySet
<1>3. \A l \in Logins : failures[l] \in Seq(Nat) /\ Len(failures[l]) = 0
  OBVIOUS
<1>4. failures \in [Logins -> Seq(Nat)]
  BY <1>3
<1>5. MaxAttempts \in Nat \ {0} /\ MaxParallel \in Nat \ {0}
  BY SessionAssumption, ThrottleAssumption
<1>6. GuessesBounded
  <2>1. ASSUME NEW l \in Logins
        PROVE  Len(failures[l]) + Cardinality(VerifiersOf(l)) <= MaxAttempts - 1 + MaxParallel
    <3>1. VerifiersOf(l) = {} /\ Len(failures[l]) = 0
      BY <1>1, <1>3
    <3>2. QED
      BY <1>2, <1>5, <3>1
  <2>2. QED
    BY <2>1 DEF GuessesBounded
<1>7. ScryptBudget
  BY <1>1, <1>2, <1>5 DEF ScryptBudget
<1>8. DOMAIN calls = Callers /\ \A c \in Callers : CallOK(calls[c])
  BY DEF CallOK
<1>9. QED
  BY <1>4, <1>6, <1>7, <1>8 DEF Attempts

LEMMA InitInv == Init => Inv
<1> SUFFICES ASSUME Init
             PROVE  Inv
  OBVIOUS
<1>1. /\ now = 0 /\ failures = [l \in Logins |-> <<>>] /\ rows = <<>> /\ lastId = 0
      /\ inFlight = 0 /\ calls = [c \in Callers |-> Idle] /\ cli = Idle
      /\ users \in [Admins -> [secret: Secrets, outdated: BOOLEAN, enabled: {TRUE}]]
  BY DEF Init
<1>2. Attempts
  BY <1>1, JustStarted
<1>3. Accounts
  BY <1>1 DEF Accounts
<1>4. DOMAIN rows = {}
  BY <1>1
<1>5. Table
  BY <1>1, <1>4 DEF Table, FamiliesAreChains
<1>6. QED
  BY <1>2, <1>3, <1>5 DEF Inv

LEMMA NextInv == Inv /\ [Next]_vars => Inv'
<1> SUFFICES ASSUME Inv, [Next]_vars
             PROVE  Inv'
  OBVIOUS
<1> USE DEF Inv
<1>1. /\ RowsChange /\ UsersChange
      /\ now' = now \/ now' = now + 1
      /\ cli' \in {Idle} \cup [stage: {"revoke"}, admin: Admins]
  BY Shapes
<1>2. now \in Nat /\ now' \in Nat
  BY <1>1 DEF Attempts
<1>3. Attempts'
  <2>1. CASE \E c \in Callers : Serve(c)
    BY <2>1, ServeCounts
  <2>2. CASE Restart
    BY <1>2, <2>2, NothingCounted DEF Restart, Forget
  <2>3. CASE \/ \E login \in Logins : Refused(login)
             \/ \E i \in DOMAIN rows : Refresh(i)
             \/ \E i, j \in DOMAIN rows : Logout(i, j)
             \/ \E a \in Admins : Command(a)
             \/ CliRevokeAll \/ CliDies \/ Tick \/ UNCHANGED vars
    <3>1. calls' = calls /\ inFlight' = inFlight /\ (failures' = failures \/ Check)
      BY <2>3 DEF Refused, Refresh, Logout, Command, CliReset, CliDisable,
                  CliRevokeSessions, CliRevokeAll, CliDies, Tick, vars
    <3>2. QED
      BY <1>2, <3>1, Untouched
  <2>4. QED
    BY <2>1, <2>2, <2>3 DEF Next
<1>4. Accounts'
  <2>1. users \in [Admins -> [secret: Secrets, outdated: BOOLEAN, enabled: BOOLEAN]]
    BY DEF Accounts
  <2>2. CASE users' = users
    BY <1>1, <2>1, <2>2 DEF Accounts
  <2>3. CASE \E a \in Admins, secret \in Secrets : SetPassword(a, secret)
    <3>1. PICK a \in Admins, secret \in Secrets : SetPassword(a, secret)
      BY <2>3
    <3>2. users' \in [Admins -> [secret: Secrets, outdated: BOOLEAN, enabled: BOOLEAN]]
      BY <2>1, <3>1 DEF SetPassword
    <3>3. QED
      BY <1>1, <3>2 DEF Accounts
  <2>4. CASE \E a \in Admins : users' = [users EXCEPT ![a].enabled = FALSE]
    <3>1. PICK a \in Admins : users' = [users EXCEPT ![a].enabled = FALSE]
      BY <2>4
    <3>2. users' \in [Admins -> [secret: Secrets, outdated: BOOLEAN, enabled: BOOLEAN]]
      BY <2>1, <3>1
    <3>3. QED
      BY <1>1, <3>2 DEF Accounts
  <2>5. QED
    BY <1>1, <2>2, <2>3, <2>4 DEF UsersChange
<1>5. Table'
  <2>1. CASE rows' = rows /\ lastId' = lastId
    BY <2>1 DEF Table, FamiliesAreChains, FamilyRows, Live
  <2>2. CASE \E which : WholeFamily(which) /\ rows' = Revoked(rows, which) /\ lastId' = lastId
    BY <2>2, RevokedFamilies DEF WholeFamily
  <2>3. CASE \E i \in DOMAIN rows : Rotate(i)
    BY <1>2, <2>3, RotateKeeps
  <2>4. CASE \E call : call.login \in Admins /\ Issue(call)
    BY <1>2, <2>4, IssueKeeps
  <2>5. QED
    BY <1>1, <2>1, <2>2, <2>3, <2>4 DEF RowsChange
<1>6. QED
  BY <1>3, <1>4, <1>5

\* Inv holds in every reachable state.
THEOREM Invariance == Spec => []Inv
<1>1. QED
  BY InitInv, NextInv, PTL DEF Spec

\* Every variable stays in its type (session-service.ts, login-throttle.ts).
THEOREM TypesHold == Spec => []TypeOK
<1>1. Inv => TypeOK
  BY DEF Inv, Attempts, Accounts, Table, TypeOK
<1>2. QED
  BY <1>1, Invariance, PTL

\* scryptGuard (session-service.ts:97-105) never lets more than
\* MAX_PARALLEL_SCRYPT passwords be verified at once, and is left as often as
\* it is entered, through every way out of a login and of a password change.
THEOREM GuardCounts == Spec => []ScryptBudget
<1>1. Inv => ScryptBudget
  BY DEF Inv, Attempts
<1>2. QED
  BY <1>1, Invariance, PTL

\* Parallel attempts cannot guess more often than the throttle allows, up to
\* those that were already let through (session-service.ts:109-115, 208-215).
THEOREM GuessesHold == Spec => []GuessesBounded
<1>1. Inv => GuessesBounded
  BY DEF Inv, Attempts
<1>2. QED
  BY <1>1, Invariance, PTL

\* Rotations, logouts, revocations, purges and restarts in any order leave
\* every session one chain with one live row (session-service.ts:128-202).
THEOREM ChainsHold == Spec => []FamiliesAreChains
<1>1. Inv => FamiliesAreChains
  BY DEF Inv, Table
<1>2. QED
  BY <1>1, Invariance, PTL

\* What a step makes of a family that is not active.
LEMMA DeadStep ==
    ASSUME Inv, [Next]_vars, NEW f \in 1..lastId, FamilyActive(f)'
    PROVE  FamilyActive(f)
<1> USE DEF Inv
<1>1. RowsChange /\ UsersChange /\ (now' = now \/ now' = now + 1)
  BY Shapes
<1>2. \A i \in DOMAIN rows : rows[i] \in Row
  BY DEF Table
<1>3. PICK i \in DOMAIN rows' : /\ rows'[i].family = f /\ Live(i)'
                                /\ rows'[i].absolute > now'
                                /\ users'[rows'[i].admin].enabled
  BY DEF FamilyActive, FamilyRows
<1>4. \A a \in Admins : users'[a].enabled => users[a].enabled
  <2>1. users \in [Admins -> [secret: Secrets, outdated: BOOLEAN, enabled: BOOLEAN]]
    BY DEF Accounts
  <2>2. QED
    BY <1>1, <2>1 DEF UsersChange, SetPassword
<1>5. ASSUME i \in DOMAIN rows, rows[i].family = f, Live(i),
             rows'[i].absolute = rows[i].absolute, rows'[i].admin = rows[i].admin
      PROVE  FamilyActive(f)
  <2>1. rows[i].admin \in Admins /\ rows[i].absolute \in Nat /\ now \in Nat
    BY <1>2, <1>5 DEF Row, Attempts
  <2>2. rows[i].absolute > now /\ users[rows[i].admin].enabled
    BY <1>1, <1>3, <1>4, <1>5, <2>1
  <2>3. QED
    BY <1>5, <2>2 DEF FamilyActive, FamilyRows
<1>6. CASE rows' = rows
  BY <1>3, <1>5, <1>6 DEF Live
<1>7. CASE \E which : rows' = Revoked(rows, which)
  <2>1. PICK which : rows' = Revoked(rows, which)
    BY <1>7
  <2>2. /\ i \in DOMAIN rows /\ rows'[i].family = rows[i].family
        /\ rows'[i].absolute = rows[i].absolute /\ rows'[i].admin = rows[i].admin
        /\ rows'[i].replacedBy = rows[i].replacedBy
        /\ rows'[i].revoked <=> rows[i].revoked \/ i \in which
    BY <1>3, <2>1, RevokedRows
  <2>3. QED
    BY <1>3, <1>5, <2>2 DEF Live
<1>8. ASSUME NEW k \in DOMAIN rows, Rotate(k)
      PROVE  FamilyActive(f)
  <2>1. Live(k) /\ Usable(k)
    BY <1>8 DEF Rotate
  <2>2. FamilyActive(rows[k].family)
    BY <2>1 DEF FamilyActive, FamilyRows, Usable
  <2>3. CASE i = lastId + 1
    BY <1>3, <1>8, <2>2, <2>3 DEF Rotate, With, NewRow, Table
  <2>4. CASE i # lastId + 1
    <3>1. i \in DOMAIN rows
          /\ rows'[i] = [rows EXCEPT ![k].replacedBy = lastId + 1, ![k].replacedAt = now][i]
      BY <1>3, <1>8, <2>4 DEF Rotate, With
    <3>2. rows[i] \in Row /\ lastId + 1 # 0
      BY <1>2, <3>1 DEF Table
    <3>3. CASE i = k
      BY <1>3, <1>8, <2>2, <3>1, <3>2, <3>3 DEF Row
    <3>4. CASE i # k
      BY <1>3, <1>5, <3>1, <3>4 DEF Live
    <3>5. QED
      BY <3>3, <3>4
  <2>5. QED
    BY <2>3, <2>4
<1>9. ASSUME NEW call, Issue(call)
      PROVE  FamilyActive(f)
  <2>1. CASE i = lastId + 1
    <3>1. rows'[i].family = lastId + 1 /\ lastId \in Nat
      BY <1>9, <2>1 DEF Issue, NewRow, Table
    <3>2. QED
      BY <1>3, <3>1
  <2>2. CASE i # lastId + 1
    <3>1. i \in DOMAIN rows /\ rows'[i] = rows[i]
      BY <1>3, <1>9, <2>2 DEF Issue, Unexpired
    <3>2. QED
      BY <1>3, <1>5, <3>1 DEF Live
  <2>3. QED
    BY <2>1, <2>2
<1>10. QED
  BY <1>1, <1>6, <1>7, <1>8, <1>9 DEF RowsChange

\* No request, command, restart or passage of time brings a dead session back
\* (session-service.ts:69-77, admin-sessions-repo.ts:98-104).
THEOREM DeadStayDead == Spec => FamiliesStayDead
<1>1. Inv /\ [Next]_vars =>
        [\A f \in 1..lastId : ~FamilyActive(f) => ~FamilyActive(f)']_vars
  <2> SUFFICES ASSUME Inv, [Next]_vars, NEW f \in 1..lastId, ~FamilyActive(f)
               PROVE  ~FamilyActive(f)'
    OBVIOUS
  <2>1. QED
    BY DeadStep
<1>2. QED
  BY <1>1, Invariance, PTL DEF Spec, FamiliesStayDead
----------------------------------------------------------------------------
(* The wait of a locked login.                                             *)

\* Failures are recorded in the order of their times, none in the future.
Ascending(stamps) ==
    /\ \A i \in 1..Len(stamps) : stamps[i] <= now
    /\ \A i, j \in 1..Len(stamps) : i <= j => stamps[i] <= stamps[j]

Recorded ==
    /\ now \in Nat
    /\ failures \in [Logins -> Seq(Nat)]
    /\ \A l \in Logins : Ascending(failures[l])

\* A set of indexes that holds every index before one of its own is the
\* interval from 1 to the number of its members.
LEMMA InitialSegment ==
    ASSUME NEW n \in Nat, NEW D \in SUBSET (1..n),
           \A i \in D : \A j \in 1..i : j \in D
    PROVE  Cardinality(D) \in Nat /\ D = 1..Cardinality(D)
<1> DEFINE Less == OpToRel(<, Nat)
           Out  == {k \in Nat : k + 1 \notin D}
<1>1. n \in Out
  OBVIOUS
<1>2. IsWellFoundedOn(Less, Nat)
  BY NatLessThanWellFounded
<1>3. PICK m \in Out : \A k \in Out : ~(<<k, m>> \in Less)
  <2> HIDE DEF Out, Less
  <2>1. Out \subseteq Nat /\ Out # {}
    BY <1>1 DEF Out
  <2>2. QED
    BY <1>2, <2>1, WFMin
<1>4. m \in Nat /\ m + 1 \notin D
  OBVIOUS
<1>5. ASSUME NEW i \in 1..m
      PROVE  i \in D
  <2> DEFINE k == i - 1
  <2>1. k \in Nat /\ k < m /\ k + 1 = i
    BY <1>4, <1>5
  <2> HIDE DEF k
  <2>2. <<k, m>> \in Less
    BY <1>4, <2>1 DEF OpToRel
  <2>3. k \notin Out
    BY <1>3, <2>2
  <2>4. QED
    BY <2>1, <2>3
<1>6. ASSUME NEW i \in D
      PROVE  i \in 1..m
  <2>1. i \in Nat /\ i >= 1
    OBVIOUS
  <2>2. CASE i > m
    <3>1. m + 1 \in 1..i
      BY <1>4, <2>1, <2>2
    <3>2. QED
      BY <1>4, <3>1
  <2>3. QED
    BY <1>4, <2>1, <2>2
<1>7. D = 1..m
  BY <1>5, <1>6
<1>8. Cardinality(1..m) = m
  BY <1>4, FS_Interval
<1>9. QED
  BY <1>4, <1>7, <1>8

\* A prune drops the first d failures, those up to a time, and no others.
Drops(stamps, time, d) ==
    /\ d \in 0..Len(stamps)
    /\ Fresh(stamps, time) \in Seq(Nat)
    /\ Len(Fresh(stamps, time)) = Len(stamps) - d
    /\ \A i \in 1..(Len(stamps) - d) : Fresh(stamps, time)[i] = stamps[i + d]
    /\ \A i \in 1..Len(stamps) : stamps[i] <= time - Window <=> i <= d

LEMMA FreshDrops ==
    ASSUME NEW stamps \in Seq(Nat), Ascending(stamps), now \in Nat, NEW time \in Int
    PROVE  \E d : Drops(stamps, time, d)
<1> DEFINE n   == Len(stamps)
           old == {i \in DOMAIN stamps : stamps[i] <= time - Window}
           d   == Cardinality(old)
<1>1. /\ n \in Nat /\ DOMAIN stamps = 1..n
      /\ \A i \in 1..n : stamps[i] \in Nat
      /\ Window \in Nat
  BY LenProperties, ElementOfSeq, ThrottleAssumption
<1>2. ASSUME NEW i \in old, NEW j \in 1..i
      PROVE  j \in old
  <2>1. i \in 1..n /\ j \in 1..n /\ j <= i /\ stamps[i] <= time - Window
    BY <1>1
  <2>2. stamps[j] <= stamps[i]
    BY <2>1 DEF Ascending
  <2>3. stamps[j] <= time - Window
    BY <1>1, <2>1, <2>2
  <2>4. QED
    BY <1>1, <2>1, <2>3
<1>3. old \in SUBSET (1..n)
  BY <1>1
<1>4. d \in Nat /\ old = 1..d
  <2> HIDE DEF old, n
  <2>1. QED
    BY <1>1, <1>2, <1>3, InitialSegment
<1>5. \A i \in 1..n : stamps[i] <= time - Window <=> i \in old
  BY <1>1
<1> HIDE DEF old, d
<1>6. d <= n
  <2>1. CASE d = 0
    BY <1>1, <2>1
  <2>2. CASE d # 0
    <3>1. d \in 1..d
      BY <1>4, <2>2
    <3>2. d \in 1..n
      BY <1>3, <1>4, <3>1
    <3>3. QED
      BY <3>2
  <2>3. QED
    BY <2>1, <2>2
<1>7. Fresh(stamps, time) = SubSeq(stamps, d + 1, n)
  BY DEF Fresh, d, old
<1>8. /\ SubSeq(stamps, d + 1, n) \in Seq(Nat)
      /\ Len(SubSeq(stamps, d + 1, n)) = IF d + 1 <= n THEN n - (d + 1) + 1 ELSE 0
      /\ \A i \in 1..(n - (d + 1) + 1) : SubSeq(stamps, d + 1, n)[i] = stamps[d + 1 + i - 1]
  <2>1. d + 1 \in Int /\ n \in Int /\ \A i \in d + 1..n : stamps[i] \in Nat
    BY <1>1, <1>4
  <2> HIDE DEF n
  <2>2. QED
    BY <2>1, SubSeqProperties
<1>9. Len(SubSeq(stamps, d + 1, n)) = n - d
  <2> HIDE DEF n
  <2>1. CASE d + 1 <= n
    BY <1>1, <1>4, <1>8, <2>1
  <2>2. CASE ~(d + 1 <= n)
    BY <1>1, <1>4, <1>6, <1>8, <2>2
  <2>3. QED
    BY <2>1, <2>2
<1>10. \A i \in 1..(n - d) : SubSeq(stamps, d + 1, n)[i] = stamps[i + d]
  <2>1. n - (d + 1) + 1 = n - d
    BY <1>1, <1>4
  <2>2. \A i \in 1..(n - d) : d + 1 + i - 1 = i + d
    BY <1>1, <1>4
  <2>3. QED
    BY <1>8, <2>1, <2>2
<1>11. \A i \in 1..n : i \in old <=> i <= d
  BY <1>1, <1>4
<1>12. \A i \in 1..n : stamps[i] <= time - Window <=> i <= d
  BY <1>5, <1>11
<1>13. d \in 0..n
  BY <1>1, <1>4, <1>6
<1>14. Drops(stamps, time, d)
  BY <1>7, <1>8, <1>9, <1>10, <1>12, <1>13 DEF Drops
<1>15. QED
  BY <1>14

\* What a prune leaves is still in order.
LEMMA FreshAscends ==
    ASSUME NEW stamps \in Seq(Nat), Ascending(stamps), now \in Nat
    PROVE  Fresh(stamps, now) \in Seq(Nat) /\ Ascending(Fresh(stamps, now))
<1> DEFINE f == Fresh(stamps, now)
<1>0. PICK d : Drops(stamps, now, d)
  BY FreshDrops
<1>1. /\ d \in 0..Len(stamps)
      /\ f \in Seq(Nat)
      /\ Len(f) = Len(stamps) - d
      /\ \A i \in 1..(Len(stamps) - d) : f[i] = stamps[i + d]
  BY <1>0 DEF Drops
<1> HIDE DEF f
<1>2. Len(stamps) \in Nat /\ d \in Nat
  BY <1>1, LenProperties
<1>3. \A i \in 1..Len(f) : i + d \in 1..Len(stamps) /\ f[i] = stamps[i + d]
  BY <1>1, <1>2
<1>4. \A i \in 1..Len(f) : f[i] <= now
  BY <1>3 DEF Ascending
<1>5. ASSUME NEW i \in 1..Len(f), NEW j \in 1..Len(f), i <= j
      PROVE  f[i] <= f[j]
  <2>1. i + d <= j + d
    BY <1>2, <1>5, <1>1
  <2>2. QED
    BY <1>3, <2>1 DEF Ascending
<1>6. QED
  BY <1>1, <1>4, <1>5 DEF Ascending, f

\* Every step adds failures at the end, with the time of the step, or takes
\* failures away.
LEMMA FailuresMove ==
    ASSUME [Next]_vars
    PROVE  \/ failures' = failures /\ now' \in {now, now + 1}
           \/ /\ now' = now
              /\ \/ Check \/ Forget
                 \/ \E l \in Logins : Allowed(l) /\ Check
                 \/ \E c \in Callers : Fail(calls[c].login) \/ Reset(calls[c].login)
<1>1. CASE UNCHANGED vars
  BY <1>1 DEF vars
<1>2. ASSUME NEW c \in Callers, Serve(c)
      PROVE  /\ now' = now
             /\ \/ failures' = failures \/ Check
                \/ Fail(calls[c].login) \/ Reset(calls[c].login)
  BY <1>2 DEF Serve, Login, LoginFails, LoginSucceeds, Rehashed, ChangeArrives, Change,
              ChangeRefused, ChangeChecked, Changed
<1>3. ASSUME \/ \E login \in Logins : Refused(login)
             \/ \E i \in DOMAIN rows : Refresh(i)
             \/ \E i, j \in DOMAIN rows : Logout(i, j)
             \/ \E a \in Admins : Command(a)
             \/ CliRevokeAll \/ CliDies \/ Restart
      PROVE  now' = now /\ (failures' = failures \/ Check \/ Forget)
  BY <1>3 DEF Refused, Refresh, Logout, Command, CliReset, CliDisable, CliRevokeSessions,
              CliRevokeAll, CliDies, Restart
<1>4. CASE Tick
  BY <1>4 DEF Tick
<1>5. QED
  BY <1>1, <1>2, <1>3, <1>4 DEF Next

\* The lists stay in order.
LEMMA RecordedStep ==
    ASSUME Recorded, [Next]_vars
    PROVE  Recorded'
<1>1. ASSUME NEW l \in Logins
      PROVE  Pruned[l] \in Seq(Nat) /\ Ascending(Pruned[l])
  BY FreshAscends DEF Pruned, Recorded
<1>2. Pruned \in [Logins -> Seq(Nat)]
  BY <1>1 DEF Pruned
<1>3. << >> \in Seq(Nat) /\ Ascending(<< >>)
  BY DEF Ascending
<1>4. ASSUME now' = now, failures' \in [Logins -> Seq(Nat)],
             \A l \in Logins : Ascending(failures'[l])
      PROVE  Recorded'
  BY <1>4 DEF Recorded, Ascending
<1>5. CASE failures' = failures /\ now' \in {now, now + 1}
  <2>1. now' \in Nat /\ now <= now'
    BY <1>5 DEF Recorded
  <2>2. \A l \in Logins : \A i \in 1..Len(failures[l]) : failures[l][i] \in Nat
    BY ElementOfSeq DEF Recorded
  <2>3. \A l \in Logins : \A i \in 1..Len(failures[l]) : failures[l][i] <= now'
    BY <2>1, <2>2 DEF Recorded, Ascending
  <2>4. QED
    BY <1>5, <2>1, <2>3 DEF Recorded, Ascending
<1>6. CASE now' = now /\ Check
  BY <1>1, <1>2, <1>4, <1>6 DEF Check
<1>7. CASE now' = now /\ Forget
  BY <1>3, <1>4, <1>7 DEF Forget
<1>8. ASSUME NEW l, Reset(l), now' = now
      PROVE  Recorded'
  <2>1. failures' = [failures EXCEPT ![l] = <<>>]
    BY <1>8 DEF Reset
  <2>2. QED
    BY <1>3, <1>4, <1>8, <2>1 DEF Recorded
<1>9. ASSUME NEW l, Fail(l), now' = now
      PROVE  Recorded'
  <2>1. failures' = [Pruned EXCEPT ![l] = Append(Pruned[l], now)]
    BY <1>9 DEF Fail
  <2>2. CASE l \in Logins
    <3> DEFINE p == Pruned[l]
    <3>1. p \in Seq(Nat) /\ Ascending(p) /\ now \in Nat
      BY <1>1, <2>2 DEF Recorded
    <3> HIDE DEF p
    <3>2. /\ Append(p, now) \in Seq(Nat)
          /\ Len(Append(p, now)) = Len(p) + 1
          /\ Len(p) \in Nat
          /\ \A i \in 1..Len(p) : Append(p, now)[i] = p[i]
          /\ Append(p, now)[Len(p) + 1] = now
      BY <3>1, AppendProperties, LenProperties
    <3>3. \A i \in 1..(Len(p) + 1) : i \in 1..Len(p) \/ i = Len(p) + 1
      BY <3>2
    <3>4. \A i \in 1..(Len(p) + 1) : Append(p, now)[i] <= now
      BY <3>1, <3>2, <3>3 DEF Ascending
    <3>5. ASSUME NEW i \in 1..(Len(p) + 1), NEW j \in 1..(Len(p) + 1), i <= j
          PROVE  Append(p, now)[i] <= Append(p, now)[j]
      <4>1. CASE j = Len(p) + 1
        BY <3>2, <3>4, <4>1
      <4>2. CASE j # Len(p) + 1
        <5>1. i \in 1..Len(p) /\ j \in 1..Len(p)
          BY <3>2, <3>5, <4>2
        <5>2. QED
          BY <3>1, <3>2, <3>5, <5>1 DEF Ascending
      <4>3. QED
        BY <4>1, <4>2
    <3>6. Ascending(Append(p, now))
      BY <3>2, <3>4, <3>5 DEF Ascending
    <3>7. failures' \in [Logins -> Seq(Nat)] /\ \A x \in Logins :
             failures'[x] = IF x = l THEN Append(p, now) ELSE Pruned[x]
      BY <1>2, <2>1, <2>2, <3>2 DEF p
    <3>8. QED
      BY <1>1, <1>4, <1>9, <3>6, <3>7
  <2>3. CASE l \notin Logins
    <3>1. failures' = Pruned
      BY <1>2, <2>1, <2>3
    <3>2. QED
      BY <1>1, <1>2, <1>4, <1>9, <3>1
  <2>4. QED
    BY <2>2, <2>3
<1>10. QED
  BY <1>5, <1>6, <1>7, <1>8, <1>9, FailuresMove

\* A locked login is let through once the failure that locks it has left the
\* window, and not before, however many parallel attempts went over the limit.
LEMMA LockedUntil ==
    ASSUME Recorded, NEW l \in Logins, ~Allowed(l)
    PROVE  /\ LockedFor(l) \in 1..Window
           /\ \A u \in Int : /\ u >= LockedFor(l) => Len(Fresh(failures[l], now + u)) < MaxAttempts
                             /\ u < LockedFor(l) => Len(Fresh(failures[l], now + u)) >= MaxAttempts
<1> DEFINE s == failures[l]
           n == Len(s)
           k == n - MaxAttempts + 1
           R == LockedFor(l)
<1>1. /\ now \in Nat /\ s \in Seq(Nat) /\ Ascending(s) /\ n \in Nat
      /\ MaxAttempts \in Nat \ {0} /\ Window \in Nat \ {0}
      /\ \A i \in 1..n : s[i] \in Nat
  BY LenProperties, ElementOfSeq, ThrottleAssumption DEF Recorded
<1> HIDE DEF s
<1>0. PICK d : Drops(s, now, d)
  <2>1. now \in Int
    BY <1>1
  <2>2. QED
    BY <1>1, <2>1, FreshDrops
<1>2. /\ d \in 0..n
      /\ Len(Fresh(s, now)) = n - d
      /\ \A i \in 1..(n - d) : Fresh(s, now)[i] = s[i + d]
      /\ \A i \in 1..n : s[i] <= now - Window <=> i <= d
  BY <1>0 DEF Drops
<1>3. Pruned[l] = Fresh(s, now) /\ n - d >= MaxAttempts
  <2>1. Pruned[l] = Fresh(s, now)
    BY DEF Pruned, s
  <2>2. ~(n - d < MaxAttempts)
    BY <1>2, <2>1 DEF Allowed
  <2>3. QED
    BY <1>1, <1>2, <2>1, <2>2
<1>4. k \in d + 1..n /\ k \in 1..n /\ k \in Nat
  BY <1>1, <1>2, <1>3
<1>5. R = s[k] + Window - now
  <2> DEFINE i == (n - d) - MaxAttempts + 1
  <2>1. i \in 1..(n - d) /\ i + d = k
    BY <1>1, <1>2, <1>3
  <2>2. Fresh(s, now)[i] = s[k]
    BY <1>2, <2>1
  <2>3. R = Fresh(s, now)[i] + Window - now
    BY <1>2, <1>3 DEF LockedFor
  <2>4. QED
    BY <2>2, <2>3
<1> HIDE DEF n, k, R
<1>6. s[k] \in Nat /\ s[k] <= now /\ ~(s[k] <= now - Window)
  <2>1. s[k] \in Nat /\ s[k] <= now
    BY <1>1, <1>4 DEF Ascending, n
  <2>2. ~(k <= d)
    BY <1>2, <1>4
  <2>3. QED
    BY <1>2, <1>4, <2>1, <2>2
<1>7. R \in 1..Window /\ R \in Int
  BY <1>1, <1>5, <1>6
<1>8. /\ now \in Int /\ Window \in Int /\ s[k] \in Int /\ R \in Int
      /\ R = s[k] + Window - now
  BY <1>1, <1>5, <1>6, <1>7
<1>9. ASSUME NEW u \in Int
      PROVE  /\ u >= R => Len(Fresh(s, now + u)) < MaxAttempts
             /\ u < R => Len(Fresh(s, now + u)) >= MaxAttempts
  <2> DEFINE t == now + u
  <2>1. t \in Int /\ (u >= R <=> s[k] <= t - Window)
    BY <1>8
  <2> HIDE DEF t
  <2>2. PICK e : Drops(s, t, e)
    BY <1>1, <2>1, FreshDrops
  <2>3. /\ e \in 0..n
        /\ Len(Fresh(s, t)) = n - e
        /\ \A i \in 1..n : s[i] <= t - Window <=> i <= e
    BY <2>2 DEF Drops, n
  <2>4. u >= R <=> k <= e
    BY <1>4, <2>1, <2>3
  <2>5. /\ k <= e => Len(Fresh(s, t)) < MaxAttempts
        /\ ~(k <= e) => Len(Fresh(s, t)) >= MaxAttempts
    BY <1>1, <1>4, <2>3 DEF k
  <2>6. /\ u >= R => Len(Fresh(s, t)) < MaxAttempts
        /\ u < R => Len(Fresh(s, t)) >= MaxAttempts
    BY <1>8, <2>4, <2>5
  <2>7. QED
    BY <2>6 DEF t
<1>10. QED
  BY <1>7, <1>9 DEF R, s

\* Rounding up to seconds reaches the ticks and overshoots by less than one.
LEMMA RoundedUp ==
    ASSUME NEW ticks \in Nat \ {0}, NEW second \in Nat \ {0},
           NEW q, q = (ticks + second - 1) \div second
    PROVE  /\ q \in Nat \ {0}
           /\ q * second \in Nat
           /\ ticks <= q * second
           /\ q * second < ticks + second
<1> DEFINE d == ticks + second - 1
           r == d % second
           p == second * q
<1>1. d \in Nat /\ d \in Int /\ d >= second /\ second > 0
  OBVIOUS
<1> HIDE DEF d
<1>2. q \in Int /\ d = second * q + (d % second) /\ d % second \in 0..(second - 1)
  BY <1>1 DEF d
<1>3. p \in Int /\ r \in 0..(second - 1) /\ d = p + r
  BY <1>2
<1>4. p = second * q /\ q * second = second * q
  BY <1>2
<1> HIDE DEF p, r
<1>5. ticks <= p /\ p < ticks + second /\ p > 0
  BY <1>1, <1>3 DEF d
<1>6. q > 0
  <2>1. CASE q <= 0
    <3>1. second * q <= 0
      BY <1>2, <2>1
    <3>2. QED
      BY <1>3, <1>4, <1>5, <3>1
  <2>2. QED
    BY <1>2, <2>1
<1>7. QED
  BY <1>2, <1>3, <1>4, <1>5, <1>6

\* The wait a locked login is told is right although it is told in seconds.
THEOREM WaitsHold == Spec => []WaitIsEnough
<1>1. Init => Recorded
  BY DEF Init, Recorded, Ascending
<1>2. Recorded => WaitIsEnough
  <2> SUFFICES ASSUME Recorded, NEW l \in Logins, ~Allowed(l)
               PROVE  /\ RetryAfter(l) \in Nat \ {0}
                      /\ RetryAfter(l) * TicksPerSecond < Window + TicksPerSecond
                      /\ Len(Fresh(failures[l], now + RetryAfter(l) * TicksPerSecond)) < MaxAttempts
                      /\ Len(Fresh(failures[l], now + RetryAfter(l) * TicksPerSecond - TicksPerSecond))
                            >= MaxAttempts
    BY DEF WaitIsEnough
  <2> DEFINE R    == LockedFor(l)
             q    == (R + TicksPerSecond - 1) \div TicksPerSecond
             told == q * TicksPerSecond
  <2>1. R \in 1..Window /\ R \in Nat \ {0} /\ Window \in Nat /\ TicksPerSecond \in Nat \ {0}
    BY LockedUntil, ThrottleAssumption
  <2> HIDE DEF R
  <2>2. /\ q \in Nat \ {0} /\ told \in Nat
        /\ R <= told /\ told < R + TicksPerSecond
    BY <2>1, RoundedUp
  <2>3. RetryAfter(l) = q
    <3> HIDE DEF q
    <3>1. (IF q > 1 THEN q ELSE 1) = q
      BY <2>2
    <3>2. QED
      BY <3>1 DEF RetryAfter, q, R
  <2> HIDE DEF q
  <2>4. told - TicksPerSecond \in Int /\ told - TicksPerSecond < R /\ told \in Int
    BY <2>1, <2>2
  <2>5. told < Window + TicksPerSecond
    BY <2>1, <2>2
  <2> HIDE DEF told
  <2>6. /\ Len(Fresh(failures[l], now + told)) < MaxAttempts
        /\ Len(Fresh(failures[l], now + (told - TicksPerSecond))) >= MaxAttempts
    BY <2>2, <2>4, LockedUntil DEF R
  <2>7. now + (told - TicksPerSecond) = now + told - TicksPerSecond
    BY <2>1, <2>2 DEF Recorded
  <2>8. QED
    BY <2>2, <2>3, <2>5, <2>6, <2>7 DEF told
<1>3. QED
  BY <1>1, <1>2, RecordedStep, PTL DEF Spec

----------------------------------------------------------------------------
(* The pages.                                                              *)

Documents == {"app", "loading", "checking", "opening", "starting", "login", "form",
              "submitted", "dead"}

Message ==
    [what: {"change", "logout", "me", "page", "refresh", "login"}, at: Nat, rt: Nat, csrf: Nat,
     status: {"sent", "ok", "401", "403", "409", "lost"}, row: Nat, family: Nat, gone: BOOLEAN]

Asking ==
    [what: {"change", "logout", "me"}, nested: BOOLEAN, waits: BOOLEAN, refreshed: BOOLEAN,
     meRefreshed: BOOLEAN, csrfRetried: BOOLEAN]

(* What a message says is known to the server.                             *)
MessageFits(m) ==
    m \in Message /\ m.at = m.rt /\ m.rt <= lastId /\ m.row <= lastId /\ m.family <= lastId

PagesShape ==
    /\ lastId \in Nat /\ jar \in [at: Nat, rt: Nat] /\ jar.at = jar.rt /\ jar.rt <= lastId
    /\ shows \in [Tabs -> Documents] /\ csrf \in [Tabs -> 0..lastId]
    /\ asks \in [Jobs -> {Rest} \cup Asking]
    /\ wire \in [Senders -> {Free} \cup Message]
    /\ \A s \in Senders : wire[s] = Free \/ MessageFits(wire[s])

HistoryShape ==
    history \in [done: [Jobs -> Nat], out: SUBSET (1..lastId), overheard: BOOLEAN,
                 theft: BOOLEAN, late: BOOLEAN, losses: Nat]

(* A tab's own message is what its document sends.                         *)
SlotKinds(document) ==
    CASE document \in {"app", "loading", "checking"} -> {"refresh", "me"}
      [] document = "opening" -> {"page"}
      [] document = "submitted" -> {"login"}
      [] OTHER -> {}

SlotFits(t) == wire[t] # Free => ~wire[t].gone /\ wire[t].what \in SlotKinds(shows[t])

(* A call has one message at a time, and none while it waits; a page that  *)
(* is loading makes one call.                                              *)
Waits(j) == asks[j] # Rest /\ asks[j].waits

JobFits(j) ==
    /\ wire[j] # Free => wire[j].what \in {"change", "logout", "me"}
    /\ wire[j] # Free /\ wire[j].gone => asks[j] = Rest
    /\ wire[j] # Free /\ ~wire[j].gone =>
          asks[j] # Rest /\ wire[j].what = Sends(asks[j]) /\ ~asks[j].waits
    /\ asks[j] # Rest => shows[TabOf[j]] \in {"app", "loading"}
    /\ asks[j] # Rest /\ asks[j].what = "me" => shows[TabOf[j]] = "loading"

LoadsAlone ==
    \A i, j \in Jobs :
        /\ i # j /\ TabOf[i] = TabOf[j] /\ shows[TabOf[j]] = "loading"
        => asks[i] = Rest \/ asks[j] = Rest

(* A refresh is under way exactly as long as somebody awaits it.           *)
Heard(t) ==
    shows[t] \in {"app", "loading"} => (wire[t] # Free <=> \E j \in JobsOf(t) : Waits(j))

Protocol ==
    /\ PagesShape /\ \A t \in Tabs : SlotFits(t) /\ Heard(t)
    /\ \A j \in Jobs : JobFits(j)
    /\ LoadsAlone

(* As long as a change may be sent again it has not been carried out.      *)
MayRepeat(j) ==
    \/ wire[j] # Free /\ wire[j].what = "change" /\ wire[j].status \in {"sent", "401", "403"}
    \/ asks[j] # Rest /\ asks[j].what = "change" /\ (asks[j].waits \/ asks[j].nested)

Once == \A j \in Jobs : history.done[j] <= 1 /\ (MayRepeat(j) => history.done[j] = 0)

(* An answer with new cookies on its way, and a refresh not yet served.    *)
Brings(m) == m # Free /\ m.what \in {"refresh", "login"} /\ m.status = "ok"
Refreshing(m) == m # Free /\ m.what = "refresh"

Replaced(table, i) == i \in DOMAIN table /\ table[i].replacedBy # 0
JustReplaced(table, time, i) == Replaced(table, i) => table[i].replacedAt = time

(* Nobody knows the row of an answer on its way.                           *)
Unseen ==
    \A t \in Tabs : Brings(wire[t]) =>
        /\ ~Replaced(rows, wire[t].row) /\ wire[t].row # jar.rt /\ wire[t].row # 0
        /\ \A s \in Tabs : wire[s] # Free =>
              /\ wire[s].rt # wire[t].row
              /\ Brings(wire[s]) /\ wire[s].row = wire[t].row => s = t

(* Unless something was late, whoever presents a replaced token does so in *)
(* the very moment, and the browser will have the new one.                 *)
InTime ==
    history.late \/
        /\ JustReplaced(rows, now, jar.rt)
        /\ \A t \in Tabs : Refreshing(wire[t]) /\ wire[t].status = "sent" => JustReplaced(rows, now, wire[t].rt)
        /\ Replaced(rows, jar.rt) => \E t \in Tabs : Refreshing(wire[t]) /\ wire[t].status = "ok"

(* The rows of a family that was left are revoked.                         *)
OutIsDead == \A i \in DOMAIN rows : rows[i].family \in history.out => rows[i].revoked

Quiet == ~history.overheard /\ (history.theft => history.late)

PagesInv ==
    /\ Inv /\ Protocol /\ HistoryShape /\ Once
    /\ Unseen /\ InTime /\ OutIsDead /\ Quiet

\* Senders are tabs or calls, and a call has its tab.
LEMMA Places ==
    /\ \A j \in Jobs : j \in Senders /\ j \notin Tabs /\ TabOf[j] \in Tabs /\ HomeOf(j) = TabOf[j]
    /\ \A t \in Tabs : t \in Senders /\ t \notin Jobs /\ HomeOf(t) = t
    /\ \A s \in Senders : s \in Tabs \/ s \in Jobs
BY PagesAssumption DEF Senders, HomeOf

\* The kinds of message each document sends.
LEMMA Kinds ==
    /\ \A d \in {"app", "loading", "checking"} : SlotKinds(d) = {"refresh", "me"}
    /\ SlotKinds("opening") = {"page"} /\ SlotKinds("submitted") = {"login"}
    /\ \A d \in {"starting", "login", "form", "dead"} : SlotKinds(d) = {}
BY DEF SlotKinds

\* What is told apart by its fields.
LEMMA Constants ==
    /\ Free \notin Message /\ Rest \notin Asking /\ Rest # Idle
    /\ NoCookies \in [at: Nat, rt: Nat] /\ NoCookies.at = NoCookies.rt /\ NoCookies.rt = 0
BY DEF Free, Message, Rest, Asking, NoCookies, Idle

\* A request says what the browser knows.
LEMMA RequestFits ==
    ASSUME NEW what \in {"change", "logout", "me", "page", "refresh", "login"},
           NEW cookies \in [at: Nat, rt: Nat], cookies.at = cookies.rt, cookies.rt <= lastId,
           NEW token \in Nat, lastId \in Nat
    PROVE  LET m == Request(what, cookies, token)
           IN  /\ MessageFits(m) /\ m # Free /\ m.what = what /\ m.status = "sent"
               /\ m.rt = cookies.rt /\ ~m.gone
BY DEF Request, MessageFits, Message, Free

\* What is under way has its fields.
LEMMA MessageIs ==
    ASSUME PagesShape, NEW s \in Senders, wire[s] # Free
    PROVE  wire[s] \in Message /\ MessageFits(wire[s])
BY DEF PagesShape, MessageFits

\* A call under way has its fields.
LEMMA AskingIs ==
    ASSUME PagesShape, NEW j \in Jobs, asks[j] # Rest
    PROVE  asks[j] \in Asking /\ Sends(asks[j]) \in {"change", "logout", "me"}
BY DEF PagesShape, Asking, Sends

----------------------------------------------------------------------------
(* The cookies.                                                            *)

\* What a step may make of the message of a tab without bringing new cookies.
Turns(u) ==
    \/ wire'[u] = wire[u]
    \/ wire'[u] = Free
    \/ wire'[u] # Free /\ wire'[u].status = "sent" /\ wire'[u].rt = jar'.rt
    \/ /\ wire[u] # Free /\ wire'[u] # Free /\ wire'[u].rt = wire[u].rt
       /\ wire'[u].status # "sent" /\ ~Brings(wire'[u])

\* The tokens age with the rows only, and the browser keeps its cookies,
\* drops them, or takes those of an answer.
CookiesMove ==
    /\ now' = now
    /\ \A i : Replaced(rows', i) => Replaced(rows, i) /\ rows'[i].replacedAt = rows[i].replacedAt
    /\ \A u \in Tabs : Turns(u)
    /\ history.late => history'.late
    /\ \/ /\ jar' = jar
          /\ \A u \in Tabs : Refreshing(wire[u]) /\ wire[u].status = "ok" /\ wire'[u] # wire[u]
                             => history'.late
       \/ jar'.rt = 0
       \/ \E t \in Tabs : Brings(wire[t]) /\ jar'.rt = wire[t].row /\ ~Brings(wire'[t])

\* Such steps keep what is said of the cookies.
LEMMA CookiesKept ==
    ASSUME Table, Table', Unseen, InTime, CookiesMove
    PROVE  Unseen' /\ InTime'
<1>1. ~Replaced(rows, 0) /\ ~Replaced(rows', 0)
  BY DEF Table, Replaced
<1>2. \A u \in Tabs : Brings(wire'[u]) => wire'[u] = wire[u]
  BY DEF CookiesMove, Turns, Brings
<1>3. /\ \A i : Replaced(rows', i) => Replaced(rows, i) /\ rows'[i].replacedAt = rows[i].replacedAt
      /\ now' = now
      /\ \A i : JustReplaced(rows, now, i) => JustReplaced(rows', now', i)
  BY DEF CookiesMove, JustReplaced
<1>4. \A t \in Tabs : Brings(wire[t]) =>
         /\ ~Replaced(rows, wire[t].row) /\ wire[t].row # jar.rt /\ wire[t].row # 0
         /\ \A s \in Tabs : wire[s] # Free =>
               /\ wire[s].rt # wire[t].row
               /\ Brings(wire[s]) /\ wire[s].row = wire[t].row => s = t
  BY DEF Unseen
<1>5. ASSUME NEW t \in Tabs, Brings(wire'[t])
      PROVE  wire'[t] = wire[t] /\ Brings(wire[t]) /\ jar'.rt # wire[t].row
  <2>1. wire'[t] = wire[t] /\ Brings(wire[t])
    BY <1>2, <1>5
  <2>2. CASE jar' = jar
    BY <1>4, <2>1, <2>2
  <2>3. CASE jar'.rt = 0
    BY <1>4, <2>1, <2>3
  <2>4. CASE \E u \in Tabs : Brings(wire[u]) /\ jar'.rt = wire[u].row /\ ~Brings(wire'[u])
    <3>1. PICK u \in Tabs : Brings(wire[u]) /\ jar'.rt = wire[u].row /\ ~Brings(wire'[u])
      BY <2>4
    <3>2. u # t /\ wire[t] # Free
      BY <1>5, <2>1, <3>1 DEF Brings
    <3>3. QED
      BY <1>4, <2>1, <3>1, <3>2
  <2>5. QED
    BY <2>1, <2>2, <2>3, <2>4 DEF CookiesMove
<1>6. ASSUME NEW t \in Tabs, Brings(wire'[t]), NEW s \in Tabs, wire'[s] # Free
      PROVE  /\ wire'[s].rt # wire'[t].row
             /\ Brings(wire'[s]) /\ wire'[s].row = wire'[t].row => s = t
  <2>1. wire'[t] = wire[t] /\ Brings(wire[t]) /\ jar'.rt # wire[t].row
    BY <1>5, <1>6
  <2>2. wire'[s].rt # wire[t].row
    BY <1>4, <1>6, <2>1 DEF CookiesMove, Turns
  <2>3. Brings(wire'[s]) => wire'[s] = wire[s]
    BY <1>2
  <2>4. QED
    BY <1>4, <1>6, <2>1, <2>2, <2>3
<1>7. Unseen'
  <2>1. ASSUME NEW t \in Tabs, Brings(wire'[t])
        PROVE  ~Replaced(rows', wire'[t].row) /\ wire'[t].row # jar'.rt /\ wire'[t].row # 0
    BY <1>3, <1>4, <1>5, <2>1
  <2>2. QED
    BY <1>6, <2>1 DEF Unseen
<1>8. CASE history'.late
  BY <1>7, <1>8 DEF InTime
<1>9. CASE ~history'.late
  <2>1. /\ JustReplaced(rows, now, jar.rt)
        /\ \A t \in Tabs : Refreshing(wire[t]) /\ wire[t].status = "sent" => JustReplaced(rows, now, wire[t].rt)
        /\ Replaced(rows, jar.rt) => \E t \in Tabs : Refreshing(wire[t]) /\ wire[t].status = "ok"
    BY <1>9 DEF InTime, CookiesMove
  <2>2. \/ jar' = jar /\ \A u \in Tabs : Refreshing(wire[u]) /\ wire[u].status = "ok" => wire'[u] = wire[u]
        \/ ~Replaced(rows', jar'.rt)
    <3>1. ASSUME NEW t \in Tabs, Brings(wire[t]), jar'.rt = wire[t].row
          PROVE  ~Replaced(rows', jar'.rt)
      BY <1>3, <1>4, <3>1
    <3>2. QED
      BY <1>1, <1>9, <3>1 DEF CookiesMove
  <2>3. JustReplaced(rows', now', jar'.rt)
    BY <1>3, <2>1, <2>2 DEF JustReplaced
  <2>4. ASSUME NEW t \in Tabs, Refreshing(wire'[t]), wire'[t].status = "sent"
        PROVE  JustReplaced(rows', now', wire'[t].rt)
    BY <1>3, <2>1, <2>3, <2>4 DEF CookiesMove, Turns, Refreshing
  <2>5. Replaced(rows', jar'.rt) => \E t \in Tabs : Refreshing(wire'[t]) /\ wire'[t].status = "ok"
    <3>1. SUFFICES ASSUME Replaced(rows', jar'.rt)
                   PROVE  \E t \in Tabs : Refreshing(wire'[t]) /\ wire'[t].status = "ok"
      OBVIOUS
    <3>2. jar' = jar /\ \A u \in Tabs : Refreshing(wire[u]) /\ wire[u].status = "ok" => wire'[u] = wire[u]
      BY <2>2, <3>1
    <3>3. Replaced(rows, jar.rt)
      BY <1>3, <3>1, <3>2
    <3>4. PICK t \in Tabs : Refreshing(wire[t]) /\ wire[t].status = "ok"
      BY <2>1, <3>3
    <3>5. Refreshing(wire'[t]) /\ wire'[t].status = "ok"
      BY <3>2, <3>4
    <3>6. QED
      BY <3>5
  <2>6. QED
    BY <1>7, <2>3, <2>4, <2>5 DEF InTime
<1>10. QED
  BY <1>8, <1>9

\* The answer to a refresh or a login takes a row nobody has seen.
LEMMA FreshAnswer ==
    ASSUME Table, PagesShape, Unseen, InTime, NEW s \in Tabs, NEW n, n = lastId + 1,
           wire[s] # Free, wire[s].what \in {"refresh", "login"}, wire[s].status = "sent",
           wire'[s] # Free, wire'[s].what = wire[s].what, wire'[s].rt = wire[s].rt,
           wire'[s].status = "ok", wire'[s].row = n,
           \A u \in Tabs \ {s} : wire'[u] = wire[u],
           jar' = jar, now' = now, history'.late = history.late,
           ~Replaced(rows', n),
           \A i : Replaced(rows', i) =>
              \/ Replaced(rows, i) /\ rows'[i].replacedAt = rows[i].replacedAt
              \/ /\ i = wire[s].rt /\ wire[s].what = "refresh"
                 /\ rows'[i].replacedAt = now
    PROVE  Unseen' /\ InTime'
<1>1. \A u \in Tabs : u \in Senders
  BY DEF Senders
<1>2. /\ n \in Nat /\ n # 0 /\ jar.rt # n
      /\ \A u \in Tabs : wire[u] # Free => wire[u].rt # n /\ wire[u].row # n
  <2>1. lastId \in Nat
    BY DEF Table
  <2>2. jar.rt \in Nat /\ jar.rt <= lastId
    BY DEF PagesShape
  <2>3. ASSUME NEW u \in Tabs, wire[u] # Free
        PROVE  wire[u].rt \in Nat /\ wire[u].rt <= lastId /\ wire[u].row \in Nat /\ wire[u].row <= lastId
    BY <1>1, <2>3, MessageIs DEF MessageFits, Message
  <2>4. QED
    BY <2>1, <2>2, <2>3
<1>3. \A t \in Tabs : Brings(wire[t]) =>
         /\ ~Replaced(rows, wire[t].row) /\ wire[t].row # jar.rt /\ wire[t].row # 0
         /\ \A u \in Tabs : wire[u] # Free =>
               /\ wire[u].rt # wire[t].row
               /\ Brings(wire[u]) /\ wire[u].row = wire[t].row => u = t
  BY DEF Unseen
<1>4. Unseen'
  <2>1. ASSUME NEW t \in Tabs, Brings(wire'[t]), t # s
        PROVE  /\ ~Replaced(rows', wire'[t].row) /\ wire'[t].row # jar'.rt /\ wire'[t].row # 0
               /\ \A u \in Tabs : wire'[u] # Free =>
                     /\ wire'[u].rt # wire'[t].row
                     /\ Brings(wire'[u]) /\ wire'[u].row = wire'[t].row => u = t
    <3>1. wire'[t] = wire[t] /\ Brings(wire[t]) /\ wire[t] # Free
      BY <2>1 DEF Brings
    <3>2. ~Replaced(rows', wire[t].row)
      BY <1>3, <3>1
    <3>3. ASSUME NEW u \in Tabs, wire'[u] # Free
          PROVE  /\ wire'[u].rt # wire[t].row
                 /\ Brings(wire'[u]) /\ wire'[u].row = wire[t].row => u = t
      BY <1>2, <1>3, <3>1, <3>3
    <3>4. QED
      BY <1>3, <3>1, <3>2, <3>3
  <2>2. /\ ~Replaced(rows', wire'[s].row) /\ wire'[s].row # jar'.rt /\ wire'[s].row # 0
        /\ \A u \in Tabs : wire'[u] # Free =>
              /\ wire'[u].rt # wire'[s].row
              /\ Brings(wire'[u]) /\ wire'[u].row = wire'[s].row => u = s
    BY <1>2
  <2>3. QED
    BY <2>1, <2>2 DEF Unseen
<1>5. CASE history.late
  BY <1>4, <1>5 DEF InTime
<1>6. CASE ~history.late
  <2>1. /\ JustReplaced(rows, now, jar.rt)
        /\ \A t \in Tabs : Refreshing(wire[t]) /\ wire[t].status = "sent" => JustReplaced(rows, now, wire[t].rt)
        /\ Replaced(rows, jar.rt) => \E t \in Tabs : Refreshing(wire[t]) /\ wire[t].status = "ok"
    BY <1>6 DEF InTime
  <2>2. \A i : JustReplaced(rows, now, i) => JustReplaced(rows', now', i)
    BY DEF JustReplaced
  <2>3. JustReplaced(rows', now', jar'.rt)
    BY <2>1, <2>2
  <2>4. \A t \in Tabs : Refreshing(wire'[t]) /\ wire'[t].status = "sent" => JustReplaced(rows', now', wire'[t].rt)
    BY <2>1, <2>2
  <2>5. Replaced(rows', jar'.rt) => \E t \in Tabs : Refreshing(wire'[t]) /\ wire'[t].status = "ok"
    <3>1. CASE Replaced(rows, jar.rt)
      <4>1. PICK t \in Tabs : Refreshing(wire[t]) /\ wire[t].status = "ok"
        BY <2>1, <3>1
      <4>2. wire'[t] = wire[t]
        BY <4>1
      <4>3. QED
        BY <4>1, <4>2
    <3>2. CASE Replaced(rows', jar'.rt) /\ ~Replaced(rows, jar.rt)
      <4>1. wire[s].what = "refresh"
        BY <3>2
      <4>2. Refreshing(wire'[s]) /\ wire'[s].status = "ok"
        BY <4>1 DEF Refreshing
      <4>3. QED
        BY <4>2
    <3>3. QED
      BY <3>1, <3>2
  <2>6. QED
    BY <1>4, <2>3, <2>4, <2>5 DEF InTime
<1>7. QED
  BY <1>5, <1>6

\* Time makes a replaced token old, but only while no refresh is on its way.
LEMMA TimeIsFair ==
    ASSUME Unseen, InTime, rows' = rows, UNCHANGED <<jar, wire>>,
           history'.late = (history.late \/ \E s \in Senders : wire[s].what = "refresh")
    PROVE  Unseen' /\ InTime'
<1>1. \A i : Replaced(rows', i) <=> Replaced(rows, i)
  BY DEF Replaced
<1>2. Unseen'
  BY <1>1 DEF Unseen
<1>3. CASE history'.late
  BY <1>2, <1>3 DEF InTime
<1>4. CASE ~history'.late
  <2>1. \A t \in Tabs : ~Refreshing(wire[t])
    BY <1>4 DEF Refreshing, Senders
  <2>2. ~Replaced(rows, jar.rt)
    BY <1>4, <2>1 DEF InTime
  <2>3. QED
    BY <1>1, <1>2, <2>1, <2>2 DEF InTime, JustReplaced
<1>5. QED
  BY <1>3, <1>4

----------------------------------------------------------------------------
(* The messages and the calls.                                             *)

\* An answer that somebody still awaits takes the place of its request.
LEMMA AnswerIs ==
    ASSUME PagesShape, NEW s \in Senders, wire[s] # Free,
           NEW status \in {"ok", "401", "403", "409", "lost"}, NEW row, NEW family,
           lastId \in Nat, lastId' \in Nat, lastId <= lastId', row \in 0..lastId', family \in 0..lastId',
           Answers(s, status, row, family)
    PROVE  /\ wire' \in [Senders -> {Free} \cup Message]
           /\ \A u \in Senders : wire'[u] = Free \/ MessageFits(wire[u])'
           /\ \A u \in Senders \ {s} : wire'[u] = wire[u]
           /\ wire[s].gone => wire'[s] = Free
           /\ ~wire[s].gone =>
                 /\ wire'[s] # Free /\ ~wire'[s].gone /\ wire'[s].what = wire[s].what
                 /\ wire'[s].rt = wire[s].rt /\ wire'[s].status = status /\ wire'[s].row = row
<1>1. wire[s] \in Message /\ MessageFits(wire[s]) /\ wire \in [Senders -> {Free} \cup Message]
  BY MessageIs DEF PagesShape
<1>2. PICK m : m = [wire[s] EXCEPT !.status = status, !.row = row, !.family = family]
  OBVIOUS
<1>3. /\ m \in Message /\ m # Free /\ m.what = wire[s].what /\ m.rt = wire[s].rt
      /\ m.at = wire[s].at /\ m.status = status /\ m.row = row /\ m.family = family
      /\ m.gone = wire[s].gone
  <2>1. row \in Nat /\ family \in Nat
    OBVIOUS
  <2>2. m \in Message /\ DOMAIN m = DOMAIN wire[s] /\ "rt" \in DOMAIN m
    BY <1>1, <1>2, <2>1 DEF Message
  <2>3. /\ m.what = wire[s].what /\ m.rt = wire[s].rt /\ m.at = wire[s].at
        /\ m.gone = wire[s].gone
    BY <1>1, <1>2 DEF Message
  <2>4. m.status = status /\ m.row = row /\ m.family = family
    BY <1>1, <1>2 DEF Message
  <2>5. m # Free
    BY <2>2, Constants
  <2>6. QED
    BY <2>2, <2>3, <2>4, <2>5
<1>4. wire' = [wire EXCEPT ![s] = IF wire[s].gone THEN Free ELSE m]
  BY <1>2 DEF Answers
<1>5. /\ wire' \in [Senders -> {Free} \cup Message]
      /\ \A u \in Senders \ {s} : wire'[u] = wire[u]
      /\ wire'[s] = IF wire[s].gone THEN Free ELSE m
  BY <1>1, <1>3, <1>4
<1>6. ASSUME NEW u \in Senders
      PROVE  wire'[u] = Free \/ MessageFits(wire[u])'
  <2>1. CASE u = s
    <3>1. m \in Message /\ m.at = m.rt /\ m.rt <= lastId' /\ m.row <= lastId' /\ m.family <= lastId'
      <4>1. m.rt \in Nat /\ m.rt <= lastId /\ m.at = m.rt
        BY <1>1, <1>3 DEF MessageFits, Message
      <4>2. QED
        BY <1>3, <4>1
    <3>2. wire'[u] = Free \/ wire'[u] = m
      BY <1>5, <2>1
    <3>3. QED
      BY <3>1, <3>2 DEF MessageFits
  <2>2. CASE u # s
    <3>1. wire[u] = Free \/ MessageFits(wire[u])
      BY DEF PagesShape
    <3>2. MessageFits(wire[u]) => wire[u].rt \in Nat /\ wire[u].row \in Nat /\ wire[u].family \in Nat
      BY DEF MessageFits, Message
    <3>3. QED
      BY <1>5, <2>2, <3>1, <3>2 DEF MessageFits
  <2>3. QED
    BY <2>1, <2>2
<1>7. wire[s].gone \in BOOLEAN
  BY <1>1 DEF Message
<1>8. QED
  BY <1>3, <1>5, <1>6, <1>7

\* An answer keeps the shape of the traffic.
LEMMA AnswerProtocol ==
    ASSUME Protocol, NEW s \in Senders, wire[s] # Free,
           NEW status \in {"ok", "401", "403", "409", "lost"}, NEW row, NEW family,
           lastId \in Nat, lastId' \in Nat, lastId <= lastId', row \in 0..lastId', family \in 0..lastId',
           Answers(s, status, row, family), UNCHANGED <<jar, shows, csrf, asks>>
    PROVE  Protocol'
<1>1. /\ wire' \in [Senders -> {Free} \cup Message]
      /\ \A u \in Senders : wire'[u] = Free \/ MessageFits(wire[u])'
      /\ \A u \in Senders \ {s} : wire'[u] = wire[u]
      /\ wire[s].gone => wire'[s] = Free
      /\ ~wire[s].gone => /\ wire'[s] # Free /\ ~wire'[s].gone /\ wire'[s].what = wire[s].what
  BY AnswerIs DEF Protocol
<1>2. PagesShape'
  <2>1. PagesShape
    BY DEF Protocol
  <2>2. jar'.rt <= lastId' /\ csrf' \in [Tabs -> 0..lastId']
    BY <2>1 DEF PagesShape
  <2>3. QED
    BY <1>1, <2>1, <2>2 DEF PagesShape
<1>3. ASSUME NEW t \in Tabs
      PROVE  SlotFits(t)' /\ Heard(t)'
  <2>1. SlotFits(t) /\ Heard(t) /\ t \in Senders
    BY Places DEF Protocol
  <2>2. SlotFits(t)'
    BY <1>1, <2>1 DEF SlotFits
  <2>3. wire'[t] # Free <=> wire[t] # Free
    BY <1>1, <2>1 DEF SlotFits
  <2>4. (\E j \in JobsOf(t) : Waits(j)') <=> (\E j \in JobsOf(t) : Waits(j))
    BY DEF Waits
  <2>5. QED
    BY <2>1, <2>2, <2>3, <2>4 DEF Heard, JobsOf
<1>4. ASSUME NEW j \in Jobs
      PROVE  JobFits(j)'
  <2>1. JobFits(j) /\ j \in Senders
    BY Places DEF Protocol
  <2>2. QED
    BY <1>1, <2>1 DEF JobFits
<1>5. LoadsAlone'
  BY DEF LoadsAlone, Protocol
<1>6. QED
  BY <1>2, <1>3, <1>4, <1>5 DEF Protocol

\* Only an answer that carries the change out counts it.
LEMMA AnswerOnce ==
    ASSUME Protocol, Once, HistoryShape, NEW s \in Senders, wire[s] # Free,
           NEW status \in {"ok", "401", "403", "409", "lost"}, NEW row, NEW family,
           lastId \in Nat, lastId' \in Nat, lastId <= lastId', row \in 0..lastId', family \in 0..lastId',
           Answers(s, status, row, family), UNCHANGED asks,
           wire[s].status = "sent" \/ status = "lost",
           \A j \in Jobs :
              \/ history'.done[j] = history.done[j]
              \/ /\ j = s /\ wire[s].what = "change" /\ wire[s].status = "sent" /\ status = "ok"
                 /\ history'.done[j] = history.done[j] + 1
    PROVE  Once'
<1>1. /\ \A u \in Senders \ {s} : wire'[u] = wire[u]
      /\ wire[s].gone => wire'[s] = Free
      /\ ~wire[s].gone => /\ wire'[s] # Free /\ ~wire'[s].gone /\ wire'[s].what = wire[s].what
                          /\ wire'[s].status = status
      /\ wire[s].gone \in BOOLEAN
  BY AnswerIs, MessageIs DEF Protocol, Message
<1>2. ASSUME NEW j \in Jobs
      PROVE  history'.done[j] <= 1 /\ (MayRepeat(j)' => history'.done[j] = 0)
  <2>1. /\ j \in Senders /\ JobFits(j) /\ history.done[j] <= 1
        /\ MayRepeat(j) => history.done[j] = 0
    BY Places DEF Protocol, Once
  <2>2. history.done[j] \in Nat
    BY DEF HistoryShape
  <2>3. CASE history'.done[j] = history.done[j]
    <3>1. MayRepeat(j)' => MayRepeat(j)
      BY <1>1, <2>1 DEF MayRepeat
    <3>2. QED
      BY <2>1, <2>2, <2>3, <3>1
  <2>4. CASE /\ j = s /\ wire[s].what = "change" /\ wire[s].status = "sent" /\ status = "ok"
             /\ history'.done[j] = history.done[j] + 1
    <3>1. history'.done[j] = 1
      BY <2>1, <2>4 DEF MayRepeat
    <3>2. ~MayRepeat(j)'
      <4>1. CASE wire[s].gone
        BY <1>1, <2>1, <2>4, <4>1 DEF MayRepeat, JobFits
      <4>2. CASE ~wire[s].gone
        <5>1. asks[j] # Rest /\ "change" = Sends(asks[j]) /\ ~asks[j].waits
          BY <2>1, <2>4, <4>2 DEF JobFits
        <5>2. ~asks[j].nested
          BY <5>1 DEF Sends
        <5>3. QED
          BY <1>1, <2>4, <4>2, <5>1, <5>2 DEF MayRepeat
      <4>3. QED
        BY <1>1, <4>1, <4>2
    <3>3. QED
      BY <3>1, <3>2
  <2>5. QED
    BY <2>3, <2>4
<1>3. QED
  BY <1>2 DEF Once

----------------------------------------------------------------------------
(* A tab that loads another document.                                      *)

\* What it sends first.
First(document, first) ==
    \/ document = "login" /\ first = Free
    \/ /\ document = "opening" /\ MessageFits(first) /\ first # Free
       /\ first.what = "page" /\ first.status = "sent" /\ ~first.gone

JarFits == jar \in [at: Nat, rt: Nat] /\ jar.at = jar.rt /\ jar.rt <= lastId

\* Of the calls of the tab only what they have sent is left.
LEMMA LeaveIs ==
    ASSUME PagesShape, lastId' = lastId, NEW t \in Tabs, NEW document, NEW first,
           First(document, first), Leave(t, document, first)
    PROVE  /\ shows' \in [Tabs -> Documents] /\ csrf' \in [Tabs -> 0..lastId']
           /\ asks' \in [Jobs -> {Rest} \cup Asking]
           /\ wire' \in [Senders -> {Free} \cup Message]
           /\ \A u \in Senders : wire'[u] = Free \/ MessageFits(wire[u])'
           /\ shows'[t] = document /\ \A u \in Tabs \ {t} : shows'[u] = shows[u]
           /\ \A j \in Jobs : asks'[j] = IF TabOf[j] = t THEN Rest ELSE asks[j]
           /\ wire'[t] = first /\ \A u \in Tabs \ {t} : wire'[u] = wire[u]
           /\ \A j \in Jobs : TabOf[j] # t => wire'[j] = wire[j]
           /\ \A j \in Jobs : TabOf[j] = t /\ wire'[j] # Free =>
                 /\ wire[j] # Free /\ wire'[j].gone /\ wire'[j].what = wire[j].what
                 /\ wire'[j].status = wire[j].status
<1> DEFINE left(s) == IF s = t THEN first
                      ELSE IF HomeOf(s) # t \/ wire[s] = Free THEN wire[s]
                      ELSE IF wire[s].status = "sent" THEN [wire[s] EXCEPT !.gone = TRUE]
                      ELSE Free
<1>1. /\ shows \in [Tabs -> Documents] /\ csrf \in [Tabs -> 0..lastId] /\ 0 \in 0..lastId
      /\ asks \in [Jobs -> {Rest} \cup Asking] /\ document \in Documents
  BY DEF PagesShape, First, Documents
<1>2. /\ shows' = [shows EXCEPT ![t] = document] /\ csrf' = [csrf EXCEPT ![t] = 0]
      /\ asks' = [j \in Jobs |-> IF TabOf[j] = t THEN Rest ELSE asks[j]]
      /\ wire' = [s \in Senders |-> left(s)]
  BY DEF Leave
<1>3. ASSUME NEW s \in Senders, s # t, HomeOf(s) = t, wire[s] # Free
      PROVE  \/ left(s) = Free
             \/ /\ left(s) \in Message /\ MessageFits(left(s)) /\ left(s) # Free /\ left(s).gone
                /\ left(s).what = wire[s].what /\ left(s).status = wire[s].status
  <2>1. wire[s] \in Message /\ MessageFits(wire[s])
    BY <1>3, MessageIs
  <2>2. PICK m : m = [wire[s] EXCEPT !.gone = TRUE]
    OBVIOUS
  <2>3. /\ m \in Message /\ m.gone /\ m.what = wire[s].what /\ m.status = wire[s].status
        /\ m.at = wire[s].at /\ m.rt = wire[s].rt /\ m.row = wire[s].row /\ m.family = wire[s].family
    BY <2>1, <2>2 DEF Message
  <2>4. MessageFits(m) /\ m # Free
    BY <2>1, <2>3, Constants DEF MessageFits
  <2>5. left(s) = Free \/ left(s) = m
    BY <1>3, <2>2
  <2>6. QED
    BY <2>3, <2>4, <2>5
<1>4. \A s \in Senders : left(s) = Free \/ MessageFits(left(s))
  <2>1. ASSUME NEW s \in Senders
        PROVE  left(s) = Free \/ MessageFits(left(s))
    <3>1. CASE s = t
      BY <3>1 DEF First
    <3>2. CASE s # t /\ (HomeOf(s) # t \/ wire[s] = Free)
      BY <3>2 DEF PagesShape
    <3>3. CASE s # t /\ HomeOf(s) = t /\ wire[s] # Free
      BY <1>3, <3>3
    <3>4. QED
      BY <3>1, <3>2, <3>3
  <2>2. QED
    BY <2>1
<1>5. /\ left(t) = first
      /\ \A s \in Senders : s # t /\ (HomeOf(s) # t \/ wire[s] = Free) => left(s) = wire[s]
  OBVIOUS
<1> HIDE DEF left
<1>6. \A s \in Senders : wire'[s] = left(s)
  BY <1>2
<1>7. /\ wire' \in [Senders -> {Free} \cup Message]
      /\ \A u \in Senders : wire'[u] = Free \/ MessageFits(wire[u])'
  <2>1. \A s \in Senders : left(s) \in {Free} \cup Message
    BY <1>4 DEF MessageFits
  <2>2. QED
    BY <1>2, <1>4, <1>6, <2>1 DEF MessageFits
<1>8. /\ shows' \in [Tabs -> Documents] /\ csrf' \in [Tabs -> 0..lastId']
      /\ asks' \in [Jobs -> {Rest} \cup Asking]
      /\ shows'[t] = document /\ \A u \in Tabs \ {t} : shows'[u] = shows[u]
      /\ \A j \in Jobs : asks'[j] = IF TabOf[j] = t THEN Rest ELSE asks[j]
  BY <1>1, <1>2
<1>9. wire'[t] = first /\ \A u \in Tabs \ {t} : wire'[u] = wire[u]
  BY <1>5, <1>6, Places
<1>10. \A j \in Jobs : TabOf[j] # t => wire'[j] = wire[j]
  BY <1>5, <1>6, Places
<1>11. ASSUME NEW j \in Jobs, TabOf[j] = t, wire'[j] # Free
       PROVE  /\ wire[j] # Free /\ wire'[j].gone /\ wire'[j].what = wire[j].what
              /\ wire'[j].status = wire[j].status
  <2>1. j \in Senders /\ j # t /\ HomeOf(j) = t
    BY <1>11, Places
  <2>2. wire[j] # Free
    BY <1>5, <1>6, <1>11, <2>1
  <2>3. QED
    BY <1>3, <1>6, <1>11, <2>1, <2>2
<1>12. QED
  BY <1>7, <1>8, <1>9, <1>10, <1>11

\* A document that is left takes its calls with it.
LEMMA LeaveKeeps ==
    ASSUME Protocol, Once, HistoryShape, lastId' = lastId, JarFits',
           NEW t \in Tabs, NEW document, NEW first,
           First(document, first), Leave(t, document, first)
    PROVE  Protocol' /\ Once' /\ HistoryShape'
<1>1. /\ shows' \in [Tabs -> Documents] /\ csrf' \in [Tabs -> 0..lastId']
      /\ asks' \in [Jobs -> {Rest} \cup Asking]
      /\ wire' \in [Senders -> {Free} \cup Message]
      /\ \A u \in Senders : wire'[u] = Free \/ MessageFits(wire[u])'
      /\ shows'[t] = document /\ \A u \in Tabs \ {t} : shows'[u] = shows[u]
      /\ \A j \in Jobs : asks'[j] = IF TabOf[j] = t THEN Rest ELSE asks[j]
      /\ wire'[t] = first /\ \A u \in Tabs \ {t} : wire'[u] = wire[u]
      /\ \A j \in Jobs : TabOf[j] # t => wire'[j] = wire[j]
      /\ \A j \in Jobs : TabOf[j] = t /\ wire'[j] # Free =>
            /\ wire[j] # Free /\ wire'[j].gone /\ wire'[j].what = wire[j].what
            /\ wire'[j].status = wire[j].status
  BY LeaveIs DEF Protocol
<1>2. PagesShape'
  BY <1>1 DEF PagesShape, JarFits, Protocol
<1>3. ASSUME NEW u \in Tabs
      PROVE  SlotFits(u)' /\ Heard(u)'
  <2>1. SlotFits(u) /\ Heard(u)
    BY DEF Protocol
  <2>2. CASE u = t
    <3>1. document \notin {"app", "loading"}
      BY DEF First
    <3>2. SlotFits(u)'
      BY <1>1, <2>2, Kinds DEF SlotFits, First
    <3>3. QED
      BY <1>1, <2>2, <3>1, <3>2 DEF Heard
  <2>3. CASE u # t
    <3>1. shows'[u] = shows[u] /\ wire'[u] = wire[u]
      BY <1>1, <2>3
    <3>2. \A j \in JobsOf(u) : asks'[j] = asks[j]
      BY <1>1, <2>3 DEF JobsOf
    <3>3. (\E j \in JobsOf(u) : Waits(j)') <=> (\E j \in JobsOf(u) : Waits(j))
      BY <3>2 DEF Waits
    <3>4. QED
      BY <2>1, <3>1, <3>3 DEF SlotFits, Heard, JobsOf
  <2>4. QED
    BY <2>2, <2>3
<1>4. ASSUME NEW j \in Jobs
      PROVE  JobFits(j)'
  <2>1. JobFits(j) /\ TabOf[j] \in Tabs
    BY Places DEF Protocol
  <2>2. CASE TabOf[j] = t
    BY <1>1, <2>1, <2>2 DEF JobFits
  <2>3. CASE TabOf[j] # t
    BY <1>1, <2>1, <2>3 DEF JobFits
  <2>4. QED
    BY <2>2, <2>3
<1>5. LoadsAlone'
  <2>1. ASSUME NEW i \in Jobs, NEW j \in Jobs, i # j, TabOf[i] = TabOf[j],
               shows'[TabOf[j]] = "loading"
        PROVE  asks'[i] = Rest \/ asks'[j] = Rest
    <3>1. CASE TabOf[j] = t
      BY <1>1, <3>1
    <3>2. CASE TabOf[j] # t
      BY <1>1, <2>1, <3>2, Places DEF Protocol, LoadsAlone
    <3>3. QED
      BY <3>1, <3>2
  <2>2. QED
    BY <2>1 DEF LoadsAlone
<1>6. Protocol'
  BY <1>2, <1>3, <1>4, <1>5 DEF Protocol
<1>7. HistoryShape' /\ history'.done = history.done
  BY DEF HistoryShape, Leave
<1>8. ASSUME NEW j \in Jobs
      PROVE  MayRepeat(j)' => MayRepeat(j)
  <2>1. CASE TabOf[j] = t
    BY <1>1, <2>1 DEF MayRepeat
  <2>2. CASE TabOf[j] # t
    BY <1>1, <2>2 DEF MayRepeat
  <2>3. QED
    BY <2>1, <2>2
<1>9. Once'
  BY <1>7, <1>8 DEF Once
<1>10. QED
  BY <1>6, <1>7, <1>9

\* The properties look at the cookies and at the history only.
Untold ==
    /\ UNCHANGED vars
    /\ history'.out = history.out /\ history'.overheard = history.overheard
    /\ history'.theft = history.theft

\* And the one that follows presents the cookies of that moment.
LEMMA LeaveCookies ==
    ASSUME Protocol, HistoryShape, UNCHANGED vars, NEW t \in Tabs, NEW document, NEW first,
           First(document, first), first # Free => first.rt = jar'.rt,
           Leave(t, document, first),
           \/ jar' = jar /\ (shows[t] # "checking" \/ wire[t].what # "refresh")
           \/ jar'.rt = 0
           \/ Brings(wire[t]) /\ jar'.rt = wire[t].row
    PROVE  Untold /\ CookiesMove
<1>1. wire'[t] = first /\ \A u \in Tabs \ {t} : wire'[u] = wire[u]
  <2>1. lastId' = lastId
    BY DEF vars
  <2>2. QED
    BY <2>1, LeaveIs DEF Protocol
<1>2. /\ history'.late = (history.late \/ /\ shows[t] \in {"app", "loading"}
                                          /\ wire[t].what = "refresh"
                                          /\ wire[t].status \in {"sent", "ok"})
      /\ history'.out = history.out /\ history'.overheard = history.overheard
      /\ history'.theft = history.theft
  BY DEF Leave, HistoryShape
<1>3. now' = now /\ rows' = rows
  BY DEF vars
<1>4. \A u \in Tabs : Turns(u)
  BY <1>1 DEF Turns, First
<1>5. ~Brings(wire'[t])
  BY <1>1 DEF Brings, First
<1>6. ASSUME jar' = jar, shows[t] # "checking" \/ wire[t].what # "refresh", NEW u \in Tabs,
             Refreshing(wire[u]), wire[u].status = "ok", wire'[u] # wire[u]
      PROVE  history'.late
  <2>1. u = t
    BY <1>1, <1>6
  <2>2. shows[t] \in Documents /\ SlotFits(t)
    BY DEF Protocol, PagesShape
  <2>3. wire[t].what \in SlotKinds(shows[t]) /\ wire[t].what = "refresh"
    BY <1>6, <2>1, <2>2 DEF SlotFits, Refreshing
  <2>4. shows[t] \in {"app", "loading"}
    BY <1>6, <2>2, <2>3, Kinds DEF Documents
  <2>5. QED
    BY <1>2, <1>6, <2>1, <2>3, <2>4
<1>7. \A i : Replaced(rows', i) => Replaced(rows, i) /\ rows'[i].replacedAt = rows[i].replacedAt
  BY <1>3
<1>8. CookiesMove
  BY <1>2, <1>3, <1>4, <1>5, <1>6, <1>7 DEF CookiesMove
<1>9. QED
  BY <1>2, <1>8 DEF Untold

----------------------------------------------------------------------------
(* A call that goes on.                                                    *)

\* What every step of the browser does to the invariant.
Kept == Protocol' /\ Once' /\ HistoryShape' /\ Untold /\ CookiesMove

\* Call j becomes a and sends m, its tab t shows d and has w under way.
Moves(j, t, a, m, d, w) ==
    /\ UNCHANGED <<vars, jar>> /\ t = TabOf[j]
    /\ a \in {Rest} \cup Asking /\ d \in Documents /\ csrf' \in [Tabs -> 0..lastId]
    /\ asks' = [asks EXCEPT ![j] = a]
    /\ shows' = [shows EXCEPT ![t] = d]
    /\ wire' = [wire EXCEPT ![j] = m, ![t] = w]
    /\ m = Free \/ /\ MessageFits(m) /\ m # Free /\ ~m.gone
                   /\ a # Rest /\ m.what = Sends(a) /\ ~a.waits
    /\ w = wire[t] \/ /\ MessageFits(w) /\ w # Free /\ wire[t] = Free
                      /\ w.status = "sent" /\ w.rt = jar.rt
    /\ w # Free => ~w.gone /\ w.what \in SlotKinds(d)
    /\ d \in {"app", "loading"} =>
          (w # Free <=> (a # Rest /\ a.waits) \/ \E k \in JobsOf(t) \ {j} : Waits(k))
    /\ d = shows[t] \/ \A k \in JobsOf(t) \ {j} : asks[k] = Rest
    /\ a # Rest => d \in {"app", "loading"} /\ (a.what = "me" => d = "loading")
    /\ d = "loading" /\ a # Rest /\ asks[j] = Rest => \A k \in JobsOf(t) \ {j} : asks[k] = Rest
    /\ \/ history' = history /\ (MayRepeat(j)' => MayRepeat(j))
       \/ history' = [history EXCEPT !.done = [history.done EXCEPT ![j] = 0]]

\* Such a step of a call keeps the shape of the traffic.
LEMMA CallMoves ==
    ASSUME Protocol, Once, HistoryShape, NEW j \in Jobs, NEW t, NEW a, NEW m, NEW d, NEW w,
           Moves(j, t, a, m, d, w)
    PROVE  Kept
<1> USE DEF Moves
<1>1. /\ j \in Senders /\ j \notin Tabs /\ t \in Tabs /\ t \in Senders /\ t # j
      /\ \A u \in Tabs : u \in Senders /\ u \notin Jobs
      /\ \A k \in Jobs : k \in Senders /\ k \notin Tabs
  BY Places
<1>2. /\ PagesShape /\ wire \in [Senders -> {Free} \cup Message]
      /\ shows \in [Tabs -> Documents] /\ asks \in [Jobs -> {Rest} \cup Asking]
  BY DEF Protocol, PagesShape
<1>3. lastId' = lastId /\ jar' = jar /\ now' = now /\ rows' = rows
  BY DEF vars
<1>4. w = Free \/ MessageFits(w)
  BY <1>1, <1>2 DEF PagesShape
<1>5. m \in {Free} \cup Message /\ w \in {Free} \cup Message
  BY <1>4 DEF MessageFits
<1>6. /\ wire' \in [Senders -> {Free} \cup Message]
      /\ wire'[j] = m /\ wire'[t] = w /\ \A s \in Senders \ {j, t} : wire'[s] = wire[s]
  BY <1>1, <1>2, <1>5
<1>7. /\ asks' \in [Jobs -> {Rest} \cup Asking] /\ asks'[j] = a
      /\ \A k \in Jobs \ {j} : asks'[k] = asks[k]
      /\ shows' \in [Tabs -> Documents] /\ shows'[t] = d
      /\ \A u \in Tabs \ {t} : shows'[u] = shows[u]
  BY <1>1, <1>2
<1>8. PagesShape'
  <2>1. \A s \in Senders : wire[s] = Free \/ MessageFits(wire[s])
    BY <1>2 DEF PagesShape
  <2>2. ASSUME NEW s \in Senders
        PROVE  wire'[s] = Free \/ MessageFits(wire[s])'
    <3>1. wire'[s] = Free \/ MessageFits(wire'[s])
      BY <1>4, <1>6, <2>1
    <3>2. QED
      BY <1>3, <3>1 DEF MessageFits
  <2>3. QED
    BY <1>2, <1>3, <1>6, <1>7, <2>2 DEF PagesShape
<1>9. ASSUME NEW u \in Tabs
      PROVE  SlotFits(u)' /\ Heard(u)'
  <2>1. CASE u = t
    <3>1. SlotFits(u)'
      BY <1>6, <1>7, <2>1 DEF SlotFits
    <3>2. j \in JobsOf(t) /\ \A k \in JobsOf(t) \ {j} : Waits(k)' <=> Waits(k)
      BY <1>7 DEF JobsOf, Waits
    <3>3. Waits(j)' <=> a # Rest /\ a.waits
      BY <1>7 DEF Waits
    <3>4. (\E k \in JobsOf(t) : Waits(k)') <=>
             (a # Rest /\ a.waits) \/ \E k \in JobsOf(t) \ {j} : Waits(k)
      BY <3>2, <3>3
    <3>5. QED
      BY <1>6, <1>7, <2>1, <3>1, <3>4 DEF Heard, JobsOf
  <2>2. CASE u # t
    <3>1. SlotFits(u) /\ Heard(u) /\ wire'[u] = wire[u] /\ shows'[u] = shows[u]
      BY <1>1, <1>6, <1>7, <2>2 DEF Protocol
    <3>2. \A k \in JobsOf(u) : Waits(k)' <=> Waits(k)
      BY <1>7, <2>2 DEF JobsOf, Waits
    <3>3. QED
      BY <3>1, <3>2 DEF SlotFits, Heard, JobsOf
  <2>3. QED
    BY <2>1, <2>2
<1>10. ASSUME NEW k \in Jobs
       PROVE  JobFits(k)'
  <2>1. JobFits(k) /\ k \in Senders /\ k # t /\ TabOf[k] \in Tabs
    BY <1>1, Places DEF Protocol
  <2>2. CASE k = j
    <3>1. m # Free => m.what \in {"change", "logout", "me"} /\ ~m.gone
      BY DEF Asking, Sends
    <3>2. QED
      BY <1>6, <1>7, <2>2, <3>1 DEF JobFits
  <2>3. CASE k # j
    <3>1. wire'[k] = wire[k] /\ asks'[k] = asks[k]
      BY <1>6, <1>7, <2>1, <2>3
    <3>2. asks[k] # Rest => shows'[TabOf[k]] = shows[TabOf[k]]
      BY <1>7, <2>1, <2>3 DEF JobsOf
    <3>3. QED
      BY <2>1, <3>1, <3>2 DEF JobFits
  <2>4. QED
    BY <2>2, <2>3
<1>11. LoadsAlone'
  <2>1. LoadsAlone
    BY DEF Protocol
  <2>2. ASSUME NEW i \in Jobs, NEW k \in Jobs, i # k, TabOf[i] = TabOf[k],
               shows'[TabOf[k]] = "loading", asks'[i] # Rest, asks'[k] # Rest
        PROVE  FALSE
    <3>1. CASE TabOf[k] # t
      BY <1>1, <1>7, <2>1, <2>2, <3>1, Places DEF LoadsAlone
    <3>2. CASE TabOf[k] = t /\ d # shows[t]
      <4>1. \A l \in Jobs : TabOf[l] = t /\ l # j => asks'[l] = Rest
        BY <1>7, <3>2 DEF JobsOf
      <4>2. QED
        BY <2>2, <3>2, <4>1
    <3>3. CASE TabOf[k] = t /\ d = shows[t] /\ i # j /\ k # j
      BY <1>7, <2>1, <2>2, <3>3 DEF LoadsAlone
    <3>4. CASE TabOf[k] = t /\ d = shows[t] /\ (i = j \/ k = j)
      <4>1. asks[j] # Rest => \A l \in Jobs : TabOf[l] = t /\ l # j => asks[l] = Rest
        BY <1>7, <2>1, <2>2, <3>4 DEF LoadsAlone
      <4>2. \A l \in Jobs : TabOf[l] = t /\ l # j => asks[l] = Rest
        BY <1>7, <2>2, <3>4, <4>1 DEF JobsOf
      <4>3. QED
        BY <1>7, <2>2, <3>4, <4>2
    <3>5. QED
      BY <3>1, <3>2, <3>3, <3>4
  <2>3. QED
    BY <2>2 DEF LoadsAlone
<1>12. Protocol'
  BY <1>8, <1>9, <1>10, <1>11 DEF Protocol
<1>13. /\ HistoryShape'
       /\ \A k \in Jobs \ {j} : history'.done[k] = history.done[k]
       /\ history'.done[j] = history.done[j] \/ history'.done[j] = 0
       /\ (MayRepeat(j)' => MayRepeat(j)) \/ history'.done[j] = 0
       /\ history'.out = history.out /\ history'.overheard = history.overheard
       /\ history'.theft = history.theft /\ history'.late = history.late
  <2>1. CASE history' = history /\ (MayRepeat(j)' => MayRepeat(j))
    BY <1>3, <2>1 DEF HistoryShape
  <2>2. CASE history' = [history EXCEPT !.done = [history.done EXCEPT ![j] = 0]]
    BY <1>3, <2>2 DEF HistoryShape
  <2>3. QED
    BY <2>1, <2>2
<1>14. Once'
  <2>1. ASSUME NEW k \in Jobs \ {j}
        PROVE  MayRepeat(k)' => MayRepeat(k)
    BY <1>1, <1>6, <1>7 DEF MayRepeat
  <2>2. \A k \in Jobs : history.done[k] <= 1 /\ (MayRepeat(k) => history.done[k] = 0)
    BY DEF Once
  <2>3. ASSUME NEW k \in Jobs
        PROVE  history'.done[k] <= 1 /\ (MayRepeat(k)' => history'.done[k] = 0)
    BY <1>13, <2>1, <2>2
  <2>4. QED
    BY <2>3 DEF Once
<1>15. CookiesMove
  <2>1. \A u \in Tabs : Turns(u)
    BY <1>1, <1>3, <1>6 DEF Turns
  <2>2. ASSUME NEW u \in Tabs, Refreshing(wire[u])
        PROVE  wire'[u] = wire[u]
    BY <1>1, <1>6, <2>2 DEF Refreshing
  <2>3. QED
    BY <1>3, <1>13, <2>1, <2>2 DEF CookiesMove
<1>16. QED
  BY <1>12, <1>13, <1>14, <1>15 DEF Kept, Untold

\* A call that is answered waits for nothing else.
LEMMA AnsweredCall ==
    ASSUME Protocol, NEW j \in Jobs, Answered(j)
    PROVE  /\ asks[j] \in Asking /\ asks[j] # Rest /\ ~Waits(j) /\ ~asks[j].waits
           /\ wire[j] # Free /\ wire[j].what = Sends(asks[j])
           /\ shows[TabOf[j]] \in {"app", "loading"}
           /\ asks[j].what = "me" => shows[TabOf[j]] = "loading"
           /\ wire[j].family \in 0..lastId
<1>1. wire[j] # Free /\ ~wire[j].gone /\ JobFits(j) /\ j \in Senders
  BY Places DEF Answered, Protocol
<1>2. /\ asks[j] # Rest /\ ~asks[j].waits /\ wire[j].what = Sends(asks[j])
      /\ shows[TabOf[j]] \in {"app", "loading"}
      /\ asks[j].what = "me" => shows[TabOf[j]] = "loading"
  BY <1>1 DEF JobFits
<1>3. asks[j] \in Asking
  BY <1>2, AskingIs DEF Protocol
<1>4. wire[j].family \in 0..lastId
  BY <1>1, MessageIs DEF Protocol, MessageFits, Message
<1>5. QED
  BY <1>1, <1>2, <1>3, <1>4 DEF Waits

\* What is under way for a tab stays heard as long as no call begins to wait.
LEMMA Listening ==
    ASSUME Protocol, NEW j \in Jobs, NEW t, t = TabOf[j]
    PROVE  /\ wire[t] # Free => ~wire[t].gone /\ wire[t].what \in SlotKinds(shows[t])
           /\ shows[t] \in {"app", "loading"} /\ ~Waits(j) =>
                 (wire[t] # Free <=> \E k \in JobsOf(t) \ {j} : Waits(k))
           /\ shows[t] = "loading" /\ asks[j] # Rest => \A k \in JobsOf(t) \ {j} : asks[k] = Rest
           /\ shows[t] \notin {"app", "loading"} => \A k \in JobsOf(t) : asks[k] = Rest
<1>1. t \in Tabs /\ SlotFits(t) /\ Heard(t) /\ LoadsAlone /\ j \in JobsOf(t)
      /\ \A k \in Jobs : JobFits(k)
  BY Places DEF Protocol, JobsOf
<1>2. shows[t] \in {"app", "loading"} /\ ~Waits(j) =>
         (wire[t] # Free <=> \E k \in JobsOf(t) \ {j} : Waits(k))
  BY <1>1 DEF Heard
<1>3. shows[t] = "loading" /\ asks[j] # Rest => \A k \in JobsOf(t) \ {j} : asks[k] = Rest
  BY <1>1 DEF LoadsAlone, JobsOf
<1>4. shows[t] \notin {"app", "loading"} => \A k \in JobsOf(t) : asks[k] = Rest
  BY <1>1 DEF JobFits, JobsOf
<1>5. QED
  BY <1>1, <1>2, <1>3, <1>4 DEF SlotFits

\* A call that does not touch its tab.
LEMMA SameTab ==
    ASSUME PagesShape, NEW j \in Jobs, NEW m
    PROVE  /\ shows = [shows EXCEPT ![TabOf[j]] = shows[TabOf[j]]]
           /\ [wire EXCEPT ![j] = m] = [wire EXCEPT ![j] = m, ![TabOf[j]] = wire[TabOf[j]]]
<1>1. TabOf[j] \in Tabs /\ TabOf[j] \in Senders /\ j \in Senders /\ TabOf[j] # j
  BY Places
<1>2. shows \in [Tabs -> Documents] /\ wire \in [Senders -> {Free} \cup Message]
  BY DEF PagesShape
<1>3. QED
  BY <1>1, <1>2

\* Where the functions are defined.
LEMMA Domains ==
    ASSUME PagesShape
    PROVE  /\ \A j \in Jobs : j \in Senders /\ TabOf[j] \in Senders /\ TabOf[j] # j
           /\ wire \in [Senders -> {Free} \cup Message] /\ asks \in [Jobs -> {Rest} \cup Asking]
BY Places DEF PagesShape

\* The cookies and the tokens that requests carry.
LEMMA JarIs ==
    ASSUME PagesShape
    PROVE  /\ jar \in [at: Nat, rt: Nat] /\ jar.at = jar.rt /\ jar.rt <= lastId /\ lastId \in Nat
           /\ \A t \in Tabs : csrf[t] \in Nat /\ csrf[t] \in 0..lastId /\ shows[t] \in Documents
           /\ csrf \in [Tabs -> 0..lastId]
           /\ \A n \in 0..lastId : n \in Nat
BY DEF PagesShape

\* A call that begins.
LEMMA CallIs ==
    ASSUME NEW what \in {"change", "logout", "me"}
    PROVE  /\ Call(what) \in Asking /\ Call(what) # Rest /\ Call(what).what = what
           /\ Sends(Call(what)) = what /\ ~Call(what).waits /\ ~Call(what).nested
BY DEF Call, Asking, Rest, Sends

\* The user's change or logout.
LEMMA DeedKeeps ==
    ASSUME Protocol, Once, HistoryShape, NEW j \in Jobs, NEW what \in {"change", "logout"},
           Deed(j, what)
    PROVE  Kept
<1>1. PICK t : t = TabOf[j]
  OBVIOUS
<1>2. PICK a : a = Call(what)
  OBVIOUS
<1>3. PICK m : m = Request(what, jar, csrf[t])
  OBVIOUS
<1>4. t \in Tabs /\ PagesShape
  BY <1>1, Places DEF Protocol
<1>5. /\ shows[t] = "app" /\ asks[j] = Rest /\ UNCHANGED <<vars, jar>>
      /\ asks' = [asks EXCEPT ![j] = a] /\ wire' = [wire EXCEPT ![j] = m]
      /\ shows' = shows /\ csrf' = csrf
      /\ history' = [history EXCEPT !.done = [history.done EXCEPT ![j] = 0]]
  BY <1>1, <1>2, <1>3 DEF Deed, Asks
<1>6. /\ shows' = [shows EXCEPT ![t] = "app"]
      /\ wire' = [wire EXCEPT ![j] = m, ![t] = wire[t]]
  BY <1>1, <1>4, <1>5, SameTab
<1>7. /\ a \in {Rest} \cup Asking /\ a # Rest /\ ~a.waits /\ Sends(a) = what /\ a.what # "me"
  BY <1>2, CallIs
<1>8. MessageFits(m) /\ m # Free /\ ~m.gone /\ m.what = what
  BY <1>3, <1>4, JarIs, RequestFits
<1>9. /\ wire[t] # Free => ~wire[t].gone /\ wire[t].what \in SlotKinds("app")
      /\ wire[t] # Free <=> \E k \in JobsOf(t) \ {j} : Waits(k)
  BY <1>1, <1>5, Listening DEF Waits
<1>10. csrf' \in [Tabs -> 0..lastId] /\ "app" \in Documents
  BY <1>4, <1>5, JarIs DEF Documents
<1>11. Moves(j, t, a, m, "app", wire[t])
  BY <1>1, <1>5, <1>6, <1>7, <1>8, <1>9, <1>10 DEF Moves
<1>12. QED
  BY <1>11, CallMoves

\* The look at the token after a 403.
LEMMA DistrustedKeeps ==
    ASSUME Protocol, Once, HistoryShape, NEW j \in Jobs, Distrusted(j)
    PROVE  Kept
<1>1. PICK t : t = TabOf[j]
  OBVIOUS
<1>2. PICK a : a = [asks[j] EXCEPT !.csrfRetried = TRUE, !.nested = TRUE]
  OBVIOUS
<1>3. PICK m : m = Request("me", jar, 0)
  OBVIOUS
<1>4. t \in Tabs /\ PagesShape /\ Answered(j) /\ wire[j].status = "403"
  BY <1>1, Places DEF Protocol, Distrusted
<1>5. /\ asks[j] \in Asking /\ asks[j] # Rest /\ ~Waits(j) /\ ~asks[j].waits
      /\ wire[j] # Free /\ wire[j].what = Sends(asks[j])
      /\ shows[t] \in {"app", "loading"} /\ (asks[j].what = "me" => shows[t] = "loading")
  BY <1>1, <1>4, AnsweredCall
<1>6. /\ UNCHANGED <<vars, jar>> /\ history' = history
      /\ asks' = [asks EXCEPT ![j] = a] /\ wire' = [wire EXCEPT ![j] = m]
      /\ shows' = shows /\ csrf' = csrf
  BY <1>2, <1>3 DEF Distrusted, Asks
<1>7. /\ shows' = [shows EXCEPT ![t] = shows[t]]
      /\ wire' = [wire EXCEPT ![j] = m, ![t] = wire[t]]
  BY <1>1, <1>4, <1>6, SameTab
<1>8. /\ a \in Asking /\ a.nested /\ ~a.waits /\ a.what = asks[j].what
  BY <1>2, <1>5 DEF Asking
<1>9. a \in {Rest} \cup Asking /\ a # Rest /\ Sends(a) = "me"
  BY <1>8, Constants DEF Sends
<1>10. MessageFits(m) /\ m # Free /\ ~m.gone /\ m.what = "me"
  BY <1>3, <1>4, JarIs, RequestFits
<1>11. /\ wire[t] # Free => ~wire[t].gone /\ wire[t].what \in SlotKinds(shows[t])
       /\ wire[t] # Free <=> \E k \in JobsOf(t) \ {j} : Waits(k)
  BY <1>1, <1>5, Listening
<1>12. csrf' \in [Tabs -> 0..lastId] /\ shows[t] \in Documents
  BY <1>4, <1>6, JarIs
<1>13. MayRepeat(j)' => MayRepeat(j)
  <2>1. MayRepeat(j) \/ asks[j].what # "change"
    BY <1>4, <1>5 DEF MayRepeat, Sends
  <2>2. asks'[j] = a /\ wire'[j] = m
    BY <1>1, <1>4, <1>6, <1>7, Domains
  <2>3. QED
    BY <1>8, <1>10, <2>1, <2>2 DEF MayRepeat
<1>14. Moves(j, t, a, m, shows[t], wire[t])
  BY <1>1, <1>5, <1>6, <1>7, <1>8, <1>9, <1>10, <1>11, <1>12, <1>13 DEF Moves
<1>15. QED
  BY <1>14, CallMoves

\* A 401: the call awaits the refresh of its tab, or the page goes.
LEMMA RecoversKeeps ==
    ASSUME Protocol, Once, HistoryShape, NEW j \in Jobs, Recovers(j)
    PROVE  Kept
<1>1. PICK t : t = TabOf[j]
  OBVIOUS
<1>2. t \in Tabs /\ PagesShape /\ Answered(j) /\ wire[j].status = "401"
  BY <1>1, Places DEF Protocol, Recovers, Recoverable
<1>3. /\ asks[j] \in Asking /\ asks[j] # Rest /\ ~Waits(j) /\ ~asks[j].waits
      /\ wire[j] # Free /\ wire[j].what = Sends(asks[j])
      /\ shows[t] \in {"app", "loading"} /\ (asks[j].what = "me" => shows[t] = "loading")
  BY <1>1, <1>2, AnsweredCall
<1>4. UNCHANGED <<vars, jar>>
  BY DEF Recovers
<1>5. CASE Tried(asks[j])
  <2>1. Leave(t, "login", Free)
    BY <1>1, <1>5 DEF Recovers, Goodbye
  <2>2. First("login", Free) /\ JarFits' /\ lastId' = lastId /\ jar' = jar
    BY <1>2, <1>4 DEF First, JarFits, PagesShape, vars
  <2>3. Protocol' /\ Once' /\ HistoryShape'
    BY <1>2, <2>1, <2>2, LeaveKeeps
  <2>4. Untold /\ CookiesMove
    BY <1>2, <1>3, <1>4, <2>1, <2>2, LeaveCookies
  <2>5. QED
    BY <2>3, <2>4 DEF Kept
<1>6. CASE ~Tried(asks[j])
  <2>1. PICK a : a = IF asks[j].nested THEN [asks[j] EXCEPT !.waits = TRUE, !.meRefreshed = TRUE]
                     ELSE [asks[j] EXCEPT !.waits = TRUE, !.refreshed = TRUE]
    OBVIOUS
  <2>2. PICK w : w = IF wire[t] = Free THEN Request("refresh", jar, 0) ELSE wire[t]
    OBVIOUS
  <2>3. /\ asks' = [asks EXCEPT ![j] = a] /\ history' = history
        /\ wire' = [wire EXCEPT ![j] = Free, ![t] = IF wire[t] = Free THEN Request("refresh", jar, 0)
                                                    ELSE wire[t]]
        /\ shows' = shows /\ csrf' = csrf
    <3>1. t # j /\ j \in Senders /\ t \in Senders /\ wire \in [Senders -> {Free} \cup Message]
      BY <1>1, <1>2, Places DEF PagesShape
    <3>2. QED
      BY <1>1, <1>6, <2>1, <3>1 DEF Recovers, Asks
  <2>4. wire' = [wire EXCEPT ![j] = Free, ![t] = w] /\ shows' = [shows EXCEPT ![t] = shows[t]]
    BY <1>1, <1>2, <2>2, <2>3, SameTab
  <2>5. a \in Asking /\ a.waits /\ a.what = asks[j].what
    BY <1>3, <2>1 DEF Asking
  <2>6. a \in {Rest} \cup Asking /\ a # Rest
    BY <2>5, Constants
  <2>7. LET m == Request("refresh", jar, 0)
        IN  MessageFits(m) /\ m # Free /\ ~m.gone /\ m.what = "refresh" /\ m.status = "sent" /\ m.rt = jar.rt
    BY <1>2, JarIs, RequestFits
  <2>8. "refresh" \in SlotKinds(shows[t])
    BY <1>3, Kinds
  <2>9. wire[t] # Free => ~wire[t].gone /\ wire[t].what \in SlotKinds(shows[t])
    BY <1>1, Listening
  <2>10. /\ w = wire[t] \/ /\ MessageFits(w) /\ w # Free /\ wire[t] = Free
                           /\ w.status = "sent" /\ w.rt = jar.rt
         /\ w # Free /\ ~w.gone /\ w.what \in SlotKinds(shows[t])
    BY <2>2, <2>7, <2>8, <2>9
  <2>11. csrf' \in [Tabs -> 0..lastId] /\ shows[t] \in Documents
    BY <1>2, <2>3, JarIs
  <2>12. MayRepeat(j)' => MayRepeat(j)
    <3>1. asks'[j] = a /\ wire'[j] = Free
      BY <1>1, <1>2, <2>3, <2>4, Domains
    <3>2. QED
      BY <1>2, <1>3, <2>5, <3>1 DEF MayRepeat, Sends
  <2>13. Moves(j, t, a, Free, shows[t], w)
    BY <1>1, <1>3, <1>4, <2>3, <2>4, <2>5, <2>6, <2>10, <2>11, <2>12 DEF Moves
  <2>14. QED
    BY <2>13, CallMoves
<1>7. QED
  BY <1>5, <1>6

\* The token arrives: the call is repeated, or the page is loaded.
LEMMA ToldKeeps ==
    ASSUME Protocol, Once, HistoryShape, NEW j \in Jobs, Told(j)
    PROVE  Kept
<1>1. PICK t : t = TabOf[j]
  OBVIOUS
<1>2. t \in Tabs /\ PagesShape /\ Answered(j) /\ Sends(asks[j]) = "me"
  BY <1>1, Places DEF Protocol, Told
<1>3. /\ asks[j] \in Asking /\ asks[j] # Rest /\ ~Waits(j) /\ ~asks[j].waits
      /\ wire[j] # Free /\ wire[j].what = Sends(asks[j]) /\ wire[j].family \in 0..lastId
      /\ shows[t] \in {"app", "loading"} /\ (asks[j].what = "me" => shows[t] = "loading")
  BY <1>1, <1>2, AnsweredCall
<1>4. UNCHANGED <<vars, jar>> /\ history' = history /\ csrf' = [csrf EXCEPT ![t] = wire[j].family]
  BY <1>1 DEF Told
<1>5. csrf' \in [Tabs -> 0..lastId] /\ shows[t] \in Documents
  BY <1>2, <1>3, <1>4, JarIs
<1>6. /\ wire[t] # Free => ~wire[t].gone /\ wire[t].what \in SlotKinds(shows[t])
      /\ wire[t] # Free <=> \E k \in JobsOf(t) \ {j} : Waits(k)
      /\ shows[t] = "loading" => \A k \in JobsOf(t) \ {j} : asks[k] = Rest
  BY <1>1, <1>3, Listening
<1>7. CASE asks[j].nested
  <2>1. PICK a : a = [asks[j] EXCEPT !.nested = FALSE]
    OBVIOUS
  <2>2. PICK m : m = Request(asks[j].what, jar, wire[j].family)
    OBVIOUS
  <2>3. /\ asks' = [asks EXCEPT ![j] = a] /\ wire' = [wire EXCEPT ![j] = m] /\ shows' = shows
    BY <1>7, <2>1, <2>2 DEF Told, Asks
  <2>4. /\ shows' = [shows EXCEPT ![t] = shows[t]]
        /\ wire' = [wire EXCEPT ![j] = m, ![t] = wire[t]]
    BY <1>1, <1>2, <2>3, SameTab
  <2>5. a \in Asking /\ ~a.nested /\ ~a.waits /\ a.what = asks[j].what
    BY <1>3, <2>1 DEF Asking
  <2>6. a \in {Rest} \cup Asking /\ a # Rest /\ Sends(a) = asks[j].what
    BY <2>5, Constants DEF Sends
  <2>7. asks[j].what \in {"change", "logout", "me"}
    BY <1>3 DEF Asking
  <2>8. MessageFits(m) /\ m # Free /\ ~m.gone /\ m.what = asks[j].what
    BY <1>2, <1>3, <2>2, <2>7, JarIs, RequestFits
  <2>9. MayRepeat(j)' => MayRepeat(j)
    <3>1. asks'[j] = a /\ wire'[j] = m
      BY <1>1, <1>2, <2>3, <2>4, Domains
    <3>2. QED
      BY <1>3, <1>7, <2>5, <2>8, <3>1 DEF MayRepeat
  <2>10. Moves(j, t, a, m, shows[t], wire[t])
    BY <1>1, <1>3, <1>4, <1>5, <1>6, <2>3, <2>4, <2>5, <2>6, <2>8, <2>9 DEF Moves
  <2>11. QED
    BY <2>10, CallMoves
<1>8. CASE ~asks[j].nested
  <2>1. /\ asks' = [asks EXCEPT ![j] = Rest] /\ wire' = [wire EXCEPT ![j] = Free]
        /\ shows' = [shows EXCEPT ![t] = "app"]
    BY <1>1, <1>8 DEF Told, Asks
  <2>2. wire' = [wire EXCEPT ![j] = Free, ![t] = wire[t]]
    BY <1>1, <1>2, <2>1, SameTab
  <2>3. shows[t] = "loading" /\ SlotKinds("app") = SlotKinds(shows[t]) /\ "app" \in Documents
    BY <1>2, <1>3, <1>8, Kinds DEF Sends, Documents
  <2>4. MayRepeat(j)' => MayRepeat(j)
    <3>1. asks'[j] = Rest /\ wire'[j] = Free
      BY <1>1, <1>2, <2>1, <2>2, Domains
    <3>2. QED
      BY <3>1 DEF MayRepeat
  <2>5. Moves(j, t, Rest, Free, "app", wire[t])
    BY <1>1, <1>3, <1>4, <1>5, <1>6, <2>1, <2>2, <2>3, <2>4 DEF Moves
  <2>6. QED
    BY <2>5, CallMoves
<1>9. QED
  BY <1>7, <1>8

\* A call that ends, with its answer or with an error.
LEMMA EndsKeeps ==
    ASSUME Protocol, Once, HistoryShape, NEW j \in Jobs, Ends(j)
    PROVE  Kept
<1>1. PICK t : t = TabOf[j]
  OBVIOUS
<1>2. t \in Tabs /\ PagesShape /\ Answered(j)
  BY <1>1, Places DEF Protocol, Ends
<1>3. /\ asks[j] \in Asking /\ asks[j] # Rest /\ ~Waits(j)
      /\ shows[t] \in {"app", "loading"} /\ (asks[j].what = "me" => shows[t] = "loading")
  BY <1>1, <1>2, AnsweredCall
<1>4. /\ UNCHANGED <<vars, jar>> /\ history' = history /\ csrf' = csrf
      /\ asks' = [asks EXCEPT ![j] = Rest] /\ wire' = [wire EXCEPT ![j] = Free]
      /\ shows' = shows \/ shows' = ShowsAfter({j})
  BY DEF Ends, Asks
<1>5. csrf' \in [Tabs -> 0..lastId] /\ shows[t] \in Documents /\ "dead" \in Documents
  BY <1>2, <1>4, JarIs DEF Documents
<1>6. /\ wire[t] # Free => ~wire[t].gone /\ wire[t].what \in SlotKinds(shows[t])
      /\ wire[t] # Free <=> \E k \in JobsOf(t) \ {j} : Waits(k)
      /\ shows[t] = "loading" => \A k \in JobsOf(t) \ {j} : asks[k] = Rest
  BY <1>1, <1>3, Listening
<1>7. wire' = [wire EXCEPT ![j] = Free, ![t] = wire[t]] /\ shows = [shows EXCEPT ![t] = shows[t]]
  BY <1>1, <1>2, <1>4, SameTab
<1>8. MayRepeat(j)' => MayRepeat(j)
  <2>1. asks'[j] = Rest /\ wire'[j] = Free
    BY <1>1, <1>2, <1>4, <1>7, Domains
  <2>2. QED
    BY <2>1 DEF MayRepeat
<1>9. CASE shows' = shows
  <2>1. Moves(j, t, Rest, Free, shows[t], wire[t])
    BY <1>1, <1>3, <1>4, <1>5, <1>6, <1>7, <1>8, <1>9 DEF Moves
  <2>2. QED
    BY <2>1, CallMoves
<1>10. CASE shows' = ShowsAfter({j}) /\ shows' # shows
  <2>1. shows \in [Tabs -> Documents]
    BY <1>2 DEF PagesShape
  <2>2. asks[j].what = "me" /\ shows' = [shows EXCEPT ![t] = "dead"]
    <3>1. CASE asks[j].what = "me"
      BY <1>1, <1>2, <1>10, <2>1, <3>1 DEF ShowsAfter
    <3>2. CASE asks[j].what # "me"
      BY <1>10, <2>1, <3>2 DEF ShowsAfter
    <3>3. QED
      BY <3>1, <3>2
  <2>3. shows[t] = "loading" /\ \A k \in JobsOf(t) \ {j} : asks[k] = Rest
    BY <1>3, <1>6, <2>2
  <2>4. wire[t] = Free
    BY <1>6, <2>3 DEF Waits
  <2>5. Moves(j, t, Rest, Free, "dead", wire[t])
    BY <1>1, <1>3, <1>4, <1>5, <1>7, <1>8, <2>2, <2>3, <2>4 DEF Moves
  <2>6. QED
    BY <2>5, CallMoves
<1>11. QED
  BY <1>4, <1>9, <1>10

\* A page that begins to load.
LEMMA StartsKeeps ==
    ASSUME Protocol, Once, HistoryShape, NEW j \in Jobs, Starts(j)
    PROVE  Kept
<1>1. PICK t : t = TabOf[j]
  OBVIOUS
<1>2. PICK a : a = Call("me")
  OBVIOUS
<1>3. PICK m : m = Request("me", jar, 0)
  OBVIOUS
<1>4. t \in Tabs /\ PagesShape
  BY <1>1, Places DEF Protocol
<1>5. /\ shows[t] = "starting" /\ UNCHANGED <<vars, jar>> /\ history' = history /\ csrf' = csrf
      /\ asks' = [asks EXCEPT ![j] = a] /\ wire' = [wire EXCEPT ![j] = m]
      /\ shows' = [shows EXCEPT ![t] = "loading"]
  BY <1>1, <1>2, <1>3 DEF Starts, Asks
<1>6. wire' = [wire EXCEPT ![j] = m, ![t] = wire[t]]
  BY <1>1, <1>4, <1>5, SameTab
<1>7. /\ a \in {Rest} \cup Asking /\ a # Rest /\ ~a.waits /\ ~a.nested /\ Sends(a) = "me"
      /\ a.what = "me"
  BY <1>2, CallIs
<1>8. MessageFits(m) /\ m # Free /\ ~m.gone /\ m.what = "me"
  BY <1>3, <1>4, JarIs, RequestFits
<1>9. wire[t] = Free /\ \A k \in JobsOf(t) \ {j} : asks[k] = Rest
  BY <1>1, <1>5, Listening, Kinds
<1>10. csrf' \in [Tabs -> 0..lastId] /\ "loading" \in Documents
  BY <1>4, <1>5, JarIs DEF Documents
<1>11. MayRepeat(j)' => MayRepeat(j)
  <2>1. asks'[j] = a /\ wire'[j] = m
    BY <1>1, <1>4, <1>5, <1>6, Domains
  <2>2. QED
    BY <1>7, <1>8, <2>1 DEF MayRepeat
<1>12. ~\E k \in JobsOf(t) \ {j} : Waits(k)
  BY <1>9 DEF Waits
<1>13. Moves(j, t, a, m, "loading", wire[t])
  BY <1>1, <1>5, <1>6, <1>7, <1>8, <1>9, <1>10, <1>11, <1>12 DEF Moves
<1>14. QED
  BY <1>13, CallMoves

\* The logout button leaves.
LEMMA LogoutEndsKeeps ==
    ASSUME Protocol, Once, HistoryShape, NEW j \in Jobs, LogoutEnds(j)
    PROVE  Kept
<1>1. PICK t : t = TabOf[j]
  OBVIOUS
<1>2. t \in Tabs /\ PagesShape /\ Answered(j) /\ asks[j].what = "logout"
  BY <1>1, Places DEF Protocol, LogoutEnds
<1>3. shows[t] \in {"app", "loading"} /\ asks[j] \in Asking /\ wire[j].what = Sends(asks[j])
  BY <1>1, <1>2, AnsweredCall
<1>4. UNCHANGED vars /\ lastId' = lastId /\ jar' = JarAfter(wire[j]) /\ Leave(t, "login", Free)
  BY <1>1 DEF LogoutEnds, Goodbye, vars
<1>5. jar' = jar \/ jar' = NoCookies
  BY <1>2, <1>3, <1>4 DEF JarAfter, Sends
<1>6. First("login", Free) /\ JarFits' /\ (jar' = jar \/ jar'.rt = 0)
  <2>1. jar'.rt <= lastId'
    BY <1>2, <1>4, <1>5, Constants DEF PagesShape
  <2>2. QED
    BY <1>2, <1>5, <2>1, Constants DEF First, JarFits, PagesShape
<1>7. Protocol' /\ Once' /\ HistoryShape'
  BY <1>2, <1>4, <1>6, LeaveKeeps
<1>8. Untold /\ CookiesMove
  BY <1>2, <1>3, <1>4, <1>6, LeaveCookies
<1>9. QED
  BY <1>7, <1>8 DEF Kept

----------------------------------------------------------------------------
(* A tab that goes on.                                                     *)

\* Tab t shows d and sends w; its calls do not notice.
TabMoves(t, d, w) ==
    /\ UNCHANGED <<vars, asks, csrf, history>> /\ JarFits' /\ d \in Documents
    /\ shows' = [shows EXCEPT ![t] = d] /\ wire' = [wire EXCEPT ![t] = w]
    /\ w = Free \/ /\ MessageFits(w) /\ w # Free /\ ~w.gone /\ w.status = "sent"
                   /\ w.what \in SlotKinds(d) /\ w.rt = jar'.rt
    /\ d \in {"app", "loading"} => w # Free /\ wire[t] # Free
    /\ d \in {"app", "loading"} \/ shows[t] \in {"app", "loading"} => d = shows[t]
    /\ \/ jar' = jar /\ ~(Refreshing(wire[t]) /\ wire[t].status = "ok")
       \/ jar'.rt = 0

\* Such a step of a tab keeps the shape of the traffic.
LEMMA TabMovesKeep ==
    ASSUME Protocol, Once, HistoryShape, NEW t \in Tabs, NEW d, NEW w, TabMoves(t, d, w)
    PROVE  Kept
<1> USE DEF TabMoves
<1>1. /\ t \in Senders /\ t \notin Jobs /\ PagesShape
      /\ \A u \in Tabs : u \in Senders
      /\ \A k \in Jobs : k \in Senders /\ k # t /\ TabOf[k] \in Tabs
  BY Places DEF Protocol
<1>2. /\ wire \in [Senders -> {Free} \cup Message] /\ shows \in [Tabs -> Documents]
  BY <1>1 DEF PagesShape
<1>3. lastId' = lastId /\ now' = now /\ rows' = rows
  BY DEF vars
<1>4. w \in {Free} \cup Message
  BY DEF MessageFits
<1>5. /\ wire' \in [Senders -> {Free} \cup Message]
      /\ wire'[t] = w /\ \A s \in Senders \ {t} : wire'[s] = wire[s]
      /\ shows' \in [Tabs -> Documents] /\ shows'[t] = d
      /\ \A u \in Tabs \ {t} : shows'[u] = shows[u]
  BY <1>1, <1>2, <1>4
<1>6. PagesShape'
  <2>1. ASSUME NEW s \in Senders
        PROVE  wire'[s] = Free \/ MessageFits(wire[s])'
    <3>1. wire'[s] = Free \/ MessageFits(wire'[s])
      BY <1>1, <1>5 DEF PagesShape
    <3>2. QED
      BY <1>3, <3>1 DEF MessageFits
  <2>2. QED
    BY <1>1, <1>3, <1>5, <2>1 DEF PagesShape, JarFits
<1>7. ASSUME NEW u \in Tabs
      PROVE  SlotFits(u)' /\ Heard(u)'
  <2>1. SlotFits(u) /\ Heard(u)
    BY DEF Protocol
  <2>2. \A k \in JobsOf(u) : Waits(k)' <=> Waits(k)
    BY DEF Waits
  <2>3. CASE u = t
    <3>1. SlotFits(u)'
      BY <1>5, <2>3 DEF SlotFits
    <3>2. Heard(u)'
      BY <1>5, <2>1, <2>2, <2>3 DEF Heard, JobsOf
    <3>3. QED
      BY <3>1, <3>2
  <2>4. CASE u # t
    BY <1>1, <1>5, <2>1, <2>2, <2>4 DEF SlotFits, Heard, JobsOf
  <2>5. QED
    BY <2>3, <2>4
<1>8. \A k \in Jobs : wire'[k] = wire[k] /\ asks'[k] = asks[k]
  BY <1>1, <1>5
<1>9. \A k \in Jobs : asks[k] # Rest => shows'[TabOf[k]] = shows[TabOf[k]]
  BY <1>1, <1>5 DEF Protocol, JobFits
<1>10. \A k \in Jobs : JobFits(k)'
  BY <1>8, <1>9 DEF Protocol, JobFits
<1>11. LoadsAlone'
  BY <1>8, <1>9 DEF Protocol, LoadsAlone
<1>12. Protocol'
  BY <1>6, <1>7, <1>10, <1>11 DEF Protocol
<1>13. Once'
  BY <1>8 DEF Once, MayRepeat
<1>14. HistoryShape'
  BY <1>3 DEF HistoryShape
<1>15. CookiesMove
  <2>1. \A u \in Tabs : Turns(u)
    BY <1>1, <1>5 DEF Turns
  <2>2. ASSUME NEW u \in Tabs, u # t
        PROVE  wire'[u] = wire[u]
    BY <1>1, <1>5, <2>2
  <2>3. QED
    BY <1>3, <2>1, <2>2 DEF CookiesMove
<1>16. QED
  BY <1>12, <1>13, <1>14, <1>15 DEF Kept, Untold

\* An answer to the document of the tab is one to what it sent.
LEMMA AnsweredTab ==
    ASSUME Protocol, NEW t \in Tabs, Answered(t)
    PROVE  /\ wire[t] # Free /\ wire[t].what \in SlotKinds(shows[t]) /\ MessageFits(wire[t])
           /\ wire[t].status # "sent" /\ wire[t].status \in {"ok", "401", "403", "409", "lost"}
           /\ wire[t].row \in Nat /\ wire[t].row <= lastId /\ wire[t].family \in 0..lastId
<1>1. /\ wire[t] # Free /\ wire[t].status # "sent" /\ SlotFits(t) /\ PagesShape /\ t \in Senders
  BY Places DEF Answered, Protocol
<1>2. wire[t] \in Message /\ MessageFits(wire[t])
  BY <1>1, MessageIs
<1>3. QED
  BY <1>1, <1>2 DEF SlotFits, MessageFits, Message

\* What an answer leaves in the jar.
LEMMA JarAfterIs ==
    ASSUME Protocol, lastId' = lastId, NEW t \in Tabs, Answered(t), jar' = JarAfter(wire[t])
    PROVE  /\ JarFits'
           /\ \/ jar' = jar /\ ~Brings(wire[t])
              \/ jar' = NoCookies /\ ~Brings(wire[t]) /\ jar'.rt = 0
              \/ Brings(wire[t]) /\ jar'.rt = wire[t].row
<1>1. /\ wire[t] # Free /\ wire[t].row \in Nat /\ wire[t].row <= lastId /\ lastId \in Nat
      /\ jar \in [at: Nat, rt: Nat] /\ jar.at = jar.rt /\ jar.rt <= lastId
  BY AnsweredTab, JarIs DEF Protocol
<1>2. CASE Brings(wire[t])
  BY <1>1, <1>2 DEF JarAfter, Brings, JarFits
<1>3. CASE ~Brings(wire[t])
  <2>1. jar' = jar \/ jar' = NoCookies
    BY <1>1, <1>3 DEF JarAfter, Brings
  <2>2. QED
    BY <1>1, <1>3, <2>1, Constants DEF JarFits
<1>4. QED
  BY <1>2, <1>3

\* Everybody who awaited the refresh of the tab is sent again.
LEMMA ResumesKeeps ==
    ASSUME Protocol, Once, HistoryShape, UNCHANGED vars, NEW t \in Tabs,
           shows[t] \in {"app", "loading"}, Answered(t), JarFits',
           NEW token \in 0..lastId, Resumes(t, jar', token),
           \/ jar' = jar /\ ~(Refreshing(wire[t]) /\ wire[t].status = "ok")
           \/ Brings(wire[t]) /\ jar'.rt = wire[t].row
    PROVE  Kept
<1>1. /\ t \in Senders /\ t \notin Jobs /\ PagesShape
      /\ \A u \in Tabs : u \in Senders /\ u \notin Jobs
      /\ \A k \in Jobs : k \in Senders /\ k # t /\ k \notin Tabs /\ TabOf[k] \in Tabs
  BY Places DEF Protocol
<1>2. /\ wire \in [Senders -> {Free} \cup Message] /\ asks \in [Jobs -> {Rest} \cup Asking]
      /\ csrf \in [Tabs -> 0..lastId]
  BY <1>1 DEF PagesShape
<1>3. lastId' = lastId /\ now' = now /\ rows' = rows /\ lastId \in Nat /\ token \in Nat
  BY <1>1, JarIs DEF vars
<1>4. /\ shows' = shows /\ history' = history /\ csrf' \in [Tabs -> 0..lastId]
      /\ asks' = [j \in Jobs |-> IF j \in Awaiters(t) THEN [asks[j] EXCEPT !.waits = FALSE] ELSE asks[j]]
      /\ wire' = [s \in Senders |->
                     IF s = t THEN Free
                     ELSE IF s \in Awaiters(t) THEN Request(Sends(asks[s]), jar', token)
                     ELSE wire[s]]
  BY <1>2 DEF Resumes
<1>5. \A j \in Jobs : j \in Awaiters(t) <=> TabOf[j] = t /\ Waits(j)
  BY DEF Awaiters, JobsOf, Waits
<1>6. \A u \in Tabs : u \notin Awaiters(t)
  BY <1>1 DEF Awaiters, JobsOf
<1>7. wire'[t] = Free /\ \A u \in Tabs \ {t} : wire'[u] = wire[u]
  BY <1>1, <1>4, <1>6
<1>8. ASSUME NEW j \in Jobs, TabOf[j] = t, Waits(j)
      PROVE  /\ asks'[j] \in Asking /\ asks'[j] # Rest /\ ~asks'[j].waits
             /\ asks'[j].what = asks[j].what /\ asks'[j].nested = asks[j].nested
             /\ MessageFits(wire'[j]) /\ wire'[j] # Free /\ ~wire'[j].gone
             /\ wire'[j].what = Sends(asks'[j])
  <2>1. asks[j] \in Asking /\ Sends(asks[j]) \in {"change", "logout", "me"}
    BY <1>1, <1>8, AskingIs DEF Waits
  <2>2. PICK a : a = [asks[j] EXCEPT !.waits = FALSE]
    OBVIOUS
  <2>3. asks'[j] = a
    BY <1>4, <1>5, <1>8, <2>2
  <2>4. a \in Asking /\ ~a.waits /\ a.what = asks[j].what /\ a.nested = asks[j].nested
    BY <2>1, <2>2 DEF Asking
  <2>5. PICK m : m = Request(Sends(asks[j]), jar', token)
    OBVIOUS
  <2>6. wire'[j] = m
    BY <1>1, <1>4, <1>5, <1>8, <2>5
  <2>7. PICK cookies : cookies = jar'
    OBVIOUS
  <2>8. cookies \in [at: Nat, rt: Nat] /\ cookies.at = cookies.rt /\ cookies.rt <= lastId
    BY <1>3, <2>7 DEF JarFits
  <2>9. MessageFits(m) /\ m # Free /\ ~m.gone /\ m.what = Sends(asks[j])
    BY <1>3, <2>1, <2>5, <2>7, <2>8, RequestFits
  <2>10. Sends(a) = Sends(asks[j])
    BY <2>4 DEF Sends
  <2>11. QED
    BY <2>3, <2>4, <2>6, <2>9, <2>10, Constants
<1>9. \A j \in Jobs : TabOf[j] # t \/ ~Waits(j) => asks'[j] = asks[j] /\ wire'[j] = wire[j]
  BY <1>1, <1>4, <1>5
<1>10. PagesShape'
  <2>1. ASSUME NEW s \in Senders
        PROVE  wire'[s] = Free \/ MessageFits(wire'[s])
    <3>1. wire[s] = Free \/ MessageFits(wire[s])
      BY <1>1 DEF PagesShape
    <3>2. CASE s \in Tabs
      BY <1>7, <3>1, <3>2
    <3>3. CASE s \in Jobs
      BY <1>8, <1>9, <3>1, <3>3
    <3>4. QED
      BY <3>2, <3>3, Places
  <2>2. wire' \in [Senders -> {Free} \cup Message]
    <3>1. DOMAIN wire' = Senders /\ wire' = [s \in Senders |-> wire'[s]]
      BY <1>4
    <3>2. \A s \in Senders : wire'[s] \in {Free} \cup Message
      BY <2>1 DEF MessageFits
    <3>3. QED
      BY <3>1, <3>2
  <2>3. asks' \in [Jobs -> {Rest} \cup Asking]
    <3>1. DOMAIN asks' = Jobs /\ asks' = [j \in Jobs |-> asks'[j]]
      BY <1>4
    <3>2. \A j \in Jobs : asks'[j] \in {Rest} \cup Asking
      BY <1>2, <1>8, <1>9
    <3>3. QED
      BY <3>1, <3>2
  <2>4. \A s \in Senders : wire'[s] = Free \/ MessageFits(wire[s])'
    BY <1>3, <2>1 DEF MessageFits
  <2>5. QED
    BY <1>1, <1>3, <1>4, <2>2, <2>3, <2>4 DEF PagesShape, JarFits
<1>11. \A j \in Jobs : Waits(j)' <=> Waits(j) /\ TabOf[j] # t
  BY <1>8, <1>9 DEF Waits
<1>12. ASSUME NEW u \in Tabs
       PROVE  SlotFits(u)' /\ Heard(u)'
  <2>1. SlotFits(u) /\ Heard(u)
    BY DEF Protocol
  <2>2. CASE u = t
    BY <1>7, <1>11, <2>2 DEF SlotFits, Heard, JobsOf
  <2>3. CASE u # t
    <3>1. \A k \in JobsOf(u) : Waits(k)' <=> Waits(k)
      BY <1>11, <2>3 DEF JobsOf
    <3>2. QED
      BY <1>4, <1>7, <2>1, <2>3, <3>1 DEF SlotFits, Heard, JobsOf
  <2>4. QED
    BY <2>2, <2>3
<1>13. ASSUME NEW j \in Jobs
       PROVE  JobFits(j)'
  <2>1. JobFits(j)
    BY DEF Protocol
  <2>2. CASE TabOf[j] = t /\ Waits(j)
    <3>1. asks[j] # Rest /\ Sends(asks'[j]) \in {"change", "logout", "me"}
      BY <1>8, <2>2 DEF Asking, Sends, Waits
    <3>2. QED
      BY <1>4, <1>8, <2>1, <2>2, <3>1 DEF JobFits
  <2>3. CASE ~(TabOf[j] = t /\ Waits(j))
    BY <1>4, <1>9, <2>1, <2>3 DEF JobFits
  <2>4. QED
    BY <2>2, <2>3
<1>14. LoadsAlone'
  <2>1. \A j \in Jobs : asks[j] = Rest => asks'[j] = Rest
    BY <1>9 DEF Waits
  <2>2. QED
    BY <1>4, <2>1 DEF Protocol, LoadsAlone
<1>15. Protocol'
  BY <1>10, <1>12, <1>13, <1>14 DEF Protocol
<1>16. ASSUME NEW j \in Jobs
       PROVE  MayRepeat(j)' => MayRepeat(j)
  <2>1. CASE TabOf[j] = t /\ Waits(j)
    <3>1. asks[j].what # "change" => Sends(asks'[j]) # "change"
      BY <1>8, <2>1 DEF Sends
    <3>2. QED
      BY <1>8, <2>1, <3>1 DEF MayRepeat, Waits
  <2>2. CASE ~(TabOf[j] = t /\ Waits(j))
    BY <1>9, <2>2 DEF MayRepeat
  <2>3. QED
    BY <2>1, <2>2
<1>17. Once' /\ HistoryShape'
  BY <1>3, <1>4, <1>16 DEF Once, HistoryShape
<1>18. CookiesMove
  <2>1. \A u \in Tabs : Turns(u)
    BY <1>7 DEF Turns
  <2>2. ~Brings(wire'[t])
    BY <1>7 DEF Brings
  <2>3. ASSUME NEW u \in Tabs, u # t
        PROVE  wire'[u] = wire[u]
    BY <1>7, <2>3
  <2>4. QED
    BY <1>3, <1>4, <2>1, <2>2, <2>3 DEF CookiesMove
<1>19. QED
  BY <1>4, <1>15, <1>17, <1>18 DEF Kept, Untold

\* The refresh failed: its awaiters end with an error.
LEMMA FailsKeeps ==
    ASSUME Protocol, Once, HistoryShape, UNCHANGED <<vars, jar, csrf, history>>, NEW t \in Tabs,
           shows[t] \in {"app", "loading"}, ~(Refreshing(wire[t]) /\ wire[t].status = "ok"),
           asks' = [j \in Jobs |-> IF j \in Awaiters(t) THEN Rest ELSE asks[j]],
           wire' = [wire EXCEPT ![t] = Free], shows' = ShowsAfter(Awaiters(t))
    PROVE  Kept
<1>1. /\ t \in Senders /\ t \notin Jobs /\ PagesShape
      /\ \A u \in Tabs : u \in Senders /\ u \notin Jobs
      /\ \A k \in Jobs : k \in Senders /\ k # t /\ TabOf[k] \in Tabs
  BY Places DEF Protocol
<1>2. /\ wire \in [Senders -> {Free} \cup Message] /\ asks \in [Jobs -> {Rest} \cup Asking]
      /\ shows \in [Tabs -> Documents] /\ "dead" \in Documents
  BY <1>1 DEF PagesShape, Documents
<1>3. lastId' = lastId /\ now' = now /\ rows' = rows
  BY DEF vars
<1>4. \A j \in Jobs : j \in Awaiters(t) <=> TabOf[j] = t /\ Waits(j)
  BY DEF Awaiters, JobsOf, Waits
<1>5. /\ wire'[t] = Free /\ \A s \in Senders \ {t} : wire'[s] = wire[s]
      /\ wire' \in [Senders -> {Free} \cup Message]
  BY <1>1, <1>2
<1>6. /\ \A j \in Jobs : asks'[j] = IF TabOf[j] = t /\ Waits(j) THEN Rest ELSE asks[j]
      /\ asks' \in [Jobs -> {Rest} \cup Asking]
  BY <1>2, <1>4
<1>7. /\ shows' \in [Tabs -> Documents] /\ \A u \in Tabs \ {t} : shows'[u] = shows[u]
      /\ \/ shows'[t] = shows[t]
         \/ /\ shows'[t] = "dead"
            /\ \E j \in Jobs : TabOf[j] = t /\ Waits(j) /\ asks[j].what = "me"
  BY <1>2, <1>4 DEF ShowsAfter, Awaiters, JobsOf
<1>8. shows'[t] = "dead" => \A j \in Jobs : TabOf[j] = t => asks'[j] = Rest
  <2>1. SUFFICES ASSUME shows'[t] = "dead", NEW j \in Jobs, TabOf[j] = t
                 PROVE  asks'[j] = Rest
    OBVIOUS
  <2>2. PICK k \in Jobs : TabOf[k] = t /\ Waits(k) /\ asks[k].what = "me"
    BY <1>7, <2>1
  <2>3. shows[t] = "loading"
    BY <2>2 DEF Protocol, JobFits, Waits
  <2>4. CASE j = k
    BY <1>6, <2>2, <2>4
  <2>5. CASE j # k
    <3>1. asks[j] = Rest
      BY <2>1, <2>2, <2>3, <2>5 DEF Protocol, LoadsAlone, Waits
    <3>2. QED
      BY <1>6, <3>1
  <2>6. QED
    BY <2>4, <2>5
<1>9. PagesShape'
  <2>1. ASSUME NEW s \in Senders
        PROVE  wire'[s] = Free \/ MessageFits(wire[s])'
    <3>1. wire'[s] = Free \/ MessageFits(wire'[s])
      BY <1>1, <1>5 DEF PagesShape
    <3>2. QED
      BY <1>3, <3>1 DEF MessageFits
  <2>2. QED
    BY <1>1, <1>3, <1>5, <1>6, <1>7, <2>1 DEF PagesShape
<1>10. \A j \in Jobs : Waits(j)' <=> Waits(j) /\ TabOf[j] # t
  BY <1>6 DEF Waits
<1>11. ASSUME NEW u \in Tabs
       PROVE  SlotFits(u)' /\ Heard(u)'
  <2>1. SlotFits(u) /\ Heard(u)
    BY DEF Protocol
  <2>2. CASE u = t
    BY <1>5, <1>10, <2>2 DEF SlotFits, Heard, JobsOf
  <2>3. CASE u # t
    <3>1. \A k \in JobsOf(u) : Waits(k)' <=> Waits(k)
      BY <1>10, <2>3 DEF JobsOf
    <3>2. QED
      BY <1>1, <1>5, <1>7, <2>1, <2>3, <3>1 DEF SlotFits, Heard, JobsOf
  <2>4. QED
    BY <2>2, <2>3
<1>12. ASSUME NEW j \in Jobs
       PROVE  JobFits(j)'
  <2>1. JobFits(j) /\ wire'[j] = wire[j] /\ TabOf[j] \in Tabs
    BY <1>1, <1>5 DEF Protocol
  <2>2. CASE TabOf[j] = t /\ Waits(j)
    BY <1>6, <2>1, <2>2 DEF JobFits, Waits
  <2>3. CASE ~(TabOf[j] = t /\ Waits(j))
    <3>1. asks'[j] = asks[j]
      BY <1>6, <2>3
    <3>2. asks'[j] # Rest => shows'[TabOf[j]] = shows[TabOf[j]]
      BY <1>7, <1>8, <2>1
    <3>3. QED
      BY <2>1, <3>1, <3>2 DEF JobFits
  <2>4. QED
    BY <2>2, <2>3
<1>13. LoadsAlone'
  <2>1. \A j \in Jobs : asks[j] = Rest => asks'[j] = Rest
    BY <1>6
  <2>2. \A u \in Tabs : shows'[u] = "loading" => shows[u] = "loading"
    BY <1>7
  <2>3. QED
    BY <1>1, <2>1, <2>2 DEF Protocol, LoadsAlone
<1>14. Protocol'
  BY <1>9, <1>11, <1>12, <1>13 DEF Protocol
<1>15. \A j \in Jobs : MayRepeat(j)' => MayRepeat(j)
  BY <1>1, <1>5, <1>6 DEF MayRepeat, Waits
<1>16. Once' /\ HistoryShape'
  BY <1>3, <1>15 DEF Once, HistoryShape
<1>17. CookiesMove
  <2>1. \A u \in Tabs : Turns(u)
    BY <1>1, <1>5 DEF Turns
  <2>2. ASSUME NEW u \in Tabs, u # t
        PROVE  wire'[u] = wire[u]
    BY <1>1, <1>5, <2>2
  <2>3. QED
    BY <1>3, <2>1, <2>2 DEF CookiesMove
<1>18. QED
  BY <1>14, <1>16, <1>17 DEF Kept, Untold

\* Leaving for another page, with the cookies of that moment.
LEMMA OpensKeeps ==
    ASSUME Protocol, Once, HistoryShape, UNCHANGED vars, NEW t \in Tabs, JarFits', Opens(t, jar'),
           \/ jar' = jar /\ (shows[t] # "checking" \/ wire[t].what # "refresh")
           \/ Brings(wire[t]) /\ jar'.rt = wire[t].row
    PROVE  Kept
<1>1. PICK cookies : cookies = jar'
  OBVIOUS
<1>2. PICK m : m = Request("page", cookies, 0)
  OBVIOUS
<1>3. lastId' = lastId /\ lastId \in Nat
  BY DEF vars, Protocol, PagesShape
<1>4. MessageFits(m) /\ m # Free /\ m.what = "page" /\ m.status = "sent" /\ m.rt = cookies.rt /\ ~m.gone
  <2>1. cookies \in [at: Nat, rt: Nat] /\ cookies.at = cookies.rt /\ cookies.rt <= lastId
    BY <1>1, <1>3 DEF JarFits
  <2>2. QED
    BY <1>2, <1>3, <2>1, RequestFits
<1>5. First("opening", m) /\ Leave(t, "opening", m) /\ m.rt = jar'.rt
  BY <1>1, <1>2, <1>4 DEF First, Opens
<1>6. Protocol' /\ Once' /\ HistoryShape'
  BY <1>3, <1>5, LeaveKeeps
<1>7. Untold /\ CookiesMove
  BY <1>5, LeaveCookies
<1>8. QED
  BY <1>6, <1>7 DEF Kept

\* The answer to the refresh of a tab.
LEMMA RefreshedKeeps ==
    ASSUME Protocol, Once, HistoryShape, NEW t \in Tabs, Refreshed(t)
    PROVE  Kept
<1>1. /\ shows[t] \in {"app", "loading"} /\ Answered(t) /\ wire[t].what = "refresh"
      /\ jar' = JarAfter(wire[t]) /\ UNCHANGED vars /\ lastId' = lastId
  BY DEF Refreshed, vars
<1>2. /\ JarFits'
      /\ \/ jar' = jar /\ ~Brings(wire[t])
         \/ jar' = NoCookies /\ ~Brings(wire[t]) /\ jar'.rt = 0
         \/ Brings(wire[t]) /\ jar'.rt = wire[t].row
  BY <1>1, JarAfterIs
<1>3. wire[t] # Free /\ wire[t].family \in 0..lastId /\ MessageFits(wire[t])
  BY <1>1, AnsweredTab
<1>4. CASE wire[t].status = "ok"
  <2>1. Resumes(t, jar', wire[t].family)
    BY <1>4 DEF Refreshed
  <2>2. Brings(wire[t]) /\ jar'.rt = wire[t].row
    BY <1>1, <1>2, <1>3, <1>4 DEF Brings
  <2>3. QED
    BY <1>1, <1>2, <1>3, <2>1, <2>2, ResumesKeeps
<1>5. CASE wire[t].status = "409"
  <2>1. PICK w : w = Request("me", jar, 0)
    OBVIOUS
  <2>2. wire' = [wire EXCEPT ![t] = w] /\ UNCHANGED <<shows, csrf, asks, history>>
    BY <1>5, <2>1 DEF Refreshed
  <2>3. jar' = jar
    BY <1>5, <1>1 DEF JarAfter
  <2>4. MessageFits(w) /\ w # Free /\ ~w.gone /\ w.status = "sent" /\ w.what = "me" /\ w.rt = jar.rt
    BY <2>1, JarIs, RequestFits DEF Protocol
  <2>5. shows' = [shows EXCEPT ![t] = shows[t]] /\ shows[t] \in Documents
    BY <2>2 DEF Protocol, PagesShape
  <2>6. TabMoves(t, shows[t], w)
    BY <1>1, <1>2, <1>3, <1>5, <2>2, <2>3, <2>4, <2>5, Kinds DEF TabMoves
  <2>7. QED
    BY <2>6, TabMovesKeep
<1>6. CASE wire[t].status = "401"
  <2>1. Leave(t, "login", Free)
    BY <1>6 DEF Refreshed, Goodbye
  <2>2. First("login", Free) /\ jar'.rt = 0
    BY <1>1, <1>6, Constants DEF First, JarAfter
  <2>3. Protocol' /\ Once' /\ HistoryShape'
    BY <1>1, <1>2, <2>1, <2>2, LeaveKeeps
  <2>4. Untold /\ CookiesMove
    BY <1>1, <2>1, <2>2, LeaveCookies
  <2>5. QED
    BY <2>3, <2>4 DEF Kept
<1>7. CASE wire[t].status \notin {"ok", "409", "401"}
  <2>1. /\ asks' = [j \in Jobs |-> IF j \in Awaiters(t) THEN Rest ELSE asks[j]]
        /\ wire' = [wire EXCEPT ![t] = Free] /\ shows' = ShowsAfter(Awaiters(t))
        /\ UNCHANGED <<csrf, history>>
    BY <1>7 DEF Refreshed
  <2>2. jar' = jar
    BY <1>1, <1>7 DEF JarAfter
  <2>3. ~(Refreshing(wire[t]) /\ wire[t].status = "ok")
    BY <1>7
  <2>4. QED
    BY <1>1, <2>1, <2>2, <2>3, FailsKeeps
<1>8. QED
  BY <1>4, <1>5, <1>6, <1>7

\* The answer to the look at the token after a 409.
LEMMA SyncedKeeps ==
    ASSUME Protocol, Once, HistoryShape, NEW t \in Tabs, Synced(t)
    PROVE  Kept
<1>1. PICK token : token = IF wire[t].status = "ok" THEN wire[t].family ELSE csrf[t]
  OBVIOUS
<1>2. /\ shows[t] \in {"app", "loading"} /\ Answered(t) /\ wire[t].what = "me"
      /\ Resumes(t, jar', token) /\ UNCHANGED <<vars, jar>>
  BY <1>1 DEF Synced
<1>3. token \in 0..lastId
  BY <1>1, <1>2, AnsweredTab, JarIs DEF Protocol
<1>4. JarFits'
  BY <1>2, JarIs DEF Protocol, JarFits, vars
<1>5. ~(Refreshing(wire[t]) /\ wire[t].status = "ok")
  BY <1>2 DEF Refreshing
<1>6. QED
  BY <1>2, <1>3, <1>4, <1>5, ResumesKeeps

\* A link or a reload.
LEMMA NavigatesKeeps ==
    ASSUME Protocol, Once, HistoryShape, NEW t \in Tabs, Navigates(t)
    PROVE  Kept
<1>1. Opens(t, jar') /\ jar' = jar /\ UNCHANGED vars /\ shows[t] # "checking"
  BY DEF Navigates
<1>2. JarFits'
  BY <1>1, JarIs DEF Protocol, JarFits, vars
<1>3. QED
  BY <1>1, <1>2, OpensKeeps

\* A document arrives.
LEMMA PageArrivesKeeps ==
    ASSUME Protocol, Once, HistoryShape, NEW t \in Tabs, PageArrives(t)
    PROVE  Kept
<1>1. PICK d : d = CASE wire[t].status = "ok" -> "starting"
                     [] wire[t].status = "401" -> "login"
                     [] OTHER -> "dead"
  OBVIOUS
<1>2. d \in {"starting", "login", "dead"}
  BY <1>1
<1>3. /\ shows[t] = "opening" /\ Answered(t) /\ shows' = [shows EXCEPT ![t] = d]
      /\ wire' = [wire EXCEPT ![t] = Free] /\ UNCHANGED <<vars, jar, csrf, asks, history>>
  BY <1>1 DEF PageArrives
<1>4. wire[t].what = "page"
  BY <1>3, AnsweredTab, Kinds
<1>5. JarFits'
  BY <1>3, JarIs DEF Protocol, JarFits, vars
<1>6. TabMoves(t, d, Free)
  BY <1>2, <1>3, <1>4, <1>5 DEF TabMoves, Refreshing, Documents
<1>7. QED
  BY <1>6, TabMovesKeep

\* The silent refresh of the login page, and its form.
LEMMA LoginOpensKeeps ==
    ASSUME Protocol, Once, HistoryShape, NEW t \in Tabs, LoginOpens(t) \/ Submits(t)
    PROVE  Kept
<1>1. PICK what : what = IF LoginOpens(t) THEN "refresh" ELSE "login"
  OBVIOUS
<1>2. PICK d : d = IF LoginOpens(t) THEN "checking" ELSE "submitted"
  OBVIOUS
<1>3. PICK w : w = Request(what, jar, 0)
  OBVIOUS
<1>4. /\ shows[t] \in {"login", "form"} /\ shows' = [shows EXCEPT ![t] = d]
      /\ wire' = [wire EXCEPT ![t] = w] /\ UNCHANGED <<vars, jar, csrf, asks, history>>
  <2>1. CASE LoginOpens(t)
    BY <1>1, <1>2, <1>3, <2>1 DEF LoginOpens
  <2>2. CASE ~LoginOpens(t)
    BY <1>1, <1>2, <1>3, <2>2 DEF Submits
  <2>3. QED
    BY <2>1, <2>2
<1>5. what \in {"refresh", "login"} /\ d \in {"checking", "submitted"} /\ what \in SlotKinds(d)
  BY <1>1, <1>2, Kinds
<1>6. MessageFits(w) /\ w # Free /\ ~w.gone /\ w.status = "sent" /\ w.what = what /\ w.rt = jar.rt
  BY <1>3, <1>5, JarIs, RequestFits DEF Protocol
<1>7. ~Refreshing(wire[t])
  BY <1>4, Kinds DEF Protocol, SlotFits, Refreshing
<1>8. JarFits'
  BY <1>4, JarIs DEF Protocol, JarFits, vars
<1>9. TabMoves(t, d, w)
  BY <1>4, <1>5, <1>6, <1>7, <1>8 DEF TabMoves, Documents
<1>10. QED
  BY <1>9, TabMovesKeep

\* The answer to the silent refresh.
LEMMA CheckedKeeps ==
    ASSUME Protocol, Once, HistoryShape, NEW t \in Tabs, Checked(t)
    PROVE  Kept
<1>1. /\ shows[t] = "checking" /\ Answered(t)
      /\ jar' = JarAfter(wire[t]) /\ UNCHANGED <<vars>> /\ lastId' = lastId
  BY DEF Checked, vars
<1>2. /\ JarFits'
      /\ \/ jar' = jar /\ ~Brings(wire[t])
         \/ jar' = NoCookies /\ ~Brings(wire[t]) /\ jar'.rt = 0
         \/ Brings(wire[t]) /\ jar'.rt = wire[t].row
  BY <1>1, JarAfterIs
<1>3. wire[t] # Free /\ wire[t].what \in {"refresh", "me"}
  BY <1>1, AnsweredTab, Kinds
<1>4. CASE wire[t].status = "ok"
  <2>1. Opens(t, jar')
    BY <1>4 DEF Checked
  <2>2. \/ jar' = jar /\ wire[t].what # "refresh"
        \/ Brings(wire[t]) /\ jar'.rt = wire[t].row
    BY <1>1, <1>2, <1>3, <1>4 DEF Brings, JarAfter
  <2>3. QED
    BY <1>1, <1>2, <2>1, <2>2, OpensKeeps
<1>5. CASE wire[t].status = "409"
  <2>1. PICK w : w = Request("me", jar, 0)
    OBVIOUS
  <2>2. wire' = [wire EXCEPT ![t] = w] /\ UNCHANGED <<shows, csrf, asks, history>>
    BY <1>5, <2>1 DEF Checked
  <2>3. jar' = jar
    BY <1>5, <1>1 DEF JarAfter
  <2>4. MessageFits(w) /\ w # Free /\ ~w.gone /\ w.status = "sent" /\ w.what = "me" /\ w.rt = jar.rt
    BY <2>1, JarIs, RequestFits DEF Protocol
  <2>5. shows' = [shows EXCEPT ![t] = "checking"] /\ "checking" \in Documents
    BY <1>1, <2>2 DEF Protocol, PagesShape, Documents
  <2>6. TabMoves(t, "checking", w)
    BY <1>1, <1>2, <1>5, <2>2, <2>3, <2>4, <2>5, Kinds DEF TabMoves
  <2>7. QED
    BY <2>6, TabMovesKeep
<1>6. CASE wire[t].status \notin {"ok", "409"}
  <2>1. /\ shows' = [shows EXCEPT ![t] = "form"] /\ wire' = [wire EXCEPT ![t] = Free]
        /\ UNCHANGED <<csrf, asks, history>>
    BY <1>6 DEF Checked
  <2>2. jar' = jar \/ jar'.rt = 0
    BY <1>2, <1>6 DEF Brings
  <2>3. TabMoves(t, "form", Free)
    BY <1>1, <1>2, <1>6, <2>1, <2>2 DEF TabMoves, Documents
  <2>4. QED
    BY <2>3, TabMovesKeep
<1>7. QED
  BY <1>4, <1>5, <1>6

\* The answer to the form.
LEMMA LoggedInKeeps ==
    ASSUME Protocol, Once, HistoryShape, NEW t \in Tabs, LoggedIn(t)
    PROVE  Kept
<1>1. /\ shows[t] = "submitted" /\ Answered(t)
      /\ jar' = JarAfter(wire[t]) /\ UNCHANGED vars /\ lastId' = lastId
  BY DEF LoggedIn, vars
<1>2. /\ JarFits'
      /\ \/ jar' = jar /\ ~Brings(wire[t])
         \/ jar' = NoCookies /\ ~Brings(wire[t]) /\ jar'.rt = 0
         \/ Brings(wire[t]) /\ jar'.rt = wire[t].row
  BY <1>1, JarAfterIs
<1>3. wire[t] # Free /\ wire[t].what = "login"
  BY <1>1, AnsweredTab, Kinds
<1>4. CASE wire[t].status = "ok"
  <2>1. Opens(t, jar') /\ Brings(wire[t])
    BY <1>3, <1>4 DEF LoggedIn, Brings
  <2>2. QED
    BY <1>1, <1>2, <2>1, OpensKeeps
<1>5. CASE wire[t].status # "ok"
  <2>1. /\ shows' = [shows EXCEPT ![t] = "form"] /\ wire' = [wire EXCEPT ![t] = Free]
        /\ UNCHANGED <<csrf, asks, history>>
    BY <1>5 DEF LoggedIn
  <2>2. jar' = jar \/ jar'.rt = 0
    BY <1>2, <1>5 DEF Brings
  <2>3. TabMoves(t, "form", Free)
    BY <1>1, <1>2, <1>5, <2>1, <2>2 DEF TabMoves, Documents
  <2>4. QED
    BY <2>3, TabMovesKeep
<1>6. QED
  BY <1>4, <1>5

----------------------------------------------------------------------------
(* The server.                                                             *)

\* What an answer without cookies leaves of the invariant, whatever rows it
\* revokes.
LEMMA PlainAnswer ==
    ASSUME Protocol, Once, HistoryShape, Unseen, InTime, Table, Table',
           NEW s \in Senders, wire[s] # Free,
           NEW status \in {"ok", "401", "403", "409", "lost"}, NEW row, NEW family,
           row \in 0..lastId', family \in 0..lastId', Answers(s, status, row, family),
           status = "ok" => wire[s].what \notin {"refresh", "login"},
           wire[s].status = "sent" \/ (status = "lost" /\ (wire[s].what = "refresh" => history'.late)),
           UNCHANGED <<jar, shows, csrf, asks>>, now' = now, lastId' = lastId,
           history.late => history'.late,
           \A i : Replaced(rows', i) => Replaced(rows, i) /\ rows'[i].replacedAt = rows[i].replacedAt,
           \A j \in Jobs :
              \/ history'.done[j] = history.done[j]
              \/ /\ j = s /\ wire[s].what = "change" /\ wire[s].status = "sent" /\ status = "ok"
                 /\ history'.done[j] = history.done[j] + 1
    PROVE  Protocol' /\ Once' /\ Unseen' /\ InTime'
<1>1. lastId \in Nat /\ lastId' \in Nat /\ lastId <= lastId'
  BY DEF Table
<1>2. Protocol'
  BY <1>1, AnswerProtocol
<1>3. Once'
  BY <1>1, AnswerOnce
<1>4. /\ \A u \in Senders \ {s} : wire'[u] = wire[u]
      /\ wire[s].gone => wire'[s] = Free
      /\ ~wire[s].gone => /\ wire'[s] # Free /\ wire'[s].what = wire[s].what
                          /\ wire'[s].rt = wire[s].rt /\ wire'[s].status = status
      /\ wire[s].gone \in BOOLEAN
  BY <1>1, AnswerIs, MessageIs DEF Protocol, Message
<1>5. ASSUME NEW u \in Tabs
      PROVE  Turns(u)
  BY <1>4, Places DEF Turns, Brings
<1>6. ASSUME NEW u \in Tabs, Refreshing(wire[u]), wire[u].status = "ok", wire'[u] # wire[u]
      PROVE  history'.late
  BY <1>4, <1>6, Places DEF Refreshing
<1>7. CookiesMove
  BY <1>5, <1>6 DEF CookiesMove
<1>8. QED
  BY <1>2, <1>3, <1>7, CookiesKept

\* Only a tab refreshes or logs in, and it awaits the answer.
LEMMA SentByTab ==
    ASSUME Protocol, NEW s \in Senders, wire[s] # Free, wire[s].what \in {"refresh", "login"}
    PROVE  s \in Tabs /\ ~wire[s].gone
BY Places DEF Protocol, JobFits, SlotFits

\* A request that waits to be served.
LEMMA PendingIs ==
    ASSUME NEW s, NEW what, what # "free", Pending(s, what)
    PROVE  wire[s] # Free /\ wire[s].what = what /\ wire[s].status = "sent"
BY DEF Pending, Free

\* No row changes.
LEMMA NothingReplaced ==
    ASSUME rows' = rows
    PROVE  \A i : Replaced(rows', i) => Replaced(rows, i) /\ rows'[i].replacedAt = rows[i].replacedAt
BY DEF Replaced

\* Revocations replace no token.
LEMMA RevokedNotReplaced ==
    ASSUME Table, NEW which, rows' = Revoked(rows, which)
    PROVE  \A i : Replaced(rows', i) => Replaced(rows, i) /\ rows'[i].replacedAt = rows[i].replacedAt
<1>1. \A i \in DOMAIN rows : rows[i] \in Row
  BY DEF Table
<1>2. \A i \in DOMAIN rows : /\ rows'[i].replacedBy = rows[i].replacedBy
                             /\ rows'[i].replacedAt = rows[i].replacedAt
  BY <1>1 DEF Revoked, Row
<1>3. DOMAIN rows' = DOMAIN rows
  BY DEF Revoked
<1>4. QED
  BY <1>2, <1>3 DEF Replaced

\* Every step of the browser.
LEMMA BrowserKeeps ==
    ASSUME PagesInv, Kept
    PROVE  PagesInv'
<1>1. UNCHANGED vars /\ Protocol' /\ Once' /\ HistoryShape' /\ CookiesMove
  BY DEF Kept, Untold
<1>2. Inv'
  BY <1>1, NextInv DEF PagesInv
<1>3. Unseen' /\ InTime'
  BY <1>1, <1>2, CookiesKept DEF PagesInv, Inv
<1>4. rows' = rows
  BY <1>1 DEF vars
<1>5. OutIsDead'
  BY <1>4 DEF Kept, Untold, PagesInv, OutIsDead
<1>6. Quiet'
  BY <1>1 DEF Kept, Untold, CookiesMove, PagesInv, Quiet
<1>7. QED
  BY <1>1, <1>2, <1>3, <1>5, <1>6 DEF PagesInv

\* What needs a session is served with one that nobody has left.
LEMMA ServeProtectedKeeps ==
    ASSUME PagesInv, NEW s \in Senders, ServeProtected(s)
    PROVE  PagesInv'
<1>1. PICK what \in {"change", "me", "page"} : Pending(s, what)
  BY DEF ServeProtected
<1>2. wire[s] # Free /\ wire[s].what \notin {"refresh", "login"} /\ wire[s].status = "sent"
  BY <1>1, PendingIs
<1>3. UNCHANGED <<vars, jar, shows, csrf, asks>>
  BY DEF ServeProtected
<1>4. /\ Inv' /\ rows' = rows /\ now' = now /\ lastId' = lastId
      /\ Inv /\ Table /\ Table' /\ Protocol /\ Once /\ HistoryShape /\ Unseen /\ InTime
      /\ OutIsDead /\ Quiet
  BY <1>3, NextInv DEF PagesInv, vars, Inv
<1>5. CASE Enters(wire[s].at) /\ Trusted(wire[s])
  <2>1. PICK at : at = wire[s].at
    OBVIOUS
  <2>2. PICK f : f = rows[at].family
    OBVIOUS
  <2>3. Answers(s, "ok", at, f) /\ Served(s, f)
    BY <1>5, <2>1, <2>2 DEF ServeProtected
  <2>4. at \in DOMAIN rows /\ FamilyActive(f)
    BY <1>5, <2>1, <2>2 DEF Enters, AccessValid
  <2>5. f \in DOMAIN rows /\ DOMAIN rows \subseteq 1..lastId
    BY <1>4, <2>2, <2>4, ChainOfRow DEF Table
  <2>6. at \in 0..lastId' /\ f \in 0..lastId'
    BY <1>4, <2>4, <2>5
  <2>7. f \notin history.out
    <3>1. PICK i \in FamilyRows(f) : Live(i)
      BY <2>4 DEF FamilyActive
    <3>2. QED
      BY <1>4, <3>1 DEF FamilyRows, Live, OutIsDead
  <2>8. /\ HistoryShape' /\ history'.out = history.out /\ history'.theft = history.theft
        /\ history'.late = history.late /\ (history'.overheard <=> history.overheard)
        /\ \A j \in Jobs : history'.done[j] = IF j = s /\ wire[s].what = "change"
                                              THEN history.done[j] + 1 ELSE history.done[j]
    <3>1. PICK done : done = [j \in Jobs |-> IF j = s /\ wire[s].what = "change"
                                            THEN history.done[j] + 1 ELSE history.done[j]]
      OBVIOUS
    <3>2. PICK overheard : overheard = (history.overheard \/ f \in history.out)
      OBVIOUS
    <3>3. history' = [history EXCEPT !.done = done, !.overheard = overheard]
      BY <2>3, <3>1, <3>2 DEF Served
    <3>4. done \in [Jobs -> Nat] /\ overheard \in BOOLEAN /\ (overheard <=> history.overheard)
      BY <1>4, <2>7, <3>1, <3>2 DEF HistoryShape
    <3>5. QED
      BY <1>4, <3>1, <3>3, <3>4 DEF HistoryShape
  <2>9. Protocol' /\ Once' /\ Unseen' /\ InTime'
    BY <1>2, <1>3, <1>4, <2>3, <2>6, <2>8, NothingReplaced, PlainAnswer
  <2>10. OutIsDead' /\ Quiet'
    BY <1>4, <2>8 DEF OutIsDead, Quiet
  <2>11. QED
    BY <1>4, <2>8, <2>9, <2>10 DEF PagesInv
<1>6. CASE ~(Enters(wire[s].at) /\ Trusted(wire[s]))
  <2>1. PICK status : status = IF Enters(wire[s].at) THEN "403" ELSE "401"
    OBVIOUS
  <2>2. Answers(s, status, 0, 0) /\ history' = history
    BY <1>6, <2>1 DEF ServeProtected
  <2>3. status \in {"403", "401"}
    BY <2>1
  <2>4. 0 \in 0..lastId'
    BY <1>4 DEF Table
  <2>5. Protocol' /\ Once' /\ Unseen' /\ InTime'
    BY <1>2, <1>3, <1>4, <2>2, <2>3, <2>4, NothingReplaced, PlainAnswer
  <2>6. OutIsDead' /\ Quiet' /\ HistoryShape'
    BY <1>4, <2>2 DEF OutIsDead, Quiet, HistoryShape
  <2>7. QED
    BY <1>4, <2>5, <2>6 DEF PagesInv
<1>7. QED
  BY <1>5, <1>6

\* A logout revokes the family it puts among those that were left.
LEMMA ServeLogoutKeeps ==
    ASSUME PagesInv, NEW s \in Senders, ServeLogout(s)
    PROVE  PagesInv'
<1>1. wire[s] # Free /\ wire[s].what = "logout" /\ wire[s].status = "sent"
  BY PendingIs DEF ServeLogout
<1>2. UNCHANGED <<jar, shows, csrf, asks>> /\ Answers(s, "ok", 0, 0)
  BY DEF ServeLogout
<1>3. /\ Inv /\ Table /\ Protocol /\ Once /\ HistoryShape /\ Unseen /\ InTime
      /\ OutIsDead /\ Quiet /\ wire[s].at = wire[s].rt
  BY <1>1, MessageIs DEF PagesInv, Inv, Protocol, MessageFits
<1>4. PICK i : i = wire[s].rt /\ i = wire[s].at
  BY <1>3
<1>5. CASE i \in DOMAIN rows
  <2>1. Logout(i, i) /\ history' = [history EXCEPT !.out = history.out \cup {rows[i].family}]
    BY <1>4, <1>5 DEF ServeLogout
  <2>2. Inv' /\ Table' /\ now' = now /\ lastId' = lastId
    <3>1. Next
      BY <1>5, <2>1 DEF Next
    <3>2. QED
      BY <1>3, <2>1, <3>1, NextInv DEF Logout, Inv
  <2>3. PICK which : /\ rows' = Revoked(rows, which)
                     /\ FamilyRows(rows[i].family) \subseteq which
    BY <2>1 DEF Logout
  <2>4. rows[i].family \in 1..lastId
    BY <1>3, <1>5, ChainOfRow DEF Table
  <2>5. /\ HistoryShape' /\ history'.out = history.out \cup {rows[i].family}
        /\ history'.done = history.done /\ history'.theft = history.theft
        /\ history'.late = history.late /\ history'.overheard = history.overheard
    BY <1>3, <2>1, <2>2, <2>4 DEF HistoryShape
  <2>6. 0 \in 0..lastId'
    BY <2>2 DEF Table
  <2>7. Protocol' /\ Once' /\ Unseen' /\ InTime'
    BY <1>1, <1>2, <1>3, <2>2, <2>3, <2>5, <2>6, RevokedNotReplaced, PlainAnswer
  <2>8. OutIsDead'
    <3>1. /\ DOMAIN rows' = DOMAIN rows
          /\ \A k \in DOMAIN rows : /\ rows'[k].family = rows[k].family
                                    /\ rows'[k].revoked <=> rows[k].revoked \/ k \in which
      BY <1>3, <2>3, RevokedRows
    <3>2. ASSUME NEW k \in DOMAIN rows, rows[k].family \in history.out \cup {rows[i].family}
          PROVE  rows[k].revoked \/ k \in which
      BY <1>3, <2>3, <3>2 DEF OutIsDead, FamilyRows
    <3>3. QED
      BY <2>5, <3>1, <3>2 DEF OutIsDead
  <2>9. Quiet'
    BY <1>3, <2>5 DEF Quiet
  <2>10. QED
    BY <2>2, <2>5, <2>7, <2>8, <2>9 DEF PagesInv
<1>6. CASE i \notin DOMAIN rows
  <2>1. UNCHANGED vars /\ history' = history
    BY <1>4, <1>6 DEF ServeLogout
  <2>2. Inv' /\ Table' /\ rows' = rows /\ now' = now /\ lastId' = lastId /\ 0 \in 0..lastId'
    BY <1>3, <2>1, NextInv DEF vars, Inv, Table
  <2>3. Protocol' /\ Once' /\ Unseen' /\ InTime'
    BY <1>1, <1>2, <1>3, <2>1, <2>2, NothingReplaced, PlainAnswer
  <2>4. OutIsDead' /\ Quiet' /\ HistoryShape'
    BY <1>3, <2>1, <2>2 DEF OutIsDead, Quiet, HistoryShape
  <2>5. QED
    BY <2>2, <2>3, <2>4 DEF PagesInv
<1>7. QED
  BY <1>5, <1>6

\* A refresh that is lost is late.
LEMMA LostKeeps ==
    ASSUME PagesInv, NEW s \in Senders, Lost(s)
    PROVE  PagesInv'
<1>1. /\ wire[s] # Free /\ UNCHANGED <<vars, jar, shows, csrf, asks>>
      /\ Answers(s, "lost", wire[s].row, wire[s].family)
  BY DEF Lost
<1>2. /\ Inv' /\ rows' = rows /\ now' = now /\ lastId' = lastId
      /\ Inv /\ Table /\ Table' /\ Protocol /\ Once /\ HistoryShape /\ Unseen /\ InTime
      /\ OutIsDead /\ Quiet
  BY <1>1, NextInv DEF PagesInv, vars, Inv
<1>3. PICK row, family : row = wire[s].row /\ family = wire[s].family
  OBVIOUS
<1>4. row \in 0..lastId' /\ family \in 0..lastId' /\ Answers(s, "lost", row, family)
  BY <1>1, <1>2, <1>3, MessageIs DEF Protocol, MessageFits, Message
<1>5. /\ HistoryShape' /\ history'.out = history.out /\ history'.done = history.done
      /\ history'.theft = history.theft /\ history'.overheard = history.overheard
      /\ history'.late = (history.late \/ wire[s].what = "refresh")
  <2>1. PICK n, late : n = history.losses + 1 /\ late = (history.late \/ wire[s].what = "refresh")
    OBVIOUS
  <2>2. n \in Nat /\ late \in BOOLEAN
    BY <1>2, <2>1 DEF HistoryShape
  <2>3. history' = [history EXCEPT !.losses = n, !.late = late]
    BY <2>1 DEF Lost
  <2>4. QED
    BY <1>2, <2>1, <2>2, <2>3 DEF HistoryShape
<1>6. Protocol' /\ Once' /\ Unseen' /\ InTime'
  BY <1>1, <1>2, <1>4, <1>5, NothingReplaced, PlainAnswer
<1>7. OutIsDead' /\ Quiet'
  BY <1>2, <1>5 DEF OutIsDead, Quiet
<1>8. QED
  BY <1>2, <1>5, <1>6, <1>7 DEF PagesInv

\* So is one that time overtakes.
LEMMA TimePassesKeeps ==
    ASSUME PagesInv, TimePasses
    PROVE  PagesInv'
<1>1. Tick /\ UNCHANGED <<jar, shows, csrf, asks, wire>>
  BY DEF TimePasses
<1>2. /\ Inv /\ Protocol /\ Once /\ HistoryShape /\ Unseen /\ InTime /\ OutIsDead /\ Quiet
  BY DEF PagesInv
<1>3. Inv' /\ rows' = rows /\ lastId' = lastId
  BY <1>1, <1>2, NextInv DEF Next, Tick, repoVars
<1>4. /\ HistoryShape' /\ history'.out = history.out /\ history'.done = history.done
      /\ history'.theft = history.theft /\ history'.overheard = history.overheard
      /\ history'.late = (history.late \/ \E s \in Senders : wire[s].what = "refresh")
  BY <1>2, <1>3 DEF TimePasses, HistoryShape
<1>5. Protocol'
  BY <1>1, <1>2, <1>3 DEF Protocol, PagesShape, MessageFits, SlotFits, Heard, Waits, JobFits, LoadsAlone, JobsOf
<1>6. Once'
  BY <1>1, <1>2, <1>4 DEF Once, MayRepeat
<1>7. Unseen' /\ InTime'
  BY <1>1, <1>2, <1>3, <1>4, TimeIsFair
<1>8. OutIsDead' /\ Quiet'
  BY <1>2, <1>3, <1>4 DEF OutIsDead, Quiet
<1>9. QED
  BY <1>3, <1>4, <1>5, <1>6, <1>7, <1>8 DEF PagesInv

\* What a rotation leaves of the rows.
LEMMA RotatedRows ==
    ASSUME Table, NEW i \in DOMAIN rows, Rotate(i), NEW n, n = lastId + 1
    PROVE  /\ n \notin DOMAIN rows /\ DOMAIN rows' = DOMAIN rows \cup {n} /\ ~rows[i].revoked
           /\ rows'[n].replacedBy = 0 /\ ~rows'[n].revoked /\ rows'[n].family = rows[i].family
           /\ \A k \in DOMAIN rows \ {i} : rows'[k] = rows[k]
           /\ rows'[i].replacedAt = now /\ rows'[i].family = rows[i].family
           /\ rows'[i].revoked = rows[i].revoked
<1>1. /\ lastId \in Nat /\ DOMAIN rows \subseteq 1..lastId /\ rows[i] \in Row
      /\ rows[i].family \in DOMAIN rows
  BY ChainOfRow DEF Table
<1>2. n \notin DOMAIN rows /\ rows[i].family # 0 /\ i # n
  BY <1>1
<1>3. PICK row : row = NewRow(rows[i].admin, rows[i].family, rows[i].absolute)
  OBVIOUS
<1>4. row.replacedBy = 0 /\ ~row.revoked /\ row.family = rows[i].family
  BY <1>2, <1>3 DEF NewRow
<1>5. rows' = [k \in DOMAIN rows \cup {n} |->
                 IF k = n THEN row
                 ELSE [rows EXCEPT ![i].replacedBy = n, ![i].replacedAt = now][k]]
  BY <1>3 DEF Rotate, With
<1>6. /\ DOMAIN rows' = DOMAIN rows \cup {n} /\ rows'[n] = row
      /\ \A k \in DOMAIN rows \ {i} : rows'[k] = rows[k]
  BY <1>2, <1>5
<1>7. rows'[i] = [rows[i] EXCEPT !.replacedBy = n, !.replacedAt = now]
  BY <1>2, <1>5
<1>8. /\ rows'[i].replacedAt = now /\ rows'[i].family = rows[i].family
      /\ rows'[i].revoked = rows[i].revoked
  BY <1>1, <1>7 DEF Row
<1>9. ~rows[i].revoked
  BY DEF Rotate, Live
<1>10. QED
  BY <1>2, <1>4, <1>6, <1>8, <1>9

\* And a login: old families go, a new one comes.
LEMMA IssuedRows ==
    ASSUME Table, NEW call, Issue(call), NEW n, n = lastId + 1
    PROVE  /\ n \notin DOMAIN rows /\ n \in DOMAIN rows' /\ DOMAIN rows' \subseteq DOMAIN rows \cup {n}
           /\ rows'[n].replacedBy = 0 /\ ~rows'[n].revoked /\ rows'[n].family = n
           /\ \A k \in DOMAIN rows' \ {n} : rows'[k] = rows[k]
<1>1. lastId \in Nat /\ DOMAIN rows \subseteq 1..lastId
  BY DEF Table
<1>2. n \notin DOMAIN rows
  BY <1>1
<1>3. PICK row : row = NewRow(call.login, 0, now + AbsoluteTtl)
  OBVIOUS
<1>4. row.replacedBy = 0 /\ ~row.revoked /\ row.family = n
  BY <1>3 DEF NewRow
<1>5. DOMAIN Unexpired \subseteq DOMAIN rows
  BY DEF Unexpired
<1>6. rows' = [k \in DOMAIN Unexpired \cup {n} |-> IF k = n THEN row ELSE rows[k]]
  BY <1>3 DEF Issue
<1>7. QED
  BY <1>2, <1>4, <1>5, <1>6

\* A refresh rotates the session, finds it replaced just now, or ends it.
LEMMA ServeRefreshKeeps ==
    ASSUME PagesInv, NEW s \in Senders, ServeRefresh(s)
    PROVE  PagesInv'
<1>1. wire[s] # Free /\ wire[s].what = "refresh" /\ wire[s].status = "sent"
  BY PendingIs DEF ServeRefresh
<1>2. UNCHANGED <<jar, shows, csrf, asks>>
  BY DEF ServeRefresh
<1>3. /\ Inv /\ Table /\ Protocol /\ Once /\ HistoryShape /\ Unseen /\ InTime
      /\ OutIsDead /\ Quiet /\ PagesShape /\ lastId \in Nat
  BY DEF PagesInv, Inv, Protocol, Table
<1>4. s \in Tabs /\ ~wire[s].gone
  BY <1>1, <1>3, SentByTab
<1>5. PICK i : i = wire[s].rt
  OBVIOUS
<1>6. PICK reused : reused = (/\ i \in DOMAIN rows /\ ~rows[i].revoked /\ rows[i].replacedBy # 0
                              /\ now - rows[i].replacedAt > Grace)
  OBVIOUS
<1>7. reused \in BOOLEAN /\ (reused => history.late)
  <2>1. SUFFICES ASSUME reused, ~history.late
                 PROVE  FALSE
    BY <1>6
  <2>2. rows[i].replacedAt = now
    BY <1>1, <1>3, <1>4, <1>5, <1>6, <2>1 DEF InTime, Refreshing, JustReplaced, Replaced
  <2>3. now \in Nat /\ Grace \in Nat
    BY <1>3, SessionAssumption DEF Inv, Attempts
  <2>4. now - rows[i].replacedAt > Grace
    BY <1>6, <2>1, Zenon
  <2>5. now - now > Grace
    BY <2>2, <2>4, Zenon
  <2>6. QED
    BY <2>3, <2>5
<1>8. /\ HistoryShape => history' \in [done: [Jobs -> Nat], out: SUBSET (1..lastId), overheard: BOOLEAN,
                                       theft: BOOLEAN, late: BOOLEAN, losses: Nat]
      /\ history'.out = history.out /\ history'.done = history.done
      /\ history'.theft = (history.theft \/ reused) /\ history'.overheard = history.overheard
      /\ history'.late = history.late
  <2>1. PICK theft : theft = (history.theft \/ reused)
    OBVIOUS
  <2>2. history' = [history EXCEPT !.theft = theft]
    BY <1>5, <1>6, <2>1 DEF ServeRefresh
  <2>3. theft \in BOOLEAN
    BY <2>1
  <2>4. QED
    BY <1>3, <2>1, <2>2, <2>3 DEF HistoryShape
<1>9. Quiet'
  BY <1>3, <1>7, <1>8 DEF Quiet
<1>10. CASE i \in DOMAIN rows /\ ~rows[i].revoked /\ rows[i].replacedBy = 0 /\ Usable(i)
  <2>1. PICK n : n = lastId + 1
    OBVIOUS
  <2>2. PICK f : f = rows[i].family
    OBVIOUS
  <2>3. Refresh(i) /\ Answers(s, "ok", n, f)
    BY <1>5, <1>10, <2>1, <2>2 DEF ServeRefresh
  <2>4. Rotate(i) /\ now' = now
    BY <1>10, <2>3 DEF Refresh, EndFamily
  <2>5. Inv' /\ Table'
    <3>1. Next
      BY <1>10, <2>3 DEF Next
    <3>2. QED
      BY <1>3, <3>1, NextInv DEF Inv
  <2>6. lastId' = n /\ lastId' \in Nat /\ lastId <= lastId' /\ n \in 0..lastId' /\ f \in 0..lastId'
    <3>1. lastId' = n
      BY <2>1, <2>4 DEF Rotate
    <3>2. f \in 1..lastId
      BY <1>3, <1>10, <2>2, ChainOfRow DEF Table
    <3>3. QED
      BY <1>3, <2>1, <3>1, <3>2
  <2>7. Protocol'
    BY <1>1, <1>2, <1>3, <2>3, <2>6, AnswerProtocol
  <2>8. Once'
    BY <1>1, <1>2, <1>3, <1>8, <2>3, <2>6, AnswerOnce
  <2>9. /\ n \notin DOMAIN rows /\ DOMAIN rows' = DOMAIN rows \cup {n} /\ ~rows[i].revoked
        /\ rows'[n].replacedBy = 0 /\ ~rows'[n].revoked /\ rows'[n].family = rows[i].family
        /\ \A k \in DOMAIN rows \ {i} : rows'[k] = rows[k]
        /\ rows'[i].replacedAt = now /\ rows'[i].family = rows[i].family
        /\ rows'[i].revoked = rows[i].revoked
    BY <1>3, <1>10, <2>1, <2>4, RotatedRows
  <2>10. /\ ~Replaced(rows', n)
         /\ \A k : Replaced(rows', k) =>
               \/ Replaced(rows, k) /\ rows'[k].replacedAt = rows[k].replacedAt
               \/ /\ k = wire[s].rt /\ wire[s].what = "refresh"
                  /\ rows'[k].replacedAt = now
    BY <1>1, <1>5, <2>9 DEF Replaced
  <2>11. /\ \A u \in Senders \ {s} : wire'[u] = wire[u]
         /\ wire'[s] # Free /\ wire'[s].what = wire[s].what
         /\ wire'[s].rt = wire[s].rt /\ wire'[s].status = "ok" /\ wire'[s].row = n
    BY <1>1, <1>3, <1>4, <2>3, <2>6, AnswerIs
  <2>12. \A u \in Tabs \ {s} : wire'[u] = wire[u]
    BY <2>11, Places
  <2>13. Unseen' /\ InTime'
    BY <1>1, <1>2, <1>3, <1>4, <1>8, <2>1, <2>4, <2>10, <2>11, <2>12, FreshAnswer
  <2>14. OutIsDead'
    <3>1. f \notin history.out
      BY <1>3, <1>10, <2>2, <2>9 DEF OutIsDead
    <3>2. QED
      BY <1>3, <1>8, <1>10, <2>2, <2>9, <3>1 DEF OutIsDead
  <2>15. HistoryShape'
    BY <1>3, <1>8, <2>6 DEF HistoryShape
  <2>16. QED
    BY <1>9, <2>5, <2>7, <2>8, <2>13, <2>14, <2>15 DEF PagesInv
<1>11. CASE ~(i \in DOMAIN rows /\ ~rows[i].revoked /\ rows[i].replacedBy = 0 /\ Usable(i))
  <2>1. PICK status \in {"409", "401"} : Answers(s, status, 0, 0)
    <3>1. \/ Answers(s, "409", 0, 0) \/ Answers(s, "401", 0, 0)
      BY <1>5, <1>11 DEF ServeRefresh
    <3>2. QED
      BY <3>1
  <2>2. \/ UNCHANGED vars
        \/ i \in DOMAIN rows /\ Refresh(i)
    BY <1>5 DEF ServeRefresh
  <2>3. /\ Inv' /\ Table' /\ now' = now /\ lastId' = lastId
        /\ rows' = rows \/ \E which : rows' = Revoked(rows, which)
    <3>1. CASE UNCHANGED vars
      BY <1>3, <3>1, NextInv DEF vars, Inv
    <3>2. CASE i \in DOMAIN rows /\ Refresh(i)
      <4>1. EndFamily(i) /\ now' = now
        BY <1>11, <3>2 DEF Refresh, Rotate, Live
      <4>2. Next
        BY <3>2 DEF Next
      <4>3. QED
        BY <1>3, <4>1, <4>2, NextInv DEF EndFamily, Inv
    <3>3. QED
      BY <2>2, <3>1, <3>2
  <2>4. \A k : Replaced(rows', k) => Replaced(rows, k) /\ rows'[k].replacedAt = rows[k].replacedAt
    BY <1>3, <2>3, NothingReplaced, RevokedNotReplaced
  <2>5. 0 \in 0..lastId'
    BY <1>3, <2>3
  <2>6. Protocol' /\ Once' /\ Unseen' /\ InTime'
    <3>1. status \in {"ok", "401", "403", "409", "lost"} /\ status # "ok"
      BY <2>1
    <3>2. /\ history.late => history'.late
          /\ \A j \in Jobs : history'.done[j] = history.done[j]
      BY <1>8
    <3>3. QED
      BY <1>1, <1>2, <1>3, <2>1, <2>3, <2>4, <2>5, <3>1, <3>2, PlainAnswer
  <2>7. OutIsDead'
    <3>1. CASE rows' = rows
      BY <1>3, <1>8, <3>1 DEF OutIsDead
    <3>2. CASE \E which : rows' = Revoked(rows, which)
      <4>1. PICK which : rows' = Revoked(rows, which)
        BY <3>2
      <4>2. /\ DOMAIN rows' = DOMAIN rows
            /\ \A k \in DOMAIN rows : /\ rows'[k].family = rows[k].family
                                      /\ rows'[k].revoked <=> rows[k].revoked \/ k \in which
        BY <1>3, <4>1, RevokedRows
      <4>3. QED
        BY <1>3, <1>8, <4>2 DEF OutIsDead
    <3>3. QED
      BY <2>3, <3>1, <3>2
  <2>8. HistoryShape'
    BY <1>3, <1>8, <2>3 DEF HistoryShape
  <2>9. QED
    BY <1>9, <2>3, <2>6, <2>7, <2>8 DEF PagesInv
<1>12. QED
  BY <1>10, <1>11

\* A login brings a family nobody has left.
LEMMA ServeLoginKeeps ==
    ASSUME PagesInv, NEW s \in Senders, ServeLogin(s)
    PROVE  PagesInv'
<1>1. wire[s] # Free /\ wire[s].what = "login" /\ wire[s].status = "sent"
  BY PendingIs DEF ServeLogin
<1>2. /\ UNCHANGED <<jar, shows, csrf, asks>> /\ history' = history
      /\ UNCHANGED <<now, failures, users, inFlight, calls, cli>>
  BY DEF ServeLogin
<1>3. /\ Inv /\ Table /\ Protocol /\ Once /\ HistoryShape /\ Unseen /\ InTime
      /\ OutIsDead /\ Quiet /\ PagesShape /\ lastId \in Nat /\ now \in Nat
  BY DEF PagesInv, Inv, Protocol, Table, Attempts
<1>4. s \in Tabs /\ ~wire[s].gone
  BY <1>1, <1>3, SentByTab
<1>5. PICK n : n = lastId + 1
  OBVIOUS
<1>6. PICK a \in Admins : Issue([login |-> a])
  BY DEF ServeLogin
<1>7. PICK call : call = [login |-> a]
  OBVIOUS
<1>8. Issue(call) /\ call.login \in Admins
  BY <1>6, <1>7
<1>9. Answers(s, "ok", n, n)
  BY <1>5 DEF ServeLogin
<1>10. lastId' = n /\ lastId' \in Nat /\ lastId <= lastId' /\ n \in 0..lastId'
  <2>1. lastId' = n
    BY <1>5, <1>8 DEF Issue
  <2>2. QED
    BY <1>3, <1>5, <2>1
<1>11. Inv' /\ Table'
  <2>1. Table'
    BY <1>3, <1>8, IssueKeeps
  <2>2. Attempts'
    BY <1>2, <1>3, Untouched DEF Inv
  <2>3. Accounts'
    BY <1>2, <1>3 DEF Inv, Accounts
  <2>4. QED
    BY <2>1, <2>2, <2>3 DEF Inv
<1>12. Protocol'
  BY <1>1, <1>2, <1>3, <1>9, <1>10, AnswerProtocol
<1>13. Once'
  BY <1>1, <1>2, <1>3, <1>9, <1>10, AnswerOnce
<1>14. /\ n \notin DOMAIN rows /\ n \in DOMAIN rows' /\ DOMAIN rows' \subseteq DOMAIN rows \cup {n}
       /\ rows'[n].replacedBy = 0 /\ ~rows'[n].revoked /\ rows'[n].family = n
       /\ \A k \in DOMAIN rows' \ {n} : rows'[k] = rows[k]
  BY <1>3, <1>5, <1>8, IssuedRows
<1>15. /\ ~Replaced(rows', n)
       /\ \A k : Replaced(rows', k) => Replaced(rows, k) /\ rows'[k].replacedAt = rows[k].replacedAt
  BY <1>14 DEF Replaced
<1>16. /\ \A u \in Senders \ {s} : wire'[u] = wire[u]
       /\ wire'[s] # Free /\ wire'[s].what = wire[s].what
       /\ wire'[s].rt = wire[s].rt /\ wire'[s].status = "ok" /\ wire'[s].row = n
  BY <1>1, <1>3, <1>4, <1>9, <1>10, AnswerIs
<1>17. \A u \in Tabs \ {s} : wire'[u] = wire[u]
  BY <1>16, Places
<1>18. Unseen' /\ InTime'
  BY <1>1, <1>2, <1>3, <1>4, <1>5, <1>15, <1>16, <1>17, FreshAnswer
<1>19. OutIsDead'
  <2>1. n \notin history.out
    BY <1>3, <1>5 DEF HistoryShape
  <2>2. QED
    BY <1>2, <1>3, <1>14, <2>1 DEF OutIsDead
<1>20. HistoryShape' /\ Quiet'
  BY <1>2, <1>3, <1>5, <1>10 DEF HistoryShape, Quiet
<1>21. QED
  BY <1>11, <1>12, <1>13, <1>18, <1>19, <1>20 DEF PagesInv

----------------------------------------------------------------------------
(* Together.                                                               *)

\* Every step keeps the invariant.
LEMMA PagesNextKeeps == PagesInv /\ [PagesNext]_<<vars, pageVars>> => PagesInv'
<1> SUFFICES ASSUME PagesInv, [PagesNext]_<<vars, pageVars>>
             PROVE  PagesInv'
  OBVIOUS
<1>1. Protocol /\ Once /\ HistoryShape
  BY DEF PagesInv
<1>2. ASSUME NEW s \in Senders, ServerStep(s)
      PROVE  PagesInv'
  BY <1>2, ServeProtectedKeeps, ServeRefreshKeeps, ServeLoginKeeps, ServeLogoutKeeps, LostKeeps
     DEF ServerStep
<1>3. ASSUME NEW j \in Jobs, CallStep(j)
      PROVE  PagesInv'
  <2>1. Kept
    BY <1>1, <1>3, DeedKeeps, RecoversKeeps, DistrustedKeeps, ToldKeeps, EndsKeeps, LogoutEndsKeeps
       DEF CallStep
  <2>2. QED
    BY <2>1, BrowserKeeps
<1>4. ASSUME NEW t \in Tabs, TabStep(t)
      PROVE  PagesInv'
  <2>1. Kept
    BY <1>1, <1>4, RefreshedKeeps, SyncedKeeps, NavigatesKeeps, PageArrivesKeeps,
       LoginOpensKeeps, CheckedKeeps, LoggedInKeeps DEF TabStep
  <2>2. QED
    BY <2>1, BrowserKeeps
<1>5. ASSUME NEW j \in Jobs, Starts(j)
      PROVE  PagesInv'
  <2>1. Kept
    BY <1>1, <1>5, StartsKeeps
  <2>2. QED
    BY <2>1, BrowserKeeps
<1>6. ASSUME UNCHANGED <<vars, pageVars>>
      PROVE  PagesInv'
  <2>1. /\ UNCHANGED vars /\ rows' = rows /\ now' = now /\ lastId' = lastId
        /\ UNCHANGED <<jar, shows, csrf, asks, wire, history>>
    BY <1>6 DEF pageVars, vars
  <2>2. Inv'
    BY <2>1, NextInv DEF PagesInv
  <2>3. Protocol'
    BY <1>1, <2>1 DEF Protocol, PagesShape, MessageFits, SlotFits, Heard, Waits, JobFits, LoadsAlone, JobsOf
  <2>4. Once' /\ HistoryShape'
    BY <1>1, <2>1 DEF Once, MayRepeat, HistoryShape
  <2>5. Unseen' /\ InTime'
    BY <2>1 DEF PagesInv, Unseen, InTime, Brings, Refreshing, JustReplaced, Replaced
  <2>6. OutIsDead' /\ Quiet'
    BY <2>1 DEF PagesInv, OutIsDead, Quiet
  <2>7. QED
    BY <2>2, <2>3, <2>4, <2>5, <2>6 DEF PagesInv
<1>7. QED
  BY <1>2, <1>3, <1>4, <1>5, <1>6, TimePassesKeeps DEF PagesNext, JobsOf

\* One session, whose pair the browser has.
LEMMA FirstSession ==
    ASSUME PagesInit
    PROVE  Inv
<1>1. /\ now = 0 /\ failures = [l \in Logins |-> <<>>] /\ lastId = 1
      /\ inFlight = 0 /\ calls = [c \in Callers |-> Idle] /\ cli = Idle
      /\ users \in [Admins -> [secret: Secrets, outdated: {FALSE}, enabled: {TRUE}]]
  BY DEF PagesInit
<1>2. Attempts
  BY <1>1, JustStarted
<1>3. Accounts
  BY <1>1 DEF Accounts
<1>4. PICK a \in Admins :
          rows = <<[admin |-> a, family |-> 1, created |-> 0,
                    expires |-> Before(RefreshTtl, AbsoluteTtl), absolute |-> AbsoluteTtl,
                    revoked |-> FALSE, replacedBy |-> 0, replacedAt |-> 0]>>
  BY DEF PagesInit
<1>5. PICK row : row = [admin |-> a, family |-> 1, created |-> 0,
                         expires |-> Before(RefreshTtl, AbsoluteTtl), absolute |-> AbsoluteTtl,
                         revoked |-> FALSE, replacedBy |-> 0, replacedAt |-> 0]
  OBVIOUS
<1>6. /\ DOMAIN rows = {1} /\ rows[1] = row /\ row \in Row
       /\ row.family = 1 /\ row.replacedBy = 0 /\ ~row.revoked
  <2>1. rows = <<row>>
    BY <1>4, <1>5
  <2>2. AbsoluteTtl \in Nat /\ Before(RefreshTtl, AbsoluteTtl) \in Nat
    BY SessionAssumption DEF Before
  <2>3. row \in Row
    BY <1>5, <2>2 DEF Row
  <2>4. QED
    BY <1>5, <2>1, <2>3
<1>7. Table
  <2>1. lastId \in Nat /\ DOMAIN rows \subseteq 1..lastId /\ \A i \in DOMAIN rows : rows[i] \in Row
    BY <1>1, <1>6
  <2>2. FamilyRows(1) = {1} /\ Live(1)
    BY <1>6 DEF FamilyRows, Live
  <2>3. row.expires <= row.absolute /\ row.absolute = row.created + AbsoluteTtl
    BY <1>5, SessionAssumption DEF Before
  <2>4. FamiliesAreChains
    BY <1>6, <2>2, <2>3 DEF FamiliesAreChains
  <2>5. QED
    BY <2>1, <2>4 DEF Table
<1>8. QED
  BY <1>2, <1>3, <1>7 DEF Inv

\* It holds when the pages open.
LEMMA PagesInitKeeps == PagesInit => PagesInv
<1> SUFFICES ASSUME PagesInit
             PROVE  PagesInv
  OBVIOUS
<1>1. Inv
  BY FirstSession
<1>2. /\ lastId = 1 /\ jar = [at |-> 1, rt |-> 1]
      /\ asks = [j \in Jobs |-> Rest] /\ wire = [s \in Senders |-> Free]
      /\ history = NoHistory
      /\ \A t \in Tabs : shows[t] \in {"form", "app"}
      /\ shows \in [Tabs -> Documents]
      /\ csrf = [t \in Tabs |-> IF shows[t] = "app" THEN 1 ELSE 0]
  BY DEF PagesInit, Documents
<1>3. /\ \A j \in Jobs : asks[j] = Rest /\ wire[j] = Free
      /\ \A t \in Tabs : wire[t] = Free
      /\ \A s \in Senders : wire[s] = Free
  BY <1>2, Places
<1>4. PagesShape
  BY <1>2, <1>3 DEF PagesShape
<1>5. Protocol
  BY <1>2, <1>3, <1>4 DEF Protocol, SlotFits, Heard, Waits, JobFits, LoadsAlone, JobsOf
<1>6. /\ HistoryShape /\ Quiet /\ history.out = {} /\ \A j \in Jobs : history.done[j] = 0
  BY <1>2 DEF NoHistory, HistoryShape, Quiet
<1>7. Once
  BY <1>3, <1>6 DEF Once, MayRepeat
<1>8. \A i \in DOMAIN rows : rows[i].replacedBy = 0
  BY DEF PagesInit
<1>9. Unseen /\ InTime
  BY <1>3, <1>8 DEF Unseen, InTime, Brings, Refreshing, JustReplaced, Replaced
<1>10. OutIsDead
  BY <1>6 DEF OutIsDead
<1>11. QED
  BY <1>1, <1>5, <1>6, <1>7, <1>9, <1>10 DEF PagesInv

\* And it says what is promised.
LEMMA PagesInvIsEnough == PagesInv => PagesSound
<1> SUFFICES ASSUME PagesInv
             PROVE  PagesSound
  OBVIOUS
<1>1. /\ Protocol /\ Once /\ Quiet /\ PagesShape
      /\ \A t \in Tabs : SlotFits(t) /\ Heard(t) /\ shows[t] \in Documents
  BY DEF PagesInv, Protocol, PagesShape
<1>2. PagesTypeOK
  <2>1. jar.at = jar.rt /\ jar.at \in 0..lastId /\ csrf \in [Tabs -> 0..lastId]
    BY <1>1 DEF PagesShape
  <2>2. QED
    BY <1>1, <2>1 DEF PagesTypeOK, SlotFits, SlotKinds
<1>3. ChangesOnce
  BY <1>1 DEF Once, ChangesOnce
<1>4. OnlyTheLateAreThieves /\ LogoutIsHeard
  BY <1>1 DEF Quiet, OnlyTheLateAreThieves, LogoutIsHeard
<1>5. ASSUME NEW t \in Tabs, NEW j \in JobsOf(t), asks[j] # Rest, asks[j].waits
      PROVE  /\ shows[t] \in {"app", "loading"}
             /\ wire[t] # Free /\ wire[t].what \in {"refresh", "me"}
  <2>1. j \in Jobs /\ TabOf[j] = t
    BY DEF JobsOf
  <2>2. shows[t] \in {"app", "loading"}
    BY <1>1, <1>5, <2>1 DEF Protocol, JobFits
  <2>3. wire[t] # Free
    BY <1>1, <1>5, <2>2 DEF Heard, Waits
  <2>4. QED
    BY <1>1, <2>2, <2>3, Kinds DEF SlotFits
<1>6. QED
  BY <1>2, <1>3, <1>4, <1>5 DEF PagesSound, AwaitersAreHeard

\* However the calls and the answers of a browser's tabs cross, no change is
\* made twice, nothing is served after a logout, only somebody late is taken
\* for a thief, and every call that awaits the refresh of its tab hears of it
\* (refreshSession, api and pageLogin of admin.js, SessionService.refresh and
\* logout in session-service.ts).
THEOREM PagesHold == PagesSpec => []PagesSound
BY PagesInitKeeps, PagesNextKeeps, PagesInvIsEnough, PTL DEF PagesSpec
============================================================================
