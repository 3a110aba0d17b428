----------------------------- MODULE PriceSync -----------------------------
(***************************************************************************)
(* The daily synchronisation of the OpenRouter price list                  *)
(* (billing/price-sync.ts) and the estimates that use its history          *)
(* (storage/billing-repo.ts, billing/estimate-cost.ts).                    *)
(*                                                                         *)
(* One model of the catalogue is followed.  A listing is what its entry    *)
(* says: a price, or Unlisted when the entry is missing or damaged.  Time  *)
(* is counted in units of which DayLength are a billing day.               *)
(***************************************************************************)
EXTENDS Integers, Sequences, SequencesExt

CONSTANTS Prices, Unlisted,
          Attempts,              \* calls of the upstream without a cost
          DayLength, SyncHour, Backoff,
          MaxNow, MaxChanges, MaxRestarts  \* bounds of the instance

ASSUME PriceSyncAssumption ==
    /\ Unlisted \notin Prices
    /\ DayLength \in Nat \ {0} /\ SyncHour \in 0..(DayLength - 1)
    /\ Backoff \in Nat \ {0} /\ {MaxNow, MaxChanges, MaxRestarts} \subseteq Nat

VARIABLES now,
          listed,     \* the entry of the catalogue
          changes,
          sync,       \* the scheduler: inFlight, nextAttemptAt, and the run
          versions,   \* model_price_versions
          runs,       \* price_sync_runs
          attempts,   \* attempt -> where it is, and the row it left
          restarts

vars == <<now, listed, changes, sync, versions, runs, attempts, restarts>>

Never == -1
NoPrice == 0

BillingDay(t) == t \div DayLength
BillingHour(t) == t % DayLength

FreshScheduler ==
    [at |-> "idle", nextAttemptAt |-> 0, failedAt |-> Never, startedAt |-> Never, seen |-> Unlisted]
NoAttempt == [at |-> "idle", started |-> Never, version |-> NoPrice, unsettled |-> FALSE]

----------------------------------------------------------------------------
(* hasSuccessfulSyncForDay.                                                *)
HasSuccessfulSyncForDay(day) == \E i \in DOMAIN runs : runs[i].day = day /\ runs[i].ok

(* The catalogue is asked with the key, and without it when it is refused. *)
Tick ==
    /\ sync.at = "idle"
    /\ now >= sync.nextAttemptAt
    /\ BillingHour(now) >= SyncHour
    /\ ~HasSuccessfulSyncForDay(BillingDay(now))
    /\ sync' = [sync EXCEPT !.at = "with_auth", !.startedAt = now]
    /\ UNCHANGED <<now, listed, changes, versions, runs, attempts, restarts>>

Refused ==
    /\ sync.at = "with_auth"
    /\ sync' = [sync EXCEPT !.at = "without_auth"]
    /\ UNCHANGED <<now, listed, changes, versions, runs, attempts, restarts>>

(* The answer is on its way: later changes of the catalogue are not in it. *)
Answers ==
    /\ sync.at \in {"with_auth", "without_auth"}
    /\ sync' = [sync EXCEPT !.at = "answered", !.seen = listed]
    /\ UNCHANGED <<now, listed, changes, versions, runs, attempts, restarts>>

(* latestPriceVersion: by the time it was observed, then by its id.        *)
LatestVersion(price) == Len(versions)

(* Mutant of ToVersion: the price is taken to hold from the start of its day. *)
ToVersionOfDay(price, startedAt) ==
    [price |-> price, observedAt |-> BillingDay(startedAt) * DayLength]

(* toVersion: observed_at is the start of the run.                         *)
ToVersion(price, startedAt) == [price |-> price, observedAt |-> startedAt]

(* upsertPriceVersions: an entry that is damaged or missing is skipped.    *)
Upserted ==
    LET latest == LatestVersion(sync.seen)
    IN  IF sync.seen = Unlisted \/ (latest # NoPrice /\ versions[latest].price = sync.seen)
        THEN versions
        ELSE Append(versions, ToVersion(sync.seen, sync.startedAt))

(* The row of a run is of the day it started on.                           *)
RunOf(ok) == [day |-> BillingDay(sync.startedAt), ok |-> ok]

Complete ==
    /\ sync.at = "answered"
    /\ versions' = Upserted
    /\ runs' = Append(runs, RunOf(TRUE))
    /\ sync' = [FreshScheduler EXCEPT !.nextAttemptAt = sync.nextAttemptAt,
                                      !.failedAt = sync.failedAt]
    /\ UNCHANGED <<now, listed, changes, attempts, restarts>>

Failed == [FreshScheduler EXCEPT !.nextAttemptAt = now + Backoff, !.failedAt = now]

(* fail: a timeout, another status, a body that is no catalogue, a database *)
(* that takes the versions and not the row of the run (stored).  The row of *)
(* the failure may not be written either.                                  *)
Fail(stored, recorded) ==
    /\ sync.at # "idle" /\ (stored => sync.at = "answered")
    /\ versions' = IF stored THEN Upserted ELSE versions
    /\ runs' = IF recorded THEN Append(runs, RunOf(FALSE)) ELSE runs
    /\ sync' = Failed
    /\ UNCHANGED <<now, listed, changes, attempts, restarts>>

(* The versions and the row of the run are two transactions: the process   *)
(* may die between them, as at any other time.                             *)
Restart ==
    /\ restarts < MaxRestarts
    /\ restarts' = restarts + 1
    /\ sync' = FreshScheduler
    /\ versions' \in {versions} \cup (IF sync.at = "answered" THEN {Upserted} ELSE {})
    /\ attempts' = [a \in Attempts |-> IF attempts[a].at = "running"
                                       THEN [NoAttempt EXCEPT !.at = "lost"] ELSE attempts[a]]
    /\ UNCHANGED <<now, listed, changes, runs>>

----------------------------------------------------------------------------
(* priceVersionAt: the last version observed not later than t.             *)
PriceVersionAt(t) ==
    LET past == {i \in DOMAIN versions : versions[i].observedAt <= t}
    IN  IF past = {} THEN NoPrice ELSE CHOOSE i \in past : \A j \in past : j <= i

Start(a) ==
    /\ attempts[a].at = "idle"
    /\ attempts' = [attempts EXCEPT ![a] = [NoAttempt EXCEPT !.at = "running", !.started = now]]
    /\ UNCHANGED <<now, listed, changes, sync, versions, runs, restarts>>

(* The sink writes the row; a call of the upstream takes some time.        *)
(* unsettled: a run that had started by then has not written its version   *)
(* yet; for the property only.                                             *)
Finish(a) ==
    /\ attempts[a].at = "running" /\ attempts[a].started < now
    /\ attempts' = [attempts EXCEPT ![a] =
            [at |-> "done", started |-> @.started, version |-> PriceVersionAt(@.started),
             unsettled |-> sync.at # "idle" /\ sync.startedAt <= @.started]]
    /\ UNCHANGED <<now, listed, changes, sync, versions, runs, restarts>>

----------------------------------------------------------------------------
CatalogueChanges(listing) ==
    /\ changes < MaxChanges /\ listing # listed
    /\ changes' = changes + 1
    /\ listed' = listing
    /\ UNCHANGED <<now, sync, versions, runs, attempts, restarts>>

Pass ==
    /\ now < MaxNow
    /\ now' = now + 1
    /\ UNCHANGED <<listed, changes, sync, versions, runs, attempts, restarts>>

Init ==
    /\ now = 0 /\ changes = 0 /\ restarts = 0
    /\ listed \in Prices
    /\ sync = FreshScheduler
    /\ versions = <<>> /\ runs = <<>>
    /\ attempts = [a \in Attempts |-> NoAttempt]

Next ==
    \/ Tick \/ Refused \/ Answers \/ Complete \/ Restart \/ Pass
    \/ \E stored, recorded \in BOOLEAN : Fail(stored, recorded)
    \/ \E a \in Attempts : Start(a) \/ Finish(a)
    \/ \E listing \in Prices \cup {Unlisted} : CatalogueChanges(listing)

Spec == Init /\ [][Next]_vars

----------------------------------------------------------------------------
TypeOK ==
    /\ now \in 0..MaxNow /\ changes \in 0..MaxChanges /\ restarts \in 0..MaxRestarts
    /\ listed \in Prices \cup {Unlisted}
    /\ sync \in [at: {"idle", "with_auth", "without_auth", "answered"},
                  nextAttemptAt: 0..(MaxNow + Backoff), failedAt: 0..MaxNow \cup {Never},
                  startedAt: 0..MaxNow \cup {Never}, seen: Prices \cup {Unlisted}]
    /\ versions \in Seq([price: Prices, observedAt: 0..MaxNow])
    /\ runs \in Seq([day: Nat, ok: BOOLEAN])
    /\ attempts \in [Attempts -> [at: {"idle", "running", "done", "lost"},
                                  started: 0..MaxNow \cup {Never}, version: Nat,
                                  unsettled: BOOLEAN]]

(* A day has at most one successful run, also when a run crosses midnight  *)
(* or the process is restarted.                                            *)
OneSuccessADay ==
    \A i, j \in DOMAIN runs : runs[i].ok /\ runs[j].ok /\ runs[i].day = runs[j].day => i = j

(* The history has every change once: no version repeats the one before    *)
(* it, and they were observed in order.                                    *)
VersionsAreChanges ==
    \A i \in 2..Len(versions) :
        /\ versions[i].price # versions[i - 1].price
        /\ versions[i].observedAt >= versions[i - 1].observedAt

(* The price an estimate was made with is the one the history gives for    *)
(* the start of the attempt for ever after: no later run changes the past. *)
(* Only a run that was in flight may, the version it writes bears its start. *)
EstimatesStand ==
    \A a \in Attempts :
        attempts[a].at = "done" /\ ~attempts[a].unsettled
        => attempts[a].version = PriceVersionAt(attempts[a].started)

(* After a run the last version is what the catalogue said, even if that   *)
(* price had been seen before.                                             *)
LastSeenIsLatest ==
    [][Complete /\ sync.seen # Unlisted
       => versions' # <<>> /\ Last(versions').price = sync.seen]_vars

(* Within a process the next run comes no sooner than an hour after a      *)
(* failure.                                                                *)
BackoffKept == [][Tick /\ sync.failedAt # Never => now >= sync.failedAt + Backoff]_vars
=============================================================================
