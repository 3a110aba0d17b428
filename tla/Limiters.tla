------------------------------ MODULE Limiters ------------------------------
(***************************************************************************)
(* The three limiters of the agents' contour (agent/limiters.ts) and their *)
(* uses in agent/plugin.ts and agent/chat-handler.ts: the window of        *)
(* requests of a key's owner, the places of a provider, and the monitor of *)
(* refused keys.  They share nothing but the clock; each has a next-state  *)
(* relation of its own.                                                    *)
(***************************************************************************)
EXTENDS Integers, Sequences, FiniteSets, FiniteSetsExt, SequencesExt

CONSTANTS Owners, MaxHits, HitWindow, Second,       \* a second, in ticks
          Tasks, ProviderLimits, NoLimit,           \* NoLimit: null
          FailureWindow, MaxEvents, AlertThreshold, NotifyEvery, LogBurst, LogWindow,
          MaxClock, MaxCalls, MaxLimitChanges       \* bounds of the instance

VARIABLES clock, calls,
          \* WindowRateLimiter; admitted and comeBack are for the properties
          hits, lastPrune, admitted, comeBack, refusedAgain,
          \* ProviderLimiter: the provider's limit, its queue, where each task is
          limit, limitChanges, queue, task, asked,
          \* AuthFailureMonitor; failures, alerts, overs and lines are for the properties
          events, lastNotifiedAt, logWindow, failures, alerts, overs, lines

rateVars == <<hits, lastPrune, admitted, comeBack, refusedAgain>>
placeVars == <<limit, limitChanges, queue, task, asked>>
monitorVars == <<events, lastNotifiedAt, logWindow, failures, alerts, overs, lines>>
limiterVars == <<clock, calls, rateVars, placeVars, monitorVars>>

(* Before every window: minus infinity.                                    *)
LongAgo == -(HitWindow + LogWindow + NotifyEvery)

ASSUME LimitersAssumption ==
    /\ {MaxHits, HitWindow, Second} \subseteq Nat \ {0}
    /\ IsFiniteSet(Tasks) /\ ProviderLimits \subseteq Nat
    /\ {MaxEvents, AlertThreshold, NotifyEvery} \subseteq Nat \ {0}
    /\ {FailureWindow, LogBurst, LogWindow} \subseteq Nat

NoWindow == [count |-> 0, resetAt |-> LongAgo]

----------------------------------------------------------------------------
(* The window of requests.  A window that is over counts as none.          *)
Prune ==
    IF clock - lastPrune < HitWindow THEN hits
    ELSE [k \in Owners |-> IF hits[k].resetAt <= clock THEN NoWindow ELSE hits[k]]

(* Mutant of Counted: the hit that opens a window is not counted.          *)
CountedLater(h) ==
    IF h.resetAt <= clock THEN [count |-> 0, resetAt |-> clock + HitWindow]
    ELSE [h EXCEPT !.count = @ + 1]

Counted(h) ==
    IF h.resetAt <= clock THEN [count |-> 1, resetAt |-> clock + HitWindow]
    ELSE [h EXCEPT !.count = @ + 1]

(* Mutant of RetryAfterSec: the last second is cut off.                    *)
RetryAfterFloor(h) == Max({1, (h.resetAt - clock) \div Second})

(* Whole seconds to the end of the window, rounded up.                     *)
RetryAfterSec(h) == Max({1, (h.resetAt - clock + Second - 1) \div Second})

(* hit, and what the plugin answers.  refusedAgain: the owner was refused  *)
(* although it had kept quiet for as long as Retry-After said.             *)
Hit(k) ==
    LET h  == Counted(Prune[k])
        ok == h.count <= MaxHits
    IN  /\ calls < MaxCalls /\ calls' = calls + 1
        /\ hits' = [Prune EXCEPT ![k] = h]
        /\ lastPrune' = IF clock - lastPrune < HitWindow THEN lastPrune ELSE clock
        /\ admitted' = IF ok THEN [admitted EXCEPT ![k] = Append(@, clock)] ELSE admitted
        /\ comeBack' = [comeBack EXCEPT ![k] = IF ok THEN {} ELSE {clock + RetryAfterSec(h) * Second}]
        /\ refusedAgain' = (refusedAgain \/ (~ok /\ \E t \in comeBack[k] : t <= clock))
        /\ UNCHANGED <<clock, placeVars, monitorVars>>

----------------------------------------------------------------------------
(* The places of a provider: a p-queue whose concurrency is the limit the  *)
(* last request came with.  p-queue starts the oldest waiting task while   *)
(* it has a place, when a task comes or ends and when concurrency is set.  *)
Filled(q) ==
    LET n == Min({Len(q.waiting), Max({0, q.concurrency - Cardinality(q.running)})})
    IN  [q EXCEPT !.waiting = SubSeq(@, n + 1, Len(@)),
                  !.running = @ \cup Range(SubSeq(q.waiting, 1, n))]

(* Mutant of Adopted: the limit of a queue is only ever lowered.           *)
AdoptedLower(q) ==
    IF q.concurrency = 0 \/ limit < q.concurrency THEN [q EXCEPT !.concurrency = limit] ELSE q

(* The queue is made with the limit of this request, or given it.          *)
Adopted(q) == [q EXCEPT !.concurrency = limit]

(* ProviderLimiter.run.                                                    *)
RunTask(t) ==
    LET q == Filled([Adopted(queue) EXCEPT !.waiting = Append(@, t)])
    IN  /\ task[t] = "idle"
        /\ IF limit = NoLimit
           THEN /\ task' = [task EXCEPT ![t] = "unlimited"]
                /\ UNCHANGED <<queue, asked>>
           ELSE /\ queue' = q
                /\ task' = [u \in Tasks |-> IF u \in q.running THEN "calling"
                                            ELSE IF u = t THEN "waiting" ELSE task[u]]
                /\ asked' = limit
        /\ UNCHANGED <<clock, calls, limit, limitChanges, rateVars, monitorVars>>

TaskEnds(t) ==
    LET q == Filled([queue EXCEPT !.running = @ \ {t}])
    IN  /\ task[t] \in {"calling", "unlimited"}
        /\ queue' = IF task[t] = "calling" THEN q ELSE queue
        /\ task' = [u \in Tasks |-> IF u = t THEN "idle"
                                    ELSE IF u \in queue'.running THEN "calling" ELSE task[u]]
        /\ UNCHANGED <<clock, calls, limit, limitChanges, asked, rateVars, monitorVars>>

(* An admin edits the provider; the limiter learns of it with a request.   *)
LimitChanges(l) ==
    /\ limitChanges < MaxLimitChanges /\ l # limit
    /\ limitChanges' = limitChanges + 1
    /\ limit' = l
    /\ UNCHANGED <<clock, calls, queue, task, asked, rateVars, monitorVars>>

----------------------------------------------------------------------------
(* The monitor of refused keys: record, logDecision, shouldNotify.         *)

(* How many of the oldest are out of the window: the loop ends at the first *)
(* that is not.                                                            *)
Expired(times) ==
    Cardinality({i \in DOMAIN times : \A j \in 1..i : clock - times[j] > FailureWindow})

(* Mutant of Recorded: the cap drops the newest events.                    *)
RecordedFirst ==
    LET all == Append(events, clock)
    IN  SubSeq(all, Expired(all) + 1, Min({Len(all), Expired(all) + MaxEvents}))

(* What is in the window, the last MaxEvents of it.                        *)
Recorded ==
    LET all      == Append(events, clock)
        overflow == Max({0, Len(all) - Expired(all) - MaxEvents})
    IN  SubSeq(all, Expired(all) + overflow + 1, Len(all))

(* Mutant of LogDecision: a new window forgets what the last one left out. *)
LogDecisionForgets ==
    IF clock - logWindow.start >= LogWindow
    THEN [log |-> TRUE, reported |-> 0,
          window |-> [start |-> clock, logged |-> 1, suppressed |-> 0]]
    ELSE IF logWindow.logged < LogBurst
    THEN [log |-> TRUE, reported |-> 0, window |-> [logWindow EXCEPT !.logged = @ + 1]]
    ELSE [log |-> FALSE, reported |-> 0, window |-> [logWindow EXCEPT !.suppressed = @ + 1]]

(* The first line of a window says how many the last one left out.         *)
LogDecision ==
    IF clock - logWindow.start >= LogWindow
    THEN [log |-> TRUE, reported |-> logWindow.suppressed,
          window |-> [start |-> clock, logged |-> 1, suppressed |-> 0]]
    ELSE IF logWindow.logged < LogBurst
    THEN [log |-> TRUE, reported |-> 0, window |-> [logWindow EXCEPT !.logged = @ + 1]]
    ELSE [log |-> FALSE, reported |-> 0, window |-> [logWindow EXCEPT !.suppressed = @ + 1]]

MayNotify == clock - lastNotifiedAt >= NotifyEvery

(* Mutant of Notify: the mark is set before the threshold is looked at.    *)
NotifyMarked(count) ==
    /\ lastNotifiedAt' = IF MayNotify THEN clock ELSE lastNotifiedAt
    /\ alerts' = IF MayNotify /\ count >= AlertThreshold THEN Append(alerts, clock) ELSE alerts

(* shouldNotify is asked, and marks, only over the threshold.              *)
Notify(count) ==
    LET send == count >= AlertThreshold /\ MayNotify
    IN  /\ lastNotifiedAt' = IF send THEN clock ELSE lastNotifiedAt
        /\ alerts' = IF send THEN Append(alerts, clock) ELSE alerts

InWindow(times, t) == Cardinality({i \in DOMAIN times : t - times[i] <= FailureWindow})

(* A request without a key that is in force (agent/plugin.ts).  overs: the *)
(* times at which the true number of refusals reached the threshold.       *)
Refusal ==
    LET d == LogDecision
    IN  /\ calls < MaxCalls /\ calls' = calls + 1
        /\ events' = Recorded
        /\ logWindow' = d.window
        /\ lines' = [written  |-> lines.written + (IF d.log THEN 1 ELSE 0),
                     reported |-> lines.reported + d.reported]
        /\ Notify(Len(Recorded))
        /\ failures' = Append(failures, clock)
        /\ overs' = IF InWindow(failures', clock) >= AlertThreshold THEN overs \cup {clock} ELSE overs
        /\ UNCHANGED <<clock, rateVars, placeVars>>

----------------------------------------------------------------------------
ClockTicks ==
    /\ clock < MaxClock
    /\ clock' = clock + 1
    /\ UNCHANGED <<calls, rateVars, placeVars, monitorVars>>

LimitersInit ==
    /\ clock = 0 /\ calls = 0
    /\ hits = [k \in Owners |-> NoWindow] /\ lastPrune = LongAgo
    /\ admitted = [k \in Owners |-> <<>>] /\ comeBack = [k \in Owners |-> {}]
    /\ refusedAgain = FALSE
    /\ limit = NoLimit /\ limitChanges = 0 /\ asked = 0
    /\ queue = [concurrency |-> 0, waiting |-> <<>>, running |-> {}]
    /\ task = [t \in Tasks |-> "idle"]
    /\ events = <<>> /\ lastNotifiedAt = LongAgo
    /\ logWindow = [start |-> LongAgo, logged |-> 0, suppressed |-> 0]
    /\ failures = <<>> /\ alerts = <<>> /\ overs = {}
    /\ lines = [written |-> 0, reported |-> 0]

RateNext == ClockTicks \/ \E k \in Owners : Hit(k)

PlacesNext ==
    \/ \E t \in Tasks : RunTask(t) \/ TaskEnds(t)
    \/ \E l \in ProviderLimits \cup {NoLimit} : LimitChanges(l)

MonitorNext == ClockTicks \/ Refusal

LimitersNext == RateNext \/ PlacesNext \/ MonitorNext

LimitersSpec == LimitersInit /\ [][LimitersNext]_limiterVars

----------------------------------------------------------------------------
(* However the windows of an owner fall, no stretch of one window's length *)
(* has more than twice the limit of admitted requests (hit, prune).        *)
BurstsBounded ==
    \A k \in Owners : \A i, j \in DOMAIN admitted[k] :
        j - i >= 2 * MaxHits => admitted[k][j] - admitted[k][i] >= HitWindow

(* An owner that was refused and then keeps quiet for as long as           *)
(* Retry-After says is admitted (hit).                                     *)
RetryAfterIsEnough == ~refusedAgain

Calling == {t \in Tasks : task[t] = "calling"}

(* Nobody waits while a place of the limit the last request came with is   *)
(* free: also when the limit was raised with others waiting.               *)
NoIdlePlace == queue.waiting # <<>> => Cardinality(Calling) >= asked

(* The number the alert is decided by is that of the refusals within the   *)
(* window, up to the cap, although events are thrown away (record).        *)
CountIsTrue ==
    failures # <<>> => Len(events) = Min({MaxEvents, InWindow(failures, Last(failures))})

(* A storm of refusals is told at once and again every NotifyEvery, and    *)
(* never sooner (shouldNotify and its place in the plugin); but for a      *)
(* threshold over the cap of the events, which the configuration lets pass *)
(* and no storm reaches.                                                   *)
StormIsTold ==
    /\ AlertThreshold <= MaxEvents => \A t \in overs :
          \E i \in DOMAIN alerts : alerts[i] <= t /\ t - alerts[i] < NotifyEvery
    /\ \A i \in 2..Len(alerts) : alerts[i] - alerts[i - 1] >= NotifyEvery

(* Every refusal has a line, or is in the number a later line reports, or  *)
(* waits to be reported (logDecision).                                     *)
RefusalsAccounted == lines.written + lines.reported + logWindow.suppressed = Len(failures)

(* The three limiters keep their promises: the window of an owner (hit),   *)
(* the places of a provider (run), and the monitor of refusals (record,    *)
(* shouldNotify, logDecision).                                             *)
LimitersSound ==
    /\ BurstsBounded /\ RetryAfterIsEnough
    /\ NoIdlePlace
    /\ CountIsTrue /\ StormIsTold /\ RefusalsAccounted
=============================================================================
