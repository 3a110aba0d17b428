------------------------------- MODULE Alerts -------------------------------
(***************************************************************************)
(* AlertEngine (alerts/rules.ts) and AlertCooldown (alerts/dedup.ts).      *)
(*                                                                         *)
(* onEvent is an async method that nobody awaits: it stops at every alert  *)
(* it sends, and events of other requests run in between.  The engine's    *)
(* memory is a record g; an operator returns the memory after the turn and *)
(* the alert at which the turn stopped.                                    *)
(*                                                                         *)
(* An event has the fields client, contour, status, refused (the upstream  *)
(* answered 401 or 402) and long (it took longer than the threshold).  A   *)
(* slot is a request whose event is being handled; what the upstream of an *)
(* event is called is taken for its contour.  Wording and the daily digest, *)
(* which only reads, are left out; so is a row that could not be written.  *)
(***************************************************************************)
EXTENDS Integers, Sequences, FiniteSets

CONSTANTS Clients, Contours, ContourOf,
          Slots,
          StreakThreshold,       \* ALERT_ERROR_STREAK_THRESHOLD
          RateWindow, RateSample, RatePercent,  \* of ALERT_ERROR_RATE_*
          Cooldown,              \* kind -> cooldown
          MaxClock, MaxEvents    \* bounds of the instance

VARIABLES clock, recorded, engine, waiting, events

alertVars == <<clock, recorded, engine, waiting, events>>

Kinds == {"refused", "long", "streak", "recovered", "rate", "disk_low"}
Statuses == {"success", "error", "client_aborted"}
Stops == {"refused", "long", "streak", "recovered", "rate"}

ASSUME AlertsAssumption ==
    /\ Cooldown \in [Kinds -> Nat] /\ ContourOf \in [Clients -> Contours]
    /\ {StreakThreshold, RateWindow, RateSample} \subseteq Nat \ {0}
    /\ RatePercent \in 0..100 /\ {MaxClock, MaxEvents} \subseteq Nat

Event ==
    {e \in [client: Clients, contour: Contours, status: Statuses, refused: BOOLEAN, long: BOOLEAN] :
        e.contour = ContourOf[e.client] /\ (e.refused => e.status = "error")}

(* A key of the cooldown: the kind, and what the alert is about.           *)
Keys == Kinds \X (Clients \cup Contours \cup {"-"})

(* counted is the number of errors in a row, as events are counted; told   *)
(* is when a message with a cooldown was last sent, and tooSoon whether one *)
(* ever came too soon.  They are for the properties only.                  *)
FreshEngine ==
    [streaks |-> [c \in Clients |-> 0], hadErrors |-> [c \in Clients |-> FALSE],
     lastSent |-> <<>>,
     counted |-> [c \in Clients |-> 0], wiped |-> [c \in Clients |-> FALSE],
     told |-> <<>>, tooSoon |-> FALSE]

----------------------------------------------------------------------------
ShouldSend(g, key) ==
    \/ Cooldown[key[1]] = 0
    \/ key \notin DOMAIN g.lastSent
    \/ clock - g.lastSent[key] >= Cooldown[key[1]]

Put(f, key, value) == [k \in DOMAIN f \cup {key} |-> IF k = key THEN value ELSE f[k]]

Sent(g, key) ==
    [g EXCEPT !.told = Put(@, key, clock),
              !.tooSoon = @ \/ (key \in DOMAIN g.told /\ clock - g.told[key] < Cooldown[key[1]])]

(* Mutant of Marked: shouldSend is asked, markSent is forgotten.           *)
Unmarked(g, key) == IF Cooldown[key[1]] = 0 THEN g ELSE Sent(g, key)

Marked(g, key) ==
    IF Cooldown[key[1]] = 0 THEN g
    ELSE [Sent(g, key) EXCEPT !.lastSent = Put(@, key, clock)]

Turn(g, stop) == [engine |-> g, stop |-> stop]

(* fire: the mark is set before the message is sent; an alert that is still *)
(* cooling down stops nothing.                                             *)
Fire(g, key, stop, otherwise) ==
    IF ShouldSend(g, key) THEN Turn(Marked(g, key), stop) ELSE otherwise

(* An alert whose message nobody in this module waits for.                 *)
Fired(g, key) == Fire(g, key, "done", Turn(g, "done")).engine

----------------------------------------------------------------------------
(* The last rows of a contour, by their numbers, without those that the    *)
(* client gave up.                                                         *)
Recent(rows, contour) ==
    LET own == {i \in DOMAIN rows : rows[i].contour = contour}
    IN  {i \in own : rows[i].status # "client_aborted"
                     /\ Cardinality({j \in own : i <= j}) <= RateWindow}

TooMany(rows, recent) ==
    /\ Cardinality(recent) >= RateSample
    /\ 100 * Cardinality({i \in recent : rows[i].status = "error"})
          > RatePercent * Cardinality(recent)

(* Mutant of TooManyErrors: the rows of both contours.                     *)
TooManyOfBoth(rows, contour) ==
    TooMany(rows, {i \in DOMAIN rows : rows[i].status # "client_aborted"})

TooManyErrors(rows, contour) == TooMany(rows, Recent(rows, contour))

CheckErrorRate(g, e, rows) ==
    IF TooManyErrors(rows, e.contour)
    THEN Fire(g, <<"rate", e.contour>>, "rate", Turn(g, "done"))
    ELSE Turn(g, "done")

Cleared(g, c) ==
    [g EXCEPT !.streaks[c] = 0, !.hadErrors[c] = FALSE, !.wiped[c] = @ \/ g.counted[c] > 0]

(* Mutant of Counts: one counter for all clients.                          *)
CountsForAll(g, c) ==
    [g EXCEPT !.streaks = [d \in Clients |-> @[d] + 1], !.hadErrors[c] = TRUE, !.counted[c] = @ + 1]

Counts(g, c) == [g EXCEPT !.streaks[c] = @ + 1, !.hadErrors[c] = TRUE, !.counted[c] = @ + 1]

Streak(g, e, rows) ==
    LET h == Counts(g, e.client)
        rest == CheckErrorRate(h, e, rows)
    IN  IF h.streaks[e.client] >= StreakThreshold
        THEN Fire(h, <<"streak", e.client>>, "streak", rest) ELSE rest

(* After a streak the message of recovery is awaited before the streak is  *)
(* cleared.                                                                *)
Success(g, e, rows) ==
    LET h == [g EXCEPT !.counted[e.client] = 0, !.wiped[e.client] = FALSE]
        rest == CheckErrorRate(Cleared(h, e.client), e, rows)
    IN  IF h.hadErrors[e.client] /\ h.streaks[e.client] >= StreakThreshold
        THEN Fire(h, <<"recovered", "-">>, "recovered", rest) ELSE rest

Count(g, e, rows) ==
    CASE e.status = "client_aborted" -> CheckErrorRate(g, e, rows)
      [] e.status = "error"          -> Streak(g, e, rows)
      [] e.status = "success"        -> Success(g, e, rows)

AfterRefused(g, e, rows) ==
    LET rest == Count(g, e, rows)
    IN  IF e.long THEN Fire(g, <<"long", "-">>, "long", rest) ELSE rest

OnEvent(g, e, rows) ==
    LET rest == AfterRefused(g, e, rows)
    IN  IF e.refused THEN Fire(g, <<"refused", e.contour>>, "refused", rest) ELSE rest

(* onEvent goes on when the message has been sent, or has failed.          *)
Resumed(g, e, stop, rows) ==
    CASE stop = "refused"   -> AfterRefused(g, e, rows)
      [] stop = "long"      -> Count(g, e, rows)
      [] stop = "streak"    -> CheckErrorRate(g, e, rows)
      [] stop = "recovered" -> CheckErrorRate(Cleared(g, e.client), e, rows)
      [] stop = "rate"      -> Turn(g, "done")

----------------------------------------------------------------------------
NoEvent == [stop |-> "done"]

Waiting(turn, e) ==
    IF turn.stop = "done" THEN NoEvent ELSE [stop |-> turn.stop, event |-> e]

(* recordRequest: the row, and onEvent, which nobody awaits.               *)
RecordRequest(s, e) ==
    LET rows == Append(recorded, [contour |-> e.contour, status |-> e.status])
        turn == OnEvent(engine, e, rows)
    IN  /\ waiting[s] = NoEvent /\ events < MaxEvents
        /\ recorded' = rows
        /\ engine' = turn.engine
        /\ waiting' = [waiting EXCEPT ![s] = Waiting(turn, e)]
        /\ events' = events + 1
        /\ UNCHANGED clock

(* Telegram answered, failed or timed out.                                 *)
MessageDone(s) ==
    LET turn == Resumed(engine, waiting[s].event, waiting[s].stop, recorded)
    IN  /\ waiting[s] # NoEvent
        /\ engine' = turn.engine
        /\ waiting' = [waiting EXCEPT ![s] = Waiting(turn, @.event)]
        /\ UNCHANGED <<clock, recorded, events>>

(* The watchdog finds the disk full.                                       *)
OnDiskLow ==
    /\ engine' = Fired(engine, <<"disk_low", "-">>)
    /\ UNCHANGED <<clock, recorded, waiting, events>>

TimePasses ==
    /\ clock < MaxClock
    /\ clock' = clock + 1
    /\ UNCHANGED <<recorded, engine, waiting, events>>

AlertsInit ==
    /\ clock = 0 /\ events = 0
    /\ recorded = <<>> /\ engine = FreshEngine
    /\ waiting = [s \in Slots |-> NoEvent]

AlertsNext ==
    \/ \E s \in Slots : MessageDone(s) \/ \E e \in Event : RecordRequest(s, e)
    \/ OnDiskLow \/ TimePasses

AlertsSpec == AlertsInit /\ [][AlertsNext]_alertVars

----------------------------------------------------------------------------
AlertsTypeOK ==
    /\ clock \in 0..MaxClock /\ events \in 0..MaxEvents
    /\ \A s \in Slots : \/ waiting[s] = NoEvent
                        \/ waiting[s].stop \in Stops /\ waiting[s].event \in Event
    /\ recorded \in Seq([contour: Contours, status: Statuses])
    /\ engine.streaks \in [Clients -> Nat] /\ engine.hadErrors \in [Clients -> BOOLEAN]
    /\ \A k \in DOMAIN engine.lastSent : k \in Keys /\ engine.lastSent[k] \in 0..clock

(* Two messages about the same thing are never closer than the cooldown of *)
(* their kind, however many events find the reason at once.                *)
CooldownKept == ~engine.tooSoon

(* The streak of a client is the number of its own errors counted since    *)
(* its last success; only while its recovery is being told is it more, and *)
(* less only after errors of that time have been wiped out.                *)
StreaksAreOwn ==
    \A c \in Clients :
        \/ engine.streaks[c] = engine.counted[c]
        \/ engine.wiped[c] /\ engine.streaks[c] < engine.counted[c]
        \/ /\ \E s \in Slots : waiting[s].stop = "recovered" /\ waiting[s].event.client = c
           /\ engine.streaks[c] > engine.counted[c]

(* A message about the error rate of a contour follows an error of that    *)
(* contour: the errors of the agents never raise the alarm for the sites.  *)
RateOfItsOwn ==
    \A c \in Contours :
        <<"rate", c>> \in DOMAIN engine.lastSent
        => \E i \in DOMAIN recorded : recorded[i].contour = c /\ recorded[i].status = "error"

(* What the engine has counted is of the client and the contour it speaks  *)
(* of, whatever other events came while a message was awaited.             *)
AlertsSound == AlertsTypeOK /\ StreaksAreOwn /\ RateOfItsOwn
=============================================================================
