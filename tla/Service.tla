------------------------------ MODULE Service ------------------------------
(***************************************************************************)
(* The service as a process: its live requests (ActiveRequests), the rows  *)
(* they leave, the watchdog (watchdog/ticker.ts), the state file           *)
(* (watchdog/startup-alert.ts), the graceful shutdown (shutdown.ts,        *)
(* server.ts), crashes and restarts.  What the alert engine makes of the   *)
(* events is in Alerts; it never touches a request.                        *)
(*                                                                         *)
(* Time is counted in units; timers fire on time, messages to Telegram     *)
(* take any time.  A request that was aborted answers within ReactsIn,     *)
(* unless it hangs.                                                        *)
(***************************************************************************)
EXTENDS Integers

CONSTANTS Requests,
          Hanging,                  \* may not react to their abort
          Ticks,                    \* invocations of the watchdog's tick
          DeadlineMs, StuckMs,      \* a request is stuck StuckMs past its deadline
          ReactsIn,
          DrainMs, CloseGraceMs, SettleMs,
          MaxNow, MaxStarts         \* bounds of the instance

ASSUME ServiceAssumption ==
    /\ Hanging \subseteq Requests
    /\ {DeadlineMs, StuckMs, ReactsIn, MaxNow, MaxStarts} \subseteq Nat
    /\ {DrainMs, CloseGraceMs, SettleMs} \subseteq Nat
    /\ ReactsIn < CloseGraceMs + SettleMs

VARIABLES now,
          process,    \* phase, and the times of the shutdown
          requests,   \* request -> where it is
          journal,    \* the requests that have their row
          watch,      \* tick of the watchdog -> what it has still to look at
          stuck,      \* stuckAlerted
          told,       \* request -> messages that called it stuck
          file,       \* the state file: startedAt, stoppedAt
          starts

vars == <<now, process, requests, journal, watch, stuck, told, file, starts>>
watching == <<watch, stuck, told>>

Never == -1
Idle == [at |-> "idle"]
Away == [at |-> "away"]
Asleep == [at |-> "asleep"]

Up == process.phase = "up"
Running == process.phase # "down"
Live == {r \in Requests : requests[r].at = "live"}
Connected == {r \in Requests : requests[r].at \in {"uploading", "live"}}

----------------------------------------------------------------------------
(* Requests.                                                               *)

(* While the server closes, a new request is answered 503.                 *)
Arrive(r) ==
    /\ Up /\ requests[r] = Idle
    /\ requests' = [requests EXCEPT ![r] = [at |-> "uploading", since |-> now]]
    /\ UNCHANGED <<now, process, journal, watching, file, starts>>

(* The body has been read: the handler registers the request.              *)
Register(r) ==
    /\ Running /\ requests[r].at = "uploading"
    /\ requests' = [requests EXCEPT ![r] =
            [at |-> "live", since |-> @.since, aborted |-> Never, late |-> process.drained]]
    /\ UNCHANGED <<now, process, journal, watching, file, starts>>

UploadBreaks(r) ==
    /\ Running /\ requests[r].at = "uploading"
    /\ requests' = [requests EXCEPT ![r] = Away]
    /\ UNCHANGED <<now, process, journal, watching, file, starts>>

AbortAll(rs) ==
    [r \in Requests |->
        IF r \in rs /\ requests[r].at = "live" /\ requests[r].aborted = Never
        THEN [requests[r] EXCEPT !.aborted = now] ELSE requests[r]]

ClientLeaves(r) ==
    /\ Running /\ r \in Live /\ requests[r].aborted = Never
    /\ requests' = AbortAll({r})
    /\ UNCHANGED <<now, process, journal, watching, file, starts>>

(* recordRequest writes the row; the request leaves activeMetrics in the   *)
(* same turn.                                                              *)
Finish(r) ==
    /\ Running /\ r \in Live
    /\ requests' = [requests EXCEPT ![r] = Away]
    /\ journal' = journal \cup {r}
    /\ UNCHANGED <<now, process, watching, file, starts>>

----------------------------------------------------------------------------
(* The watchdog: a tick takes a snapshot of the live requests and waits    *)
(* for the message about each stuck one; the next tick may overtake it.    *)
IsStuck(r, at) == at > requests[r].since + DeadlineMs + StuckMs

WatchStart(w) ==
    /\ Up /\ watch[w] = Asleep
    /\ watch' = [watch EXCEPT ![w] = [at |-> "looking",
                                      left |-> {r \in Live : IsStuck(r, now)}]]
    /\ UNCHANGED <<now, process, requests, journal, stuck, told, file, starts>>

WatchSkip(w, r) ==
    /\ r \in stuck
    /\ watch' = [watch EXCEPT ![w].left = @ \ {r}]
    /\ UNCHANGED <<requests, stuck, told>>

(* Mutant of WatchAborts: the request is remembered once it has been told. *)
WatchAbortsLate(w, r) ==
    /\ r \notin stuck
    /\ requests' = AbortAll({r})
    /\ told' = [told EXCEPT ![r] = @ + 1]
    /\ watch' = [watch EXCEPT ![w].at = "telling", ![w].left = @ \ {r}]
    /\ UNCHANGED stuck

(* Mutant of WatchAborts: the stuck request is told, not aborted.          *)
WatchTells(w, r) ==
    /\ r \notin stuck
    /\ stuck' = stuck \cup {r}
    /\ told' = [told EXCEPT ![r] = @ + 1]
    /\ watch' = [watch EXCEPT ![w].at = "telling", ![w].left = @ \ {r}]
    /\ UNCHANGED requests

(* By now the request may have ended: it is told nevertheless.             *)
WatchAborts(w, r) ==
    /\ r \notin stuck
    /\ stuck' = stuck \cup {r}
    /\ requests' = AbortAll({r})
    /\ told' = [told EXCEPT ![r] = @ + 1]
    /\ watch' = [watch EXCEPT ![w].at = "telling", ![w].left = @ \ {r}]

WatchLooks(w, r) ==
    /\ Running /\ watch[w].at = "looking" /\ r \in watch[w].left
    /\ WatchSkip(w, r) \/ WatchAborts(w, r)
    /\ UNCHANGED <<now, process, journal, file, starts>>

WatchTold(w) ==
    /\ Running /\ watch[w].at = "telling"
    /\ watch' = [watch EXCEPT ![w].at = "looking"]
    /\ UNCHANGED <<now, process, requests, journal, stuck, told, file, starts>>

(* The disk is looked at last.                                             *)
WatchEnds(w) ==
    /\ Running /\ watch[w].at = "looking" /\ watch[w].left = {}
    /\ watch' = [watch EXCEPT ![w] = Asleep]
    /\ UNCHANGED <<now, process, requests, journal, stuck, told, file, starts>>

----------------------------------------------------------------------------
(* gracefulShutdown.                                                       *)

(* Mutant of Closing: the drain timer is armed after app.close().          *)
ClosingFirst ==
    [process EXCEPT !.phase = "closing", !.drainAt = now + DrainMs + CloseGraceMs + 1,
                    !.giveUpAt = now + DrainMs + CloseGraceMs]

Closing ==
    [process EXCEPT !.phase = "closing", !.drainAt = now + DrainMs,
                    !.giveUpAt = now + DrainMs + CloseGraceMs]

Sigterm ==
    /\ Up
    /\ process' = Closing
    /\ UNCHANGED <<now, requests, journal, watching, file, starts>>

DrainDue == process.phase = "closing" /\ ~process.drained /\ now >= process.drainAt

Drain ==
    /\ DrainDue
    /\ process' = [process EXCEPT !.drained = TRUE]
    /\ requests' = AbortAll(Live)
    /\ UNCHANGED <<now, journal, watching, file, starts>>

(* Mutant of ClosedOrGivenUp: app.close() is awaited alone.                *)
ClosedOnly ==
    /\ process.phase = "closing"
    /\ Connected = {}
    /\ process' = [process EXCEPT !.phase = "settling", !.giveUpAt = now + SettleMs]
    /\ UNCHANGED <<now, requests, journal, watching, file, starts>>

(* app.close() resolves when the last connection is gone, or is given up.  *)
ClosedOrGivenUp ==
    /\ process.phase = "closing"
    /\ Connected = {} \/ (now >= process.giveUpAt /\ ~DrainDue)
    /\ process' = [process EXCEPT !.phase = "settling", !.giveUpAt = now + SettleMs]
    /\ UNCHANGED <<now, requests, journal, watching, file, starts>>

(* Mutant of Stopped: the file is written afresh.                          *)
StoppedAfresh == [startedAt |-> now, stoppedAt |-> now]

(* recordShutdown.                                                         *)
Stopped == [file EXCEPT !.stoppedAt = now]

(* The process is gone, and its memory; ended is for the property only.    *)
Gone(gracefully) ==
    /\ process' = [process EXCEPT !.phase = "down",
                                  !.ended = [at |-> now, gracefully |-> gracefully]]
    /\ requests' = [r \in Requests |-> IF requests[r] = Idle THEN Idle ELSE Away]
    /\ watch' = [w \in Ticks |-> Asleep] /\ stuck' = {} /\ told' = [r \in Requests |-> 0]
    /\ UNCHANGED <<now, journal, starts>>

(* Then the database is closed and the process exits.                      *)
Exit ==
    /\ process.phase = "settling"
    /\ Live = {} \/ now >= process.giveUpAt
    /\ file' = Stopped
    /\ Gone(TRUE)

(* A crash, or systemd loses patience.                                     *)
Crash ==
    /\ Running /\ starts < MaxStarts
    /\ UNCHANGED file
    /\ Gone(FALSE)

FreshProcess(t) ==
    [phase |-> "up", startedAt |-> t, uptime |-> Never, drained |-> FALSE, drainAt |-> Never,
     giveUpAt |-> Never, ended |-> [at |-> Never, gracefully |-> FALSE]]

(* readPrevUptime.                                                         *)
PrevUptime ==
    IF file.startedAt = Never THEN Never
    ELSE IF file.stoppedAt >= file.startedAt THEN file.stoppedAt - file.startedAt
    ELSE now - file.startedAt

(* writeCurrentState.                                                      *)
Started == [startedAt |-> now, stoppedAt |-> Never]

Start ==
    /\ process.phase = "down" /\ starts < MaxStarts
    /\ process' = [FreshProcess(now) EXCEPT !.uptime = PrevUptime]
    /\ file' = Started
    /\ starts' = starts + 1
    /\ UNCHANGED <<now, requests, journal, watching>>

(* Timers fire on time, and what was aborted answers in time.              *)
Overdue ==
    \/ DrainDue
    \/ process.phase = "closing" /\ now >= process.giveUpAt
    \/ process.phase = "settling" /\ now >= process.giveUpAt
    \/ \E r \in Live \ Hanging : Running /\ requests[r].aborted # Never
                                 /\ now >= requests[r].aborted + ReactsIn

Pass ==
    /\ now < MaxNow \/ process.phase \in {"closing", "settling"}
    /\ ~Overdue
    /\ now' = now + 1
    /\ UNCHANGED <<process, requests, journal, watching, file, starts>>

----------------------------------------------------------------------------
Init ==
    /\ now = 0 /\ starts = 0
    /\ process = FreshProcess(0)
    /\ file = [startedAt |-> 0, stoppedAt |-> Never]
    /\ requests = [r \in Requests |-> Idle]
    /\ journal = {}
    /\ watch = [w \in Ticks |-> Asleep] /\ stuck = {} /\ told = [r \in Requests |-> 0]

Reacts(r) == r \in Live /\ requests[r].aborted # Never /\ Finish(r)

Request(r) ==
    Arrive(r) \/ Register(r) \/ UploadBreaks(r) \/ ClientLeaves(r) \/ Finish(r)

Watch(w) ==
    \/ WatchStart(w) \/ WatchTold(w) \/ WatchEnds(w)
    \/ \E r \in Requests : WatchLooks(w, r)

Shutdown == Sigterm \/ Drain \/ ClosedOrGivenUp \/ Exit

Next ==
    \/ \E r \in Requests : Request(r)
    \/ \E w \in Ticks : Watch(w)
    \/ Shutdown \/ Crash \/ Start \/ Pass

(* Time passes, timers fire, and Telegram answers or times out after 10 s, *)
(* and what was aborted and does not hang answers.  Nothing else must       *)
(* happen.                                                                 *)
Spec ==
    /\ Init /\ [][Next]_vars
    /\ WF_vars(Pass) /\ WF_vars(Drain) /\ WF_vars(ClosedOrGivenUp) /\ WF_vars(Exit)
    /\ \A r \in Requests \ Hanging : WF_vars(Reacts(r))
    /\ \A w \in Ticks :
          WF_vars(WatchTold(w) \/ (\E r \in Requests : WatchLooks(w, r)) \/ WatchEnds(w))
    /\ WF_vars(\E w \in Ticks : WatchStart(w))

----------------------------------------------------------------------------
TypeOK ==
    /\ now \in Nat /\ starts \in 0..MaxStarts
    /\ process.phase \in {"up", "closing", "settling", "down"}
    /\ process.uptime \in Nat \cup {Never}
    /\ \A r \in Requests : requests[r].at \in {"idle", "uploading", "live", "away"}
    /\ journal \subseteq Requests /\ stuck \subseteq Requests
    /\ \A w \in Ticks : watch[w] = Asleep \/ watch[w].left \subseteq Requests

(* The watchdog aborts and tells a stuck request once, though its ticks    *)
(* overlap.                                                                *)
StuckToldOnce == \A r \in Requests : told[r] <= 1

(* A graceful shutdown loses no row of a request that reacts to its abort, *)
(* but for those that were still uploading when the drain was over.        *)
ExitKeepsRows ==
    [][Exit => \A r \in Live : r \in Hanging \/ requests[r].late]_vars

(* After a graceful stop the uptime that is told is that of the process    *)
(* that stopped; after a crash it is at least that.                        *)
UptimeIsTrue ==
    [][Start => LET ran == process.ended.at - process.startedAt
                IN  IF process.ended.gracefully THEN process'.uptime = ran
                    ELSE process'.uptime >= ran]_vars

(* A shutdown ends, whatever the requests do.                              *)
ShutdownEnds == (process.phase = "closing") ~> (process.phase = "down")

(* A stuck request is aborted as long as the watchdog runs.                *)
StuckIsAborted ==
    \A r \in Requests :
        (Up /\ r \in Live /\ IsStuck(r, now)) ~> (r \notin Live \/ requests[r].aborted # Never \/ ~Up)

(* The watchdog's ticks, however they overlap, treat the live requests as  *)
(* one tick would.                                                         *)
WatchdogSound == TypeOK /\ StuckToldOnce

(* What an exit leaves behind is true: the rows of the journal, and the    *)
(* file from which the next start tells the uptime.                        *)
ExitIsHonest == ExitKeepsRows /\ UptimeIsTrue

(* Neither a shutdown nor, while the watchdog runs, a request hangs.       *)
NothingHangs == ShutdownEnds /\ StuckIsAborted
=============================================================================
