----------------------------- MODULE AttemptLoop -----------------------------
(***************************************************************************)
(* The state one upstream request keeps and the steps both modes share,    *)
(* with the non-streaming answers of runChatAttempts                       *)
(* (upstream/chat-attempt-loop.ts).                                        *)
(*                                                                         *)
(* A timer set for t fires at some moment of t..t+Jitter: an event loop    *)
(* runs a timer late, never early.  Time stands still while something that *)
(* is ready has not run.                                                   *)
(***************************************************************************)
EXTENDS RetryPolicy, Sequences

CONSTANT Jitter   \* bound: how late a timer may run

ASSUME JitterAssumption == Jitter \in Nat

VARIABLES now,       \* Date.now()
          pc,        \* where the request is
          attempt,   \* attempt
          timers,    \* when each armed timer is due
          aborted,   \* did opts.signal fire, and for what?
          onWire,    \* was the current call handed to the network?
          rows,      \* the rows emitAttempt gave to billing_attempts
          result     \* what the caller gets

loopVars == <<now, pc, attempt, timers, aborted, onWire, rows, result>>

\* Waiting for: the answer; a body that is no stream; the first event; more
\* events; the client to read; the client to read the error event.
Calling   == {"calling", "reading", "awaitingEvent"}
Streaming == {"pumping", "writing"}
Pcs == {"top", "sleeping", "closing", "returned"} \cup Calling \cup Streaming

TimerNames == {"attempt", "headers", "firstEvent", "idle", "deadline", "sleep"}
Off == -1
AllOff == [t \in TimerNames |-> Off]
Fires(t) == timers[t] # Off /\ now >= timers[t]

Kinds == {"success", "malformed_success", "body_level_error", "upstream_error",
          "network_error", "upstream_response_too_large", "stream_upstream_error",
          "stream_incomplete", "client_aborted"}

\* Rows of billing_attempts: was a request really sent, might another try help?
Row(kind, retryable) == [kind |-> kind, retryable |-> retryable, sent |-> onWire]

NoResult == [kind |-> "none", attempts |-> 0]
Result(kind) == [kind |-> kind, attempts |-> attempt]

LoopTypeOK ==
    /\ now \in Nat
    /\ pc \in Pcs
    /\ attempt \in 1..MaxAttempts
    /\ timers \in [TimerNames -> Nat \cup {Off}]
    /\ aborted \in {"no", "client", "proxy"}
    /\ onWire \in BOOLEAN
    /\ rows \in Seq([kind : Kinds, retryable : BOOLEAN, sent : BOOLEAN])
    /\ result \in [kind : Kinds \cup {"none", "deadline_exceeded"}, attempts : 0..MaxAttempts]

\* Called once the queues let the request through, at any time after its
\* arrival at 0: before or after its deadline.
LoopInit ==
    /\ now \in 0..(DeadlineAt + 1)
    /\ pc = "top"
    /\ attempt = 1
    /\ timers = AllOff
    /\ onWire = FALSE
    /\ rows = << >>
    /\ result = NoResult

------------------------------------------------------------------------------
(* The head of the loop.                                                    *)

\* makeDeadlineExceeded: the budget is used up, no further attempt.
NoTimeLeft ==
    /\ pc = "top"
    /\ ~HasTimeFor(now, 0)
    /\ pc' = "returned"
    /\ result' = [kind |-> "deadline_exceeded", attempts |-> attempt - 1]
    /\ UNCHANGED <<now, attempt, timers, aborted, onWire, rows>>

\* A call with its timers.  undici sends nothing when the signal has fired.
StartCall(armed) ==
    /\ pc = "top"
    /\ HasTimeFor(now, 0)
    /\ pc' = "calling"
    /\ timers' = armed
    /\ onWire' = (aborted = "no")
    /\ UNCHANGED <<now, attempt, aborted, rows, result>>

------------------------------------------------------------------------------
(* The end of an attempt.                                                   *)

\* emitAttempt, then the wait before another attempt or the result of this one.
EndAttempt(kind, retryable, retry, wait) ==
    /\ rows' = Append(rows, Row(kind, retryable))
    /\ IF retry /\ HasTimeFor(now, wait)
       THEN /\ pc' = "sleeping"
            /\ timers' = [AllOff EXCEPT !["sleep"] = now + wait]
            /\ UNCHANGED result
       ELSE /\ pc' = "returned"
            /\ timers' = AllOff
            /\ result' = Result(kind)
    /\ UNCHANGED <<now, attempt, aborted, onWire>>

\* The attempt failed in a way that is retried, or not, as usual.
FailAttempt(kind, retryable, wait) ==
    EndAttempt(kind, retryable,
               ShouldRetry(retryable, attempt, now, aborted # "no"), wait)

\* A complete answer that is not a stream of events.
ProviderAnswers(resp) ==
    /\ onWire
    /\ LET c == Classify(resp)
       IN  FailAttempt(c.kind, c.retryable, RetryWait(resp, attempt))

\* The connection broke, or the signal had fired or fires.
TransportFails == FailAttempt("network_error", TRUE, Backoff(attempt))

\* The wait is over; nothing ends it earlier.
WakeUp ==
    /\ pc = "sleeping"
    /\ Fires("sleep")
    /\ pc' = "top"
    /\ attempt' = attempt + 1
    /\ timers' = AllOff
    /\ onWire' = FALSE
    /\ UNCHANGED <<now, aborted, rows, result>>

\* A second goes by: no ready step is pending, no timer is overdue.
TimePasses ==
    /\ pc \notin {"top", "closing", "returned"}
    /\ aborted = "no" \/ pc = "sleeping"
    /\ \A t \in TimerNames : timers[t] = Off \/ now < timers[t] + Jitter
    /\ now' = now + 1
    /\ UNCHANGED <<pc, attempt, timers, aborted, onWire, rows, result>>
==============================================================================
