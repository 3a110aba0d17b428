----------------------------- MODULE AgentStream -----------------------------
(***************************************************************************)
(* One request to a provider, in either mode: runChatAttempts for sites    *)
(* and for agents that want no stream, executeStreaming of                 *)
(* upstream/openai-compatible-client.ts for those that do, with the        *)
(* ReplyStreamSink it writes to.                                           *)
(*                                                                         *)
(* A stream may be tried again until the first event has come; then it is  *)
(* committed: 200 and the bytes go to the client, and whatever happens     *)
(* later must be told inside the stream.                                   *)
(***************************************************************************)
EXTENDS AttemptLoop

CONSTANTS HeadersTimeout,     \* policy.headersTimeoutMs
          FirstEventTimeout,  \* policy.firstEventTimeoutMs
          IdleTimeout         \* policy.idleTimeoutMs

ASSUME StreamAssumption ==
    /\ HeadersTimeout \in Nat \ {0}
    /\ FirstEventTimeout \in Nat \ {0}
    /\ IdleTimeout \in Nat \ {0}

VARIABLES streaming,     \* executeStreaming or runChatAttempts
          committed,     \* sink.committed
          closed,        \* sink.clientClosed()
          seen,          \* what StreamState saw: [DONE], an error event
          told,          \* was an error event of the proxy written?
          ended,         \* sink.end() ended the response
          outcome        \* classification a pending tryWrite will report

streamVars == <<committed, closed, seen, told, ended, outcome>>
vars == <<loopVars, streaming, streamVars>>

TypeOK ==
    /\ LoopTypeOK
    /\ streaming \in BOOLEAN
    /\ committed \in BOOLEAN
    /\ closed \in BOOLEAN
    /\ seen \subseteq {"done", "error"}
    /\ told \in BOOLEAN
    /\ ended \in BOOLEAN
    /\ outcome \in Kinds \cup {"none"}

\* A site request may have been aborted in the queues; an agent request is
\* checked there and comes here with its signal quiet.
Init ==
    /\ LoopInit
    /\ streaming \in BOOLEAN
    /\ aborted \in IF streaming THEN {"no"} ELSE {"no", "client", "proxy"}
    /\ closed = (aborted = "client")
    /\ committed = FALSE
    /\ seen = {}
    /\ told = FALSE
    /\ ended = FALSE
    /\ outcome = "none"

------------------------------------------------------------------------------
(* The client and the proxy around the request.                             *)

\* The connection of the client closes: sink.onClose aborts the request.
ClientCloses ==
    /\ pc # "returned"
    /\ ~closed
    /\ closed' = TRUE
    /\ aborted' = IF aborted = "no" THEN "client" ELSE aborted
    /\ UNCHANGED <<now, pc, attempt, timers, onWire, rows, result,
                   streaming, committed, seen, told, ended, outcome>>

\* Watchdog, shutdown or a revoked key; the first abort is the one that counts.
ProxyAborts ==
    /\ pc # "returned"
    /\ aborted = "no"
    /\ aborted' = "proxy"
    /\ UNCHANGED <<now, pc, attempt, timers, onWire, rows, result,
                   streaming, streamVars>>

------------------------------------------------------------------------------
(* Both modes.                                                              *)

GiveUp  == NoTimeLeft /\ UNCHANGED <<streaming, streamVars>>
Wake    == WakeUp /\ UNCHANGED <<streaming, streamVars>>
Tick    == TimePasses /\ UNCHANGED <<streaming, streamVars>>

\* The connection fails; a fired signal makes it fail at once.
NetworkFails ==
    /\ pc \in Calling
    /\ TransportFails
    /\ UNCHANGED <<streaming, streamVars>>

\* readBodyWithLimit, or PRE_COMMIT_LIMIT_BYTES before the first event.
TooLarge ==
    /\ pc \in IF streaming THEN {"reading", "awaitingEvent"} ELSE {"calling"}
    /\ onWire
    /\ FailAttempt("upstream_response_too_large", FALSE, 0)
    /\ UNCHANGED <<streaming, streamVars>>

------------------------------------------------------------------------------
(* runChatAttempts.                                                         *)

Call ==
    /\ ~streaming
    /\ StartCall([AllOff EXCEPT !["attempt"] = now + AttemptTimeoutAt(now)])
    /\ UNCHANGED <<streaming, streamVars>>

Answer(resp) ==
    /\ ~streaming
    /\ pc = "calling"
    /\ ProviderAnswers(resp)
    /\ UNCHANGED <<streaming, streamVars>>

AttemptTimesOut ==
    /\ pc = "calling"
    /\ Fires("attempt")
    /\ TransportFails
    /\ UNCHANGED <<streaming, streamVars>>

------------------------------------------------------------------------------
(* streamAttempt before the commit.                                         *)

StreamTimers == [AllOff EXCEPT !["headers"]  = now + HeadersTimeout,
                               !["deadline"] = now + DeadlineTimeoutAt(now)]

CallStream ==
    /\ streaming
    /\ StartCall(StreamTimers)
    /\ UNCHANGED <<streaming, streamVars>>

\* The head of the answer: a stream of events, or something else to be read.
AnswerBegins ==
    /\ streaming
    /\ pc = "calling"
    /\ onWire
    /\ \/ /\ pc' = "awaitingEvent"
          /\ timers' = [timers EXCEPT !["headers"] = Off,
                                      !["firstEvent"] = now + FirstEventTimeout,
                                      !["idle"] = now + IdleTimeout]
       \/ /\ pc' = "reading"
          /\ timers' = [timers EXCEPT !["headers"] = Off, !["idle"] = now + IdleTimeout]
    /\ UNCHANGED <<now, attempt, aborted, onWire, rows, result, streaming, streamVars>>

\* nonStreamResponse: a 200 without a stream is paid for and not asked again.
OtherAnswer(resp) ==
    /\ pc = "reading"
    /\ IF resp.status = "ok"
       THEN FailAttempt("malformed_success", FALSE, 0)
       ELSE ProviderAnswers(resp)
    /\ UNCHANGED <<streaming, streamVars>>

\* A keep-alive comment is data, but no event; or part of a long body.
DataWithoutEvent ==
    /\ pc \in {"reading", "awaitingEvent"}
    /\ timers' = [timers EXCEPT !["idle"] = now + IdleTimeout]
    /\ UNCHANGED <<now, pc, attempt, aborted, onWire, rows, result, streaming, streamVars>>

\* preCommitFailure of undici's timers and of the first-event timer.
StreamAttemptTimesOut ==
    /\ streaming
    /\ pc \in Calling
    /\ \E t \in {"headers", "firstEvent", "idle"} : Fires(t)
    /\ TransportFails
    /\ UNCHANGED <<streaming, streamVars>>

\* preCommitFailure of the deadline timer: its own deadline_exceeded ends it.
StreamDeadline ==
    /\ pc \in Calling
    /\ Fires("deadline")
    /\ FailAttempt("network_error", FALSE, 0)
    /\ UNCHANGED <<streaming, streamVars>>

\* The stream ends before any event.
EmptyStream ==
    /\ pc = "awaitingEvent"
    /\ FailAttempt("malformed_success", TRUE, Backoff(attempt))
    /\ UNCHANGED <<streaming, streamVars>>

\* The first event is an error: isRetryableBodyCode tells what to do.
FirstEventIsError ==
    /\ pc = "awaitingEvent"
    /\ \E retryable \in BOOLEAN : FailAttempt("body_level_error", retryable, Backoff(attempt))
    /\ UNCHANGED <<streaming, streamVars>>

------------------------------------------------------------------------------
(* The sink.                                                                *)

\* The finally of pump, the row of the attempt and the outcome.
Finish(kind) ==
    /\ rows' = Append(rows, Row(kind, FALSE))
    /\ result' = Result(kind)
    /\ pc' = "returned"
    /\ timers' = AllOff
    /\ ended' = ~closed

\* tryWrite: nothing for a client that left; else the event is written, and
\* when the client's buffer is full the pump waits, this time without signal.
TellAndFinish(kind) ==
    \/ /\ closed
       /\ Finish(kind)
       /\ UNCHANGED <<told, outcome>>
    \/ /\ ~closed
       /\ pc # "writing"
       /\ told' = TRUE
       /\ Finish(kind)
       /\ UNCHANGED outcome
    \/ /\ ~closed
       /\ told' = TRUE
       /\ outcome' = kind
       /\ pc' = "closing"
       /\ timers' = AllOff
       /\ UNCHANGED <<rows, result, ended>>

\* A write is accepted, or it waits: the client's buffer is full (undici pauses
\* its idle timer while nobody reads the body) or the client has left.
Write ==
    \/ /\ ~closed
       /\ pc' = "pumping"
       /\ timers' = [timers EXCEPT !["firstEvent"] = Off, !["idle"] = now + IdleTimeout]
    \/ /\ pc' = "writing"
       /\ timers' = [timers EXCEPT !["firstEvent"] = Off, !["idle"] = Off]

------------------------------------------------------------------------------
(* streamAttempt from the commit on, and pump.                              *)

\* What one or more events of a chunk add to StreamState.
Events == SUBSET {"done", "error"}

\* The first event is a chunk or [DONE]: the headers and all pending bytes go out.
Commit(events) ==
    /\ pc = "awaitingEvent"
    /\ committed' = TRUE
    /\ seen' = events
    /\ Write
    /\ UNCHANGED <<now, attempt, aborted, onWire, rows, result,
                   streaming, closed, told, ended, outcome>>

Chunk(events) ==
    /\ pc = "pumping"
    /\ ~closed
    /\ seen' = seen \cup events
    /\ Write
    /\ UNCHANGED <<now, attempt, aborted, onWire, rows, result,
                   streaming, committed, closed, told, ended, outcome>>

\* The client reads: 'drain'.
Drain ==
    /\ pc = "writing"
    /\ ~closed
    /\ pc' = "pumping"
    /\ timers' = [timers EXCEPT !["idle"] = now + IdleTimeout]
    /\ UNCHANGED <<now, attempt, aborted, onWire, rows, result, streaming, streamVars>>

\* Defect: the end of the stream is taken for the end of the answer.
StreamEndsQuietly ==
    /\ pc = "pumping"
    /\ IF "error" \in seen THEN Finish("stream_upstream_error")
       ELSE IF "done" \in seen THEN Finish("success") ELSE Finish("stream_incomplete")
    /\ UNCHANGED <<told, outcome>>
    /\ UNCHANGED <<now, attempt, aborted, onWire, streaming, committed, closed, seen>>

\* The provider closes the stream, with or without an error event and [DONE].
StreamEnds ==
    /\ pc = "pumping"
    /\ CASE "error" \in seen -> Finish("stream_upstream_error") /\ UNCHANGED <<told, outcome>>
         [] seen = {"done"}  -> Finish("success") /\ UNCHANGED <<told, outcome>>
         [] OTHER            -> TellAndFinish("stream_incomplete")
    /\ UNCHANGED <<now, attempt, aborted, onWire, streaming, committed, closed, seen>>

\* The catch of pump: a client that left is told nothing, any other is.
PumpFails(kind) ==
    /\ IF closed
       THEN Finish("client_aborted") /\ UNCHANGED <<told, outcome>>
       ELSE TellAndFinish(kind)
    /\ UNCHANGED <<now, attempt, aborted, onWire, streaming, committed, closed, seen>>

\* Defect: a write that waits for the client does not listen to the signal.
StreamBreaksUnsignalled ==
    /\ pc \in Streaming
    /\ pc = "pumping" \/ closed
    /\ PumpFails("network_error")

\* A fired signal, the deadline or the idle timer, a broken connection.
StreamBreaks ==
    /\ pc \in Streaming
    /\ \/ pc = "pumping"
       \/ aborted # "no"
       \/ Fires("deadline")
    /\ PumpFails("network_error")

\* streamLimitBytes
StreamTooLarge ==
    /\ pc = "pumping"
    /\ PumpFails("upstream_response_too_large")

\* The client reads the error event, or closes.
LastWriteEnds ==
    /\ pc = "closing"
    /\ Finish(outcome)
    /\ UNCHANGED <<now, attempt, aborted, onWire, streaming, committed, closed,
                   seen, told, outcome>>

------------------------------------------------------------------------------
Next ==
    \/ ClientCloses \/ ProxyAborts
    \/ GiveUp \/ Wake \/ Tick \/ NetworkFails \/ TooLarge
    \/ Call \/ AttemptTimesOut \/ \E resp \in Responses : Answer(resp) \/ OtherAnswer(resp)
    \/ CallStream \/ AnswerBegins \/ DataWithoutEvent
    \/ StreamAttemptTimesOut \/ StreamDeadline \/ EmptyStream \/ FirstEventIsError
    \/ \E events \in Events : Commit(events) \/ Chunk(events)
    \/ Drain \/ StreamEnds \/ StreamBreaks \/ StreamTooLarge \/ LastWriteEnds

Spec == Init /\ [][Next]_vars

\* What the process itself does: timers fire, time goes by, a fired signal is
\* obeyed, a closed connection ends a write.  Neither the provider nor the
\* client owes anything: nothing makes a client read the last write.
FairSpec ==
    /\ Spec
    /\ WF_vars(GiveUp) /\ WF_vars(Wake) /\ WF_vars(Tick)
    /\ WF_vars(Call) /\ WF_vars(CallStream)
    /\ WF_vars(NetworkFails /\ aborted # "no")
    /\ WF_vars(AttemptTimesOut) /\ WF_vars(StreamAttemptTimesOut) /\ WF_vars(StreamDeadline)
    /\ WF_vars(StreamBreaks /\ (aborted # "no" \/ Fires("idle") \/ Fires("deadline")))
    /\ WF_vars(LastWriteEnds /\ closed)

------------------------------------------------------------------------------
(* Properties.                                                              *)

\* When the last timer of a request may be due.  Without a reserve a call may
\* begin at the deadline itself, and its timer then takes its least time, 1.
LastTimer == IF MinRemaining = 0 THEN DeadlineAt + 1 ELSE DeadlineAt

\* The budget of a request covers all its attempts and waits (README.md:73),
\* through every combination of clipped attempts, Retry-After and late timers;
\* only the last write to a client that does not read is outside of it.
OnTime == pc \in Calling \cup Streaming \cup {"sleeping"} => now <= LastTimer + Jitter

\* Every attempt that began leaves exactly one billing row, however it ends, and
\* the result in the journal of requests counts and names the same attempts.
JournalAgreesWithBilling ==
    /\ Len(rows) = IF pc \in Calling \cup Streaming \cup {"top", "closing"}
                   THEN attempt - 1
                   ELSE IF pc = "returned" THEN result.attempts ELSE attempt
    /\ pc = "returned" /\ result.kind # "deadline_exceeded"
          => rows # << >> /\ result.kind = rows[Len(rows)].kind

\* The provider is asked again only after an attempt worth repeating that left
\* the client without a byte, and never after an abort was seen.
RetriesAreJustified ==
    /\ \A i \in 1..(Len(rows) - 1) : rows[i].retryable /\ rows[i].sent
    /\ committed => /\ pc \in Streaming \cup {"closing", "returned"}
                    /\ onWire
                    /\ pc = "returned" => ~rows[Len(rows)].retryable

\* A request ends with one answer: a stream that was committed, and ended unless
\* the client left, or a result nothing of which was streamed before.
OneAnswer ==
    /\ ended => committed /\ pc = "returned"
    /\ pc = "returned" /\ committed => ended \/ closed
    /\ told => committed

\* A client that is still there can tell a cut stream from a complete answer:
\* unless all was well or the provider said so, it got an error event.
CutsAreTold ==
    ended /\ ~told => result.kind \in {"success", "stream_upstream_error"}

\* storage/db.ts: one row of billing_attempts is one paid call.
RowsArePaidCalls == \A i \in 1..Len(rows) : rows[i].sent

\* The caller always gets its result, whatever the provider does or leaves
\* undone: a timer or a signal ends every state but one.  The last write has
\* neither (tryWrite passes no signal), so a client that keeps its connection
\* and does not read holds the request there, and only there, for ever.
Terminates == <>(pc = "returned") \/ <>[](pc = "closing" /\ ~closed)
==============================================================================
