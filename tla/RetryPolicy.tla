----------------------------- MODULE RetryPolicy -----------------------------
(***************************************************************************)
(* The decisions about time and retries that both upstream clients share:  *)
(* upstream/deadline.ts, upstream/retry.ts and shouldRetry, retryWaitMs of *)
(* upstream/chat-attempt-loop.ts.  Time is counted in seconds.             *)
(***************************************************************************)
EXTENDS Integers

CONSTANTS MaxAttempts,     \* policy.maxAttempts
          MinRemaining,    \* policy.minRemainingMs
          AttemptTimeout,  \* policy.attemptTimeoutMs
          DeadlineAt,      \* deadline.deadlineAt
          RetryAfters,     \* waits a Retry-After header may ask for
          NoHeader         \* no (readable) Retry-After header

ASSUME PolicyAssumption ==
    /\ MaxAttempts \in Nat \ {0}
    /\ MinRemaining \in Nat
    /\ AttemptTimeout \in Nat \ {0}
    /\ DeadlineAt \in Nat
    /\ RetryAfters \subseteq Nat
    /\ NoHeader \notin Nat

\* The deadline timer of a stream; no timer is shorter than 1.
DeadlineTimeoutAt(now) == IF DeadlineAt - now < 1 THEN 1 ELSE DeadlineAt - now

\* Defect: an attempt gets its full time whatever is left.
AttemptTimeoutUnclipped(now) == AttemptTimeout

\* deadline.attemptTimeout: an attempt never outlives the deadline.
AttemptTimeoutAt(now) ==
    LET left == DeadlineAt - now
        cut  == IF left < AttemptTimeout THEN left ELSE AttemptTimeout
    IN  IF cut < 1 THEN 1 ELSE cut

\* deadline.hasTimeFor
HasTimeFor(now, wait) == now + wait + MinRemaining <= DeadlineAt

\* computeBackoffMs: doubles from 2 s, at most 10 s.
Backoff(attempt) ==
    IF attempt <= 3 THEN <<2, 4, 8>>[attempt] ELSE 10

------------------------------------------------------------------------------
(* Answers of the provider, as far as classifyHttp tells them apart.        *)

\* A 2xx body; other statuses are told apart by the status alone.
Bodies == {"content", "error_retryable", "error_final", "no_choices",
           "finish_error", "empty"}
Statuses == {"ok", "throttled", "retryable", "terminal", "other_4xx", "other_5xx"}

Responses == [status : Statuses, body : Bodies, retryAfter : RetryAfters \cup {NoHeader}]

OkKind ==
    [b \in Bodies |-> CASE b = "content" -> "success"
                        [] b \in {"error_retryable", "error_final"} -> "body_level_error"
                        [] OTHER -> "malformed_success"]

\* classifyHttp: the kind of an answer and whether asking again may help.
\* 429 and 503 ("throttled") are the statuses whose Retry-After is obeyed.
Classify(resp) ==
    IF resp.status = "ok"
    THEN [kind      |-> OkKind[resp.body],
          retryable |-> resp.body \in {"error_retryable", "no_choices", "finish_error"}]
    ELSE [kind      |-> "upstream_error",
          retryable |-> resp.status \in {"throttled", "retryable", "other_5xx"}]

\* retryWaitMs
RetryWait(resp, attempt) ==
    IF resp.status = "throttled" /\ resp.retryAfter # NoHeader
    THEN resp.retryAfter ELSE Backoff(attempt)

\* Defect: whatever failed is asked again.
ShouldRetryAnything(retryable, attempt, now, aborted) ==
    /\ ~aborted
    /\ attempt < MaxAttempts
    /\ DeadlineAt - now > MinRemaining

\* shouldRetry
ShouldRetry(retryable, attempt, now, aborted) ==
    /\ ~aborted
    /\ attempt < MaxAttempts
    /\ DeadlineAt - now > MinRemaining
    /\ retryable
==============================================================================
