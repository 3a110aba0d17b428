----------------------------- MODULE SiteContour -----------------------------
(***************************************************************************)
(* The site contour (routes/chat-completions.ts) over FairnessManager,     *)
(* ActiveRequests (dedup/active-requests.ts), ActiveMetrics                *)
(* (concurrency/active-metrics.ts) and reloads of the site registry.       *)
(*                                                                         *)
(* A request takes its admission slot in the onRequest hook, has its body  *)
(* read, then its handler either joins the running execution of its        *)
(* idempotency key or starts one: client queue, global queue, upstream.    *)
(* The slot goes back only in the onResponse or onRequestAbort hook, and a *)
(* connection may break so that neither hook ever runs.                    *)
(***************************************************************************)
EXTENDS NestedQueues

CONSTANTS Keys,        \* idempotency keys
          NoKey,       \* a request without (a valid) X-Idempotency-Key
          KeyOf,       \* the idempotency key of a request
          None,        \* no request
          LossyHooks,  \* may a connection break without any hook running?
          MaxReloads   \* bound: reloads of the registry in one behaviour

ASSUME SiteAssumption ==
    /\ NoKey \notin Keys
    /\ KeyOf \in [Requests -> Keys \cup {NoKey}]
    /\ None \notin Requests
    /\ LossyHooks \in BOOLEAN
    /\ MaxReloads \in Nat

VARIABLES tenants,      \* the published registry snapshot
          reloads,      \* registry reloads so far
          phase,        \* where a request is in its HTTP life
          admitted,     \* proxyContext.admitted
          released,     \* proxyContext.released
          live,         \* the Map of ActiveMetrics
          aborted,      \* live requests whose AbortController fired
          dedup,        \* the Map of ActiveRequests: key -> owner
          waitsFor,     \* the owner of the execution a handler awaits
          journal       \* the execution id of a request's journal row

requestVars == <<phase, admitted, released, live, aborted, journal>>
execVars    == <<dedup, waitsFor, queueVars>>
vars == <<fairnessVars, tenants, reloads, requestVars, execVars>>

Phases == {"idle", "refused", "body", "awaiting", "replied", "done", "gone"}

DedupKeys == Clients \X Keys
DedupKey(r) == <<ClientOf[r], KeyOf[r]>>
DedupSize == Cardinality({k \in DedupKeys : dedup[k] # None})

TypeOK ==
    /\ FairnessTypeOK
    /\ QueuesTypeOK
    /\ tenants \in [Clients -> Limits \cup {NoTenant}]
    /\ reloads \in 0..MaxReloads
    /\ phase \in [Requests -> Phases]
    /\ admitted \in [Requests -> BOOLEAN]
    /\ released \in [Requests -> BOOLEAN]
    /\ live \subseteq Requests
    /\ aborted \subseteq Requests
    /\ dedup \in [DedupKeys -> Requests \cup {None}]
    /\ waitsFor \in [Requests -> Requests \cup {None}]
    /\ journal \in [Requests -> Requests \cup {None}]

Init ==
    /\ tenants \in [Clients -> Limits \cup {NoTenant}]
    /\ FairnessInit(tenants)
    /\ QueuesInit
    /\ reloads = 0
    /\ phase = [r \in Requests |-> "idle"]
    /\ admitted = [r \in Requests |-> FALSE]
    /\ released = [r \in Requests |-> FALSE]
    /\ live = {}
    /\ aborted = {}
    /\ dedup = [k \in DedupKeys |-> None]
    /\ waitsFor = [r \in Requests |-> None]
    /\ journal = [r \in Requests |-> None]

------------------------------------------------------------------------------
(* The onRequest hook.                                                      *)

\* 401 for a token the snapshot does not know, 413 for a declared length.
OnRequestTurnedAway(r) ==
    /\ phase[r] = "idle"
    /\ phase' = [phase EXCEPT ![r] = "refused"]
    /\ UNCHANGED <<fairnessVars, tenants, reloads, admitted, released, live,
                   aborted, journal, execVars>>

KeyActive(r) == KeyOf[r] # NoKey /\ dedup[DedupKey(r)] # None

\* The key is being executed: the request goes on without a slot.
OnRequestJoin(r) ==
    /\ phase[r] = "idle"
    /\ tenants[ClientOf[r]] # NoTenant
    /\ KeyActive(r)
    /\ phase' = [phase EXCEPT ![r] = "body"]
    /\ UNCHANGED <<fairnessVars, tenants, reloads, admitted, released, live,
                   aborted, journal, execVars>>

\* tryAdmit decides: a slot and on to the body, or 503 with Retry-After.
OnRequestAdmission(r) ==
    LET c  == ClientOf[r]
        ok == AdmitResult(c, tenants[c], DedupSize) = "ok"
    IN  /\ phase[r] = "idle"
        /\ tenants[c] # NoTenant
        /\ ~KeyActive(r)
        /\ TryAdmit(c, tenants[c], DedupSize)
        /\ admitted' = [admitted EXCEPT ![r] = ok]
        /\ phase' = [phase EXCEPT ![r] = IF ok THEN "body" ELSE "refused"]
        /\ UNCHANGED <<tenants, reloads, released, live, aborted, journal, execVars>>

------------------------------------------------------------------------------
(* The hooks that give the slot back.                                       *)

\* releaseAdmission: at most one release per admitted request.
ReleaseAdmission(r) ==
    IF admitted[r] /\ ~released[r]
    THEN /\ released' = [released EXCEPT ![r] = TRUE]
         /\ Release(ClientOf[r])
    ELSE UNCHANGED <<released, fairnessVars>>

OnResponse(r) ==
    /\ phase[r] = "replied"
    /\ phase' = [phase EXCEPT ![r] = "done"]
    /\ ReleaseAdmission(r)
    /\ UNCHANGED <<tenants, reloads, admitted, live, aborted, journal, execVars>>

\* The client left before the answer; without a complete body no handler runs.
OnRequestAbort(r) ==
    /\ phase[r] \in {"body", "awaiting"}
    /\ phase' = [phase EXCEPT ![r] = IF @ = "body" THEN "gone" ELSE @]
    /\ ReleaseAdmission(r)
    /\ aborted' = IF r \in live THEN aborted \cup {r} ELSE aborted
    /\ UNCHANGED <<tenants, reloads, admitted, live, journal, execVars>>

\* The connection breaks and neither hook runs for the request any more.
HooksLost(r) ==
    /\ LossyHooks
    /\ phase[r] \in {"body", "replied"}
    /\ phase' = [phase EXCEPT ![r] = "gone"]
    /\ UNCHANGED <<fairnessVars, tenants, reloads, admitted, released, live,
                   aborted, journal, execVars>>

------------------------------------------------------------------------------
(* handleChat, up to its await.                                             *)

\* 400 (or Fastify's own body error): nothing was registered.
HandleInvalid(r) ==
    /\ phase[r] = "body"
    /\ phase' = [phase EXCEPT ![r] = "replied"]
    /\ UNCHANGED <<fairnessVars, tenants, reloads, admitted, released, live,
                   aborted, journal, execVars>>

\* registerOrJoinTracked finds the key: wait for its owner's result.
HandleJoin(r) ==
    /\ phase[r] = "body"
    /\ KeyActive(r)
    /\ phase' = [phase EXCEPT ![r] = "awaiting"]
    /\ live' = live \cup {r}
    /\ waitsFor' = [waitsFor EXCEPT ![r] = dedup[DedupKey(r)]]
    /\ UNCHANGED <<fairnessVars, tenants, reloads, admitted, released, aborted,
                   journal, dedup, queueVars>>

\* registerOrJoinTracked throws ActiveDedupFullError: 503, no journal row.
HandleDedupFull(r) ==
    /\ phase[r] = "body"
    /\ KeyOf[r] # NoKey
    /\ ~KeyActive(r)
    /\ DedupSize >= MaxActiveDedupKeys
    /\ phase' = [phase EXCEPT ![r] = "replied"]
    /\ UNCHANGED <<fairnessVars, tenants, reloads, admitted, released, live,
                   aborted, journal, execVars>>

\* Defect: the factory runs without looking for the key.
HandleExecuteBlind(r) ==
    /\ phase[r] = "body"
    /\ KeyOf[r] # NoKey => DedupSize < MaxActiveDedupKeys \/ KeyActive(r)
    /\ phase' = [phase EXCEPT ![r] = "awaiting"]
    /\ live' = live \cup {r}
    /\ waitsFor' = [waitsFor EXCEPT ![r] = r]
    /\ dedup' = IF KeyOf[r] = NoKey THEN dedup
                ELSE [dedup EXCEPT ![DedupKey(r)] = r]
    /\ Enqueue(r)
    /\ UNCHANGED <<fairnessVars, tenants, reloads, admitted, released, aborted, journal>>

\* The factory runs: an execution of its own, under its key if it has one.
HandleExecute(r) ==
    /\ phase[r] = "body"
    /\ ~KeyActive(r)
    /\ KeyOf[r] # NoKey => DedupSize < MaxActiveDedupKeys
    /\ phase' = [phase EXCEPT ![r] = "awaiting"]
    /\ live' = live \cup {r}
    /\ waitsFor' = [waitsFor EXCEPT ![r] = r]
    /\ dedup' = IF KeyOf[r] = NoKey THEN dedup
                ELSE [dedup EXCEPT ![DedupKey(r)] = r]
    /\ Enqueue(r)
    /\ UNCHANGED <<fairnessVars, tenants, reloads, admitted, released, aborted, journal>>

------------------------------------------------------------------------------
(* The execution.                                                           *)

StartClientTask(r) ==
    /\ StartClient(r)
    /\ UNCHANGED <<fairnessVars, tenants, reloads, requestVars, dedup, waitsFor>>

StartGlobalTask(r) ==
    /\ StartGlobal(r, "upstream")
    /\ UNCHANGED <<fairnessVars, tenants, reloads, requestVars, dedup, waitsFor>>

\* client.execute settles, its places are freed and the key is forgotten.
FinishExecution(r) ==
    /\ stage[r] = "upstream"
    /\ Settle(r)
    /\ dedup' = IF KeyOf[r] = NoKey THEN dedup
                ELSE [dedup EXCEPT ![DedupKey(r)] = None]
    /\ UNCHANGED <<fairnessVars, tenants, reloads, requestVars, waitsFor>>

\* Defect: the row of a joined request carries an execution id of its own.
HandlerDoneOwnId(r) ==
    /\ phase[r] = "awaiting"
    /\ stage[waitsFor[r]] = "settled"
    /\ phase' = [phase EXCEPT ![r] = "replied"]
    /\ live' = live \ {r}
    /\ journal' = [journal EXCEPT ![r] = r]
    /\ UNCHANGED <<fairnessVars, tenants, reloads, admitted, released, aborted,
                   execVars>>

\* handleChat resumes: unregister, one journal row, the reply.
HandlerDone(r) ==
    /\ phase[r] = "awaiting"
    /\ stage[waitsFor[r]] = "settled"
    /\ phase' = [phase EXCEPT ![r] = "replied"]
    /\ live' = live \ {r}
    /\ journal' = [journal EXCEPT ![r] = waitsFor[r]]
    /\ UNCHANGED <<fairnessVars, tenants, reloads, admitted, released, aborted,
                   execVars>>

------------------------------------------------------------------------------
\* The registry publishes a new snapshot and syncClients follows it.
RegistryReload ==
    /\ reloads < MaxReloads
    /\ reloads' = reloads + 1
    /\ tenants' \in [Clients -> Limits \cup {NoTenant}]
    /\ SyncClients(tenants')
    /\ UNCHANGED <<requestVars, execVars>>

Next ==
    \/ \E r \in Requests :
          \/ OnRequestTurnedAway(r) \/ OnRequestJoin(r) \/ OnRequestAdmission(r)
          \/ OnResponse(r) \/ OnRequestAbort(r) \/ HooksLost(r)
          \/ HandleInvalid(r) \/ HandleJoin(r) \/ HandleDedupFull(r) \/ HandleExecute(r)
          \/ StartClientTask(r) \/ StartGlobalTask(r) \/ FinishExecution(r) \/ HandlerDone(r)
    \/ RegistryReload

Spec == Init /\ [][Next]_vars

\* The event loop runs what is ready and the deadline bounds every upstream
\* call.  Clients owe nothing: no arrival, upload or disconnection is fair.
Fairness ==
    \A r \in Requests : /\ WF_vars(OnResponse(r))
                        /\ WF_vars(StartClientTask(r))
                        /\ WF_vars(StartGlobalTask(r))
                        /\ WF_vars(FinishExecution(r))
                        /\ WF_vars(HandlerDone(r))

FairSpec == Spec /\ Fairness

------------------------------------------------------------------------------
(* Properties.                                                              *)

\* Requests that were given a slot and have not given it back.
Holders == {r \in Requests : admitted[r] /\ ~released[r]}
HoldersOf(c) == {r \in Holders : ClientOf[r] = c}

\* The counters of FairnessManager are exact at every moment, through joins,
\* aborts, reloads and slots deleted and re-created: a client's active is the
\* number of its requests that hold a slot, globalActive is their total.
Accounting ==
    /\ \A c \in Clients : slots[c].active = Cardinality(HoldersOf(c))
    /\ globalActive = Cardinality(Holders)

\* The point of ActiveRequests: an idempotency key of a client never has two
\* executions in flight, whatever requests carry it and however they arrive.
OneExecutionPerKey ==
    \A r, s \in Requests :
        (/\ KeyOf[r] # NoKey
         /\ DedupKey(r) = DedupKey(s)
         /\ InFlight(r)
         /\ InFlight(s)) => r = s

\* A journal row of a joined request names an execution that really ran, for
\* the same client and the same key, so that billing counts it once.
JoinedRowsNameTheOwner ==
    \A r \in Requests : journal[r] # None =>
        LET o == journal[r]
        IN  /\ waitsFor[o] = o
            /\ stage[o] = "settled"
            /\ o # r => KeyOf[r] # NoKey /\ DedupKey(o) = DedupKey(r)

\* ActiveMetrics.register and the onRequest hook: a request without a slot
\* shares the promise of an admitted one, it never makes its own execution.
OnlyAdmittedExecute == \A r \in Requests : stage[r] # "none" => admitted[r]

\* Every handler that waits for an execution gets its result: no queue of the
\* contour blocks forever while upstream calls end.
EveryHandlerReplies ==
    \A r \in Requests : phase[r] = "awaiting" ~> phase[r] # "awaiting"

\* The counters implement a counting semaphore over the requests themselves.
Semaphore == INSTANCE CountingSemaphore WITH
    GlobalCap <- GlobalMaxPending,
    holders   <- Holders,
    spent     <- {r \in Requests : released[r]},
    cap       <- [c \in Clients |-> IF tenants[c] = NoTenant THEN 0
                                    ELSE tenants[c].maxConcurrency + tenants[c].maxPending]

ImplementsSemaphore == Semaphore!SemSpec
==============================================================================
