---------------------------- MODULE AgentContour -----------------------------
(***************************************************************************)
(* The agent contour (agent/plugin.ts, agent/chat-handler.ts,              *)
(* agent/deps.ts) over its own FairnessManager, ActiveMetrics, queues and  *)
(* per-provider limit, with reloads of the agent registry that revoke and  *)
(* restore keys.                                                           *)
(*                                                                         *)
(* A client of FairnessManager is here the owner of a key (slotKey).  In   *)
(* contrast with the site contour a timer bounds the wait for the body,    *)
(* and the handler gives the slot back itself; only its early 400 replies  *)
(* rely on the onResponse hook.  onRequestAbort fires only while the body  *)
(* is being read (reply-stream-sink.ts); later the reply's `close' event   *)
(* reports that the client has gone.                                       *)
(***************************************************************************)
EXTENDS NestedQueues

CONSTANTS Tokens,         \* agent keys
          TokenOf,        \* the key a request carries
          OwnerOf,        \* the owner (slotKey) of a key
          ProviderLimit,  \* maxConcurrency of the provider behind all models
          LossyHooks,     \* may onResponse be missed after an early reply?
          MaxReloads      \* bound: reloads of the registry in one behaviour

ASSUME AgentAssumption ==
    /\ TokenOf \in [Requests -> Tokens]
    /\ OwnerOf \in [Tokens -> Clients]
    /\ \A r \in Requests : ClientOf[r] = OwnerOf[TokenOf[r]]
    /\ ProviderLimit \in Nat \ {0}
    /\ LossyHooks \in BOOLEAN
    /\ MaxReloads \in Nat

VARIABLES valid,         \* tokenIds of the published snapshot
          tenants,       \* its tenants: the owners of valid keys
          reloads,       \* registry reloads so far
          phase,         \* where a request is in its HTTP life
          admitted,      \* agentContext.admitted
          released,      \* agentContext.released
          bodyTimer,     \* requests whose body timer is armed
          live,          \* the Map of ActiveMetrics
          abort,         \* why a request's AbortController fired, if it did
          closed,        \* requests whose sink saw the connection close
          providerWait,  \* the PQueue of ProviderLimiter, oldest first
          outcome,       \* how the queued function settled
          lastWrite,     \* the write of a stream that no signal ends
          journal,       \* the journal row of a request
          first          \* history: what came first while its handler ran

registryVars == <<valid, tenants, reloads>>
requestVars  == <<phase, admitted, released, bodyTimer, live, abort, closed, journal>>
callVars     == <<queueVars, providerWait, outcome, lastWrite>>
execVars     == <<callVars, first>>
vars == <<fairnessVars, registryVars, requestVars, execVars>>

Phases   == {"idle", "refused", "body", "handling", "replied", "done", "gone"}
Aborts   == {"no", "key_revoked", "client_closed"}
Outcomes == {"none", "result", "key_revoked", "client_closed"}
Rows     == {"none", "result", "client_aborted", "401", "499"}
Writes   == {"none", "waits", "read"}
Firsts   == {"none", "revoked", "closed", "called"}

TypeOK ==
    /\ FairnessTypeOK
    /\ QueuesTypeOK
    /\ valid \subseteq Tokens
    /\ tenants \in [Clients -> Limits \cup {NoTenant}]
    /\ reloads \in 0..MaxReloads
    /\ phase \in [Requests -> Phases]
    /\ admitted \in [Requests -> BOOLEAN]
    /\ released \in [Requests -> BOOLEAN]
    /\ bodyTimer \subseteq Requests
    /\ live \subseteq Requests
    /\ abort \in [Requests -> Aborts]
    /\ providerWait \in Seq(Requests)
    /\ outcome \in [Requests -> Outcomes]
    /\ closed \subseteq Requests
    /\ journal \in [Requests -> Rows]
    /\ lastWrite \in [Requests -> Writes]
    /\ first \in [Requests -> Firsts]

\* The tenants of a snapshot in which these keys are valid.
SnapshotTenants(keys) ==
    {tn \in [Clients -> Limits \cup {NoTenant}] :
        \A c \in Clients : tn[c] = NoTenant <=> ~\E t \in keys : OwnerOf[t] = c}

Init ==
    /\ valid \in SUBSET Tokens
    /\ tenants \in SnapshotTenants(valid)
    /\ FairnessInit(tenants)
    /\ QueuesInit
    /\ reloads = 0
    /\ phase = [r \in Requests |-> "idle"]
    /\ admitted = [r \in Requests |-> FALSE]
    /\ released = [r \in Requests |-> FALSE]
    /\ bodyTimer = {}
    /\ live = {}
    /\ abort = [r \in Requests |-> "no"]
    /\ closed = {}
    /\ providerWait = << >>
    /\ outcome = [r \in Requests |-> "none"]
    /\ journal = [r \in Requests |-> "none"]
    /\ lastWrite = [r \in Requests |-> "none"]
    /\ first = [r \in Requests |-> "none"]

\* The history: the first of the three events of a running handler stays.
First(r, event) == IF first[r] = "none" THEN event ELSE first[r]

------------------------------------------------------------------------------
(* Hooks.                                                                   *)

\* 401, 403, 413, 429 of the rate limiter, 503 without a target.
OnRequestTurnedAway(r) ==
    /\ phase[r] = "idle"
    /\ phase' = [phase EXCEPT ![r] = "refused"]
    /\ UNCHANGED <<fairnessVars, registryVars, admitted, released, bodyTimer,
                   live, abort, closed, journal, execVars>>

\* tryAdmit (the contour has no dedup); an admitted request arms the timer.
OnRequestAdmission(r) ==
    LET c  == ClientOf[r]
        ok == AdmitResult(c, tenants[c], 0) = "ok"
    IN  /\ phase[r] = "idle"
        /\ TokenOf[r] \in valid
        /\ TryAdmit(c, tenants[c], 0)
        /\ admitted' = [admitted EXCEPT ![r] = ok]
        /\ phase' = [phase EXCEPT ![r] = IF ok THEN "body" ELSE "refused"]
        /\ bodyTimer' = IF ok THEN bodyTimer \cup {r} ELSE bodyTimer
        /\ UNCHANGED <<registryVars, released, live, abort, closed,
                       journal, execVars>>

\* releaseAgentAdmission: at most one release per admitted request.
ReleaseAgentAdmission(r) ==
    IF admitted[r] /\ ~released[r]
    THEN /\ released' = [released EXCEPT ![r] = TRUE]
         /\ Release(ClientOf[r])
    ELSE UNCHANGED <<released, fairnessVars>>

\* Defect: the timer destroys the connection and leaves the slot to the hooks.
BodyTimeoutKeepsSlot(r) ==
    /\ r \in bodyTimer
    /\ bodyTimer' = bodyTimer \ {r}
    /\ phase' = [phase EXCEPT ![r] = "gone"]
    /\ UNCHANGED <<fairnessVars, registryVars, admitted, released, live, abort,
                   closed, journal, execVars>>

\* The body did not arrive in time: release and destroy the connection.
BodyTimeout(r) ==
    /\ r \in bodyTimer
    /\ bodyTimer' = bodyTimer \ {r}
    /\ ReleaseAgentAdmission(r)
    /\ phase' = [phase EXCEPT ![r] = "gone"]
    /\ UNCHANGED <<registryVars, admitted, live, abort, closed, journal, execVars>>

\* The client left while its body was being read, or the timer destroyed the
\* connection: the handler never runs.
OnRequestAbort(r) ==
    /\ \/ phase[r] = "body"
       \/ phase[r] = "gone" /\ r \notin live
    /\ bodyTimer' = bodyTimer \ {r}
    /\ ReleaseAgentAdmission(r)
    /\ phase' = [phase EXCEPT ![r] = "gone"]
    /\ UNCHANGED <<registryVars, admitted, live, abort, closed, journal, execVars>>

OnResponse(r) ==
    /\ phase[r] = "replied"
    /\ bodyTimer' = bodyTimer \ {r}
    /\ ReleaseAgentAdmission(r)
    /\ phase' = [phase EXCEPT ![r] = "done"]
    /\ UNCHANGED <<registryVars, admitted, live, abort, closed, journal, execVars>>

\* The connection breaks under the reply and onResponse never runs.
OnResponseLost(r) ==
    /\ LossyHooks
    /\ phase[r] = "replied"
    /\ phase' = [phase EXCEPT ![r] = "done"]
    /\ UNCHANGED <<fairnessVars, registryVars, admitted, released, bodyTimer,
                   live, abort, closed, journal, execVars>>

------------------------------------------------------------------------------
(* handleAgentChat.                                                         *)

\* preValidation disarms the timer, then the body is refused with 400.
HandleInvalid(r) ==
    /\ phase[r] = "body"
    /\ bodyTimer' = bodyTimer \ {r}
    /\ phase' = [phase EXCEPT ![r] = "replied"]
    /\ UNCHANGED <<fairnessVars, registryVars, admitted, released, live, abort,
                   closed, journal, execVars>>

\* Defect: preValidation does not disarm the body timer.
HandleExecuteArmed(r) ==
    /\ phase[r] = "body"
    /\ phase' = [phase EXCEPT ![r] = "handling"]
    /\ live' = live \cup {r}
    /\ Enqueue(r)
    /\ UNCHANGED <<fairnessVars, registryVars, admitted, released, bodyTimer, abort,
                   closed, journal, providerWait, outcome, lastWrite, first>>

\* Defect: the request is queued and never registered.
HandleExecuteUnregistered(r) ==
    /\ phase[r] = "body"
    /\ bodyTimer' = bodyTimer \ {r}
    /\ phase' = [phase EXCEPT ![r] = "handling"]
    /\ Enqueue(r)
    /\ UNCHANGED <<fairnessVars, registryVars, admitted, released, live, abort, closed,
                   journal, providerWait, outcome, lastWrite, first>>

\* preValidation, registration, and the function put in the owner's queue.
\* The handler looks at neither the registry nor the key again.
HandleExecute(r) ==
    /\ phase[r] = "body"
    /\ bodyTimer' = bodyTimer \ {r}
    /\ phase' = [phase EXCEPT ![r] = "handling"]
    /\ live' = live \cup {r}
    /\ Enqueue(r)
    /\ UNCHANGED <<fairnessVars, registryVars, admitted, released, abort, closed,
                   journal, providerWait, outcome, lastWrite, first>>

\* The reply's `close': the sink is closed and aborts the call; an earlier
\* reason stays.
ClientCloses(r) ==
    /\ phase[r] = "handling"
    /\ closed' = closed \cup {r}
    /\ abort' = [abort EXCEPT ![r] = IF @ = "no" THEN "client_closed" ELSE @]
    /\ first' = [first EXCEPT ![r] = First(r, "closed")]
    /\ UNCHANGED <<fairnessVars, registryVars, phase, admitted, released,
                   bodyTimer, live, journal, callVars>>

StartOwnerTask(r) ==
    /\ StartClient(r)
    /\ UNCHANGED <<fairnessVars, registryVars, requestVars, providerWait, outcome,
                   lastWrite, first>>

\* The global task calls providerLimiter.run.
StartGlobalTask(r) ==
    /\ StartGlobal(r, "providerWait")
    /\ providerWait' = IF stage[r] = "outerWait" THEN providerWait
                       ELSE Append(providerWait, r)
    /\ UNCHANGED <<fairnessVars, registryVars, requestVars, outcome, lastWrite, first>>

AtProvider == {r \in Requests : stage[r] = "upstream"}

\* Defect: the call is made without looking whether it was aborted meanwhile.
StartProviderTaskBlind(r) ==
    /\ providerWait # << >>
    /\ r = Head(providerWait)
    /\ Cardinality(AtProvider) < ProviderLimit
    /\ providerWait' = Tail(providerWait)
    /\ stage' = [stage EXCEPT ![r] = "upstream"]
    /\ first' = [first EXCEPT ![r] = First(r, "called")]
    /\ UNCHANGED <<fairnessVars, registryVars, requestVars, outcome, lastWrite,
                   queueOf, clientWait, globalWait>>

\* The provider queue starts its oldest task, which goes upstream unless the
\* request was aborted while it waited: then it throws the reason at once.
StartProviderTask(r) ==
    /\ providerWait # << >>
    /\ r = Head(providerWait)
    /\ Cardinality(AtProvider) < ProviderLimit
    /\ providerWait' = Tail(providerWait)
    /\ IF abort[r] = "no"
       THEN /\ stage' = [stage EXCEPT ![r] = "upstream"]
            /\ first' = [first EXCEPT ![r] = First(r, "called")]
            /\ UNCHANGED outcome
       ELSE /\ stage' = [stage EXCEPT ![r] = "settled"]
            /\ outcome' = [outcome EXCEPT ![r] = abort[r]]
            /\ UNCHANGED first
    /\ UNCHANGED <<fairnessVars, registryVars, requestVars, lastWrite,
                   queueOf, clientWait, globalWait>>

\* tryWrite: the error event that ends a stream waits for the client's buffer,
\* with neither the signal of the request nor a timer.
LastWriteWaits(r) ==
    /\ stage[r] = "upstream"
    /\ r \notin closed
    /\ lastWrite[r] = "none"
    /\ lastWrite' = [lastWrite EXCEPT ![r] = "waits"]
    /\ UNCHANGED <<fairnessVars, registryVars, requestVars, queueVars, providerWait,
                   outcome, first>>

\* The client reads: `drain'.
ClientReads(r) ==
    /\ lastWrite[r] = "waits"
    /\ r \notin closed
    /\ lastWrite' = [lastWrite EXCEPT ![r] = "read"]
    /\ UNCHANGED <<fairnessVars, registryVars, requestVars, queueVars, providerWait,
                   outcome, first>>

\* The last write of the stream waits for a client that is still connected.
Unread(r) == lastWrite[r] = "waits" /\ r \notin closed

\* The client's executor returns a result, also for an aborted call.
FinishExecution(r) ==
    /\ stage[r] = "upstream"
    /\ ~Unread(r)
    /\ Settle(r)
    /\ outcome' = [outcome EXCEPT ![r] = "result"]
    /\ lastWrite' = [lastWrite EXCEPT ![r] = "none"]
    /\ UNCHANGED <<fairnessVars, registryVars, requestVars, providerWait, first>>

\* The row for a settled function.
Row(r) ==
    CASE outcome[r] = "key_revoked"   -> "401"
      [] outcome[r] = "client_closed" -> "499"
      [] outcome[r] = "result"        -> IF r \in closed
                                         THEN "client_aborted" ELSE "result"

\* The handler resumes: one row, the reply, then finally: unregister, release.
HandlerDone(r) ==
    /\ phase[r] = "handling"
    /\ stage[r] = "settled"
    /\ journal' = [journal EXCEPT ![r] = Row(r)]
    /\ live' = live \ {r}
    /\ ReleaseAgentAdmission(r)
    /\ phase' = [phase EXCEPT ![r] = "replied"]
    /\ UNCHANGED <<registryVars, admitted, bodyTimer, abort, closed, execVars>>

------------------------------------------------------------------------------
\* A new snapshot: its tenants go to syncClients, then the live requests of
\* keys it does not know are aborted.
RegistryReload ==
    /\ reloads < MaxReloads
    /\ reloads' = reloads + 1
    /\ \E keys \in SUBSET Tokens :
          /\ valid' = keys
          /\ tenants' \in SnapshotTenants(keys)
          /\ SyncClients(tenants')
          /\ abort' = [r \in Requests |->
                          IF r \in live /\ TokenOf[r] \notin keys /\ abort[r] = "no"
                          THEN "key_revoked" ELSE abort[r]]
          /\ first' = [r \in Requests |->
                          IF phase[r] = "handling" /\ TokenOf[r] \notin keys
                          THEN First(r, "revoked") ELSE first[r]]
    /\ UNCHANGED <<phase, admitted, released, bodyTimer, live, closed, journal, callVars>>

Next ==
    \/ \E r \in Requests :
          \/ OnRequestTurnedAway(r) \/ OnRequestAdmission(r) \/ BodyTimeout(r)
          \/ OnRequestAbort(r) \/ OnResponse(r) \/ OnResponseLost(r)
          \/ HandleInvalid(r) \/ HandleExecute(r) \/ ClientCloses(r)
          \/ StartOwnerTask(r) \/ StartGlobalTask(r) \/ StartProviderTask(r)
          \/ LastWriteWaits(r) \/ ClientReads(r)
          \/ FinishExecution(r) \/ HandlerDone(r)
    \/ RegistryReload

Spec == Init /\ [][Next]_vars

\* Timers fire, queues start what they may, and the deadline bounds every
\* upstream call up to its last write, which ends when the client reads or
\* closes.  Nothing is expected of clients or administrators.
Fairness ==
    \A r \in Requests : /\ WF_vars(BodyTimeout(r))
                        /\ WF_vars(OnResponse(r))
                        /\ WF_vars(StartOwnerTask(r))
                        /\ WF_vars(StartGlobalTask(r))
                        /\ WF_vars(StartProviderTask(r))
                        /\ WF_vars(FinishExecution(r))
                        /\ WF_vars(HandlerDone(r))

FairSpec == Spec /\ Fairness

------------------------------------------------------------------------------
(* Properties.                                                              *)

Holders == {r \in Requests : admitted[r] /\ ~released[r]}
HoldersOf(c) == {r \in Holders : ClientOf[r] = c}

\* The counters are exact although a slot has four places that may give it
\* back (timer, abort hook, response hook, finally) in any order.
Accounting ==
    /\ \A c \in Clients : slots[c].active = Cardinality(HoldersOf(c))
    /\ globalActive = Cardinality(Holders)

\* An execution has its slot from the moment it is queued until it settles,
\* so that it is put in its owner's queue and never in the fallback one.
ExecutionsHoldSlots ==
    \A r \in Requests : InFlight(r) => r \in Holders /\ queueOf[r] # 0

\* While its handler runs a request may lose its key, lose its client and be
\* called upstream, in any order, in three queues and with reloads between.
\* Whatever comes first decides, and nothing later changes it: only then is
\* the provider called (and paid) when neither came before, the row of the
\* journal names the first of them, and every handler leaves a row.
FirstDecides ==
    \A r \in Requests :
        /\ r \in AtProvider => first[r] = "called"
        /\ journal[r] # "none" =>
              journal[r] \in CASE first[r] = "revoked" -> {"401"}
                              [] first[r] = "closed"  -> {"499"}
                              [] first[r] = "called"  -> {"result", "client_aborted"}
                              [] OTHER                -> {}
        /\ first[r] # "none" /\ phase[r] # "handling" => journal[r] # "none"

\* If no client keeps its stream both unread and open for ever, every slot
\* comes back: an upload that never ends is cut by the timer, and a handler
\* ends with its execution.  Only an early reply whose onResponse is lost
\* leaves the slot to the reconciler.  The condition is needed, and for every
\* client: one that neither reads nor closes keeps its own slot and with it
\* the places in the queues that others wait for.
SlotsComeBack ==
    (\A s \in Requests : []<>~Unread(s)) =>
        \A r \in Requests :
            r \in Holders ~> (r \notin Holders \/ phase[r] \in {"replied", "done"})

\* app.ts: revoking a key cuts the running requests of that key too.
RevokedKeyIsAborted ==
    \A r \in live : TokenOf[r] \notin valid => abort[r] # "no"

\* Admission implements the counting semaphore.
Semaphore == INSTANCE CountingSemaphore WITH
    GlobalCap <- GlobalMaxPending,
    holders   <- Holders,
    spent     <- {r \in Requests : released[r]},
    cap       <- [c \in Clients |-> IF tenants[c] = NoTenant THEN 0
                                    ELSE tenants[c].maxConcurrency + tenants[c].maxPending]

ImplementsSemaphore == Semaphore!SemSpec
==============================================================================
