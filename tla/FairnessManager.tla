--------------------------- MODULE FairnessManager ---------------------------
(***************************************************************************)
(* FairnessManager of concurrency/fairness.ts: the admission counters of   *)
(* one contour.  A contour (site or agent) owns one instance; its module   *)
(* EXTENDS this one and conjoins the operations below with its own state.  *)
(*                                                                         *)
(* The Map of slots is a total function: a client without an entry has     *)
(* NoSlot.  The PQueue a slot owns is named by its number among the queues *)
(* ever created for that client, because requests keep a reference to the  *)
(* queue they were put in after the slot has been deleted and re-created.  *)
(***************************************************************************)
EXTENDS Integers, Sequences, FiniteSets

CONSTANTS Clients,             \* tenants: site clients or agent key owners
          Limits,              \* the limit pairs an administrator may set
          NoTenant,            \* a client absent from the registry snapshot
          GlobalConcurrency,   \* QUEUE_CONCURRENCY
          GlobalMaxPending,    \* QUEUE_MAX_PENDING
          MaxActiveDedupKeys   \* MAX_ACTIVE_DEDUP_KEYS

ASSUME FairnessAssumption ==
    /\ Limits \subseteq [maxConcurrency : Nat \ {0}, maxPending : Nat \ {0}]
    /\ NoTenant \notin Limits
    /\ GlobalConcurrency \in Nat \ {0}
    /\ GlobalMaxPending \in Nat \ {0}
    /\ MaxActiveDedupKeys \in Nat \ {0}

VARIABLES slots,          \* the Map clientId -> ClientSlot
          queues,         \* concurrency of every PQueue created per client
          globalActive    \* admitted requests of all clients together

fairnessVars == <<slots, queues, globalActive>>

Slot == [exists : BOOLEAN, queue : Nat, active : Nat,
         maxConcurrency : Nat, maxPending : Nat, retired : BOOLEAN]

NoSlot == [exists |-> FALSE, queue |-> 0, active |-> 0,
           maxConcurrency |-> 0, maxPending |-> 0, retired |-> FALSE]

FairnessTypeOK ==
    /\ slots \in [Clients -> Slot]
    /\ queues \in [Clients -> Seq(Nat)]
    /\ globalActive \in Nat
    /\ \A c \in Clients :
          IF slots[c].exists THEN slots[c].queue \in 1..Len(queues[c])
          ELSE slots[c] = NoSlot

\* Defect: a counter that is not clamped.
MinusUnclamped(n, k) == n - k

\* Math.max(0, n - k)
Minus(n, k) == IF n > k THEN n - k ELSE 0

\* ensureSlot: a new slot with a new queue, or the present one with the
\* limits of the tenant's current configuration.
EnsuredSlot(c, lim) ==
    IF slots[c].exists
    THEN [slots[c] EXCEPT !.maxConcurrency = lim.maxConcurrency,
                          !.maxPending = lim.maxPending,
                          !.retired = FALSE]
    ELSE [exists |-> TRUE, queue |-> Len(queues[c]) + 1, active |-> 0,
          maxConcurrency |-> lim.maxConcurrency,
          maxPending |-> lim.maxPending, retired |-> FALSE]

EnsuredQueues(c, lim) ==
    IF slots[c].exists
    THEN [queues[c] EXCEPT ![slots[c].queue] = lim.maxConcurrency]
    ELSE Append(queues[c], lim.maxConcurrency)

\* Defect: the limits are compared with > instead of >=.
AdmitResultOffByOne(c, lim, dedupSize) ==
    IF EnsuredSlot(c, lim).active > lim.maxConcurrency + lim.maxPending THEN "client_full"
    ELSE IF globalActive > GlobalMaxPending THEN "global_full"
    ELSE IF dedupSize > MaxActiveDedupKeys THEN "dedup_full"
    ELSE "ok"

\* The verdict of tryAdmit for a tenant with these limits.
AdmitResult(c, lim, dedupSize) ==
    IF EnsuredSlot(c, lim).active >= lim.maxConcurrency + lim.maxPending THEN "client_full"
    ELSE IF globalActive >= GlobalMaxPending THEN "global_full"
    ELSE IF dedupSize >= MaxActiveDedupKeys THEN "dedup_full"
    ELSE "ok"

\* tryAdmit: the slot is ensured whatever the verdict; an admission counts.
TryAdmit(c, lim, dedupSize) ==
    LET taken == IF AdmitResult(c, lim, dedupSize) = "ok" THEN 1 ELSE 0
    IN  /\ slots' = [slots EXCEPT ![c] = [EnsuredSlot(c, lim) EXCEPT !.active = @ + taken]]
        /\ queues' = [queues EXCEPT ![c] = EnsuredQueues(c, lim)]
        /\ globalActive' = globalActive + taken

ReleasedSlot(slot) ==
    IF slot.retired /\ Minus(slot.active, 1) = 0
    THEN NoSlot
    ELSE [slot EXCEPT !.active = Minus(@, 1)]

\* Defect: release returns as soon as it has deleted the retired slot.
ReleaseReturningEarly(c) ==
    /\ slots' = [slots EXCEPT ![c] = IF @.exists THEN ReleasedSlot(@) ELSE @]
    /\ globalActive' = IF slots[c].exists /\ ReleasedSlot(slots[c]) = NoSlot
                       THEN globalActive ELSE Minus(globalActive, 1)
    /\ UNCHANGED queues

\* release: a retired slot disappears with its last request; the global
\* counter goes down even when the client has no slot any more.
Release(c) ==
    /\ slots' = [slots EXCEPT ![c] = IF @.exists THEN ReleasedSlot(@) ELSE @]
    /\ globalActive' = Minus(globalActive, 1)
    /\ UNCHANGED queues

\* Defect: the slot of a removed client is deleted while it counts requests.
SyncClientsForgetting(tn) ==
    /\ slots' = [c \in Clients |->
                    IF tn[c] # NoTenant THEN EnsuredSlot(c, tn[c]) ELSE NoSlot]
    /\ queues' = [c \in Clients |->
                    IF tn[c] # NoTenant THEN EnsuredQueues(c, tn[c]) ELSE queues[c]]
    /\ UNCHANGED globalActive

\* syncClients after a registry reload that leaves the tenants tn.
SyncClients(tn) ==
    /\ slots' = [c \in Clients |->
                    IF tn[c] # NoTenant THEN EnsuredSlot(c, tn[c])
                    ELSE IF slots[c].exists /\ slots[c].active # 0
                    THEN [slots[c] EXCEPT !.retired = TRUE]
                    ELSE NoSlot]
    /\ queues' = [c \in Clients |->
                    IF tn[c] # NoTenant THEN EnsuredQueues(c, tn[c]) ELSE queues[c]]
    /\ UNCHANGED globalActive

\* Defect: every execution goes straight to the global queue.
QueueForGlobal(c) == IF slots[c].exists THEN 0 ELSE slots[c].queue

\* queueFor: the number of the client's queue, 0 for the global queue that
\* stands in when the client has no slot.
QueueFor(c) == slots[c].queue

\* The constructor: one slot and one queue per tenant of the registry.
FairnessInit(tn) ==
    /\ slots = [c \in Clients |->
                    IF tn[c] = NoTenant THEN NoSlot
                    ELSE [exists |-> TRUE, queue |-> 1, active |-> 0,
                          maxConcurrency |-> tn[c].maxConcurrency,
                          maxPending |-> tn[c].maxPending, retired |-> FALSE]]
    /\ queues = [c \in Clients |->
                    IF tn[c] = NoTenant THEN << >> ELSE <<tn[c].maxConcurrency>>]
    /\ globalActive = 0
==============================================================================
