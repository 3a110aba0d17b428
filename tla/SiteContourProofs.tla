-------------------------- MODULE SiteContourProofs --------------------------
(***************************************************************************)
(* Theorems about the site contour, for every set of clients, requests and *)
(* keys, every limits and any number of reloads.                           *)
(*                                                                         *)
(* Accounting is not inductive alone: a second admission of a request that *)
(* already gave its slot back would be counted without a holder.  Lifecycle*)
(* rules that out.  OneExecutionPerKey rests on KeyOwner, the table entry  *)
(* of an execution in flight names it, and KeyOwner rests on GlobalLine:   *)
(* the global queue must not revive an execution that has settled.  The    *)
(* rows of joins rest on Joined, what a waiting request knows of the       *)
(* execution it waits for.                                                 *)
(*                                                                         *)
(* The reconciler breaks Accounting on purpose.  What its corrections keep *)
(* is RInv: counters never above their holders, and every sample explained *)
(* by what was leaked and what was unregistered when it was taken.         *)
(***************************************************************************)
EXTENDS SiteReconciler, NestedQueuesProofs, WellFoundedInduction

Lifecycle ==
    \A r \in Requests :
        /\ released[r] => admitted[r]
        /\ phase[r] \in {"idle", "refused"} => ~admitted[r]
        /\ phase[r] \in {"idle", "refused", "body"} => stage[r] = "none"

KeyOwner ==
    \A r \in Requests : KeyOf[r] # NoKey /\ InFlight(r) => dedup[DedupKey(r)] = r


\* The executions move on without touching anything an admission depends on.
ExecutionStep(r) == StartClientTask(r) \/ StartGlobalTask(r) \/ FinishExecution(r)

\* The key of a request that has one is a key of the table.
LEMMA DedupKeyType ==
    ASSUME NEW r \in Requests, KeyOf[r] # NoKey
    PROVE  DedupKey(r) \in DedupKeys
BY SiteAssumption, QueuesAssumption DEF DedupKey, DedupKeys

------------------------------------------------------------------------------
(* Admission counters.                                                      *)

\* What a step may do to the counters and to the set of requests they count:
\* nothing, one request more, or one less.
Still ==
    /\ Holders' = Holders
    /\ globalActive' = globalActive
    /\ \A c \in Clients : slots'[c].active = slots[c].active

Taken(r) ==
    /\ r \notin Holders
    /\ Holders' = Holders \cup {r}
    /\ globalActive' = globalActive + 1
    /\ slots'[ClientOf[r]].active = slots[ClientOf[r]].active + 1
    /\ \A c \in Clients \ {ClientOf[r]} : slots'[c].active = slots[c].active

Given(r) ==
    /\ r \in Holders
    /\ Holders' = Holders \ {r}
    /\ globalActive' = Minus(globalActive, 1)
    /\ slots'[ClientOf[r]].active = Minus(slots[ClientOf[r]].active, 1)
    /\ \A c \in Clients \ {ClientOf[r]} : slots'[c].active = slots[c].active

CountersMove == Still \/ \E r \in Requests : Taken(r) \/ Given(r)

\* Giving the slot back takes a holder away and uncounts exactly it.
LEMMA ReleaseAdmissionMoves ==
    ASSUME TypeOK, Lifecycle, NEW r \in Requests,
           ReleaseAdmission(r), admitted' = admitted
    PROVE  /\ FairnessTypeOK'
           /\ CountersMove
           /\ released' \in [Requests -> BOOLEAN]
           /\ \A x \in Requests : released'[x] => admitted[x]
<1>1. /\ admitted \in [Requests -> BOOLEAN]
      /\ released \in [Requests -> BOOLEAN]
      /\ FairnessTypeOK
  BY DEF TypeOK
<1>2. CASE ~(admitted[r] /\ ~released[r])
  <2>1. /\ released' = released
        /\ UNCHANGED fairnessVars
    BY <1>2 DEF ReleaseAdmission
  <2>2. QED
    BY <1>1, <2>1 DEF CountersMove, Still, Holders, fairnessVars, FairnessTypeOK, Lifecycle
<1>3. CASE admitted[r] /\ ~released[r]
  <2> DEFINE c == ClientOf[r]
  <2>1. /\ released' = [released EXCEPT ![r] = TRUE]
        /\ Release(c)
        /\ c \in Clients
    BY <1>3, QueuesAssumption DEF ReleaseAdmission
  <2>2. /\ r \in Holders
        /\ Holders' = Holders \ {r}
    BY <1>1, <1>3, <2>1 DEF Holders
  <2>3. /\ FairnessTypeOK'
        /\ slots'[c].active = Minus(slots[c].active, 1)
        /\ \A x \in Clients \ {c} : slots'[x].active = slots[x].active
        /\ globalActive' = Minus(globalActive, 1)
    BY <1>1, <2>1, ReleaseCounts
  <2>4. Given(r)
    BY <2>2, <2>3 DEF Given
  <2>5. QED
    BY <1>1, <1>3, <2>1, <2>3, <2>4 DEF Lifecycle, CountersMove
<1>4. QED
  BY <1>2, <1>3

\* An admission adds a holder and counts exactly it; a refusal adds none.
LEMMA AdmissionMoves ==
    ASSUME TypeOK, Lifecycle, NEW r \in Requests, OnRequestAdmission(r)
    PROVE  /\ FairnessTypeOK'
           /\ CountersMove
<1> DEFINE c   == ClientOf[r]
           lim == tenants[c]
           ok  == AdmitResult(c, lim, DedupSize) = "ok"
           n   == IF ok THEN 1 ELSE 0
<1>1. /\ admitted \in [Requests -> BOOLEAN]
      /\ released \in [Requests -> BOOLEAN]
      /\ FairnessTypeOK
  BY DEF TypeOK
<1>2. /\ c \in Clients
      /\ lim \in Limits
      /\ TryAdmit(c, lim, DedupSize)
      /\ admitted' = [admitted EXCEPT ![r] = ok]
      /\ released' = released
  BY QueuesAssumption DEF OnRequestAdmission, TypeOK
<1>3. ~admitted[r] /\ ~released[r]
  BY DEF Lifecycle, OnRequestAdmission
<1>4. /\ FairnessTypeOK'
      /\ slots'[c].active = slots[c].active + n
      /\ \A x \in Clients \ {c} : slots'[x].active = slots[x].active
      /\ globalActive' = globalActive + n
  <2>1. n = IF AdmitResult(c, lim, DedupSize) = "ok" THEN 1 ELSE 0
    OBVIOUS
  <2> HIDE DEF c, lim, ok, n
  <2>2. QED
    BY <1>1, <1>2, <2>1, TryAdmitCounts
<1>5. CASE ok
  <2>1. Holders' = Holders \cup {r} /\ r \notin Holders
    BY <1>1, <1>2, <1>3, <1>5 DEF Holders
  <2>2. n = 1
    BY <1>5
  <2>3. Taken(r)
    <3> HIDE DEF ok, n, lim
    <3>1. QED
      BY <1>4, <2>1, <2>2 DEF Taken
  <2>4. QED
    BY <1>4, <2>3 DEF CountersMove
<1>6. CASE ~ok
  <2>1. Holders' = Holders
    BY <1>1, <1>2, <1>3, <1>6 DEF Holders
  <2>2. n = 0
    BY <1>6
  <2>3. globalActive \in Nat /\ \A x \in Clients : slots[x].active \in Nat
    BY <1>1 DEF FairnessTypeOK, Slot
  <2> HIDE DEF ok, n, lim
  <2>4. Still
    BY <1>2, <1>4, <2>1, <2>2, <2>3 DEF Still
  <2>5. QED
    BY <1>4, <2>4 DEF CountersMove
<1>7. QED
  BY <1>5, <1>6

\* Every step keeps the counters well-formed and moves them with the holders.
LEMMA CountersStep ==
    ASSUME TypeOK, Lifecycle, [Next]_vars
    PROVE  FairnessTypeOK' /\ CountersMove
<1>1. ASSUME UNCHANGED <<fairnessVars, admitted, released>>
      PROVE  FairnessTypeOK' /\ CountersMove
  BY <1>1 DEF TypeOK, FairnessTypeOK, fairnessVars, CountersMove, Still, Holders
<1>2. CASE UNCHANGED vars
  BY <1>1, <1>2 DEF vars, requestVars
<1>3. CASE RegistryReload
  <2>1. /\ FairnessTypeOK
        /\ tenants' \in [Clients -> Limits \cup {NoTenant}]
        /\ SyncClients(tenants')
        /\ admitted' = admitted /\ released' = released
    BY <1>3 DEF TypeOK, RegistryReload, requestVars
  <2>2. /\ FairnessTypeOK'
        /\ \A c \in Clients : slots'[c].active = slots[c].active
        /\ globalActive' = globalActive
    BY <2>1, SyncClientsCounts
  <2>3. Still
    BY <2>1, <2>2 DEF Still, Holders
  <2>4. QED
    BY <2>2, <2>3 DEF CountersMove
<1>4. ASSUME NEW r \in Requests,
             \/ OnRequestTurnedAway(r) \/ OnRequestJoin(r) \/ HooksLost(r)
             \/ HandleInvalid(r) \/ HandleJoin(r) \/ HandleDedupFull(r) \/ HandleExecute(r)
             \/ ExecutionStep(r) \/ HandlerDone(r)
      PROVE  FairnessTypeOK' /\ CountersMove
  <2>1. UNCHANGED <<fairnessVars, admitted, released>>
    BY <1>4 DEF OnRequestTurnedAway, OnRequestJoin, HooksLost, HandleInvalid,
                HandleJoin, HandleDedupFull, HandleExecute, ExecutionStep,
                StartClientTask, StartGlobalTask, FinishExecution, HandlerDone, requestVars
  <2>2. QED
    BY <1>1, <2>1
<1>5. ASSUME NEW r \in Requests, OnRequestAdmission(r)
      PROVE  FairnessTypeOK' /\ CountersMove
  BY <1>5, AdmissionMoves
<1>6. ASSUME NEW r \in Requests, OnResponse(r) \/ OnRequestAbort(r)
      PROVE  FairnessTypeOK' /\ CountersMove
  <2>1. ReleaseAdmission(r) /\ admitted' = admitted
    BY <1>6 DEF OnResponse, OnRequestAbort
  <2>2. QED
    BY <2>1, ReleaseAdmissionMoves
<1>7. QED
  BY <1>2, <1>3, <1>4, <1>5, <1>6 DEF Next, ExecutionStep

\* The number of holders moves as the counters do.
LEMMA HoldersMove ==
    ASSUME NEW r \in Requests
    PROVE  /\ Taken(r) =>
                /\ Cardinality(Holders') = Cardinality(Holders) + 1
                /\ Cardinality(OfClient(Holders', ClientOf[r]))
                     = Cardinality(OfClient(Holders, ClientOf[r])) + 1
                /\ \A c \in Clients \ {ClientOf[r]} : OfClient(Holders', c) = OfClient(Holders, c)
           /\ Given(r) =>
                /\ Cardinality(Holders') = Minus(Cardinality(Holders), 1)
                /\ Cardinality(OfClient(Holders', ClientOf[r]))
                     = Minus(Cardinality(OfClient(Holders, ClientOf[r])), 1)
                /\ \A c \in Clients \ {ClientOf[r]} : OfClient(Holders', c) = OfClient(Holders, c)
<1>1. Holders \in SUBSET Requests
  BY DEF Holders
<1>2. ASSUME Taken(r)
      PROVE  /\ Cardinality(Holders') = Cardinality(Holders) + 1
             /\ Cardinality(OfClient(Holders', ClientOf[r]))
                  = Cardinality(OfClient(Holders, ClientOf[r])) + 1
             /\ \A c \in Clients \ {ClientOf[r]} : OfClient(Holders', c) = OfClient(Holders, c)
  <2>1. Holders' = Holders \cup {r} /\ r \notin Holders
    BY <1>2 DEF Taken
  <2>2. QED
    BY <1>1, <2>1, CountOneMore
<1>3. ASSUME Given(r)
      PROVE  /\ Cardinality(Holders') = Minus(Cardinality(Holders), 1)
             /\ Cardinality(OfClient(Holders', ClientOf[r]))
                  = Minus(Cardinality(OfClient(Holders, ClientOf[r])), 1)
             /\ \A c \in Clients \ {ClientOf[r]} : OfClient(Holders', c) = OfClient(Holders, c)
  <2>1. Holders' = Holders \ {r} /\ r \in Holders
    BY <1>3 DEF Given
  <2>2. QED
    BY <1>1, <2>1, CountOneLess
<1>4. QED
  BY <1>2, <1>3

\* Counters that are exact stay exact.
LEMMA AccountingStep ==
    ASSUME Accounting, CountersMove
    PROVE  Accounting'
<1>1. /\ globalActive = Cardinality(Holders)
      /\ \A c \in Clients : slots[c].active = Cardinality(OfClient(Holders, c))
  BY DEF Accounting, HoldersOf, OfClient
<1>2. /\ globalActive' = Cardinality(Holders')
      /\ \A c \in Clients : slots'[c].active = Cardinality(OfClient(Holders', c))
  <2>1. CASE Still
    BY <1>1, <2>1 DEF Still, OfClient
  <2>2. ASSUME NEW r \in Requests, Taken(r) \/ Given(r)
        PROVE  /\ globalActive' = Cardinality(Holders')
               /\ \A c \in Clients : slots'[c].active = Cardinality(OfClient(Holders', c))
    <3>1. ClientOf[r] \in Clients
      BY QueuesAssumption
    <3>2. CASE Taken(r)
      BY <1>1, <3>1, <3>2, HoldersMove DEF Taken
    <3>3. CASE Given(r)
      BY <1>1, <3>1, <3>3, HoldersMove DEF Given
    <3>4. QED
      BY <2>2, <3>2, <3>3
  <2>3. QED
    BY <2>1, <2>2 DEF CountersMove
<1>3. QED
  BY <1>2 DEF Accounting, HoldersOf, OfClient

------------------------------------------------------------------------------
(* Types, life cycle, queues and keys.                                      *)

\* The queue variables change only by the operations of NestedQueues.
LEMMA QueuesStep ==
    ASSUME TypeOK, Lifecycle, GlobalLine, NEW r \in Requests,
           HandleExecute(r) \/ ExecutionStep(r)
    PROVE  QueuesTypeOK' /\ GlobalLine'
<1>1. QueuesTypeOK /\ FairnessTypeOK
  BY DEF TypeOK
<1>2. CASE HandleExecute(r)
  <2>1. Enqueue(r) /\ ~InFlight(r)
    BY <1>2 DEF HandleExecute, Lifecycle, InFlight
  <2>2. QED
    BY <1>1, <2>1, QueueSteps, GlobalLineSteps
<1>3. CASE StartClientTask(r)
  BY <1>1, <1>3, QueueSteps, GlobalLineSteps DEF StartClientTask
<1>4. CASE StartGlobalTask(r)
  BY <1>1, <1>4, QueueSteps, GlobalLineSteps DEF StartGlobalTask
<1>5. CASE FinishExecution(r)
  <2>1. Settle(r) /\ r \notin GlobalWaiting
    BY <1>5 DEF FinishExecution, GlobalWaiting
  <2>2. QED
    BY <1>1, <2>1, QueueSteps, GlobalLineSteps
<1>6. QED
  BY <1>2, <1>3, <1>4, <1>5 DEF ExecutionStep

\* The variables that neither the counters nor the queues explain.
LEMMA TypeStep ==
    ASSUME TypeOK, Lifecycle, GlobalLine, [Next]_vars
    PROVE  TypeOK'
<1>1. FairnessTypeOK'
  BY CountersStep
<1> USE DEF TypeOK, Phases
<1>2. CASE UNCHANGED vars
  BY <1>1, <1>2 DEF vars, requestVars, execVars, queueVars, QueuesTypeOK
<1>3. CASE RegistryReload
  BY <1>1, <1>3, SiteAssumption
  DEF RegistryReload, requestVars, execVars, queueVars, QueuesTypeOK
<1>4. ASSUME NEW r \in Requests,
             OnRequestTurnedAway(r) \/ OnRequestJoin(r) \/ HooksLost(r)
               \/ HandleInvalid(r) \/ HandleDedupFull(r)
      PROVE  TypeOK'
  BY <1>1, <1>4
  DEF OnRequestTurnedAway, OnRequestJoin, HooksLost, HandleInvalid, HandleDedupFull,
      execVars, queueVars, QueuesTypeOK
<1>5. ASSUME NEW r \in Requests, OnRequestAdmission(r)
      PROVE  TypeOK'
  <2>1. /\ admitted' \in [Requests -> BOOLEAN]
        /\ phase' \in [Requests -> Phases]
    BY <1>5 DEF OnRequestAdmission
  <2>2. UNCHANGED <<tenants, reloads, released, live, aborted, journal, execVars>>
    BY <1>5 DEF OnRequestAdmission
  <2>3. QED
    BY <1>1, <2>1, <2>2 DEF execVars, queueVars, QueuesTypeOK
<1>6. ASSUME NEW r \in Requests, OnResponse(r) \/ OnRequestAbort(r)
      PROVE  TypeOK'
  <2>1. ReleaseAdmission(r) /\ admitted' = admitted
    BY <1>6 DEF OnResponse, OnRequestAbort
  <2>2. released' \in [Requests -> BOOLEAN]
    BY <2>1, ReleaseAdmissionMoves
  <2>3. /\ phase' \in [Requests -> Phases]
        /\ aborted' \subseteq Requests
        /\ UNCHANGED <<tenants, reloads, live, journal, execVars>>
    BY <1>6 DEF OnResponse, OnRequestAbort
  <2>4. QED
    BY <1>1, <2>1, <2>2, <2>3 DEF execVars, queueVars, QueuesTypeOK
<1>7. ASSUME NEW r \in Requests, HandleJoin(r)
      PROVE  TypeOK'
  <2>1. dedup[DedupKey(r)] \in Requests \cup {None}
    BY <1>7, DedupKeyType DEF HandleJoin, KeyActive
  <2>2. QED
    BY <1>1, <1>7, <2>1 DEF HandleJoin, queueVars, QueuesTypeOK
<1>8. ASSUME NEW r \in Requests, HandleExecute(r)
      PROVE  TypeOK'
  <2>1. QueuesTypeOK'
    BY <1>8, QueuesStep
  <2>2. dedup' \in [DedupKeys -> Requests \cup {None}]
    BY <1>8 DEF HandleExecute
  <2>3. QED
    BY <1>1, <1>8, <2>1, <2>2 DEF HandleExecute
<1>9. ASSUME NEW r \in Requests, ExecutionStep(r)
      PROVE  TypeOK'
  <2>1. QueuesTypeOK'
    BY <1>9, QueuesStep
  <2>2. dedup' \in [DedupKeys -> Requests \cup {None}]
    BY <1>9 DEF ExecutionStep, StartClientTask, StartGlobalTask, FinishExecution
  <2>3. UNCHANGED <<tenants, reloads, requestVars, waitsFor>>
    BY <1>9 DEF ExecutionStep, StartClientTask, StartGlobalTask, FinishExecution
  <2>4. QED
    BY <1>1, <2>1, <2>2, <2>3 DEF requestVars
<1>10. ASSUME NEW r \in Requests, HandlerDone(r)
       PROVE  TypeOK'
  BY <1>1, <1>10 DEF HandlerDone, execVars, queueVars, QueuesTypeOK
<1>11. QED
  BY <1>2, <1>3, <1>4, <1>5, <1>6, <1>7, <1>8, <1>9, <1>10 DEF Next, ExecutionStep

\* Only an execution in flight moves: nothing in the global queue has settled.
LEMMA OnlyInFlightMoves ==
    ASSUME TypeOK, GlobalLine, NEW r \in Requests, ExecutionStep(r)
    PROVE  InFlight(r)
<1>1. CASE StartGlobalTask(r)
  <2>1. Head(globalWait) \in GlobalWaiting /\ r = Head(globalWait)
    BY <1>1, LinePop DEF TypeOK, QueuesTypeOK, GlobalLine, StartGlobalTask, StartGlobal
  <2>2. QED
    BY <2>1 DEF GlobalWaiting, InFlight
<1>2. CASE StartClientTask(r) \/ FinishExecution(r)
  BY <1>2 DEF StartClientTask, StartClient, FinishExecution, InFlight
<1>3. QED
  BY <1>1, <1>2 DEF ExecutionStep

\* A request is admitted in its onRequest hook or never, and executes only
\* from its handler.
LEMMA LifecycleStep ==
    ASSUME TypeOK, Lifecycle, GlobalLine, [Next]_vars
    PROVE  Lifecycle'
<1> USE DEF Lifecycle
<1>1. /\ phase \in [Requests -> Phases]
      /\ admitted \in [Requests -> BOOLEAN]
      /\ released \in [Requests -> BOOLEAN]
      /\ stage \in [Requests -> Stages]
  BY DEF TypeOK, QueuesTypeOK
<1>2. CASE UNCHANGED vars \/ RegistryReload
  BY <1>2 DEF RegistryReload, vars, requestVars, execVars, queueVars
<1>3. ASSUME NEW r \in Requests,
             OnRequestTurnedAway(r) \/ OnRequestJoin(r) \/ HooksLost(r)
               \/ HandleInvalid(r) \/ HandleJoin(r) \/ HandleDedupFull(r) \/ HandlerDone(r)
      PROVE  Lifecycle'
  BY <1>1, <1>3
  DEF OnRequestTurnedAway, OnRequestJoin, HooksLost, HandleInvalid, HandleJoin,
      HandleDedupFull, HandlerDone, execVars, queueVars
<1>4. ASSUME NEW r \in Requests, OnRequestAdmission(r)
      PROVE  Lifecycle'
  BY <1>1, <1>4 DEF OnRequestAdmission, execVars, queueVars
<1>5. ASSUME NEW r \in Requests, OnResponse(r) \/ OnRequestAbort(r)
      PROVE  Lifecycle'
  <2>1. ReleaseAdmission(r) /\ admitted' = admitted
    BY <1>5 DEF OnResponse, OnRequestAbort
  <2>2. \A x \in Requests : released'[x] => admitted[x]
    BY <2>1, ReleaseAdmissionMoves
  <2>3. /\ stage' = stage
        /\ \A x \in Requests : phase'[x] \in {"idle", "refused", "body"} => phase'[x] = phase[x]
    BY <1>1, <1>5 DEF OnResponse, OnRequestAbort, execVars, queueVars
  <2>4. QED
    BY <2>1, <2>2, <2>3
<1>6. ASSUME NEW r \in Requests, HandleExecute(r)
      PROVE  Lifecycle'
  BY <1>1, <1>6 DEF HandleExecute, Enqueue
<1>7. ASSUME NEW r \in Requests, ExecutionStep(r)
      PROVE  Lifecycle'
  <2>1. InFlight(r)
    BY <1>7, OnlyInFlightMoves
  <2>2. UNCHANGED <<phase, admitted, released>>
    BY <1>7 DEF ExecutionStep, StartClientTask, StartGlobalTask, FinishExecution, requestVars
  <2>3. \A x \in Requests \ {r} : stage'[x] = stage[x]
    BY <1>1, <1>7 DEF ExecutionStep, StartClientTask, StartGlobalTask, FinishExecution,
                      StartClient, StartGlobal, Settle
  <2>4. QED
    BY <2>1, <2>2, <2>3 DEF InFlight
<1>8. QED
  BY <1>2, <1>3, <1>4, <1>5, <1>6, <1>7 DEF Next, ExecutionStep

\* The global queue stays in order.
LEMMA GlobalLineStep ==
    ASSUME TypeOK, Lifecycle, GlobalLine, [Next]_vars
    PROVE  GlobalLine'
<1>1. ASSUME NEW r \in Requests, HandleExecute(r) \/ ExecutionStep(r)
      PROVE  GlobalLine'
  BY <1>1, QueuesStep
<1>2. ASSUME UNCHANGED queueVars
      PROVE  GlobalLine'
  BY <1>2 DEF queueVars, GlobalLine, GlobalWaiting
<1>3. ASSUME NEW r \in Requests,
             \/ OnRequestTurnedAway(r) \/ OnRequestJoin(r) \/ OnRequestAdmission(r)
             \/ OnResponse(r) \/ OnRequestAbort(r) \/ HooksLost(r)
             \/ HandleInvalid(r) \/ HandleJoin(r) \/ HandleDedupFull(r) \/ HandlerDone(r)
      PROVE  UNCHANGED queueVars
  BY <1>3
  DEF OnRequestTurnedAway, OnRequestJoin, OnRequestAdmission, OnResponse, OnRequestAbort,
      HooksLost, HandleInvalid, HandleJoin, HandleDedupFull, HandlerDone, execVars
<1>4. RegistryReload \/ UNCHANGED vars => UNCHANGED queueVars
  BY DEF RegistryReload, vars, execVars
<1>5. QED
  BY <1>1, <1>2, <1>3, <1>4 DEF Next, ExecutionStep

\* A key's entry names the execution in flight until that one settles.
LEMMA KeyOwnerStep ==
    ASSUME TypeOK, Lifecycle, GlobalLine, KeyOwner, [Next]_vars
    PROVE  KeyOwner'
<1>1. /\ stage \in [Requests -> Stages]
      /\ dedup \in [DedupKeys -> Requests \cup {None}]
  BY DEF TypeOK, QueuesTypeOK
<1>2. ASSUME UNCHANGED <<stage, dedup>>
      PROVE  KeyOwner'
  BY <1>2 DEF KeyOwner, InFlight
<1>3. ASSUME NEW r \in Requests, HandleExecute(r)
      PROVE  KeyOwner'
  <2> SUFFICES ASSUME NEW x \in Requests, KeyOf[x] # NoKey, InFlight(x)'
               PROVE  dedup'[DedupKey(x)] = x
    BY DEF KeyOwner, DedupKey
  <2>1. DedupKey(x) \in DedupKeys
    BY DedupKeyType
  <2>2. CASE x = r
    BY <1>1, <1>3, <2>1, <2>2 DEF HandleExecute
  <2>3. CASE x # r
    <3>1. InFlight(x)
      BY <1>1, <1>3, <2>3 DEF HandleExecute, Enqueue, InFlight
    <3>2. dedup[DedupKey(x)] = x /\ x # None
      BY <3>1, SiteAssumption DEF KeyOwner
    <3>3. DedupKey(x) = DedupKey(r) => KeyOf[r] = KeyOf[x]
      BY DEF DedupKey
    <3>4. DedupKey(x) # DedupKey(r)
      BY <1>3, <3>2, <3>3 DEF HandleExecute, KeyActive
    <3>5. QED
      BY <1>1, <1>3, <2>1, <3>2, <3>4 DEF HandleExecute
  <2>4. QED
    BY <2>2, <2>3
<1>4. ASSUME NEW r \in Requests, FinishExecution(r)
      PROVE  KeyOwner'
  <2> SUFFICES ASSUME NEW x \in Requests, KeyOf[x] # NoKey, InFlight(x)'
               PROVE  dedup'[DedupKey(x)] = x
    BY DEF KeyOwner, DedupKey
  <2>1. DedupKey(x) \in DedupKeys
    BY DedupKeyType
  <2>2. x # r /\ InFlight(x) /\ InFlight(r)
    BY <1>1, <1>4 DEF FinishExecution, Settle, InFlight
  <2>3. dedup[DedupKey(x)] = x
    BY <2>2 DEF KeyOwner
  <2>4. KeyOf[r] # NoKey => DedupKey(r) # DedupKey(x)
    BY <2>2, <2>3 DEF KeyOwner
  <2>5. QED
    BY <1>1, <1>4, <2>1, <2>3, <2>4 DEF FinishExecution
<1>5. ASSUME NEW r \in Requests, StartClientTask(r) \/ StartGlobalTask(r)
      PROVE  KeyOwner'
  <2>1. InFlight(r)
    BY <1>5, OnlyInFlightMoves DEF ExecutionStep
  <2>2. dedup' = dedup /\ \A x \in Requests \ {r} : stage'[x] = stage[x]
    BY <1>1, <1>5 DEF StartClientTask, StartClient, StartGlobalTask, StartGlobal
  <2>3. QED
    BY <2>1, <2>2 DEF KeyOwner, InFlight, DedupKey
<1>6. ASSUME NEW r \in Requests,
             \/ OnRequestTurnedAway(r) \/ OnRequestJoin(r) \/ OnRequestAdmission(r)
             \/ OnResponse(r) \/ OnRequestAbort(r) \/ HooksLost(r)
             \/ HandleInvalid(r) \/ HandleJoin(r) \/ HandleDedupFull(r) \/ HandlerDone(r)
      PROVE  UNCHANGED <<stage, dedup>>
  BY <1>6
  DEF OnRequestTurnedAway, OnRequestJoin, OnRequestAdmission, OnResponse, OnRequestAbort,
      HooksLost, HandleInvalid, HandleJoin, HandleDedupFull, HandlerDone, execVars, queueVars
<1>7. RegistryReload \/ UNCHANGED vars => UNCHANGED <<stage, dedup>>
  BY DEF RegistryReload, vars, execVars, queueVars
<1>8. QED
  BY <1>2, <1>3, <1>4, <1>5, <1>6, <1>7 DEF Next

\* What a row of the journal rests on: a request waits for an execution only
\* after its body, an execution that is waited for is its owner's own, and the
\* table of keys names executions of that very key.
Joined ==
    /\ \A r \in Requests : phase[r] \in {"idle", "refused", "body"} => waitsFor[r] = None
    /\ \A r \in Requests : phase[r] = "awaiting" => waitsFor[r] # None
    /\ \A r \in Requests : waitsFor[r] # None =>
          LET o == waitsFor[r]
          IN  waitsFor[o] = o /\ (o # r => KeyOf[r] # NoKey /\ DedupKey(o) = DedupKey(r))
    /\ \A k \in DedupKeys : dedup[k] # None =>
          waitsFor[dedup[k]] = dedup[k] /\ DedupKey(dedup[k]) = k
    /\ \A r \in Requests : journal[r] # None =>
          journal[r] = waitsFor[r] /\ stage[journal[r]] = "settled"

\* An execution that has settled never moves again.
LEMMA SettledForGood ==
    ASSUME TypeOK, Lifecycle, GlobalLine, [Next]_vars,
           NEW x \in Requests, stage[x] = "settled"
    PROVE  stage'[x] = "settled"
<1>1. stage \in [Requests -> Stages]
  BY DEF TypeOK, QueuesTypeOK
<1>2. ASSUME NEW r \in Requests, ExecutionStep(r)
      PROVE  stage'[x] = "settled"
  <2>1. InFlight(r)
    BY <1>2, OnlyInFlightMoves
  <2>2. r # x
    BY <2>1 DEF InFlight
  <2>3. QED
    BY <1>1, <1>2, <2>2 DEF ExecutionStep, StartClientTask, StartGlobalTask, FinishExecution,
                            StartClient, StartGlobal, Settle
<1>3. ASSUME NEW r \in Requests, HandleExecute(r)
      PROVE  stage'[x] = "settled"
  <2>1. r # x
    BY <1>3 DEF HandleExecute, Lifecycle
  <2>2. QED
    BY <1>1, <1>3, <2>1 DEF HandleExecute, Enqueue
<1>4. ASSUME NEW r \in Requests,
             \/ OnRequestTurnedAway(r) \/ OnRequestJoin(r) \/ OnRequestAdmission(r)
             \/ OnResponse(r) \/ OnRequestAbort(r) \/ HooksLost(r)
             \/ HandleInvalid(r) \/ HandleJoin(r) \/ HandleDedupFull(r) \/ HandlerDone(r)
      PROVE  stage' = stage
  BY <1>4
  DEF OnRequestTurnedAway, OnRequestJoin, OnRequestAdmission, OnResponse, OnRequestAbort,
      HooksLost, HandleInvalid, HandleJoin, HandleDedupFull, HandlerDone, execVars, queueVars
<1>5. RegistryReload \/ UNCHANGED vars => stage' = stage
  BY DEF RegistryReload, vars, execVars, queueVars
<1>6. QED
  BY <1>2, <1>3, <1>4, <1>5 DEF Next, ExecutionStep

\* Every step keeps who waits for whom.
LEMMA JoinedStep ==
    ASSUME TypeOK, Lifecycle, GlobalLine, Joined, [Next]_vars
    PROVE  Joined'
<1>1. /\ phase \in [Requests -> Phases]
      /\ waitsFor \in [Requests -> Requests \cup {None}]
      /\ journal \in [Requests -> Requests \cup {None}]
      /\ dedup \in [DedupKeys -> Requests \cup {None}]
      /\ None \notin Requests
  BY SiteAssumption DEF TypeOK
<1>2. \A x \in Requests : stage[x] = "settled" => stage'[x] = "settled"
  BY SettledForGood
<1>3. ASSUME UNCHANGED <<waitsFor, journal>>,
             \A k \in DedupKeys : dedup'[k] \in {dedup[k], None},
             \A x \in Requests : \/ phase'[x] = phase[x]
                                 \/ phase[x] \in {"idle", "body"} /\ phase'[x] # "awaiting"
                                 \/ phase'[x] \in {"done", "gone"}
      PROVE  Joined'
  <2>1. \A x \in Requests : phase'[x] \in {"idle", "refused", "body"} => waitsFor'[x] = None
    BY <1>3 DEF Joined
  <2>2. \A x \in Requests : phase'[x] = "awaiting" => waitsFor'[x] # None
    BY <1>3 DEF Joined
  <2>3. \A x \in Requests : journal'[x] # None =>
           journal'[x] = waitsFor'[x] /\ stage'[journal'[x]] = "settled"
    BY <1>1, <1>2, <1>3 DEF Joined
  <2>4. QED
    BY <1>3, <2>1, <2>2, <2>3 DEF Joined, DedupKey
<1>4. CASE UNCHANGED vars \/ RegistryReload
  BY <1>3, <1>4 DEF RegistryReload, vars, requestVars, execVars
<1>5. ASSUME NEW r \in Requests,
             \/ OnRequestTurnedAway(r) \/ OnRequestJoin(r) \/ OnRequestAdmission(r)
             \/ OnResponse(r) \/ OnRequestAbort(r) \/ HooksLost(r)
             \/ HandleInvalid(r) \/ HandleDedupFull(r)
      PROVE  Joined'
  <2>1. UNCHANGED <<waitsFor, journal, dedup>>
    BY <1>5
    DEF OnRequestTurnedAway, OnRequestJoin, OnRequestAdmission, OnResponse, OnRequestAbort,
        HooksLost, HandleInvalid, HandleDedupFull, execVars
  <2>2. \A x \in Requests : \/ phase'[x] = phase[x]
                            \/ phase[x] \in {"idle", "body"} /\ phase'[x] # "awaiting"
                            \/ phase'[x] \in {"done", "gone"}
    BY <1>1, <1>5
    DEF OnRequestTurnedAway, OnRequestJoin, OnRequestAdmission, OnResponse, OnRequestAbort,
        HooksLost, HandleInvalid, HandleDedupFull
  <2>3. QED
    BY <1>3, <2>1, <2>2
<1>6. ASSUME NEW r \in Requests, ExecutionStep(r)
      PROVE  Joined'
  <2>1. UNCHANGED <<waitsFor, journal, phase>>
    BY <1>6 DEF ExecutionStep, StartClientTask, StartGlobalTask, FinishExecution, requestVars
  <2>2. \A k \in DedupKeys : dedup'[k] \in {dedup[k], None}
    BY <1>1, <1>6 DEF ExecutionStep, StartClientTask, StartGlobalTask, FinishExecution
  <2>3. QED
    BY <1>3, <2>1, <2>2
<1>7. ASSUME NEW r \in Requests, HandleJoin(r) \/ HandleExecute(r)
      PROVE  Joined'
  <2> DEFINE o == waitsFor'[r]
  <2>1. /\ waitsFor' = [waitsFor EXCEPT ![r] = o]
        /\ phase' = [phase EXCEPT ![r] = "awaiting"]
        /\ journal' = journal
        /\ waitsFor[r] = None
    BY <1>1, <1>7 DEF HandleJoin, HandleExecute, Joined
  <2>2. /\ o \in Requests
        /\ o = r \/ (waitsFor[o] = o /\ KeyOf[r] # NoKey /\ DedupKey(o) = DedupKey(r))
    <3>1. CASE HandleJoin(r)
      <4>1. KeyOf[r] # NoKey /\ dedup[DedupKey(r)] # None /\ o = dedup[DedupKey(r)]
        BY <1>1, <3>1 DEF HandleJoin, KeyActive
      <4>2. DedupKey(r) \in DedupKeys
        BY <4>1, DedupKeyType
      <4>3. QED
        BY <1>1, <4>1, <4>2 DEF Joined
    <3>2. CASE HandleExecute(r)
      BY <1>1, <3>2 DEF HandleExecute
    <3>3. QED
      BY <1>7, <3>1, <3>2
  <2>3. waitsFor'[o] = o
    BY <1>1, <2>1, <2>2
  <2>4. ASSUME NEW x \in Requests, waitsFor'[x] # None
        PROVE  /\ waitsFor'[waitsFor'[x]] = waitsFor'[x]
               /\ waitsFor'[x] # x => KeyOf[x] # NoKey /\ DedupKey(waitsFor'[x]) = DedupKey(x)
    <3>1. CASE x = r
      BY <2>2, <2>3, <3>1
    <3>2. CASE x # r
      <4>1. waitsFor'[x] = waitsFor[x] /\ waitsFor[x] \in Requests
        BY <1>1, <2>1, <2>4, <3>2
      <4>2. waitsFor[waitsFor[x]] = waitsFor[x]
        BY <2>4, <4>1 DEF Joined
      <4>3. waitsFor[x] # r
        BY <1>1, <2>1, <4>1, <4>2
      <4>4. QED
        BY <1>1, <2>1, <2>4, <4>1, <4>2, <4>3 DEF Joined
    <3>3. QED
      BY <3>1, <3>2
  <2>5. ASSUME NEW k \in DedupKeys, dedup'[k] # None
        PROVE  waitsFor'[dedup'[k]] = dedup'[k] /\ DedupKey(dedup'[k]) = k
    <3>1. CASE dedup'[k] = dedup[k]
      <4>1. /\ dedup[k] \in Requests
            /\ waitsFor[dedup[k]] = dedup[k]
            /\ DedupKey(dedup[k]) = k
        BY <1>1, <2>5, <3>1 DEF Joined
      <4>2. dedup[k] # r
        BY <1>1, <2>1, <4>1
      <4>3. QED
        BY <1>1, <2>1, <3>1, <4>1, <4>2
    <3>2. CASE dedup'[k] # dedup[k]
      <4>1. k = DedupKey(r) /\ dedup'[k] = r /\ o = r
        BY <1>1, <1>7, <3>2 DEF HandleJoin, HandleExecute
      <4>2. QED
        BY <2>3, <4>1
    <3>3. QED
      BY <3>1, <3>2
  <2>6. ASSUME NEW x \in Requests, journal'[x] # None
        PROVE  journal'[x] = waitsFor'[x] /\ stage'[journal'[x]] = "settled"
    <3>1. journal[x] = waitsFor[x] /\ journal[x] \in Requests /\ stage[journal[x]] = "settled"
      BY <1>1, <2>1, <2>6 DEF Joined
    <3>2. x # r
      BY <1>1, <2>1, <3>1
    <3>3. QED
      BY <1>1, <1>2, <2>1, <3>1, <3>2
  <2>7. /\ \A x \in Requests : phase'[x] \in {"idle", "refused", "body"} => waitsFor'[x] = None
        /\ \A x \in Requests : phase'[x] = "awaiting" => waitsFor'[x] # None
    BY <1>1, <2>1, <2>2 DEF Joined
  <2> HIDE DEF o
  <2>8. QED
    BY <2>4, <2>5, <2>6, <2>7 DEF Joined, DedupKey
<1>8. ASSUME NEW r \in Requests, HandlerDone(r)
      PROVE  Joined'
  <2>1. /\ phase' = [phase EXCEPT ![r] = "replied"]
        /\ journal' = [journal EXCEPT ![r] = waitsFor[r]]
        /\ UNCHANGED <<waitsFor, dedup, stage>>
        /\ waitsFor[r] \in Requests
        /\ stage[waitsFor[r]] = "settled"
    BY <1>1, <1>8 DEF HandlerDone, Joined, execVars, queueVars
  <2>2. ASSUME NEW x \in Requests, journal'[x] # None
        PROVE  journal'[x] = waitsFor'[x] /\ stage'[journal'[x]] = "settled"
    <3>1. CASE x = r
      BY <1>1, <2>1, <3>1
    <3>2. CASE x # r
      BY <1>1, <2>1, <2>2, <3>2 DEF Joined
    <3>3. QED
      BY <3>1, <3>2
  <2>3. /\ \A x \in Requests : phase'[x] \in {"idle", "refused", "body"} => waitsFor'[x] = None
        /\ \A x \in Requests : phase'[x] = "awaiting" => waitsFor'[x] # None
    BY <1>1, <2>1 DEF Joined
  <2>4. QED
    BY <2>1, <2>2, <2>3 DEF Joined, DedupKey
<1>9. QED
  BY <1>4, <1>5, <1>6, <1>7, <1>8 DEF Next, ExecutionStep

------------------------------------------------------------------------------
(* Theorems.                                                                *)

Inv == TypeOK /\ Lifecycle /\ Accounting /\ GlobalLine /\ KeyOwner /\ Joined

\* The process starts with exact, empty counters and empty queues.
LEMMA InitInv == Init => Inv
<1> SUFFICES ASSUME Init PROVE Inv
  OBVIOUS
<1>1. tenants \in [Clients -> Limits \cup {NoTenant}]
  BY DEF Init
<1>2. /\ FairnessTypeOK
      /\ \A c \in Clients : slots[c].active = 0
      /\ globalActive = 0
  BY <1>1, FairnessInitCounts DEF Init
<1>3. QueuesTypeOK /\ GlobalLine
  <2>1. << >> \in Seq(Requests) /\ Len(<< >>) = 0
    OBVIOUS
  <2>2. QED
    BY <2>1 DEF Init, QueuesInit, QueuesTypeOK, Stages, GlobalLine, OneEach
<1>4. TypeOK
  BY <1>1, <1>2, <1>3, SiteAssumption DEF Init, TypeOK, Phases
<1>5. Lifecycle /\ KeyOwner /\ Joined
  BY DEF Init, QueuesInit, Lifecycle, KeyOwner, InFlight, Joined
<1>6. Accounting
  <2>1. Holders = {} /\ \A c \in Clients : HoldersOf(c) = {}
    BY DEF Init, Holders, HoldersOf
  <2>2. QED
    BY <1>2, <2>1, FS_EmptySet DEF Accounting
<1>7. QED
  BY <1>3, <1>4, <1>5, <1>6 DEF Inv

\* Every reachable state satisfies the inductive invariant.
THEOREM Invariance == Spec => []Inv
<1>1. Inv /\ [Next]_vars => Inv'
  BY TypeStep, LifecycleStep, CountersStep, AccountingStep, GlobalLineStep, KeyOwnerStep,
     JoinedStep DEF Inv
<1>2. QED
  BY <1>1, InitInv, PTL DEF Spec

\* Types, which include that every slot is backed by a queue that exists.
THEOREM TypesHold == Spec => []TypeOK
BY Invariance, PTL DEF Inv

\* The admission counters are exact in every reachable state.
THEOREM CountersExact == Spec => []Accounting
BY Invariance, PTL DEF Inv

\* No idempotency key ever has two executions in flight.
THEOREM KeyExecutesOnce == Spec => []OneExecutionPerKey
<1>1. Inv => OneExecutionPerKey
  <2> SUFFICES ASSUME KeyOwner, NEW r \in Requests, NEW s \in Requests,
                      KeyOf[r] # NoKey, DedupKey(r) = DedupKey(s), InFlight(r), InFlight(s)
               PROVE  r = s
    BY DEF Inv, OneExecutionPerKey
  <2>1. KeyOf[s] # NoKey
    BY DEF DedupKey
  <2>2. QED
    BY <2>1 DEF KeyOwner
<1>2. QED
  BY <1>1, Invariance, PTL

\* A row of a joined request names an execution that has settled, of the same
\* client and key, and that is its owner's own.
THEOREM RowsNameTheOwner == Spec => []JoinedRowsNameTheOwner
<1>1. Inv => JoinedRowsNameTheOwner
  <2> SUFFICES ASSUME Inv, NEW r \in Requests, journal[r] # None
               PROVE  LET o == journal[r]
                      IN  /\ waitsFor[o] = o
                          /\ stage[o] = "settled"
                          /\ o # r => KeyOf[r] # NoKey /\ DedupKey(o) = DedupKey(r)
    BY DEF JoinedRowsNameTheOwner
  <2>1. journal[r] = waitsFor[r] /\ waitsFor[r] # None /\ stage[journal[r]] = "settled"
    BY DEF Inv, Joined
  <2>2. QED
    BY <2>1 DEF Inv, Joined
<1>2. QED
  BY <1>1, Invariance, PTL

------------------------------------------------------------------------------
(* Refinement.                                                              *)

\* What the semaphore sees of the state.
Cap == [c \in Clients |-> IF tenants[c] = NoTenant THEN 0
                          ELSE tenants[c].maxConcurrency + tenants[c].maxPending]
Spent == {r \in Requests : released[r]}

\* The capacities of a snapshot are numbers.
LEMMA CapType ==
    ASSUME TypeOK
    PROVE  Cap \in [Clients -> Nat]
<1>1. ASSUME NEW c \in Clients
      PROVE  Cap[c] \in Nat
  <2>1. CASE tenants[c] = NoTenant
    BY <2>1 DEF Cap
  <2>2. CASE tenants[c] # NoTenant
    <3>1. tenants[c] \in Limits
      BY <2>2 DEF TypeOK
    <3>2. tenants[c].maxConcurrency \in Nat /\ tenants[c].maxPending \in Nat
      BY <3>1, FairnessAssumption
    <3>3. QED
      BY <2>2, <3>2 DEF Cap
  <2>3. QED
    BY <2>1, <2>2
<1>2. QED
  BY <1>1 DEF Cap

\* The semaphore counts with the same Cardinality.
LEMMA SameCardinality == \A S : Semaphore!Cardinality(S) = Cardinality(S)
BY DEF Semaphore!Cardinality, Cardinality

\* An admission is an Acquire: the counters it compares are, by Accounting,
\* the numbers of holders.
LEMMA AdmissionAcquires ==
    ASSUME Inv, NEW r \in Requests, OnRequestAdmission(r)
    PROVE  Semaphore!Acquire(r) \/ UNCHANGED <<Holders, Spent, Cap>>
<1> DEFINE c   == ClientOf[r]
           lim == tenants[c]
           ok  == AdmitResult(c, lim, DedupSize) = "ok"
<1>1. /\ admitted \in [Requests -> BOOLEAN]
      /\ FairnessTypeOK
      /\ ~admitted[r] /\ ~released[r]
  BY DEF Inv, TypeOK, Lifecycle, OnRequestAdmission
<1>2. /\ c \in Clients
      /\ lim \in Limits
      /\ lim # NoTenant
      /\ admitted' = [admitted EXCEPT ![r] = ok]
      /\ released' = released
      /\ tenants' = tenants
  BY QueuesAssumption DEF OnRequestAdmission, TypeOK, Inv
<1>3. Spent' = Spent /\ Cap' = Cap
  BY <1>2 DEF Spent, Cap
<1>4. CASE ~ok
  <2>1. Holders' = Holders
    BY <1>1, <1>2, <1>4 DEF Holders
  <2>2. QED
    BY <1>3, <2>1
<1>5. CASE ok
  <2>1. Holders' = Holders \cup {r} /\ r \notin Holders \cup Spent
    BY <1>1, <1>2, <1>5 DEF Holders, Spent
  <2>2. /\ slots[c].active < lim.maxConcurrency + lim.maxPending
        /\ globalActive < GlobalMaxPending
    BY <1>1, <1>2, <1>5, AdmittedHasRoom
  <2>3. Cap[c] = lim.maxConcurrency + lim.maxPending
    BY <1>2 DEF Cap
  <2>4. /\ slots[c].active = Cardinality({x \in Holders : ClientOf[x] = c})
        /\ globalActive = Cardinality(Holders)
    BY <1>2 DEF Inv, Accounting, HoldersOf
  <2>5. /\ Cardinality({x \in Holders : ClientOf[x] = c}) < Cap[c]
        /\ Cardinality(Holders) < GlobalMaxPending
    BY <2>2, <2>3, <2>4
  <2>6. Semaphore!Acquire(r)
    BY <1>3, <2>1, <2>5, SameCardinality DEF Semaphore!Acquire, Semaphore!HeldBy, Spent, Cap
  <2>7. QED
    BY <2>6
<1>6. QED
  BY <1>4, <1>5

\* A release is a GiveBack, once per holder.
LEMMA ReleaseGivesBack ==
    ASSUME Inv, NEW r \in Requests, ReleaseAdmission(r),
           admitted' = admitted, tenants' = tenants
    PROVE  Semaphore!GiveBack(r) \/ UNCHANGED <<Holders, Spent, Cap>>
<1>1. admitted \in [Requests -> BOOLEAN] /\ released \in [Requests -> BOOLEAN]
  BY DEF Inv, TypeOK
<1>2. Cap' = Cap
  BY DEF Cap
<1>3. CASE ~(admitted[r] /\ ~released[r])
  BY <1>2, <1>3 DEF ReleaseAdmission, Holders, Spent
<1>4. CASE admitted[r] /\ ~released[r]
  <2>1. /\ r \in Holders
        /\ Holders' = Holders \ {r}
        /\ Spent' = Spent \cup {r}
    BY <1>1, <1>4 DEF ReleaseAdmission, Holders, Spent
  <2>2. QED
    BY <1>2, <2>1 DEF Semaphore!GiveBack, Spent, Cap
<1>5. QED
  BY <1>3, <1>4

\* The contour implements the semaphore: what it counts with integers, two
\* levels of limits and reloads is a set of holders within its capacities.
THEOREM ContourIsSemaphore == Spec => ImplementsSemaphore
<1>1. Inv => Cap \in [Clients -> Nat]
  BY CapType DEF Inv
<1>2. Init => Semaphore!SemInit
  <2> SUFFICES ASSUME Init PROVE Semaphore!SemInit
    OBVIOUS
  <2>1. Holders = {} /\ Spent = {}
    BY DEF Init, Holders, Spent
  <2>2. Cap \in [Clients -> Nat]
    BY InitInv, <1>1
  <2>3. QED
    BY <2>1, <2>2 DEF Semaphore!SemInit, Spent, Cap
<1>3. Inv /\ (Cap \in [Clients -> Nat])' /\ [Next]_vars => [Semaphore!SemNext]_(Semaphore!semVars)
  <2> SUFFICES ASSUME Inv, (Cap \in [Clients -> Nat])', [Next]_vars
               PROVE  [Semaphore!SemNext]_(Semaphore!semVars)
    OBVIOUS
  <2> USE DEF Semaphore!semVars
  <2>1. ASSUME UNCHANGED <<Holders, Spent, Cap>>
        PROVE  [Semaphore!SemNext]_(Semaphore!semVars)
    BY <2>1 DEF Spent, Cap
  <2>2. ASSUME UNCHANGED <<admitted, released, tenants>>
        PROVE  [Semaphore!SemNext]_(Semaphore!semVars)
    BY <2>1, <2>2 DEF Spent, Cap, Holders
  <2>3. CASE RegistryReload
    <3>1. Holders' = Holders /\ Spent' = Spent
      BY <2>3 DEF RegistryReload, requestVars, Holders, Spent
    <3>2. QED
      BY <3>1 DEF Semaphore!SemNext, Semaphore!Reconfigure, Spent, Cap
  <2>4. ASSUME NEW r \in Requests, OnRequestAdmission(r)
        PROVE  [Semaphore!SemNext]_(Semaphore!semVars)
    BY <2>1, <2>4, AdmissionAcquires DEF Semaphore!SemNext
  <2>5. ASSUME NEW r \in Requests, OnResponse(r) \/ OnRequestAbort(r)
        PROVE  [Semaphore!SemNext]_(Semaphore!semVars)
    <3>1. ReleaseAdmission(r) /\ admitted' = admitted /\ tenants' = tenants
      BY <2>5 DEF OnResponse, OnRequestAbort
    <3>2. QED
      BY <2>1, <3>1, ReleaseGivesBack DEF Semaphore!SemNext
  <2>6. ASSUME NEW r \in Requests,
               \/ OnRequestTurnedAway(r) \/ OnRequestJoin(r) \/ HooksLost(r)
               \/ HandleInvalid(r) \/ HandleJoin(r) \/ HandleDedupFull(r) \/ HandleExecute(r)
               \/ ExecutionStep(r) \/ HandlerDone(r)
        PROVE  UNCHANGED <<admitted, released, tenants>>
    BY <2>6
    DEF OnRequestTurnedAway, OnRequestJoin, HooksLost, HandleInvalid, HandleJoin,
        HandleDedupFull, HandleExecute, ExecutionStep, StartClientTask,
        StartGlobalTask, FinishExecution, HandlerDone, requestVars
  <2>7. UNCHANGED vars => UNCHANGED <<admitted, released, tenants>>
    BY DEF vars, requestVars
  <2>8. QED
    BY <2>2, <2>3, <2>4, <2>5, <2>6, <2>7 DEF Next, ExecutionStep
<1>4. QED
  BY <1>1, <1>2, <1>3, Invariance, PTL DEF Spec, ImplementsSemaphore, Semaphore!SemSpec
------------------------------------------------------------------------------
(* The reconciler.                                                          *)

\* The slots of a scope whose requests are not leaked.
Used(s) == HoldersIn(s) \ Leaked

\* Where a slot may be: with a request that reads its body, is registered,
\* is being answered or has broken off.
Registered ==
    \A r \in Holders : \/ phase[r] = "awaiting" /\ r \in live
                       \/ phase[r] \in {"body", "replied", "gone"}

WindowTypes ==
    /\ history \in [Scopes -> Seq(Int)]
    /\ seen \subseteq Requests
    /\ hidden \in [Scopes -> Seq(Nat)]
    /\ misled \in [Scopes -> Nat]

\* What a positive sample is worth: no more than what is counted beyond the
\* slots in use, and the slots in use that its tick could not see.
Fits(sample, unseen, s) ==
    sample > 0 => sample + Cardinality(Used(s)) <= Counted(s) + unseen

SamplesFit ==
    \A s \in Scopes :
        /\ Len(hidden[s]) = Len(history[s])
        /\ \A i \in 1..Len(history[s]) : Fits(history[s][i], hidden[s][i], s)

\* What its corrections keep: counters that may fall behind the holders and
\* never exceed them, and samples that are explained by what was leaked and
\* what was unregistered when they were taken.
RInv ==
    /\ TypeOK /\ Lifecycle /\ GlobalLine
    /\ WindowTypes
    /\ NoOvercount
    /\ Registered
    /\ SamplesFit
    /\ OnlyLeakedTaken

\* A sequence of whole numbers that is not empty has a lowest one.
LEMMA LowestExists ==
    ASSUME NEW w \in Seq(Int), w # << >>
    PROVE  /\ Lowest(w) \in Int
           /\ \E i \in 1..Len(w) : Lowest(w) = w[i]
           /\ \A i \in 1..Len(w) : Lowest(w) <= w[i]
<1> DEFINE Good(n) == \E i \in 1..n : \A j \in 1..n : w[i] <= w[j]
           Bad     == {n \in 1..Len(w) : ~Good(n)}
           Less    == OpToRel(<, Nat)
<1>1. Len(w) \in Nat \ {0} /\ DOMAIN w = 1..Len(w) /\ \A i \in 1..Len(w) : w[i] \in Int
  BY LenProperties, EmptySeq, ElementOfSeq
<1>2. Good(1)
  <2>1. 1 \in 1..Len(w) /\ w[1] \in Int
    BY <1>1
  <2>2. \A j \in 1..1 : j = 1
    OBVIOUS
  <2>3. 1 \in 1..1 /\ w[1] <= w[1]
    BY <2>1
  <2>4. QED
    BY <2>2, <2>3
<1>3. ASSUME NEW n \in 1..Len(w), n + 1 \in 1..Len(w), Good(n)
      PROVE  Good(n + 1)
  <2>1. n \in Nat /\ n + 1 \in Nat /\ n \in 1..(n + 1) /\ n + 1 \in 1..(n + 1)
    BY <1>1
  <2>2. PICK i \in 1..n : \A j \in 1..n : w[i] <= w[j]
    BY <1>3
  <2>3. \A j \in 1..(n + 1) : w[j] \in Int
    BY <1>1, <1>3, <2>1
  <2>4. \A j \in 1..(n + 1) : j \in 1..n \/ j = n + 1
    BY <2>1
  <2>5. i \in 1..(n + 1) /\ w[i] \in Int /\ w[n + 1] \in Int
    BY <2>1, <2>3
  <2>6. CASE w[i] <= w[n + 1]
    <3>1. \A j \in 1..(n + 1) : w[i] <= w[j]
      BY <2>2, <2>4, <2>6
    <3>2. QED
      BY <2>5, <3>1
  <2>7. CASE w[n + 1] < w[i]
    <3>1. ASSUME NEW j \in 1..(n + 1) PROVE w[n + 1] <= w[j]
      <4>1. w[j] \in Int
        BY <2>3
      <4>2. CASE j \in 1..n
        <5>1. w[i] <= w[j]
          BY <2>2, <4>2
        <5>2. QED
          BY <2>5, <2>7, <4>1, <5>1
      <4>3. CASE j = n + 1
        BY <2>5, <4>3
      <4>4. QED
        BY <2>4, <4>2, <4>3
    <3>2. QED
      BY <2>1, <3>1
  <2> HIDE DEF Good
  <2>8. w[i] <= w[n + 1] \/ w[n + 1] < w[i]
    BY <2>5
  <2>9. QED
    BY <2>6, <2>7, <2>8
<1> HIDE DEF Good
<1>4. Bad = {}
  <2> SUFFICES ASSUME Bad # {} PROVE FALSE
    OBVIOUS
  <2>1. IsWellFoundedOn(Less, Nat)
    BY NatLessThanWellFounded
  <2>2. Bad \subseteq Nat
    BY <1>1
  <2>3. PICK n \in Bad : \A k \in Bad : ~(<<k, n>> \in Less)
    <3> HIDE DEF Bad, Less
    <3>1. QED
      BY <2>1, <2>2, WFMin
  <2>4. n \in 1..Len(w) /\ ~Good(n)
    OBVIOUS
  <2>5. n # 1
    BY <1>2, <2>4
  <2> DEFINE k == n - 1
  <2>6. k \in Nat /\ k < n /\ k \in 1..Len(w) /\ k + 1 = n /\ n \in Nat
    BY <1>1, <2>4, <2>5
  <2> HIDE DEF k
  <2>7. <<k, n>> \in Less
    BY <2>6 DEF OpToRel
  <2>8. k \notin Bad
    BY <2>3, <2>7
  <2>9. Good(k)
    BY <2>6, <2>8
  <2>10. QED
    BY <1>3, <2>4, <2>6, <2>9
<1>5. PICK i \in 1..Len(w) : \A j \in 1..Len(w) : w[i] <= w[j]
  <2>1. Len(w) \in 1..Len(w)
    BY <1>1
  <2>2. Good(Len(w))
    BY <1>4, <2>1
  <2>3. QED
    BY <2>2 DEF Good
<1>6. \E m \in ToSet(w) : \A s \in ToSet(w) : m <= s
  BY <1>1, <1>5 DEF ToSet
<1>7. ToSet(w) \subseteq Int
  BY <1>1 DEF ToSet
<1>8. Lowest(w) \in ToSet(w) /\ \A s \in ToSet(w) : Lowest(w) <= s
  BY <1>6 DEF Lowest
<1>9. (\E h \in 1..Len(w) : Lowest(w) = w[h]) /\ \A h \in 1..Len(w) : w[h] \in ToSet(w)
  BY <1>1, <1>8 DEF ToSet
<1>10. QED
  BY <1>7, <1>8, <1>9

\* The numbers of live and of admitted requests are natural numbers.
LEMMA CountsType ==
    ASSUME NEW S \in SUBSET Requests
    PROVE  Cardinality(S) \in Nat
BY FS_Subset, FS_CardinalityType, QueuesAssumption

\* A window with a new sample: the new one is the last, and the others keep
\* their order, all of them or all but the first.
Slides(w, x, longer) ==
    LET full == Len(w) + 1 > SustainTicks
    IN  /\ Len(longer) = IF full THEN Len(w) ELSE Len(w) + 1
        /\ \A i \in 1..Len(longer) :
              longer[i] = IF i = Len(longer) THEN x ELSE IF full THEN w[i + 1] ELSE w[i]

LEMMA SampledWindow ==
    ASSUME NEW S, NEW w \in Seq(S), NEW x \in S
    PROVE  /\ Sampled(w, x) \in Seq(S)
           /\ Slides(w, x, Sampled(w, x))
<1> DEFINE longer == Append(w, x)
<1>1. /\ longer \in Seq(S) /\ Len(longer) = Len(w) + 1 /\ Len(w) \in Nat
      /\ longer[Len(w) + 1] = x
      /\ \A i \in 1..Len(w) : longer[i] = w[i]
  BY AppendProperties, LenProperties
<1>2. longer # << >>
  BY <1>1, EmptySeq
<1>3. /\ Tail(longer) \in Seq(S) /\ Len(Tail(longer)) = Len(w)
      /\ \A i \in 1..Len(w) : Tail(longer)[i] = longer[i + 1]
  BY <1>1, <1>2, HeadTailProperties
<1>4. Sampled(w, x) = IF Len(longer) > SustainTicks THEN Tail(longer) ELSE longer
  BY DEF Sampled
<1> HIDE DEF longer
<1>5. CASE Len(w) + 1 > SustainTicks
  <2>1. Sampled(w, x) = Tail(longer)
    BY <1>1, <1>4, <1>5
  <2>2. \A i \in 1..Len(w) : i # Len(w) => i + 1 \in 1..Len(w)
    BY <1>1
  <2>3. \A i \in 1..Len(w) : Tail(longer)[i] = IF i = Len(w) THEN x ELSE w[i + 1]
    BY <1>1, <1>3, <2>2
  <2>4. QED
    BY <1>3, <1>5, <2>1, <2>3 DEF Slides
<1>6. CASE ~(Len(w) + 1 > SustainTicks)
  <2>1. Sampled(w, x) = longer
    BY <1>1, <1>4, <1>6
  <2>2. \A i \in 1..(Len(w) + 1) : i # Len(w) + 1 => i \in 1..Len(w)
    BY <1>1
  <2>3. \A i \in 1..(Len(w) + 1) : longer[i] = IF i = Len(w) + 1 THEN x ELSE w[i]
    BY <1>1, <2>2
  <2>4. QED
    BY <1>1, <1>6, <2>1, <2>3 DEF Slides
<1>7. QED
  BY <1>5, <1>6

\* The samples of a tick are whole numbers, and what it finds unregistered is
\* a natural one.
LEMMA SampleTypes ==
    ASSUME TypeOK, WindowTypes, NEW s \in Scopes
    PROVE  /\ Counted(s) \in Nat /\ Excess(s) \in Int /\ Hidden(s) \in Nat
           /\ Cardinality(Used(s)) \in Nat
           /\ Window(s) \in Seq(Int) /\ HiddenWindow(s) \in Seq(Nat)
<1>1. Cardinality(AdmittedLive) \in Nat
  BY CountsType DEF AdmittedLive, TypeOK
<1>2. Cardinality(AdmittedLiveOf(s)) \in Nat
  BY CountsType DEF AdmittedLive, AdmittedLiveOf, TypeOK
<1>3. globalActive \in Nat /\ (s # Global => slots[s] \in Slot)
  BY DEF TypeOK, FairnessTypeOK, Scopes
<1>4. Counted(s) \in Nat
  BY <1>3 DEF Counted, Slot
<1>5. Excess(s) \in Int
  BY <1>1, <1>2, <1>4 DEF Excess
<1>6. HoldersIn(s) \subseteq Requests
  BY DEF HoldersIn, Holders, HoldersOf
<1>7. Hidden(s) \in Nat /\ Cardinality(Used(s)) \in Nat
  BY <1>6, CountsType DEF Hidden, Used
<1>8. Window(s) \in Seq(Int)
  BY <1>5, SampledWindow DEF Window, WindowTypes
<1>9. HiddenWindow(s) \in Seq(Nat)
  BY <1>7, SampledWindow DEF HiddenWindow, WindowTypes
<1>10. QED
  BY <1>4, <1>5, <1>7, <1>8, <1>9

\* What a tick takes from a scope is a natural number: the lowest sample of a
\* full window, when it is positive.
LEMMA SustainedType ==
    ASSUME TypeOK, WindowTypes, NEW s \in Scopes
    PROVE  /\ Sustained(s) \in Nat
           /\ Sustained(s) > 0 =>
                 /\ Window(s) # << >>
                 /\ Sustained(s) = Lowest(Window(s))
<1>1. Window(s) \in Seq(Int)
  BY SampleTypes
<1>2. CASE Len(Window(s)) = SustainTicks /\ Lowest(Window(s)) > 0
  <2>1. Window(s) # << >>
    BY <1>1, <1>2, EmptySeq, ReconcilerAssumption
  <2>2. Lowest(Window(s)) \in Int
    BY <1>1, <2>1, LowestExists
  <2>3. QED
    BY <1>2, <2>1, <2>2 DEF Sustained
<1>3. CASE ~(Len(Window(s)) = SustainTicks /\ Lowest(Window(s)) > 0)
  BY <1>3 DEF Sustained
<1>4. QED
  BY <1>2, <1>3

\* A counter that does not exceed its holders does not exceed them afterwards.
LEMMA NoOvercountStep ==
    ASSUME TypeOK, FairnessTypeOK', NoOvercount, CountersMove
    PROVE  NoOvercount'
<1>1. /\ globalActive <= Cardinality(Holders)
      /\ \A c \in Clients : slots[c].active <= Cardinality(OfClient(Holders, c))
  BY DEF NoOvercount, HoldersOf, OfClient
<1>2. /\ globalActive \in Nat
      /\ \A c \in Clients : slots[c].active \in Nat
  BY DEF TypeOK, FairnessTypeOK, Slot
<1>3. Cardinality(Holders) \in Nat /\ \A c \in Clients : Cardinality(OfClient(Holders, c)) \in Nat
  BY CountsType DEF Holders, OfClient
<1>4. \A k, m \in Nat : k <= m => Minus(k, 1) <= Minus(m, 1)
  BY DEF Minus
<1>5. /\ globalActive' <= Cardinality(Holders')
      /\ \A c \in Clients : slots'[c].active <= Cardinality(OfClient(Holders', c))
  <2>1. CASE Still
    BY <1>1, <2>1 DEF Still, OfClient
  <2>2. ASSUME NEW r \in Requests, Taken(r)
        PROVE  /\ globalActive' <= Cardinality(Holders')
               /\ \A c \in Clients : slots'[c].active <= Cardinality(OfClient(Holders', c))
    <3> DEFINE d == ClientOf[r]
    <3>1. d \in Clients
      BY QueuesAssumption
    <3>2. /\ Cardinality(Holders') = Cardinality(Holders) + 1
          /\ Cardinality(OfClient(Holders', d)) = Cardinality(OfClient(Holders, d)) + 1
          /\ \A c \in Clients : c # d => OfClient(Holders', c) = OfClient(Holders, c)
      BY <2>2, <3>1, HoldersMove
    <3>3. /\ globalActive' = globalActive + 1
          /\ slots'[d].active = slots[d].active + 1
          /\ \A c \in Clients : c # d => slots'[c].active = slots[c].active
      BY <2>2, <3>1 DEF Taken
    <3> HIDE DEF d
    <3>4. globalActive' <= Cardinality(Holders')
      BY <1>1, <1>2, <1>3, <3>2, <3>3
    <3>5. slots'[d].active <= Cardinality(OfClient(Holders', d))
      BY <1>1, <1>2, <1>3, <3>1, <3>2, <3>3
    <3>6. ASSUME NEW c \in Clients, c # d
          PROVE  slots'[c].active <= Cardinality(OfClient(Holders', c))
      BY <1>1, <3>2, <3>3, <3>6
    <3>7. QED
      BY <3>4, <3>5, <3>6
  <2>3. ASSUME NEW r \in Requests, Given(r)
        PROVE  /\ globalActive' <= Cardinality(Holders')
               /\ \A c \in Clients : slots'[c].active <= Cardinality(OfClient(Holders', c))
    <3> DEFINE d == ClientOf[r]
    <3>1. d \in Clients
      BY QueuesAssumption
    <3>2. /\ Cardinality(Holders') = Minus(Cardinality(Holders), 1)
          /\ Cardinality(OfClient(Holders', d)) = Minus(Cardinality(OfClient(Holders, d)), 1)
          /\ \A c \in Clients : c # d => OfClient(Holders', c) = OfClient(Holders, c)
      BY <2>3, <3>1, HoldersMove
    <3>3. /\ globalActive' = Minus(globalActive, 1)
          /\ slots'[d].active = Minus(slots[d].active, 1)
          /\ \A c \in Clients : c # d => slots'[c].active = slots[c].active
      BY <2>3, <3>1 DEF Given
    <3> HIDE DEF d
    <3>4. globalActive' <= Cardinality(Holders')
      BY <1>1, <1>2, <1>3, <1>4, <3>2, <3>3
    <3>5. slots'[d].active <= Cardinality(OfClient(Holders', d))
      BY <1>1, <1>2, <1>3, <1>4, <3>1, <3>2, <3>3
    <3>6. ASSUME NEW c \in Clients, c # d
          PROVE  slots'[c].active <= Cardinality(OfClient(Holders', c))
      BY <1>1, <3>2, <3>3, <3>6
    <3>7. QED
      BY <3>4, <3>5, <3>6
  <2>4. QED
    BY <2>1, <2>2, <2>3 DEF CountersMove
<1>6. QED
  BY <1>5 DEF NoOvercount, HoldersOf, OfClient

\* A request that holds a slot is in its body, registered, being answered or
\* broken off after every step, and one that has broken off stays so and keeps
\* its slot.
LEMMA RegisteredStep ==
    ASSUME TypeOK, Lifecycle, Registered, [Next]_vars
    PROVE  Registered' /\ \A x \in Leaked : x \in Leaked'
<1> USE DEF Registered, Holders, Leaked
<1>1. /\ phase \in [Requests -> Phases]
      /\ admitted \in [Requests -> BOOLEAN]
      /\ released \in [Requests -> BOOLEAN]
  BY DEF TypeOK
<1>2. CASE UNCHANGED vars \/ RegistryReload
  BY <1>2 DEF RegistryReload, vars, requestVars
<1>3. ASSUME NEW r \in Requests, ExecutionStep(r)
      PROVE  Registered' /\ \A x \in Leaked : x \in Leaked'
  BY <1>3 DEF ExecutionStep, StartClientTask, StartGlobalTask, FinishExecution, requestVars
<1>4. ASSUME NEW r \in Requests,
             \/ OnRequestTurnedAway(r) \/ OnRequestJoin(r) \/ HooksLost(r)
             \/ HandleInvalid(r) \/ HandleJoin(r) \/ HandleDedupFull(r)
             \/ HandleExecute(r) \/ HandlerDone(r)
      PROVE  Registered' /\ \A x \in Leaked : x \in Leaked'
  <2>1. /\ UNCHANGED <<admitted, released>>
        /\ phase[r] # "gone"
        /\ \/ phase[r] = "idle"
           \/ phase'[r] \in {"body", "replied", "gone"}
           \/ phase'[r] = "awaiting" /\ r \in live'
        /\ \A x \in Requests \ {r} : phase'[x] = phase[x] /\ (x \in live' <=> x \in live)
    <3>1. CASE OnRequestTurnedAway(r) \/ OnRequestJoin(r) \/ HooksLost(r)
      BY <1>1, <3>1 DEF OnRequestTurnedAway, OnRequestJoin, HooksLost
    <3>2. CASE HandleInvalid(r) \/ HandleDedupFull(r) \/ HandlerDone(r)
      BY <1>1, <3>2 DEF HandleInvalid, HandleDedupFull, HandlerDone
    <3>3. CASE HandleJoin(r) \/ HandleExecute(r)
      BY <1>1, <3>3 DEF HandleJoin, HandleExecute
    <3>4. QED
      BY <1>4, <3>1, <3>2, <3>3
  <2>2. phase[r] = "idle" => r \notin Holders
    BY DEF Lifecycle
  <2>3. QED
    BY <2>1, <2>2
<1>5. ASSUME NEW r \in Requests, OnRequestAdmission(r)
      PROVE  Registered' /\ \A x \in Leaked : x \in Leaked'
  <2>1. /\ UNCHANGED <<released, live>>
        /\ phase[r] = "idle"
        /\ admitted'[r] => phase'[r] = "body"
        /\ \A x \in Requests \ {r} : phase'[x] = phase[x] /\ admitted'[x] = admitted[x]
    BY <1>1, <1>5 DEF OnRequestAdmission
  <2>2. QED
    BY <2>1
<1>6. ASSUME NEW r \in Requests, OnResponse(r) \/ OnRequestAbort(r)
      PROVE  Registered' /\ \A x \in Leaked : x \in Leaked'
  <2>1. /\ UNCHANGED <<admitted, live>>
        /\ phase[r] # "gone"
        /\ \A x \in Requests \ {r} : phase'[x] = phase[x]
    BY <1>1, <1>6 DEF OnResponse, OnRequestAbort
  <2>2. /\ admitted[r] => released'[r]
        /\ \A x \in Requests \ {r} : released'[x] = released[x]
    BY <1>1, <1>6 DEF OnResponse, OnRequestAbort, ReleaseAdmission
  <2>3. QED
    BY <2>1, <2>2
<1>7. QED
  BY <1>2, <1>3, <1>4, <1>5, <1>6 DEF Next, ExecutionStep

\* What is counted beyond the slots in use never shrinks but by a correction.
LEMMA SpareStep ==
    ASSUME TypeOK, TypeOK', CountersMove, \A x \in Leaked : x \in Leaked', NEW s \in Scopes
    PROVE  Counted(s) + Cardinality(Used(s)') <= Counted(s)' + Cardinality(Used(s))
<1> DEFINE Mine(x) == s = Global \/ ClientOf[x] = s
<1>1. /\ Counted(s) \in Nat /\ Counted(s)' \in Nat
  BY DEF Counted, TypeOK, FairnessTypeOK, Scopes, Slot
<1>2. /\ Used(s) \subseteq Requests /\ Used(s)' \subseteq Requests
      /\ IsFiniteSet(Used(s)) /\ IsFiniteSet(Used(s)')
      /\ Cardinality(Used(s)) \in Nat /\ Cardinality(Used(s)') \in Nat
  <2>1. /\ Used(s) \subseteq Requests /\ Used(s)' \subseteq Requests
    BY DEF Used, HoldersIn, HoldersOf, Holders
  <2>2. QED
    BY <2>1, FS_Subset, FS_CardinalityType, QueuesAssumption
<1>3. /\ \A x : x \in Used(s) <=> x \in Holders /\ x \notin Leaked /\ Mine(x)
      /\ \A x : x \in Used(s)' <=> x \in Holders' /\ x \notin Leaked' /\ Mine(x)
  BY DEF Used, HoldersIn, HoldersOf
<1>4. s # Global => s \in Clients
  BY DEF Scopes
<1>5. Used(s)' \subseteq Used(s) => Cardinality(Used(s)') <= Cardinality(Used(s))
  BY <1>2, FS_Subset
<1>6. CASE Still
  <2>1. Used(s)' \subseteq Used(s)
    BY <1>3, <1>6 DEF Still
  <2>2. Counted(s)' = Counted(s)
    BY <1>4, <1>6 DEF Still, Counted
  <2>3. QED
    BY <1>1, <1>2, <1>5, <2>1, <2>2
<1>7. ASSUME NEW r \in Requests, Taken(r)
      PROVE  Counted(s) + Cardinality(Used(s)') <= Counted(s)' + Cardinality(Used(s))
  <2>1. CASE Mine(r)
    <3>1. Counted(s)' = Counted(s) + 1
      BY <1>7, <2>1 DEF Taken, Counted
    <3>2. Used(s)' \subseteq Used(s) \cup {r} /\ r \notin Used(s)
      BY <1>3, <1>7 DEF Taken
    <3>3. /\ IsFiniteSet(Used(s) \cup {r})
          /\ Cardinality(Used(s) \cup {r}) = Cardinality(Used(s)) + 1
      BY <1>2, <3>2, FS_AddElement
    <3>4. Cardinality(Used(s)') <= Cardinality(Used(s)) + 1
      BY <3>2, <3>3, FS_Subset
    <3>5. QED
      BY <1>1, <1>2, <3>1, <3>4
  <2>2. CASE ~Mine(r)
    <3>1. Counted(s)' = Counted(s)
      BY <1>4, <1>7, <2>2 DEF Taken, Counted
    <3>2. Used(s)' \subseteq Used(s)
      BY <1>3, <1>7, <2>2 DEF Taken
    <3>3. QED
      BY <1>1, <1>2, <1>5, <3>1, <3>2
  <2>3. QED
    BY <2>1, <2>2
<1>8. ASSUME NEW r \in Requests, Given(r)
      PROVE  Counted(s) + Cardinality(Used(s)') <= Counted(s)' + Cardinality(Used(s))
  <2>1. CASE Mine(r)
    <3>1. Counted(s)' = Minus(Counted(s), 1)
      BY <1>8, <2>1 DEF Given, Counted
    <3>2. Counted(s) <= Counted(s)' + 1
      BY <1>1, <3>1 DEF Minus
    <3>3. r \in Holders /\ r \notin Leaked
      <4>1. Leaked' \subseteq Holders' /\ r \notin Holders'
        BY <1>8 DEF Given, Leaked
      <4>2. QED
        BY <1>8, <4>1 DEF Given
    <3>4. r \in Used(s) /\ Used(s)' \subseteq Used(s) \ {r}
      BY <1>3, <1>8, <2>1, <3>3 DEF Given
    <3>5. /\ IsFiniteSet(Used(s) \ {r})
          /\ Cardinality(Used(s) \ {r}) = Cardinality(Used(s)) - 1
      BY <1>2, <3>4, FS_RemoveElement
    <3>6. Cardinality(Used(s)') <= Cardinality(Used(s)) - 1
      BY <3>4, <3>5, FS_Subset
    <3>7. QED
      BY <1>1, <1>2, <3>2, <3>6
  <2>2. CASE ~Mine(r)
    <3>1. Counted(s)' = Counted(s)
      BY <1>4, <1>8, <2>2 DEF Given, Counted
    <3>2. Used(s)' \subseteq Used(s)
      BY <1>3, <1>8 DEF Given
    <3>3. QED
      BY <1>1, <1>2, <1>5, <3>1, <3>2
  <2>3. QED
    BY <2>1, <2>2
<1>9. QED
  BY <1>6, <1>7, <1>8 DEF CountersMove

\* Between two ticks the samples keep their worth and what misled a
\* correction stays enough.
LEMMA BetweenTicks ==
    ASSUME TypeOK, TypeOK', WindowTypes, SamplesFit, OnlyLeakedTaken, UNCHANGED windowVars,
           CountersMove, \A x \in Leaked : x \in Leaked'
    PROVE  SamplesFit' /\ OnlyLeakedTaken'
<1>1. ASSUME NEW s \in Scopes
      PROVE  /\ Counted(s) + Cardinality(Used(s)') <= Counted(s)' + Cardinality(Used(s))
             /\ Counted(s) \in Nat /\ Counted(s)' \in Nat
             /\ Cardinality(Used(s)) \in Nat /\ Cardinality(Used(s)') \in Nat
  <2>1. Counted(s) \in Nat /\ Counted(s)' \in Nat
    BY DEF Counted, TypeOK, FairnessTypeOK, Scopes, Slot
  <2>2. Used(s) \subseteq Requests /\ Used(s)' \subseteq Requests
    BY DEF Used, HoldersIn, HoldersOf, Holders
  <2>3. Cardinality(Used(s)) \in Nat /\ Cardinality(Used(s)') \in Nat
    BY <2>2, CountsType
  <2>4. QED
    BY <2>1, <2>3, SpareStep
<1>2. history' = history /\ hidden' = hidden /\ misled' = misled
  BY DEF windowVars
<1>3. ASSUME NEW s \in Scopes, NEW i \in 1..Len(history[s])
      PROVE  Fits(history[s][i], hidden[s][i], s)'
  <2> DEFINE sample == history[s][i]
             unseen == hidden[s][i]
  <2>1. /\ history[s] \in Seq(Int) /\ hidden[s] \in Seq(Nat)
        /\ Len(hidden[s]) = Len(history[s])
        /\ Fits(sample, unseen, s)
    BY DEF WindowTypes, SamplesFit
  <2>2. sample \in Int /\ unseen \in Nat
    BY <2>1, ElementOfSeq
  <2>3. history'[s][i] = sample /\ hidden'[s][i] = unseen
    BY <1>2
  <2> HIDE DEF sample, unseen
  <2>4. sample > 0 => sample + Cardinality(Used(s)) <= Counted(s) + unseen
    BY <2>1 DEF Fits
  <2>5. sample > 0 => sample + Cardinality(Used(s)') <= Counted(s)' + unseen
    BY <1>1, <2>2, <2>4
  <2>6. QED
    BY <2>3, <2>5 DEF Fits
<1>4. SamplesFit'
  BY <1>2, <1>3 DEF SamplesFit
<1>5. ASSUME NEW s \in Scopes
      PROVE  Cardinality(Used(s)') <= Counted(s)' + misled[s]
  <2>1. Cardinality(Used(s)) <= Counted(s) + misled[s] /\ misled[s] \in Nat
    BY DEF OnlyLeakedTaken, Used, WindowTypes
  <2>2. QED
    BY <1>1, <2>1
<1>6. OnlyLeakedTaken'
  BY <1>2, <1>5 DEF OnlyLeakedTaken, Used
<1>7. QED
  BY <1>4, <1>6

\* The sample a tick takes is explained by what is leaked and what it could
\* not see.
LEMMA NewSampleFits ==
    ASSUME TypeOK, WindowTypes, Registered, NEW s \in Scopes
    PROVE  Fits(Excess(s), Hidden(s), s)
<1> DEFINE Seen   == {r \in AdmittedLive : s = Global \/ ClientOf[r] = s}
           Unseen == HoldersIn(s) \cap Unregistered
<1>1. /\ Seen \subseteq Requests /\ Unseen \subseteq Requests /\ Used(s) \subseteq Requests
  BY DEF Used, HoldersIn, HoldersOf, Holders, AdmittedLive, TypeOK
<1>2. IsFiniteSet(Seen) /\ IsFiniteSet(Unseen) /\ IsFiniteSet(Seen \cup Unseen)
  BY <1>1, FS_Subset, FS_Union, QueuesAssumption
<1>3. Used(s) \subseteq Seen \cup Unseen
  BY DEF Used, HoldersIn, HoldersOf, Holders, Leaked, Registered, AdmittedLive, Unregistered
<1>4. Excess(s) > 0 => Excess(s) = Counted(s) - Cardinality(Seen)
  <2>1. s = Global => Seen = AdmittedLive
    OBVIOUS
  <2>2. s # Global => Seen = AdmittedLiveOf(s)
    BY DEF AdmittedLiveOf
  <2> HIDE DEF Seen
  <2>3. QED
    BY <2>1, <2>2 DEF Excess
<1>5. Hidden(s) = Cardinality(Unseen)
  BY DEF Hidden
<1> HIDE DEF Seen, Unseen
<1>6. /\ Cardinality(Used(s)) <= Cardinality(Seen \cup Unseen)
      /\ Cardinality(Seen \cup Unseen) <= Cardinality(Seen) + Cardinality(Unseen)
      /\ Cardinality(Seen) \in Nat /\ Cardinality(Unseen) \in Nat
      /\ Cardinality(Seen \cup Unseen) \in Nat
  <2>1. Cardinality(Used(s)) <= Cardinality(Seen \cup Unseen)
    BY <1>2, <1>3, FS_Subset
  <2>2. /\ Cardinality(Seen) \in Nat /\ Cardinality(Unseen) \in Nat
        /\ Cardinality(Seen \cap Unseen) \in Nat /\ Cardinality(Seen \cup Unseen) \in Nat
    <3>1. IsFiniteSet(Seen \cap Unseen)
      BY <1>2, FS_Intersection
    <3>2. QED
      BY <1>2, <3>1, FS_CardinalityType
  <2>3. Cardinality(Seen \cup Unseen)
          = Cardinality(Seen) + Cardinality(Unseen) - Cardinality(Seen \cap Unseen)
    BY <1>2, FS_Union
  <2>4. QED
    BY <2>1, <2>2, <2>3
<1>7. Counted(s) \in Nat /\ Excess(s) \in Int /\ Cardinality(Used(s)) \in Nat
  BY SampleTypes
<1>8. Excess(s) > 0 => Excess(s) + Cardinality(Used(s)) <= Counted(s) + Hidden(s)
  BY <1>4, <1>5, <1>6, <1>7
<1>9. QED
  BY <1>8 DEF Fits

\* Every sample of the window with the new one is explained.
LEMMA WindowFits ==
    ASSUME TypeOK, WindowTypes, Registered, SamplesFit, NEW s \in Scopes
    PROVE  /\ Len(HiddenWindow(s)) = Len(Window(s))
           /\ \A i \in 1..Len(Window(s)) : Fits(Window(s)[i], HiddenWindow(s)[i], s)
<1> DEFINE full == Len(history[s]) + 1 > SustainTicks
           n    == IF full THEN Len(history[s]) ELSE Len(history[s]) + 1
<1>1. /\ history[s] \in Seq(Int) /\ hidden[s] \in Seq(Nat)
      /\ Len(hidden[s]) = Len(history[s]) /\ Len(history[s]) \in Nat
      /\ \A i \in 1..Len(history[s]) : Fits(history[s][i], hidden[s][i], s)
  BY LenProperties DEF WindowTypes, SamplesFit
<1>2. Excess(s) \in Int /\ Hidden(s) \in Nat
  BY SampleTypes
<1>3. /\ Len(Window(s)) = n
      /\ \A i \in 1..Len(Window(s)) :
            Window(s)[i] = IF i = Len(Window(s)) THEN Excess(s)
                           ELSE IF full THEN history[s][i + 1] ELSE history[s][i]
  <2>1. Slides(history[s], Excess(s), Window(s))
    BY <1>1, <1>2, SampledWindow DEF Window
  <2>2. QED
    BY <2>1 DEF Slides
<1>4. /\ Len(HiddenWindow(s)) = n
      /\ \A i \in 1..Len(HiddenWindow(s)) :
            HiddenWindow(s)[i] = IF i = Len(HiddenWindow(s)) THEN Hidden(s)
                                 ELSE IF full THEN hidden[s][i + 1] ELSE hidden[s][i]
  <2>1. Slides(hidden[s], Hidden(s), HiddenWindow(s))
    BY <1>1, <1>2, SampledWindow DEF HiddenWindow
  <2>2. QED
    BY <1>1, <2>1 DEF Slides
<1>5. \A i \in 1..n : i # n => IF full THEN i + 1 \in 1..Len(history[s])
                                ELSE i \in 1..Len(history[s])
  BY <1>1
<1>6. Fits(Excess(s), Hidden(s), s)
  BY NewSampleFits
<1> HIDE DEF full, n
<1>7. ASSUME NEW i \in 1..n
      PROVE  Fits(Window(s)[i], HiddenWindow(s)[i], s)
  <2>1. CASE i = n
    BY <1>3, <1>4, <1>6, <2>1
  <2>2. CASE i # n
    BY <1>1, <1>3, <1>4, <1>5, <2>2
  <2>3. QED
    BY <2>1, <2>2
<1>8. QED
  BY <1>3, <1>4, <1>7

\* A correction takes no more than is counted beyond the slots in use and the
\* least its ticks could not see.
LEMMA CorrectionFits ==
    ASSUME TypeOK, WindowTypes, Registered, SamplesFit, NEW s \in Scopes, Sustained(s) > 0
    PROVE  /\ Lowest(HiddenWindow(s)) \in Nat
           /\ Sustained(s) + Cardinality(Used(s)) <= Counted(s) + Lowest(HiddenWindow(s))
<1>1. /\ Window(s) \in Seq(Int) /\ HiddenWindow(s) \in Seq(Nat)
      /\ Counted(s) \in Nat /\ Cardinality(Used(s)) \in Nat
  BY SampleTypes
<1>2. Window(s) # << >> /\ Sustained(s) = Lowest(Window(s)) /\ Sustained(s) \in Nat
  BY SustainedType
<1>3. /\ Len(HiddenWindow(s)) = Len(Window(s))
      /\ \A i \in 1..Len(Window(s)) : Fits(Window(s)[i], HiddenWindow(s)[i], s)
  BY WindowFits
<1>4. HiddenWindow(s) # << >> /\ HiddenWindow(s) \in Seq(Int)
  <2>1. Len(Window(s)) # 0
    BY <1>1, <1>2, EmptySeq
  <2>2. Len(HiddenWindow(s)) # 0
    BY <1>3, <2>1
  <2>3. HiddenWindow(s) # << >>
    BY <1>1, <2>2, EmptySeq
  <2>4. \A w \in Seq(Nat) : w \in Seq(Int)
    OBVIOUS
  <2>5. QED
    BY <1>1, <2>3, <2>4
<1>5. PICK i \in 1..Len(HiddenWindow(s)) : Lowest(HiddenWindow(s)) = HiddenWindow(s)[i]
  BY <1>4, LowestExists
<1>6. HiddenWindow(s)[i] \in Nat
  BY <1>1, <1>5, ElementOfSeq
<1>7. Lowest(Window(s)) <= Window(s)[i] /\ Window(s)[i] \in Int
  BY <1>1, <1>2, <1>3, <1>5, LowestExists, ElementOfSeq
<1>8. Fits(Window(s)[i], HiddenWindow(s)[i], s)
  BY <1>3, <1>5
<1>9. Window(s)[i] > 0
  BY <1>2, <1>7
<1>10. Window(s)[i] + Cardinality(Used(s)) <= Counted(s) + HiddenWindow(s)[i]
  BY <1>8, <1>9 DEF Fits
<1>11. /\ Sustained(s) \in Nat /\ Window(s)[i] \in Int /\ HiddenWindow(s)[i] \in Nat
       /\ Cardinality(Used(s)) \in Nat /\ Counted(s) \in Nat
       /\ Sustained(s) <= Window(s)[i]
  BY <1>1, <1>2, <1>6, <1>7
<1>12. Sustained(s) + Cardinality(Used(s)) <= Counted(s) + HiddenWindow(s)[i]
  BY <1>10, <1>11
<1>13. QED
  BY <1>5, <1>6, <1>12

\* A tick lowers counters and changes nothing else of the contour.
LEMMA TickStep ==
    ASSUME RInv, Tick
    PROVE  RInv'
<1>1. /\ FairnessTypeOK
      /\ slots \in [Clients -> Slot]
      /\ globalActive \in Nat
      /\ \A s \in Scopes : Sustained(s) \in Nat
  BY SustainedType DEF RInv, TypeOK, FairnessTypeOK
<1>2. UNCHANGED <<queues, tenants, reloads, requestVars, execVars>>
  BY DEF Tick
<1>3. ASSUME NEW n \in Nat, NEW k \in Nat
      PROVE  Minus(n, k) \in Nat /\ Minus(n, k) <= n
  BY DEF Minus
<1>4. ASSUME NEW c \in Clients
      PROVE  /\ slots'[c] \in Slot
             /\ slots'[c].active <= slots[c].active
             /\ slots'[c].exists = slots[c].exists
             /\ slots'[c].queue = slots[c].queue
             /\ ~slots[c].exists => slots'[c] = NoSlot
  <2> DEFINE k == Minus(slots[c].active, Sustained(c))
  <2>1. slots[c] \in Slot /\ slots[c].active \in Nat /\ Sustained(c) \in Nat
    BY <1>1 DEF Slot, Scopes
  <2>2. k \in Nat /\ k <= slots[c].active
    BY <1>3, <2>1
  <2>3. slots'[c] = [slots[c] EXCEPT !.active = k]
    BY DEF Tick
  <2>4. ~slots[c].exists => slots[c] = NoSlot
    BY <1>1 DEF FairnessTypeOK
  <2> HIDE DEF k
  <2>5. ~slots[c].exists => k = 0
    BY <2>2, <2>4 DEF NoSlot
  <2>6. QED
    BY <2>1, <2>2, <2>3, <2>4, <2>5 DEF Slot, NoSlot
<1>5. FairnessTypeOK'
  <2>1. slots' \in [Clients -> Slot]
    <3>1. slots' = [c \in Clients |-> slots'[c]]
      BY DEF Tick
    <3>2. QED
      BY <1>4, <3>1
  <2>2. globalActive' \in Nat /\ queues' = queues
    BY <1>1, <1>2, <1>3 DEF Tick, Scopes
  <2>3. QED
    BY <1>1, <1>4, <2>1, <2>2 DEF FairnessTypeOK
<1>6. TypeOK' /\ Lifecycle' /\ GlobalLine'
  BY <1>2, <1>5 DEF RInv, TypeOK, QueuesTypeOK, Lifecycle, GlobalLine, GlobalWaiting, Holders,
                    requestVars, execVars, queueVars
<1>7. NoOvercount'
  <2>1. Holders' = Holders
    BY <1>2 DEF Holders, requestVars
  <2>2. globalActive' <= globalActive
    BY <1>1, <1>3 DEF Tick, Scopes
  <2>3. /\ Cardinality(Holders) \in Nat
        /\ \A c \in Clients : Cardinality(HoldersOf(c)) \in Nat
    BY CountsType DEF Holders, HoldersOf
  <2>4. /\ globalActive' \in Nat
        /\ \A c \in Clients : slots'[c].active \in Nat /\ slots[c].active \in Nat
    BY <1>1, <1>5 DEF FairnessTypeOK, Slot
  <2>5. \A c \in Clients : HoldersOf(c)' = HoldersOf(c)
    BY <2>1 DEF HoldersOf
  <2>6. globalActive' <= Cardinality(Holders)
    BY <1>1, <2>2, <2>3, <2>4 DEF RInv, NoOvercount
  <2>7. \A c \in Clients : slots'[c].active <= Cardinality(HoldersOf(c))
    BY <1>4, <2>3, <2>4 DEF RInv, NoOvercount
  <2>8. QED
    BY <2>1, <2>5, <2>6, <2>7 DEF NoOvercount
<1>8. ASSUME NEW s \in Scopes
      PROVE  /\ Used(s)' = Used(s)
             /\ Counted(s)' = Minus(Counted(s), Sustained(s))
             /\ history'[s] = (IF Sustained(s) > 0 THEN << >> ELSE Window(s))
             /\ hidden'[s] = (IF Sustained(s) > 0 THEN << >> ELSE HiddenWindow(s))
             /\ misled'[s] = Misled(s)
  <2>1. Used(s)' = Used(s)
    BY <1>2 DEF Used, HoldersIn, HoldersOf, Holders, Leaked, requestVars
  <2>2. s # Global => slots[s] \in Slot
    BY <1>1 DEF Scopes
  <2>3. Counted(s)' = Minus(Counted(s), Sustained(s))
    BY <2>2 DEF Tick, Counted, Scopes, Slot
  <2>4. QED
    BY <2>1, <2>3 DEF Tick
<1>9. ASSUME NEW s \in Scopes
      PROVE  /\ Window(s) \in Seq(Int) /\ HiddenWindow(s) \in Seq(Nat)
             /\ Counted(s) \in Nat /\ Cardinality(Used(s)) \in Nat
             /\ misled[s] \in Nat
             /\ Cardinality(Used(s)) <= Counted(s) + misled[s]
             /\ Sustained(s) > 0 =>
                   /\ Lowest(HiddenWindow(s)) \in Nat
                   /\ Sustained(s) + Cardinality(Used(s))
                        <= Counted(s) + Lowest(HiddenWindow(s))
  BY SampleTypes, CorrectionFits DEF RInv, WindowTypes, OnlyLeakedTaken, Used
<1>10. ASSUME NEW s \in Scopes
       PROVE  Misled(s) \in Nat /\ misled[s] <= Misled(s)
              /\ (Sustained(s) > 0 => Lowest(HiddenWindow(s)) <= Misled(s))
  BY <1>1, <1>9 DEF Misled
<1>11. WindowTypes'
  <2>1. << >> \in Seq(Int) /\ << >> \in Seq(Nat)
    OBVIOUS
  <2>2. history' \in [Scopes -> Seq(Int)] /\ hidden' \in [Scopes -> Seq(Nat)]
    BY <1>9, <2>1 DEF Tick
  <2>3. misled' \in [Scopes -> Nat]
    BY <1>10 DEF Tick
  <2>4. seen' \subseteq Requests
    BY DEF Tick, RInv, WindowTypes, Unregistered
  <2>5. QED
    BY <2>2, <2>3, <2>4 DEF WindowTypes
<1>12. OnlyLeakedTaken'
  <2>1. ASSUME NEW s \in Scopes
        PROVE  Cardinality(Used(s)) <= Minus(Counted(s), Sustained(s)) + Misled(s)
    <3>1. CASE Sustained(s) > 0
      BY <1>1, <1>9, <1>10, <3>1 DEF Minus
    <3>2. CASE Sustained(s) = 0
      BY <1>9, <1>10, <3>2 DEF Minus
    <3>3. QED
      BY <1>1, <3>1, <3>2
  <2>2. QED
    BY <1>8, <2>1 DEF OnlyLeakedTaken, Used
<1>13. SamplesFit'
  <2>1. ASSUME NEW s \in Scopes
        PROVE  /\ Len(hidden'[s]) = Len(history'[s])
               /\ \A i \in 1..Len(history'[s]) : Fits(history[s][i], hidden[s][i], s)'
    <3>1. CASE Sustained(s) > 0
      <4>1. history'[s] = << >> /\ hidden'[s] = << >>
        BY <1>8, <3>1
      <4>2. Len(<< >>) = 0 /\ 1..0 = {}
        OBVIOUS
      <4>3. QED
        BY <4>1, <4>2
    <3>2. CASE Sustained(s) = 0
      <4>1. /\ Len(HiddenWindow(s)) = Len(Window(s))
            /\ \A i \in 1..Len(Window(s)) : Fits(Window(s)[i], HiddenWindow(s)[i], s)
        BY WindowFits DEF RInv
      <4>2. /\ history'[s] = Window(s) /\ hidden'[s] = HiddenWindow(s)
            /\ Used(s)' = Used(s) /\ Counted(s)' = Counted(s)
        <5>1. Minus(Counted(s), 0) = Counted(s)
          BY <1>9 DEF Minus
        <5>2. ~(Sustained(s) > 0)
          BY <3>2
        <5>3. QED
          BY <1>8, <3>2, <5>1, <5>2
      <4>3. QED
        BY <4>1, <4>2 DEF Fits
    <3>3. QED
      BY <1>1, <3>1, <3>2
  <2>2. QED
    BY <2>1 DEF SamplesFit
<1>14. Registered'
  BY <1>2 DEF RInv, Registered, Holders, requestVars
<1>15. QED
  BY <1>6, <1>7, <1>11, <1>12, <1>13, <1>14 DEF RInv

\* Whatever the reconciler takes, and whenever, no counter exceeds the slots
\* that are held, no slot in use goes uncounted but for those no tick of the
\* window could see, and no correction leaves a slot deleted meanwhile malformed.
THEOREM CorrectionsHold == RSpec => []CorrectionsSound
<1>1. RInit => RInv
  <2> SUFFICES ASSUME RInit PROVE RInv
    OBVIOUS
  <2>1. Inv
    BY InitInv DEF RInit
  <2>2. NoOvercount
    <3>1. /\ Cardinality(Holders) \in Nat
          /\ \A c \in Clients : Cardinality(HoldersOf(c)) \in Nat
      BY CountsType DEF Holders, HoldersOf
    <3>2. QED
      BY <2>1, <3>1 DEF Inv, Accounting, NoOvercount
  <2>3. WindowTypes
    <3>1. << >> \in Seq(Int) /\ << >> \in Seq(Nat) /\ 0 \in Nat
      OBVIOUS
    <3>2. QED
      BY <3>1 DEF RInit, WindowTypes
  <2>4. Holders = {}
    BY DEF RInit, Init, Holders
  <2>5. Registered
    BY <2>4 DEF Registered
  <2>6. SamplesFit
    <3>1. Len(<< >>) = 0 /\ 1..0 = {}
      OBVIOUS
    <3>2. QED
      BY <3>1 DEF RInit, SamplesFit
  <2>7. OnlyLeakedTaken
    <3>1. ASSUME NEW s \in Scopes
          PROVE  Cardinality(HoldersIn(s) \ Leaked) = 0 /\ Counted(s) \in Nat /\ misled[s] = 0
      <4>1. HoldersIn(s) \ Leaked = {}
        BY <2>4 DEF HoldersIn, HoldersOf
      <4>2. Counted(s) \in Nat
        BY <2>1 DEF Inv, Counted, TypeOK, FairnessTypeOK, Scopes, Slot
      <4>3. QED
        BY <4>1, <4>2, FS_EmptySet DEF RInit
    <3>2. QED
      BY <3>1 DEF OnlyLeakedTaken
  <2>8. QED
    BY <2>1, <2>2, <2>3, <2>5, <2>6, <2>7 DEF RInit, RInv, Inv
<1>2. RInv /\ [RNext]_allVars => RInv'
  <2> SUFFICES ASSUME RInv, [RNext]_allVars PROVE RInv'
    OBVIOUS
  <2>1. CASE Tick
    BY <2>1, TickStep
  <2>2. CASE [Next]_vars /\ UNCHANGED windowVars
    <3>1. TypeOK' /\ Lifecycle' /\ GlobalLine' /\ FairnessTypeOK' /\ CountersMove
      BY <2>2, TypeStep, LifecycleStep, GlobalLineStep, CountersStep DEF RInv
    <3>2. NoOvercount'
      BY <3>1, NoOvercountStep DEF RInv
    <3>3. Registered' /\ \A x \in Leaked : x \in Leaked'
      BY <2>2, RegisteredStep DEF RInv
    <3>4. SamplesFit' /\ OnlyLeakedTaken'
      BY <2>2, <3>1, <3>3, BetweenTicks DEF RInv
    <3>5. WindowTypes'
      BY <2>2 DEF RInv, WindowTypes, windowVars
    <3>6. QED
      BY <3>1, <3>2, <3>3, <3>4, <3>5 DEF RInv
  <2>3. QED
    BY <2>1, <2>2 DEF RNext, allVars
<1>3. RInv => CorrectionsSound
  BY DEF RInv, WindowTypes, CorrectionsSound, HistoryTypeOK
<1>4. QED
  BY <1>1, <1>2, <1>3, PTL DEF RSpec
==============================================================================
