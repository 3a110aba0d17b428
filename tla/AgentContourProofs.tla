-------------------------- MODULE AgentContourProofs -------------------------
(***************************************************************************)
(* Theorems about the agent contour, for every set of owners, keys and     *)
(* requests, every limits and any number of reloads.                       *)
(*                                                                         *)
(* That an execution always holds its slot is what keeps it out of the     *)
(* fallback queue, and it needs everything: the counters are exact, so the *)
(* slot of a holder exists and owns a queue; the body timer is disarmed    *)
(* before the handler runs, so it cannot take the slot of an execution;    *)
(* and both waiting lines hold executions in flight only.                  *)
(*                                                                         *)
(* It also bounds a client's share of the global queue (Share): all its    *)
(* executions are in the queue of its present slot.                        *)
(***************************************************************************)
EXTENDS AgentContour, NestedQueuesProofs

Lifecycle ==
    \A r \in Requests :
        /\ released[r] => admitted[r]
        /\ phase[r] \in {"idle", "refused"} => ~admitted[r]
        /\ phase[r] \in {"body", "handling"} => r \in Holders
        /\ r \in bodyTimer => phase[r] = "body"
        /\ phase[r] \in {"idle", "refused", "body"} => stage[r] = "none"
        /\ InFlight(r) => phase[r] = "handling" /\ queueOf[r] # 0

TenantsFollow == tenants \in SnapshotTenants(valid)

WaitingAtProvider == {r \in Requests : stage[r] = "providerWait"}
ProviderLine == OneEach(providerWait, WaitingAtProvider)

\* How the outcome of an execution and the row of its request follow from what
\* came first: the reason of an abort is the first event unless the call was;
\* a reload finds exactly the requests whose handler runs.
Outcome ==
    \A r \in Requests :
        /\ r \in live <=> phase[r] = "handling"
        /\ outcome[r] # "none" <=> stage[r] = "settled"
        /\ first[r] = "called" <=> stage[r] = "upstream" \/ outcome[r] = "result"
        /\ first[r] = "none" => abort[r] = "no"
        /\ first[r] = "revoked" => abort[r] = "key_revoked"
        /\ first[r] = "closed" => abort[r] = "client_closed"
        /\ outcome[r] = "key_revoked" => first[r] = "revoked"
        /\ outcome[r] = "client_closed" => first[r] = "closed"
        /\ journal[r] = "401" => outcome[r] = "key_revoked"
        /\ journal[r] = "499" => outcome[r] = "client_closed"
        /\ journal[r] \in {"result", "client_aborted"} => outcome[r] = "result"
        /\ first[r] # "none" => phase[r] = "handling" \/ journal[r] # "none"

Inv == /\ TypeOK
       /\ Lifecycle
       /\ Accounting
       /\ TenantsFollow
       /\ GlobalLine
       /\ ProviderLine
       /\ Outcome

\* Steps of the executions, which no admission depends on.
ExecutionStep(r) ==
    StartOwnerTask(r) \/ StartGlobalTask(r) \/ StartProviderTask(r) \/ FinishExecution(r)

\* The last write of a stream waits, or its client reads.
LastWriteStep(r) == LastWriteWaits(r) \/ ClientReads(r)

\* The steps that may give a slot back.
ReleaseStep(r) == BodyTimeout(r) \/ OnRequestAbort(r) \/ OnResponse(r) \/ HandlerDone(r)

------------------------------------------------------------------------------
(* Admission counters.                                                      *)

\* Giving the slot back takes a holder away and uncounts exactly it.
LEMMA ReleaseAdmissionCounts ==
    ASSUME TypeOK, Lifecycle, Accounting, NEW r \in Requests,
           ReleaseAgentAdmission(r), admitted' = admitted
    PROVE  /\ FairnessTypeOK'
           /\ Accounting'
           /\ released' \in [Requests -> BOOLEAN]
           /\ \A x \in Requests : released'[x] => admitted[x]
<1>1. /\ admitted \in [Requests -> BOOLEAN]
      /\ released \in [Requests -> BOOLEAN]
      /\ FairnessTypeOK
  BY DEF TypeOK
<1>2. CASE ~(admitted[r] /\ ~released[r])
  <2>1. /\ released' = released
        /\ UNCHANGED fairnessVars
    BY <1>2 DEF ReleaseAgentAdmission
  <2>2. QED
    BY <1>1, <2>1 DEF Accounting, HoldersOf, Holders, fairnessVars, FairnessTypeOK, Lifecycle
<1>3. CASE admitted[r] /\ ~released[r]
  <2> DEFINE c == ClientOf[r]
  <2>1. /\ released' = [released EXCEPT ![r] = TRUE]
        /\ Release(c)
        /\ c \in Clients
    BY <1>3, QueuesAssumption DEF ReleaseAgentAdmission
  <2>2. /\ r \in Holders
        /\ Holders \in SUBSET Requests
        /\ Holders' = Holders \ {r}
    BY <1>1, <1>3, <2>1 DEF Holders
  <2>3. /\ FairnessTypeOK'
        /\ slots'[c].active = Minus(slots[c].active, 1)
        /\ \A x \in Clients \ {c} : slots'[x].active = slots[x].active
        /\ globalActive' = Minus(globalActive, 1)
    BY <1>1, <2>1, ReleaseCounts
  <2>4. /\ globalActive = Cardinality(Holders)
        /\ \A x \in Clients : slots[x].active = Cardinality(OfClient(Holders, x))
    BY DEF Accounting, HoldersOf, OfClient
  <2>5. /\ globalActive' = Cardinality(Holders')
        /\ \A x \in Clients : slots'[x].active = Cardinality(OfClient(Holders', x))
    <3>1. globalActive' = Cardinality(Holders')
      BY <2>2, <2>3, <2>4, CountOneLess
    <3>2. slots'[c].active = Cardinality(OfClient(Holders', c))
      BY <2>1, <2>2, <2>3, <2>4, CountOneLess
    <3>3. \A x \in Clients \ {c} : slots'[x].active = Cardinality(OfClient(Holders', x))
      BY <2>2, <2>3, <2>4, CountOneLess
    <3>4. QED
      BY <3>1, <3>2, <3>3
  <2>6. Accounting'
    BY <2>5 DEF Accounting, HoldersOf, OfClient
  <2>7. QED
    BY <1>1, <1>3, <2>1, <2>3, <2>6 DEF Lifecycle
<1>4. QED
  BY <1>2, <1>3

\* An admission adds a holder and counts exactly it; a refusal adds none.
LEMMA AdmissionCounts ==
    ASSUME TypeOK, Lifecycle, Accounting, TenantsFollow,
           NEW r \in Requests, OnRequestAdmission(r)
    PROVE  /\ FairnessTypeOK'
           /\ Accounting'
<1> DEFINE c   == ClientOf[r]
           lim == tenants[c]
           ok  == AdmitResult(c, lim, 0) = "ok"
           n   == IF ok THEN 1 ELSE 0
<1>1. /\ admitted \in [Requests -> BOOLEAN]
      /\ released \in [Requests -> BOOLEAN]
      /\ FairnessTypeOK
  BY DEF TypeOK
<1>2. /\ c \in Clients
      /\ lim \in Limits
      /\ TryAdmit(c, lim, 0)
      /\ admitted' = [admitted EXCEPT ![r] = ok]
      /\ released' = released
  <2>1. /\ c \in Clients
        /\ c = OwnerOf[TokenOf[r]]
        /\ TokenOf[r] \in valid
    BY QueuesAssumption, AgentAssumption DEF OnRequestAdmission
  <2>2. lim \in Limits
    BY <2>1 DEF TypeOK, TenantsFollow, SnapshotTenants
  <2>3. QED
    BY <2>1, <2>2 DEF OnRequestAdmission
<1>3. ~admitted[r] /\ ~released[r]
  BY DEF Lifecycle, OnRequestAdmission
<1>4. /\ FairnessTypeOK'
      /\ slots'[c].active = slots[c].active + n
      /\ \A x \in Clients \ {c} : slots'[x].active = slots[x].active
      /\ globalActive' = globalActive + n
  <2>1. n = IF AdmitResult(c, lim, 0) = "ok" THEN 1 ELSE 0
    OBVIOUS
  <2> HIDE DEF c, lim, ok, n
  <2>2. QED
    BY <1>1, <1>2, <2>1, TryAdmitCounts
<1>5. /\ globalActive = Cardinality(Holders)
      /\ \A x \in Clients : slots[x].active = Cardinality(OfClient(Holders, x))
  BY DEF Accounting, HoldersOf, OfClient
<1>6. /\ r \notin Holders
      /\ Holders \in SUBSET Requests
  BY <1>3 DEF Holders
<1>7. CASE ok
  <2>1. Holders' = Holders \cup {r}
    BY <1>1, <1>2, <1>3, <1>7 DEF Holders
  <2>2. n = 1
    BY <1>7
  <2>3. /\ globalActive' = Cardinality(Holders')
        /\ \A x \in Clients : slots'[x].active = Cardinality(OfClient(Holders', x))
    <3> HIDE DEF ok, n, lim
    <3>1. globalActive' = Cardinality(Holders')
      BY <1>4, <1>5, <1>6, <2>1, <2>2, CountOneMore
    <3>2. slots'[c].active = Cardinality(OfClient(Holders', c))
      <4>1. Cardinality(OfClient(Holders', c)) = Cardinality(OfClient(Holders, c)) + 1
        BY <1>6, <2>1, CountOneMore
      <4>2. QED
        BY <1>2, <1>4, <1>5, <2>2, <4>1
    <3>3. \A x \in Clients \ {c} : slots'[x].active = Cardinality(OfClient(Holders', x))
      BY <1>4, <1>5, <1>6, <2>1, CountOneMore
    <3>4. QED
      BY <3>1, <3>2, <3>3
  <2>4. Accounting'
    BY <2>3 DEF Accounting, HoldersOf, OfClient
  <2>5. QED
    BY <1>4, <2>4
<1>8. CASE ~ok
  <2>1. Holders' = Holders
    BY <1>1, <1>2, <1>3, <1>8 DEF Holders
  <2>2. n = 0
    BY <1>8
  <2>3. \A x \in Clients : slots[x].active \in Nat
    BY <1>1 DEF FairnessTypeOK, Slot
  <2>4. globalActive \in Nat
    BY <1>1 DEF FairnessTypeOK
  <2> HIDE DEF ok, n, lim
  <2>5. /\ globalActive' = globalActive
        /\ \A x \in Clients : slots'[x].active = slots[x].active
    BY <1>2, <1>4, <2>2, <2>3, <2>4
  <2>6. Accounting'
    BY <1>5, <2>1, <2>5 DEF Accounting, HoldersOf, OfClient
  <2>7. QED
    BY <1>4, <2>6
<1>9. QED
  BY <1>7, <1>8

\* Every step keeps the counters well-formed and exact.
LEMMA CountersStep ==
    ASSUME TypeOK, Lifecycle, Accounting, TenantsFollow, [Next]_vars
    PROVE  FairnessTypeOK' /\ Accounting'
<1>1. ASSUME UNCHANGED <<fairnessVars, admitted, released>>
      PROVE  FairnessTypeOK' /\ Accounting'
  BY <1>1 DEF TypeOK, FairnessTypeOK, fairnessVars, Accounting, HoldersOf, Holders
<1>2. CASE UNCHANGED vars
  BY <1>1, <1>2 DEF vars, requestVars
<1>3. CASE RegistryReload
  <2>1. /\ FairnessTypeOK
        /\ tenants' \in [Clients -> Limits \cup {NoTenant}]
        /\ SyncClients(tenants')
        /\ admitted' = admitted /\ released' = released
    BY <1>3 DEF TypeOK, RegistryReload, SnapshotTenants
  <2>2. /\ FairnessTypeOK'
        /\ \A c \in Clients : slots'[c].active = slots[c].active
        /\ globalActive' = globalActive
    BY <2>1, SyncClientsCounts
  <2>3. Accounting'
    BY <2>1, <2>2 DEF Accounting, HoldersOf, Holders
  <2>4. QED
    BY <2>2, <2>3
<1>4. ASSUME NEW r \in Requests,
             \/ OnRequestTurnedAway(r) \/ OnResponseLost(r) \/ HandleInvalid(r)
             \/ HandleExecute(r) \/ ClientCloses(r) \/ LastWriteStep(r) \/ ExecutionStep(r)
      PROVE  FairnessTypeOK' /\ Accounting'
  <2>1. UNCHANGED <<fairnessVars, admitted, released>>
    BY <1>4 DEF OnRequestTurnedAway, OnResponseLost, HandleInvalid, HandleExecute,
                ClientCloses,
                LastWriteStep, LastWriteWaits, ClientReads, ExecutionStep, StartOwnerTask, StartGlobalTask,
                StartProviderTask, FinishExecution, requestVars
  <2>2. QED
    BY <1>1, <2>1
<1>5. ASSUME NEW r \in Requests, OnRequestAdmission(r)
      PROVE  FairnessTypeOK' /\ Accounting'
  BY <1>5, AdmissionCounts
<1>6. ASSUME NEW r \in Requests, ReleaseStep(r)
      PROVE  FairnessTypeOK' /\ Accounting'
  <2>1. ReleaseAgentAdmission(r) /\ admitted' = admitted
    BY <1>6 DEF ReleaseStep, BodyTimeout, OnRequestAbort, OnResponse, HandlerDone
  <2>2. QED
    BY <2>1, ReleaseAdmissionCounts
<1>7. QED
  BY <1>2, <1>3, <1>4, <1>5, <1>6 DEF Next, LastWriteStep, ExecutionStep, ReleaseStep

------------------------------------------------------------------------------
(* Queues.                                                                  *)

\* Only an execution in flight moves: nothing that waits in the global or in
\* the provider queue has settled.
LEMMA OnlyInFlightMoves ==
    ASSUME TypeOK, GlobalLine, ProviderLine, NEW r \in Requests, ExecutionStep(r)
    PROVE  InFlight(r)
<1>1. CASE StartGlobalTask(r)
  <2>1. Head(globalWait) \in GlobalWaiting /\ r = Head(globalWait)
    BY <1>1, LinePop DEF TypeOK, QueuesTypeOK, GlobalLine, StartGlobalTask, StartGlobal
  <2>2. QED
    BY <2>1 DEF GlobalWaiting, InFlight
<1>2. CASE StartProviderTask(r)
  <2>1. Head(providerWait) \in WaitingAtProvider /\ r = Head(providerWait)
    BY <1>2, LinePop DEF TypeOK, ProviderLine, StartProviderTask
  <2>2. QED
    BY <2>1 DEF WaitingAtProvider, InFlight
<1>3. CASE StartOwnerTask(r) \/ FinishExecution(r)
  BY <1>3 DEF StartOwnerTask, StartClient, FinishExecution, InFlight
<1>4. QED
  BY <1>1, <1>2, <1>3 DEF ExecutionStep

\* The queue variables change only by the operations of NestedQueues, and by
\* the provider queue that lets an execution go or throws.
LEMMA QueuesStep ==
    ASSUME TypeOK, Lifecycle, GlobalLine, ProviderLine, NEW r \in Requests,
           HandleExecute(r) \/ ExecutionStep(r)
    PROVE  QueuesTypeOK' /\ GlobalLine'
<1>1. QueuesTypeOK /\ FairnessTypeOK
  BY DEF TypeOK
<1>2. CASE HandleExecute(r)
  <2>1. Enqueue(r) /\ ~InFlight(r)
    BY <1>2 DEF HandleExecute, Lifecycle, InFlight
  <2>2. QED
    BY <1>1, <2>1, QueueSteps, GlobalLineSteps
<1>3. CASE StartOwnerTask(r)
  BY <1>1, <1>3, QueueSteps, GlobalLineSteps DEF StartOwnerTask
<1>4. CASE StartGlobalTask(r)
  BY <1>1, <1>4, QueueSteps, GlobalLineSteps DEF StartGlobalTask
<1>5. CASE FinishExecution(r)
  <2>1. Settle(r) /\ r \notin GlobalWaiting
    BY <1>5 DEF FinishExecution, GlobalWaiting
  <2>2. QED
    BY <1>1, <2>1, QueueSteps, GlobalLineSteps
<1>6. CASE StartProviderTask(r)
  <2>1. stage[r] = "providerWait"
    <3>1. providerWait \in Seq(Requests) /\ providerWait # << >> /\ r = Head(providerWait)
      BY <1>6 DEF TypeOK, StartProviderTask
    <3>2. r \in WaitingAtProvider
      BY <3>1, LinePop DEF ProviderLine
    <3>3. QED
      BY <3>2 DEF WaitingAtProvider
  <2>2. PICK w \in {"upstream", "settled"} :
           /\ stage' = [stage EXCEPT ![r] = w]
           /\ UNCHANGED <<queueOf, clientWait, globalWait>>
    BY <1>6 DEF StartProviderTask
  <2>3. GlobalWaiting' = GlobalWaiting
    BY <1>1, <2>1, <2>2 DEF GlobalWaiting, QueuesTypeOK
  <2>4. QED
    BY <1>1, <2>2, <2>3 DEF QueuesTypeOK, Stages, GlobalLine
<1>7. QED
  BY <1>2, <1>3, <1>4, <1>5, <1>6 DEF ExecutionStep

\* The provider queue keeps its order and its type.
LEMMA ProviderLineStep ==
    ASSUME TypeOK, Lifecycle, GlobalLine, ProviderLine, [Next]_vars
    PROVE  ProviderLine' /\ providerWait' \in Seq(Requests)
<1>1. /\ stage \in [Requests -> Stages]
      /\ providerWait \in Seq(Requests)
      /\ globalWait \in Seq(Requests)
  BY DEF TypeOK, QueuesTypeOK
<1>2. ASSUME providerWait' = providerWait, WaitingAtProvider' = WaitingAtProvider
      PROVE  ProviderLine' /\ providerWait' \in Seq(Requests)
  BY <1>1, <1>2 DEF ProviderLine
<1>3. ASSUME NEW r \in Requests, StartGlobalTask(r)
      PROVE  ProviderLine' /\ providerWait' \in Seq(Requests)
  <2>1. r \in GlobalWaiting
    BY <1>1, <1>3, LinePop DEF StartGlobalTask, StartGlobal, GlobalLine
  <2>2. r \notin WaitingAtProvider
    BY <2>1 DEF GlobalWaiting, WaitingAtProvider
  <2>3. CASE stage[r] = "outerWait"
    BY <1>1, <1>2, <1>3, <2>2, <2>3 DEF StartGlobalTask, StartGlobal, WaitingAtProvider
  <2>4. CASE stage[r] # "outerWait"
    <3>1. /\ providerWait' = Append(providerWait, r)
          /\ WaitingAtProvider' = WaitingAtProvider \cup {r}
      BY <1>1, <1>3, <2>2, <2>4 DEF StartGlobalTask, StartGlobal, WaitingAtProvider
    <3>2. QED
      BY <1>1, <2>2, <3>1, LinePush, AppendProperties DEF ProviderLine
  <2>5. QED
    BY <2>3, <2>4
<1>4. ASSUME NEW r \in Requests, StartProviderTask(r)
      PROVE  ProviderLine' /\ providerWait' \in Seq(Requests)
  <2>1. /\ r \in WaitingAtProvider
        /\ OneEach(Tail(providerWait), WaitingAtProvider \ {r})
    BY <1>1, <1>4, LinePop DEF StartProviderTask, ProviderLine
  <2>2. /\ providerWait' = Tail(providerWait)
        /\ WaitingAtProvider' = WaitingAtProvider \ {r}
    BY <1>1, <1>4 DEF StartProviderTask, WaitingAtProvider
  <2>3. Tail(providerWait) \in Seq(Requests)
    BY <1>1, <1>4, HeadTailProperties DEF StartProviderTask
  <2>4. QED
    BY <2>1, <2>2, <2>3 DEF ProviderLine
<1>5. ASSUME NEW r \in Requests, HandleExecute(r) \/ StartOwnerTask(r) \/ FinishExecution(r)
      PROVE  ProviderLine' /\ providerWait' \in Seq(Requests)
  <2>1. providerWait' = providerWait
    BY <1>5 DEF HandleExecute, StartOwnerTask, FinishExecution
  <2>2. stage[r] # "providerWait"
    BY <1>5 DEF HandleExecute, StartOwnerTask, StartClient, FinishExecution, Lifecycle
  <2>3. stage' = [stage EXCEPT ![r] = stage'[r]] /\ stage'[r] # "providerWait"
    BY <1>1, <1>5 DEF HandleExecute, Enqueue, StartOwnerTask, StartClient,
                      FinishExecution, Settle
  <2>4. WaitingAtProvider' = WaitingAtProvider
    BY <1>1, <2>2, <2>3 DEF WaitingAtProvider
  <2>5. QED
    BY <1>2, <2>1, <2>4
<1>6. ASSUME UNCHANGED <<stage, providerWait>>
      PROVE  ProviderLine' /\ providerWait' \in Seq(Requests)
  BY <1>2, <1>6 DEF WaitingAtProvider
<1>7. ASSUME NEW r \in Requests,
             \/ OnRequestTurnedAway(r) \/ OnRequestAdmission(r) \/ OnResponseLost(r)
             \/ HandleInvalid(r) \/ ClientCloses(r) \/ LastWriteStep(r) \/ ReleaseStep(r)
      PROVE  UNCHANGED <<stage, providerWait>>
  BY <1>7
  DEF OnRequestTurnedAway, OnRequestAdmission, OnResponseLost, HandleInvalid, ClientCloses,
      LastWriteStep, LastWriteWaits, ClientReads,
      ReleaseStep, BodyTimeout, OnRequestAbort, OnResponse, HandlerDone, execVars, callVars, queueVars
<1>8. RegistryReload \/ UNCHANGED vars => UNCHANGED <<stage, providerWait>>
  BY DEF RegistryReload, vars, execVars, callVars, queueVars
<1>9. QED
  BY <1>3, <1>4, <1>5, <1>6, <1>7, <1>8 DEF Next, LastWriteStep, ReleaseStep

------------------------------------------------------------------------------
(* Types, snapshots and life cycle.                                         *)

\* The tenants are always those of the valid keys.
LEMMA TenantsStep ==
    ASSUME TypeOK, TenantsFollow, [Next]_vars
    PROVE  TenantsFollow'
<1>1. ASSUME UNCHANGED registryVars
      PROVE  TenantsFollow'
  BY <1>1 DEF registryVars, TenantsFollow, SnapshotTenants
<1>2. CASE RegistryReload
  BY <1>2 DEF RegistryReload, TenantsFollow, SnapshotTenants
<1>3. ASSUME NEW r \in Requests,
             \/ OnRequestTurnedAway(r) \/ OnRequestAdmission(r) \/ OnResponseLost(r)
             \/ HandleInvalid(r) \/ HandleExecute(r) \/ ClientCloses(r) \/ LastWriteStep(r)
             \/ ReleaseStep(r) \/ ExecutionStep(r)
      PROVE  UNCHANGED registryVars
  BY <1>3
  DEF OnRequestTurnedAway, OnRequestAdmission, OnResponseLost, HandleInvalid, HandleExecute,
      ClientCloses,
      LastWriteStep, LastWriteWaits, ClientReads, ReleaseStep, BodyTimeout, OnRequestAbort, OnResponse, HandlerDone,
      ExecutionStep, StartOwnerTask, StartGlobalTask, StartProviderTask, FinishExecution
<1>4. UNCHANGED vars => UNCHANGED registryVars
  BY DEF vars
<1>5. QED
  BY <1>1, <1>2, <1>3, <1>4 DEF Next, LastWriteStep, ReleaseStep, ExecutionStep

\* The variables that neither the counters nor the queues explain.
LEMMA TypeStep ==
    ASSUME Inv, [Next]_vars
    PROVE  TypeOK'
<1> USE DEF Inv, TypeOK, Phases, Aborts, Outcomes, Rows, Writes, Firsts
<1>1. FairnessTypeOK'
  BY CountersStep
<1>2. providerWait' \in Seq(Requests)
  BY ProviderLineStep
<1>3. CASE UNCHANGED vars
  BY <1>1, <1>2, <1>3
  DEF vars, registryVars, requestVars, execVars, callVars, queueVars, QueuesTypeOK
<1>4. CASE RegistryReload
  <2>1. /\ valid' \subseteq Tokens
        /\ tenants' \in [Clients -> Limits \cup {NoTenant}]
        /\ reloads' \in 0..MaxReloads
        /\ abort' \in [Requests -> Aborts]
        /\ first' \in [Requests -> Firsts]
    BY <1>4, AgentAssumption DEF RegistryReload, SnapshotTenants, First
  <2>2. UNCHANGED <<phase, admitted, released, bodyTimer, live, closed, journal, callVars>>
    BY <1>4 DEF RegistryReload
  <2>3. QED
    BY <1>1, <1>2, <2>1, <2>2 DEF callVars, queueVars, QueuesTypeOK
<1>5. ASSUME NEW r \in Requests,
             \/ OnRequestTurnedAway(r) \/ OnRequestAdmission(r) \/ OnResponseLost(r)
             \/ HandleInvalid(r) \/ ClientCloses(r) \/ LastWriteStep(r)
      PROVE  TypeOK'
  <2>1. /\ UNCHANGED <<registryVars, released, queueVars, outcome>>
        /\ lastWrite' \in [Requests -> Writes]
        /\ first' \in [Requests -> Firsts]
    BY <1>5 DEF OnRequestTurnedAway, OnRequestAdmission, OnResponseLost, HandleInvalid,
                ClientCloses, LastWriteStep, LastWriteWaits, ClientReads, First,
                requestVars, execVars, callVars
  <2>2. /\ phase' \in [Requests -> Phases]
        /\ admitted' \in [Requests -> BOOLEAN]
        /\ bodyTimer' \subseteq Requests
        /\ live' \subseteq Requests
        /\ abort' \in [Requests -> Aborts]
        /\ closed' \subseteq Requests
        /\ journal' \in [Requests -> Rows]
    <3>1. CASE LastWriteStep(r)
      <4>1. UNCHANGED requestVars
        BY <3>1 DEF LastWriteStep, LastWriteWaits, ClientReads
      <4>2. QED
        BY <4>1 DEF requestVars
    <3>2. CASE ~LastWriteStep(r)
      BY <1>5, <3>2 DEF OnRequestTurnedAway, OnRequestAdmission, OnResponseLost,
                        HandleInvalid, ClientCloses
    <3>3. QED
      BY <3>1, <3>2
  <2>3. QED
    BY <1>1, <1>2, <2>1, <2>2 DEF registryVars, queueVars, QueuesTypeOK
<1>6. ASSUME NEW r \in Requests, ReleaseStep(r)
      PROVE  TypeOK'
  <2>1. ReleaseAgentAdmission(r) /\ admitted' = admitted
    BY <1>6 DEF ReleaseStep, BodyTimeout, OnRequestAbort, OnResponse, HandlerDone
  <2>2. released' \in [Requests -> BOOLEAN]
    BY <2>1, ReleaseAdmissionCounts
  <2>3. journal' \in [Requests -> Rows]
    <3>1. CASE HandlerDone(r)
      <4>1. outcome[r] \in {"result", "key_revoked", "client_closed"}
        BY <3>1 DEF HandlerDone, Outcome
      <4>2. Row(r) \in Rows
        BY <4>1 DEF Row
      <4>3. QED
        BY <3>1, <4>2 DEF HandlerDone
    <3>2. CASE ~HandlerDone(r)
      BY <1>6, <3>2 DEF ReleaseStep, BodyTimeout, OnRequestAbort, OnResponse
    <3>3. QED
      BY <3>1, <3>2
  <2>4. /\ phase' \in [Requests -> Phases]
        /\ bodyTimer' \subseteq Requests
        /\ live' \subseteq Requests
        /\ UNCHANGED <<registryVars, abort, closed, execVars>>
    BY <1>6 DEF ReleaseStep, BodyTimeout, OnRequestAbort, OnResponse, HandlerDone
  <2>5. QED
    BY <1>1, <1>2, <2>1, <2>2, <2>3, <2>4
    DEF registryVars, execVars, callVars, queueVars, QueuesTypeOK
<1>7. ASSUME NEW r \in Requests, HandleExecute(r)
      PROVE  TypeOK'
  <2>1. QueuesTypeOK'
    BY <1>7, QueuesStep
  <2>2. QED
    BY <1>1, <1>2, <1>7, <2>1 DEF HandleExecute, registryVars
<1>8. ASSUME NEW r \in Requests, ExecutionStep(r)
      PROVE  TypeOK'
  <2>1. QueuesTypeOK'
    BY <1>8, QueuesStep
  <2>2. UNCHANGED <<registryVars, requestVars>>
    BY <1>8 DEF ExecutionStep, StartOwnerTask, StartGlobalTask, StartProviderTask, FinishExecution
  <2>3. /\ outcome' \in [Requests -> Outcomes]
        /\ lastWrite' \in [Requests -> Writes]
        /\ first' \in [Requests -> Firsts]
    <3>1. outcome' \in [Requests -> Outcomes]
      BY <1>8 DEF ExecutionStep, StartOwnerTask, StartGlobalTask, StartProviderTask, FinishExecution
    <3>2. lastWrite' \in [Requests -> Writes]
      BY <1>8 DEF ExecutionStep, StartOwnerTask, StartGlobalTask, StartProviderTask, FinishExecution
    <3>3. first' \in [Requests -> Firsts]
      BY <1>8 DEF ExecutionStep, StartOwnerTask, StartGlobalTask, StartProviderTask,
                  FinishExecution, First
    <3>4. QED
      BY <3>1, <3>2, <3>3
  <2>4. QED
    BY <1>1, <1>2, <2>1, <2>2, <2>3 DEF registryVars, requestVars
<1>9. QED
  BY <1>3, <1>4, <1>5, <1>6, <1>7, <1>8 DEF Next, LastWriteStep, ReleaseStep, ExecutionStep

\* The slot of a holder exists and owns a queue.
LEMMA HolderHasQueue ==
    ASSUME TypeOK, Accounting, NEW r \in Holders
    PROVE  QueueFor(ClientOf[r]) \in Nat \ {0}
<1> DEFINE c == ClientOf[r]
<1>1. r \in HoldersOf(c) /\ HoldersOf(c) \subseteq Requests /\ c \in Clients
  BY QueuesAssumption DEF HoldersOf, Holders
<1>2. Cardinality(HoldersOf(c)) # 0
  <2>1. IsFiniteSet(HoldersOf(c))
    BY <1>1, FS_Subset, QueuesAssumption
  <2>2. QED
    BY <1>1, <2>1, FS_EmptySet
<1>3. slots[c].active # 0
  BY <1>1, <1>2 DEF Accounting
<1>4. slots[c] \in Slot /\ slots[c].exists
  BY <1>1, <1>3 DEF TypeOK, FairnessTypeOK, NoSlot
<1>5. queues[c] \in Seq(Nat) /\ slots[c].queue \in 1..Len(queues[c])
  BY <1>1, <1>4 DEF TypeOK, FairnessTypeOK
<1>6. QED
  BY <1>4, <1>5, LenProperties DEF QueueFor

\* A request is admitted in its onRequest hook or never; its handler starts
\* with the slot held and the timer disarmed, and only the handler executes.
LEMMA LifecycleStep ==
    ASSUME Inv, [Next]_vars
    PROVE  Lifecycle'
<1>1. /\ phase \in [Requests -> Phases]
      /\ admitted \in [Requests -> BOOLEAN]
      /\ released \in [Requests -> BOOLEAN]
      /\ stage \in [Requests -> Stages]
      /\ queueOf \in [Requests -> Nat]
  BY DEF Inv, TypeOK, QueuesTypeOK
<1>2. Lifecycle
  BY DEF Inv
<1> USE DEF Lifecycle, Holders, InFlight
<1>3. CASE UNCHANGED vars \/ RegistryReload
  BY <1>2, <1>3 DEF RegistryReload, vars, requestVars, execVars, callVars, queueVars
<1>4. ASSUME NEW r \in Requests,
             \/ OnRequestTurnedAway(r) \/ OnResponseLost(r)
             \/ HandleInvalid(r) \/ ClientCloses(r) \/ LastWriteStep(r)
      PROVE  Lifecycle'
  BY <1>1, <1>2, <1>4
  DEF OnRequestTurnedAway, OnResponseLost, HandleInvalid, ClientCloses, LastWriteStep,
      LastWriteWaits, ClientReads, requestVars, execVars, callVars, queueVars
<1>5. ASSUME NEW r \in Requests, OnRequestAdmission(r)
      PROVE  Lifecycle'
  <2> DEFINE ok == AdmitResult(ClientOf[r], tenants[ClientOf[r]], 0) = "ok"
  <2>1. /\ phase[r] = "idle"
        /\ admitted' = [admitted EXCEPT ![r] = ok]
        /\ phase' = [phase EXCEPT ![r] = IF ok THEN "body" ELSE "refused"]
        /\ bodyTimer' = IF ok THEN bodyTimer \cup {r} ELSE bodyTimer
        /\ UNCHANGED <<released, stage, queueOf>>
    BY <1>5 DEF OnRequestAdmission, execVars, callVars, queueVars
  <2> HIDE DEF ok
  <2>2. CASE ok
    BY <1>1, <1>2, <2>1, <2>2
  <2>3. CASE ~ok
    BY <1>1, <1>2, <2>1, <2>3
  <2>4. QED
    BY <2>2, <2>3
<1>6. ASSUME NEW r \in Requests, ReleaseStep(r)
      PROVE  Lifecycle'
  <2>1. ReleaseAgentAdmission(r) /\ admitted' = admitted
    BY <1>6 DEF ReleaseStep, BodyTimeout, OnRequestAbort, OnResponse, HandlerDone
  <2>2. /\ \A x \in Requests : released'[x] => admitted[x]
        /\ \A x \in Requests \ {r} : released'[x] = released[x]
    <3>1. \A x \in Requests : released'[x] => admitted[x]
      BY <2>1, ReleaseAdmissionCounts DEF Inv
    <3>2. \A x \in Requests \ {r} : released'[x] = released[x]
      BY <1>1, <2>1 DEF ReleaseAgentAdmission
    <3>3. QED
      BY <3>1, <3>2
  <2>3. ~InFlight(r)
    BY <1>2, <1>6 DEF ReleaseStep, BodyTimeout, OnRequestAbort, OnResponse, HandlerDone
  <2>4. /\ UNCHANGED <<stage, queueOf>>
        /\ phase'[r] \in {"gone", "done", "replied"}
        /\ phase[r] \notin {"idle", "refused"}
        /\ \A x \in Requests \ {r} : phase'[x] = phase[x]
    BY <1>1, <1>2, <1>6 DEF ReleaseStep, BodyTimeout, OnRequestAbort, OnResponse,
                            HandlerDone, execVars, callVars, queueVars
  <2>5. bodyTimer' \subseteq bodyTimer /\ r \notin bodyTimer'
    BY <1>2, <1>6 DEF ReleaseStep, BodyTimeout, OnRequestAbort, OnResponse, HandlerDone
  <2>6. QED
    BY <1>1, <1>2, <2>1, <2>2, <2>3, <2>4, <2>5
<1>7. ASSUME NEW r \in Requests, HandleExecute(r)
      PROVE  Lifecycle'
  <2>1. r \in Holders /\ phase[r] = "body"
    BY <1>2, <1>7 DEF HandleExecute
  <2>2. QueueFor(ClientOf[r]) # 0 /\ QueueFor(ClientOf[r]) \in Nat
    BY <2>1, HolderHasQueue DEF Inv
  <2>3. /\ queueOf' = [queueOf EXCEPT ![r] = QueueFor(ClientOf[r])]
        /\ stage' = [stage EXCEPT ![r] = "clientWait"]
        /\ phase' = [phase EXCEPT ![r] = "handling"]
        /\ bodyTimer' = bodyTimer \ {r}
        /\ UNCHANGED <<admitted, released>>
    BY <1>7, <2>2 DEF HandleExecute, Enqueue
  <2>4. QED
    BY <1>1, <1>2, <2>1, <2>2, <2>3
<1>8. ASSUME NEW r \in Requests, ExecutionStep(r)
      PROVE  Lifecycle'
  <2>1. InFlight(r)
    BY <1>8, OnlyInFlightMoves DEF Inv
  <2>2. UNCHANGED <<phase, admitted, released, bodyTimer, queueOf>>
    BY <1>8 DEF ExecutionStep, StartOwnerTask, StartGlobalTask, StartProviderTask,
                FinishExecution, StartClient, StartGlobal, Settle, requestVars
  <2>3. \A x \in Requests \ {r} : stage'[x] = stage[x]
    BY <1>1, <1>8 DEF ExecutionStep, StartOwnerTask, StartGlobalTask, StartProviderTask,
                      FinishExecution, StartClient, StartGlobal, Settle
  <2>4. QED
    BY <1>2, <2>1, <2>2, <2>3
<1>9. QED
  BY <1>3, <1>4, <1>5, <1>6, <1>7, <1>8 DEF Next, LastWriteStep, ReleaseStep, ExecutionStep

\* An execution has an outcome when it settles, the first event decides it, and
\* the row repeats it.
LEMMA OutcomeStep ==
    ASSUME Inv, [Next]_vars
    PROVE  Outcome'
<1>1. /\ outcome \in [Requests -> Outcomes]
      /\ abort \in [Requests -> Aborts]
      /\ journal \in [Requests -> Rows]
      /\ phase \in [Requests -> Phases]
      /\ stage \in [Requests -> Stages]
      /\ first \in [Requests -> Firsts]
      /\ live \subseteq Requests
      /\ Outcome /\ Lifecycle
  BY DEF Inv, TypeOK, QueuesTypeOK
<1> USE DEF Outcome, Outcomes, Aborts, Firsts, First
<1>2. CASE UNCHANGED vars
  BY <1>1, <1>2 DEF vars, requestVars, execVars, callVars, queueVars
<1>3. CASE RegistryReload
  <2>1. UNCHANGED <<phase, live, journal, outcome, stage>>
    BY <1>3 DEF RegistryReload, callVars, queueVars
  <2>2. PICK keys \in SUBSET Tokens :
           /\ abort' = [r \in Requests |->
                           IF r \in live /\ TokenOf[r] \notin keys /\ abort[r] = "no"
                           THEN "key_revoked" ELSE abort[r]]
           /\ first' = [r \in Requests |->
                           IF phase[r] = "handling" /\ TokenOf[r] \notin keys
                           THEN First(r, "revoked") ELSE first[r]]
    BY <1>3 DEF RegistryReload
  <2>3. QED
    BY <1>1, <2>1, <2>2
<1>4. ASSUME NEW r \in Requests,
             \/ OnRequestTurnedAway(r) \/ OnRequestAdmission(r) \/ OnResponseLost(r)
             \/ HandleInvalid(r) \/ BodyTimeout(r) \/ OnRequestAbort(r) \/ OnResponse(r)
      PROVE  Outcome'
  <2>1. UNCHANGED <<abort, live, journal, outcome, stage, first>>
    BY <1>4 DEF OnRequestTurnedAway, OnRequestAdmission, OnResponseLost, HandleInvalid,
                BodyTimeout, OnRequestAbort, OnResponse, execVars, callVars, queueVars
  <2>2. \A x \in Requests : phase'[x] = "handling" <=> phase[x] = "handling"
    BY <1>1, <1>4 DEF OnRequestTurnedAway, OnRequestAdmission, OnResponseLost, HandleInvalid,
                      BodyTimeout, OnRequestAbort, OnResponse, Lifecycle
  <2>3. QED
    BY <1>1, <2>1, <2>2
<1>5. ASSUME NEW r \in Requests, ClientCloses(r)
      PROVE  Outcome'
  <2>1. /\ UNCHANGED <<phase, live, journal, outcome, stage>>
        /\ phase[r] = "handling"
        /\ abort' = [abort EXCEPT ![r] = IF @ = "no" THEN "client_closed" ELSE @]
        /\ first' = [first EXCEPT ![r] = First(r, "closed")]
    BY <1>1, <1>5 DEF ClientCloses, callVars, queueVars
  <2>2. QED
    BY <1>1, <2>1
<1>6. ASSUME NEW r \in Requests, HandleExecute(r)
      PROVE  Outcome'
  <2>1. UNCHANGED <<abort, journal, outcome, first>>
    BY <1>6 DEF HandleExecute
  <2>2. /\ phase' = [phase EXCEPT ![r] = "handling"]
        /\ live' = live \cup {r}
        /\ stage[r] = "none"
        /\ \E w \in {"clientWait", "outerWait"} : stage' = [stage EXCEPT ![r] = w]
    BY <1>1, <1>6 DEF HandleExecute, Enqueue, Lifecycle
  <2>3. QED
    BY <1>1, <2>1, <2>2
<1>7. ASSUME NEW r \in Requests, HandlerDone(r)
      PROVE  Outcome'
  <2>1. UNCHANGED <<abort, outcome, stage, first>>
    BY <1>7 DEF HandlerDone, execVars, callVars, queueVars
  <2>2. /\ journal' = [journal EXCEPT ![r] = Row(r)]
        /\ phase' = [phase EXCEPT ![r] = "replied"]
        /\ live' = live \ {r}
        /\ outcome[r] \in {"result", "key_revoked", "client_closed"}
    BY <1>1, <1>7 DEF HandlerDone
  <2>3. \/ Row(r) = "401" /\ outcome[r] = "key_revoked"
        \/ Row(r) = "499" /\ outcome[r] = "client_closed"
        \/ Row(r) \in {"result", "client_aborted"} /\ outcome[r] = "result"
    BY <2>2 DEF Row
  <2>4. QED
    BY <1>1, <2>1, <2>2, <2>3
<1>8. ASSUME NEW r \in Requests, StartOwnerTask(r) \/ StartGlobalTask(r)
      PROVE  Outcome'
  <2>1. UNCHANGED <<abort, live, journal, phase, outcome, first>>
    BY <1>8 DEF StartOwnerTask, StartGlobalTask, requestVars
  <2>2. PICK w \in Stages \ {"settled", "upstream"} : stage' = [stage EXCEPT ![r] = w]
    BY <1>8 DEF StartOwnerTask, StartClient, StartGlobalTask, StartGlobal, Stages
  <2>3. stage[r] \notin {"settled", "upstream"}
    <3>1. CASE StartOwnerTask(r)
      BY <3>1 DEF StartOwnerTask, StartClient
    <3>2. CASE StartGlobalTask(r)
      <4>1. Head(globalWait) \in GlobalWaiting /\ r = Head(globalWait)
        BY <3>2, LinePop DEF Inv, TypeOK, QueuesTypeOK, GlobalLine, StartGlobalTask, StartGlobal
      <4>2. QED
        BY <4>1 DEF GlobalWaiting
    <3>3. QED
      BY <1>8, <3>1, <3>2
  <2>4. QED
    BY <1>1, <2>1, <2>2, <2>3
<1>9. ASSUME NEW r \in Requests, StartProviderTask(r)
      PROVE  Outcome'
  <2>1. UNCHANGED <<abort, live, journal, phase>>
    BY <1>9 DEF StartProviderTask, requestVars
  <2>2. r \in WaitingAtProvider
    BY <1>9, LinePop DEF Inv, TypeOK, ProviderLine, StartProviderTask
  <2>3. stage[r] = "providerWait" /\ phase[r] = "handling" /\ outcome[r] = "none"
    BY <1>1, <2>2 DEF WaitingAtProvider, Lifecycle, InFlight
  <2>4. CASE abort[r] = "no"
    <3>1. /\ stage' = [stage EXCEPT ![r] = "upstream"]
          /\ first' = [first EXCEPT ![r] = "called"]
          /\ outcome' = outcome
      BY <1>1, <1>9, <2>3, <2>4 DEF StartProviderTask
    <3>2. QED
      BY <1>1, <2>1, <2>3, <2>4, <3>1
  <2>5. CASE abort[r] # "no"
    <3>1. /\ stage' = [stage EXCEPT ![r] = "settled"]
          /\ outcome' = [outcome EXCEPT ![r] = abort[r]]
          /\ first' = first
          /\ abort[r] \in {"key_revoked", "client_closed"}
      BY <1>1, <1>9, <2>5 DEF StartProviderTask
    <3>2. QED
      BY <1>1, <2>1, <2>3, <3>1
  <2>6. QED
    BY <2>4, <2>5
<1>10. ASSUME NEW r \in Requests, FinishExecution(r)
       PROVE  Outcome'
  <2>1. UNCHANGED <<abort, live, journal, phase, first>>
    BY <1>10 DEF FinishExecution, requestVars
  <2>2. /\ stage[r] = "upstream" /\ outcome[r] = "none"
        /\ stage' = [stage EXCEPT ![r] = "settled"]
        /\ outcome' = [outcome EXCEPT ![r] = "result"]
    BY <1>1, <1>10 DEF FinishExecution, Settle
  <2>3. QED
    BY <1>1, <2>1, <2>2
<1>11. ASSUME NEW r \in Requests, LastWriteStep(r)
       PROVE  Outcome'
  <2>1. UNCHANGED <<abort, live, journal, phase, first, outcome, stage>>
    BY <1>11 DEF LastWriteStep, LastWriteWaits, ClientReads, requestVars, queueVars
  <2>2. QED
    BY <1>1, <2>1
<1>12. QED
  BY <1>2, <1>3, <1>4, <1>5, <1>6, <1>7, <1>8, <1>9, <1>10, <1>11 DEF Next, LastWriteStep

------------------------------------------------------------------------------
(* Theorems.                                                                *)

\* The process starts with exact, empty counters and empty queues.
LEMMA InitInv == Init => Inv
<1> SUFFICES ASSUME Init PROVE Inv
  OBVIOUS
<1>1. tenants \in [Clients -> Limits \cup {NoTenant}]
  BY DEF Init, SnapshotTenants
<1>2. /\ FairnessTypeOK
      /\ \A c \in Clients : slots[c].active = 0
      /\ globalActive = 0
  BY <1>1, FairnessInitCounts DEF Init
<1>3. QueuesTypeOK /\ GlobalLine /\ ProviderLine
  <2>1. << >> \in Seq(Requests) /\ Len(<< >>) = 0
    OBVIOUS
  <2>2. QED
    BY <2>1 DEF Init, QueuesInit, QueuesTypeOK, Stages, GlobalLine, ProviderLine, OneEach
<1>4. TypeOK
  <2>1. << >> \in Seq(Requests)
    OBVIOUS
  <2>2. QED
    BY <1>1, <1>2, <1>3, <2>1, AgentAssumption
    DEF Init, TypeOK, Phases, Aborts, Outcomes, Rows, Writes, Firsts
<1>5. Lifecycle /\ Outcome /\ TenantsFollow
  BY DEF Init, QueuesInit, Lifecycle, Outcome, TenantsFollow, InFlight
<1>6. Accounting
  <2>1. Holders = {} /\ \A c \in Clients : HoldersOf(c) = {}
    BY DEF Init, Holders, HoldersOf
  <2>2. QED
    BY <1>2, <2>1, FS_EmptySet DEF Accounting
<1>7. QED
  BY <1>3, <1>4, <1>5, <1>6 DEF Inv

\* The global queue stays in order.
LEMMA GlobalLineStep ==
    ASSUME Inv, [Next]_vars
    PROVE  GlobalLine'
<1>1. ASSUME NEW r \in Requests, HandleExecute(r) \/ ExecutionStep(r)
      PROVE  GlobalLine'
  BY <1>1, QueuesStep DEF Inv
<1>2. ASSUME UNCHANGED queueVars
      PROVE  GlobalLine'
  BY <1>2 DEF Inv, queueVars, GlobalLine, GlobalWaiting
<1>3. ASSUME NEW r \in Requests,
             \/ OnRequestTurnedAway(r) \/ OnRequestAdmission(r) \/ OnResponseLost(r)
             \/ HandleInvalid(r) \/ ClientCloses(r) \/ LastWriteStep(r) \/ ReleaseStep(r)
      PROVE  UNCHANGED queueVars
  BY <1>3
  DEF OnRequestTurnedAway, OnRequestAdmission, OnResponseLost, HandleInvalid, ClientCloses,
      LastWriteStep, LastWriteWaits, ClientReads,
      ReleaseStep, BodyTimeout, OnRequestAbort, OnResponse, HandlerDone, execVars, callVars
<1>4. RegistryReload \/ UNCHANGED vars => UNCHANGED queueVars
  BY DEF RegistryReload, vars, execVars, callVars
<1>5. QED
  BY <1>1, <1>2, <1>3, <1>4 DEF Next, LastWriteStep, ExecutionStep, ReleaseStep

\* Every reachable state satisfies the inductive invariant.
THEOREM Invariance == Spec => []Inv
<1>1. Inv /\ [Next]_vars => Inv'
  BY TypeStep, LifecycleStep, CountersStep, TenantsStep, GlobalLineStep,
     ProviderLineStep, OutcomeStep DEF Inv
<1>2. QED
  BY <1>1, InitInv, PTL DEF Spec

\* Types, which include that every slot is backed by a queue that exists.
THEOREM TypesHold == Spec => []TypeOK
BY Invariance, PTL DEF Inv

\* The admission counters are exact in every reachable state.
THEOREM CountersExact == Spec => []Accounting
BY Invariance, PTL DEF Inv

\* No execution runs, or waits, without the slot of its request, and none is
\* ever put in the fallback queue.
THEOREM ExecutionsAreAdmitted == Spec => []ExecutionsHoldSlots
<1>1. Inv => ExecutionsHoldSlots
  BY DEF Inv, Lifecycle, ExecutionsHoldSlots
<1>2. QED
  BY <1>1, Invariance, PTL

\* Whatever becomes first of a request whose handler runs (its key is lost, its
\* client is lost, it is called upstream) decides whether it is called and what
\* its row says, through every queue, reload and later event.
THEOREM FirstEventDecides == Spec => []FirstDecides
<1>1. Inv => FirstDecides
  <2> SUFFICES ASSUME Inv, NEW r \in Requests
               PROVE  /\ r \in AtProvider => first[r] = "called"
                      /\ journal[r] # "none" =>
                            journal[r] \in CASE first[r] = "revoked" -> {"401"}
                                            [] first[r] = "closed"  -> {"499"}
                                            [] first[r] = "called"  -> {"result", "client_aborted"}
                                            [] OTHER                -> {}
                      /\ first[r] # "none" /\ phase[r] # "handling" => journal[r] # "none"
    BY DEF FirstDecides
  <2>1. journal[r] \in Rows
    BY DEF Inv, TypeOK
  <2>2. \/ journal[r] = "none"
        \/ journal[r] = "401" /\ first[r] = "revoked"
        \/ journal[r] = "499" /\ first[r] = "closed"
        \/ journal[r] \in {"result", "client_aborted"} /\ first[r] = "called"
    BY <2>1 DEF Inv, Outcome, Rows
  <2>3. /\ r \in AtProvider => first[r] = "called"
        /\ first[r] # "none" /\ phase[r] # "handling" => journal[r] # "none"
    BY DEF Inv, Outcome, AtProvider
  <2>4. QED
    BY <2>2, <2>3
<1>2. QED
  BY <1>1, Invariance, PTL

------------------------------------------------------------------------------
(* The share of an owner in the global queue.                               *)

\* All executions of an owner are in one queue, the one of its present slot:
\* the slot is held from before the first is queued, so that no reload can
\* delete it and start a second queue beside the first.
OneQueue ==
    \A r \in Requests :
        /\ InFlight(r) => queueOf[r] = slots[ClientOf[r]].queue
        /\ stage[r] \notin {"outerWait", "innerWait"}

InShare ==
    \A c \in Clients :
        PlacedOf(c) = {} \/ \E l \in Limits : Cardinality(PlacedOf(c)) <= l.maxConcurrency

Share == QueueLimits /\ OneQueue /\ InShare

\* The slot of a holder exists.
HoldersHaveSlots == \A r \in Holders : slots[ClientOf[r]].exists

LEMMA HolderHasSlot == Inv => HoldersHaveSlots
<1> SUFFICES ASSUME Inv, NEW r \in Holders
             PROVE  slots[ClientOf[r]].exists
  BY DEF HoldersHaveSlots
<1> DEFINE c == ClientOf[r]
<1>1. r \in HoldersOf(c) /\ HoldersOf(c) \subseteq Requests /\ c \in Clients
  BY QueuesAssumption DEF HoldersOf, Holders
<1>2. Cardinality(HoldersOf(c)) # 0
  BY <1>1, FS_Subset, FS_EmptySet, QueuesAssumption
<1>3. QED
  BY <1>1, <1>2 DEF Inv, TypeOK, Accounting, FairnessTypeOK, NoSlot

\* What a step does to the queues of FairnessManager.
LEMMA ManagerStep ==
    ASSUME Inv, QueueLimits, [Next]_vars
    PROVE  QueueLimits' /\ QueueNumbersStay
<1>1. FairnessTypeOK
  BY DEF Inv, TypeOK
<1>2. ASSUME UNCHANGED fairnessVars
      PROVE  QueueLimits' /\ QueueNumbersStay
  BY <1>1, <1>2, QueuesStand
<1>3. CASE RegistryReload
  <2>1. /\ tenants' \in [Clients -> Limits \cup {NoTenant}]
        /\ SyncClients(tenants')
    BY <1>3 DEF RegistryReload, SnapshotTenants
  <2>2. QED
    BY <1>1, <2>1, QueuesStand
<1>4. ASSUME NEW r \in Requests, OnRequestAdmission(r)
      PROVE  QueueLimits' /\ QueueNumbersStay
  <2>1. /\ ClientOf[r] \in Clients
        /\ ClientOf[r] = OwnerOf[TokenOf[r]]
        /\ TokenOf[r] \in valid
    BY <1>4, QueuesAssumption, AgentAssumption DEF OnRequestAdmission
  <2>2. tenants[ClientOf[r]] \in Limits
    BY <2>1 DEF Inv, TypeOK, TenantsFollow, SnapshotTenants
  <2>3. TryAdmit(ClientOf[r], tenants[ClientOf[r]], 0)
    BY <1>4 DEF OnRequestAdmission
  <2>4. QED
    BY <1>1, <2>1, <2>2, <2>3, QueuesStand
<1>5. ASSUME NEW r \in Requests, ReleaseStep(r)
      PROVE  QueueLimits' /\ QueueNumbersStay
  <2>1. Release(ClientOf[r]) \/ UNCHANGED fairnessVars
    BY <1>5 DEF ReleaseStep, BodyTimeout, OnRequestAbort, OnResponse, HandlerDone,
                ReleaseAgentAdmission
  <2>2. QED
    BY <1>1, <2>1, QueuesStand, QueuesAssumption
<1>6. ASSUME NEW r \in Requests,
             \/ OnRequestTurnedAway(r) \/ OnResponseLost(r) \/ HandleInvalid(r)
             \/ HandleExecute(r) \/ ClientCloses(r) \/ LastWriteStep(r) \/ ExecutionStep(r)
      PROVE  UNCHANGED fairnessVars
  BY <1>6 DEF OnRequestTurnedAway, OnResponseLost, HandleInvalid, HandleExecute,
              ClientCloses,
              LastWriteStep, LastWriteWaits, ClientReads, ExecutionStep, StartOwnerTask, StartGlobalTask,
              StartProviderTask, FinishExecution
<1>7. QED
  BY <1>2, <1>3, <1>4, <1>5, <1>6 DEF Next, LastWriteStep, ReleaseStep, ExecutionStep, vars

\* Where an execution may go in a step.
LEMMA StageMoves ==
    ASSUME Inv, OneQueue, [Next]_vars
    PROVE  \/ UNCHANGED <<stage, queueOf>>
           \/ \E r \in Requests :
                 /\ HandleExecute(r)
                 /\ stage' = [stage EXCEPT ![r] = "clientWait"]
                 /\ queueOf' = [queueOf EXCEPT ![r] = slots[ClientOf[r]].queue]
                 /\ slots' = slots
           \/ \E r \in Requests :
                 /\ StartClient(r)
                 /\ stage' = [stage EXCEPT ![r] = "globalWait"]
                 /\ queueOf' = queueOf
           \/ \E r \in Requests, w \in {"providerWait", "upstream", "settled"} :
                 /\ stage[r] \in {"globalWait", "providerWait", "upstream"}
                 /\ stage' = [stage EXCEPT ![r] = w]
                 /\ queueOf' = queueOf
<1>1. /\ stage \in [Requests -> Stages]
      /\ globalWait \in Seq(Requests)
      /\ providerWait \in Seq(Requests)
  BY DEF Inv, TypeOK, QueuesTypeOK
<1>2. ASSUME NEW r \in Requests, HandleExecute(r)
      PROVE  /\ stage' = [stage EXCEPT ![r] = "clientWait"]
             /\ queueOf' = [queueOf EXCEPT ![r] = slots[ClientOf[r]].queue]
             /\ slots' = slots
  <2>1. r \in Holders
    BY <1>2 DEF HandleExecute, Inv, Lifecycle
  <2>2. QueueFor(ClientOf[r]) # 0
    BY <2>1, HolderHasQueue DEF Inv
  <2>3. QED
    BY <1>2, <2>2 DEF HandleExecute, Enqueue, QueueFor, fairnessVars
<1>3. ASSUME NEW r \in Requests, StartGlobalTask(r)
      PROVE  /\ stage[r] = "globalWait"
             /\ stage' = [stage EXCEPT ![r] = "providerWait"]
             /\ queueOf' = queueOf
  <2>1. r \in GlobalWaiting
    BY <1>1, <1>3, LinePop DEF StartGlobalTask, StartGlobal, GlobalLine, Inv
  <2>2. stage[r] = "globalWait"
    BY <2>1 DEF GlobalWaiting, OneQueue
  <2>3. QED
    BY <1>3, <2>2 DEF StartGlobalTask, StartGlobal
<1>4. ASSUME NEW r \in Requests, StartProviderTask(r)
      PROVE  /\ stage[r] = "providerWait"
             /\ \E w \in {"upstream", "settled"} : stage' = [stage EXCEPT ![r] = w]
             /\ queueOf' = queueOf
  <2>1. r \in WaitingAtProvider
    BY <1>1, <1>4, LinePop DEF StartProviderTask, ProviderLine, Inv
  <2>2. QED
    BY <1>4, <2>1 DEF StartProviderTask, WaitingAtProvider
<1>5. ASSUME NEW r \in Requests, FinishExecution(r)
      PROVE  /\ stage[r] = "upstream"
             /\ stage' = [stage EXCEPT ![r] = "settled"]
             /\ queueOf' = queueOf
  BY <1>5 DEF FinishExecution, Settle
<1>6. ASSUME NEW r \in Requests, StartOwnerTask(r)
      PROVE  /\ StartClient(r)
             /\ stage' = [stage EXCEPT ![r] = "globalWait"]
             /\ queueOf' = queueOf
  BY <1>6 DEF StartOwnerTask, StartClient
<1>7. ASSUME NEW r \in Requests,
             \/ OnRequestTurnedAway(r) \/ OnRequestAdmission(r) \/ OnResponseLost(r)
             \/ HandleInvalid(r) \/ ClientCloses(r) \/ LastWriteStep(r) \/ ReleaseStep(r)
      PROVE  UNCHANGED <<stage, queueOf>>
  BY <1>7
  DEF OnRequestTurnedAway, OnRequestAdmission, OnResponseLost, HandleInvalid, ClientCloses,
      LastWriteStep, LastWriteWaits, ClientReads,
      ReleaseStep, BodyTimeout, OnRequestAbort, OnResponse, HandlerDone, execVars, callVars, queueVars
<1>8. RegistryReload \/ UNCHANGED vars => UNCHANGED <<stage, queueOf>>
  BY DEF RegistryReload, vars, execVars, callVars, queueVars
<1>9. QED
  BY <1>2, <1>3, <1>4, <1>5, <1>6, <1>7, <1>8 DEF Next, LastWriteStep, ReleaseStep

\* An execution keeps the queue of its owner's slot until it settles.
LEMMA OneQueueStep ==
    ASSUME Inv, Inv', HoldersHaveSlots', QueueLimits, OneQueue, [Next]_vars
    PROVE  OneQueue'
<1>1. /\ stage \in [Requests -> Stages]
      /\ queueOf \in [Requests -> Nat]
  BY DEF Inv, TypeOK, QueuesTypeOK
<1>2. \A r \in Requests : InFlight(r) /\ InFlight(r)' =>
          slots'[ClientOf[r]].queue = slots[ClientOf[r]].queue
  <2> SUFFICES ASSUME NEW r \in Requests, InFlight(r), InFlight(r)'
               PROVE  slots'[ClientOf[r]].queue = slots[ClientOf[r]].queue
    OBVIOUS
  <2>1. r \in Holders /\ r \in Holders'
    BY DEF Inv, Lifecycle
  <2>2. slots[ClientOf[r]].exists
    BY <2>1, HolderHasSlot DEF HoldersHaveSlots
  <2>3. slots'[ClientOf[r]].exists
    BY <2>1 DEF HoldersHaveSlots
  <2>4. QED
    BY <2>2, <2>3, ManagerStep, QueuesAssumption DEF QueueNumbersStay
<1>3. CASE UNCHANGED <<stage, queueOf>>
  BY <1>2, <1>3 DEF OneQueue, InFlight
<1>4. ASSUME NEW r \in Requests,
             stage' = [stage EXCEPT ![r] = "clientWait"],
             queueOf' = [queueOf EXCEPT ![r] = slots[ClientOf[r]].queue],
             slots' = slots
      PROVE  OneQueue'
  BY <1>1, <1>4 DEF OneQueue, InFlight
<1>5. ASSUME NEW r \in Requests,
             NEW w \in {"globalWait", "providerWait", "upstream", "settled"},
             stage[r] \in {"clientWait", "globalWait", "providerWait", "upstream"},
             stage' = [stage EXCEPT ![r] = w],
             queueOf' = queueOf
      PROVE  OneQueue'
  BY <1>1, <1>2, <1>5 DEF OneQueue, InFlight
<1>6. \A r \in Requests : StartClient(r) => stage[r] = "clientWait"
  BY DEF StartClient
<1>7. QED
  BY <1>3, <1>4, <1>5, <1>6, StageMoves

\* The owner's queue lets no more executions into the global one than its
\* concurrency, which is one of the limits, allows.
LEMMA StartHasShare ==
    ASSUME Inv, Share, NEW r \in Requests, StartClient(r)
    PROVE  \E l \in Limits : Cardinality(PlacedOf(ClientOf[r])) < l.maxConcurrency
<1> DEFINE c == ClientOf[r]
<1>1. c \in Clients /\ stage[r] = "clientWait"
  BY QueuesAssumption DEF StartClient
<1>2. queueOf[r] = slots[c].queue /\ queueOf[r] # 0 /\ r \in Holders
  BY <1>1 DEF Share, OneQueue, InFlight, Inv, Lifecycle
<1>3. slots[c].queue \in 1..Len(queues[c])
  BY <1>1, <1>2, HolderHasSlot DEF HoldersHaveSlots, Inv, TypeOK, FairnessTypeOK
<1>4. PICK l \in Limits : queues[c][queueOf[r]] = l.maxConcurrency
  BY <1>1, <1>2, <1>3 DEF Share, QueueLimits
<1>5. RunningInQueueOf(r) = PlacedOf(c)
  <2>1. ASSUME NEW s \in Requests, s \in RunningInQueueOf(r) PROVE s \in PlacedOf(c)
    BY <2>1 DEF RunningInQueueOf, SameQueue, PlacedOf
  <2>2. ASSUME NEW s \in PlacedOf(c) PROVE s \in RunningInQueueOf(r)
    <3>1. /\ s \in Requests /\ ClientOf[s] = c
          /\ stage[s] \in {"globalWait", "providerWait", "upstream"}
      BY DEF PlacedOf, Share, OneQueue
    <3>2. queueOf[s] = slots[c].queue
      BY <3>1 DEF Share, OneQueue, InFlight
    <3>3. QED
      BY <1>2, <3>1, <3>2 DEF RunningInQueueOf, SameQueue
  <2>3. RunningInQueueOf(r) \subseteq Requests /\ PlacedOf(c) \subseteq Requests
    BY DEF RunningInQueueOf, PlacedOf
  <2>4. QED
    BY <2>1, <2>2, <2>3
<1>6. Cardinality(RunningInQueueOf(r)) < queues[c][queueOf[r]]
  BY DEF StartClient
<1>7. QED
  BY <1>4, <1>5, <1>6

\* A client's places grow only by a task its own queue starts.
LEMMA InShareStep ==
    ASSUME Inv, Share, [Next]_vars
    PROVE  InShare'
<1>1. stage \in [Requests -> Stages] /\ InShare
  BY DEF Inv, TypeOK, QueuesTypeOK, Share
<1>2. ASSUME NEW c \in Clients
      PROVE  IsFiniteSet(PlacedOf(c)) /\ Cardinality(PlacedOf(c)) \in Nat
  BY FS_Subset, FS_CardinalityType, QueuesAssumption DEF PlacedOf
<1>3. \A l \in Limits : l.maxConcurrency \in Nat
  BY FairnessAssumption
<1>4. ASSUME NEW c \in Clients, PlacedOf(c)' \subseteq PlacedOf(c)
      PROVE  PlacedOf(c)' = {} \/ \E l \in Limits : Cardinality(PlacedOf(c)') <= l.maxConcurrency
  <2>1. /\ Cardinality(PlacedOf(c)') <= Cardinality(PlacedOf(c))
        /\ Cardinality(PlacedOf(c)') \in Nat
    BY <1>2, <1>4, FS_Subset, FS_CardinalityType
  <2>2. CASE PlacedOf(c) = {}
    BY <1>4, <2>2
  <2>3. ASSUME NEW l \in Limits, Cardinality(PlacedOf(c)) <= l.maxConcurrency
        PROVE  Cardinality(PlacedOf(c)') <= l.maxConcurrency
    BY <1>2, <1>3, <2>1, <2>3
  <2>4. QED
    BY <1>1, <2>2, <2>3 DEF InShare
<1>5. CASE UNCHANGED <<stage, queueOf>>
  <2>1. \A c \in Clients : PlacedOf(c)' \subseteq PlacedOf(c)
    BY <1>5 DEF PlacedOf
  <2>2. QED
    BY <1>4, <2>1 DEF InShare
<1>6. ASSUME NEW r \in Requests, stage' = [stage EXCEPT ![r] = "clientWait"]
      PROVE  InShare'
  <2>1. \A c \in Clients : PlacedOf(c)' \subseteq PlacedOf(c)
    BY <1>1, <1>6 DEF PlacedOf
  <2>2. QED
    BY <1>4, <2>1 DEF InShare
<1>7. ASSUME NEW r \in Requests, NEW w \in {"providerWait", "upstream", "settled"},
             stage[r] \in {"globalWait", "providerWait", "upstream"},
             stage' = [stage EXCEPT ![r] = w]
      PROVE  InShare'
  <2>1. \A c \in Clients : PlacedOf(c)' \subseteq PlacedOf(c)
    BY <1>1, <1>7 DEF PlacedOf
  <2>2. QED
    BY <1>4, <2>1 DEF InShare
<1>8. ASSUME NEW r \in Requests, StartClient(r), stage' = [stage EXCEPT ![r] = "globalWait"]
      PROVE  InShare'
  <2> DEFINE d == ClientOf[r]
  <2>1. d \in Clients /\ stage[r] = "clientWait"
    BY <1>8, QueuesAssumption DEF StartClient
  <2>2. \A c \in Clients : c # d => PlacedOf(c)' \subseteq PlacedOf(c)
    BY <1>1, <1>8 DEF PlacedOf
  <2>3. PlacedOf(d)' = PlacedOf(d) \cup {r} /\ r \notin PlacedOf(d)
    BY <1>1, <1>8, <2>1 DEF PlacedOf
  <2>4. PICK l \in Limits : Cardinality(PlacedOf(d)) < l.maxConcurrency
    BY <1>8, StartHasShare
  <2>5. Cardinality(PlacedOf(d)') = Cardinality(PlacedOf(d)) + 1
    BY <1>2, <2>1, <2>3, FS_AddElement
  <2>6. Cardinality(PlacedOf(d)') <= l.maxConcurrency
    BY <1>2, <1>3, <2>1, <2>4, <2>5
  <2>7. QED
    BY <1>4, <2>2, <2>6 DEF InShare
<1>9. QED
  BY <1>5, <1>6, <1>7, <1>8, StageMoves DEF Share

\* The process starts with nothing queued and every queue within the limits.
LEMMA InitShare == Init => Share
<1> SUFFICES ASSUME Init PROVE Share
  OBVIOUS
<1>1. QueueLimits
  BY FairnessInitLimits DEF Init, SnapshotTenants
<1>2. OneQueue /\ InShare
  BY DEF Init, QueuesInit, OneQueue, InShare, InFlight, PlacedOf
<1>3. QED
  BY <1>1, <1>2 DEF Share

\* However requests, reloads and changes of limits interleave, an owner never
\* has more places in the global queue than some configuration allows: the
\* guarantee fairness.ts gives to the other owners.
THEOREM ShareIsKept == Spec => []ClientShareOfGlobalQueue
<1>1. Inv /\ Inv' /\ HoldersHaveSlots' /\ Share /\ [Next]_vars => Share'
  BY ManagerStep, OneQueueStep, InShareStep DEF Share
<1>2. Share /\ Inv => ClientShareOfGlobalQueue
  <2> SUFFICES ASSUME Share, Inv, NEW c \in Clients, PlacesInGlobalQueue(c) > 0
               PROVE  \E l \in Limits : PlacesInGlobalQueue(c) <= l.maxConcurrency
    BY DEF ClientShareOfGlobalQueue
  <2>1. PlacedTwiceOf(c) = {}
    BY DEF PlacedTwiceOf, Share, OneQueue, Inv, Lifecycle, InFlight
  <2>2. Cardinality(PlacedOf(c)) \in Nat
    BY FS_Subset, FS_CardinalityType, QueuesAssumption DEF PlacedOf
  <2>3. PlacesInGlobalQueue(c) = Cardinality(PlacedOf(c))
    BY <2>1, <2>2, FS_EmptySet DEF PlacesInGlobalQueue
  <2>4. PlacedOf(c) # {}
    BY <2>3, FS_EmptySet
  <2>5. QED
    BY <2>3, <2>4 DEF Share, InShare
<1>3. QED
  BY <1>1, <1>2, HolderHasSlot, InitShare, Invariance, PTL DEF Spec

------------------------------------------------------------------------------
(* Refinement.                                                              *)

\* What the semaphore sees of the state.
Cap == [c \in Clients |-> IF tenants[c] = NoTenant THEN 0
                          ELSE tenants[c].maxConcurrency + tenants[c].maxPending]
Spent == {r \in Requests : released[r]}

\* The capacities of a snapshot are numbers.
LEMMA CapType ==
    ASSUME TypeOK
    PROVE  Cap \in [Clients -> Nat]
<1>1. ASSUME NEW c \in Clients
      PROVE  Cap[c] \in Nat
  <2>1. CASE tenants[c] = NoTenant
    BY <2>1 DEF Cap
  <2>2. CASE tenants[c] # NoTenant
    <3>1. tenants[c] \in Limits
      BY <2>2 DEF TypeOK
    <3>2. tenants[c].maxConcurrency \in Nat /\ tenants[c].maxPending \in Nat
      BY <3>1, FairnessAssumption
    <3>3. QED
      BY <2>2, <3>2 DEF Cap
  <2>3. QED
    BY <2>1, <2>2
<1>2. QED
  BY <1>1 DEF Cap

\* The semaphore counts with the same Cardinality.
LEMMA SameCardinality == \A S : Semaphore!Cardinality(S) = Cardinality(S)
BY DEF Semaphore!Cardinality, Cardinality

\* An admission is an Acquire: the counters it compares are, by Accounting,
\* the numbers of holders.
LEMMA AdmissionAcquires ==
    ASSUME Inv, NEW r \in Requests, OnRequestAdmission(r)
    PROVE  Semaphore!Acquire(r) \/ UNCHANGED <<Holders, Spent, Cap>>
<1> DEFINE c   == ClientOf[r]
           lim == tenants[c]
           ok  == AdmitResult(c, lim, 0) = "ok"
<1>1. /\ admitted \in [Requests -> BOOLEAN]
      /\ FairnessTypeOK
      /\ ~admitted[r] /\ ~released[r]
  BY DEF Inv, TypeOK, Lifecycle, OnRequestAdmission
<1>2. /\ c \in Clients
      /\ lim \in Limits
      /\ lim # NoTenant
      /\ admitted' = [admitted EXCEPT ![r] = ok]
      /\ released' = released
      /\ tenants' = tenants
  <2>1. /\ c \in Clients
        /\ c = OwnerOf[TokenOf[r]]
        /\ TokenOf[r] \in valid
    BY QueuesAssumption, AgentAssumption DEF OnRequestAdmission
  <2>2. lim \in Limits /\ lim # NoTenant
    BY <2>1, FairnessAssumption DEF Inv, TypeOK, TenantsFollow, SnapshotTenants
  <2>3. QED
    BY <2>1, <2>2 DEF OnRequestAdmission, registryVars
<1>3. Spent' = Spent /\ Cap' = Cap
  BY <1>2 DEF Spent, Cap
<1>4. CASE ~ok
  <2>1. Holders' = Holders
    BY <1>1, <1>2, <1>4 DEF Holders
  <2>2. QED
    BY <1>3, <2>1
<1>5. CASE ok
  <2>1. Holders' = Holders \cup {r} /\ r \notin Holders \cup Spent
    BY <1>1, <1>2, <1>5 DEF Holders, Spent
  <2>2. /\ slots[c].active < lim.maxConcurrency + lim.maxPending
        /\ globalActive < GlobalMaxPending
    BY <1>1, <1>2, <1>5, AdmittedHasRoom
  <2>3. Cap[c] = lim.maxConcurrency + lim.maxPending
    BY <1>2 DEF Cap
  <2>4. /\ slots[c].active = Cardinality({x \in Holders : ClientOf[x] = c})
        /\ globalActive = Cardinality(Holders)
    BY <1>2 DEF Inv, Accounting, HoldersOf
  <2>5. /\ Cardinality({x \in Holders : ClientOf[x] = c}) < Cap[c]
        /\ Cardinality(Holders) < GlobalMaxPending
    BY <2>2, <2>3, <2>4
  <2>6. Semaphore!Acquire(r)
    BY <1>3, <2>1, <2>5, SameCardinality DEF Semaphore!Acquire, Semaphore!HeldBy, Spent, Cap
  <2>7. QED
    BY <2>6
<1>6. QED
  BY <1>4, <1>5

\* A release is a GiveBack, once per holder.
LEMMA ReleaseGivesBack ==
    ASSUME Inv, NEW r \in Requests, ReleaseAgentAdmission(r),
           admitted' = admitted, tenants' = tenants
    PROVE  Semaphore!GiveBack(r) \/ UNCHANGED <<Holders, Spent, Cap>>
<1>1. admitted \in [Requests -> BOOLEAN] /\ released \in [Requests -> BOOLEAN]
  BY DEF Inv, TypeOK
<1>2. Cap' = Cap
  BY DEF Cap
<1>3. CASE ~(admitted[r] /\ ~released[r])
  BY <1>2, <1>3 DEF ReleaseAgentAdmission, Holders, Spent
<1>4. CASE admitted[r] /\ ~released[r]
  <2>1. /\ r \in Holders
        /\ Holders' = Holders \ {r}
        /\ Spent' = Spent \cup {r}
    BY <1>1, <1>4 DEF ReleaseAgentAdmission, Holders, Spent
  <2>2. QED
    BY <1>2, <2>1 DEF Semaphore!GiveBack, Spent, Cap
<1>5. QED
  BY <1>3, <1>4

\* The agent contour implements the same semaphore as the site contour, with
\* owners of keys for clients.
THEOREM ContourIsSemaphore == Spec => ImplementsSemaphore
<1>1. Inv => Cap \in [Clients -> Nat]
  BY CapType DEF Inv
<1>2. Init => Semaphore!SemInit
  <2> SUFFICES ASSUME Init PROVE Semaphore!SemInit
    OBVIOUS
  <2>1. Holders = {} /\ Spent = {}
    BY DEF Init, Holders, Spent
  <2>2. Cap \in [Clients -> Nat]
    BY InitInv, <1>1
  <2>3. QED
    BY <2>1, <2>2 DEF Semaphore!SemInit, Spent, Cap
<1>3. Inv /\ (Cap \in [Clients -> Nat])' /\ [Next]_vars => [Semaphore!SemNext]_(Semaphore!semVars)
  <2> SUFFICES ASSUME Inv, (Cap \in [Clients -> Nat])', [Next]_vars
               PROVE  [Semaphore!SemNext]_(Semaphore!semVars)
    OBVIOUS
  <2> USE DEF Semaphore!semVars
  <2>1. ASSUME UNCHANGED <<Holders, Spent, Cap>>
        PROVE  [Semaphore!SemNext]_(Semaphore!semVars)
    BY <2>1 DEF Spent, Cap
  <2>2. ASSUME UNCHANGED <<admitted, released, tenants>>
        PROVE  [Semaphore!SemNext]_(Semaphore!semVars)
    BY <2>1, <2>2 DEF Spent, Cap, Holders
  <2>3. CASE RegistryReload
    <3>1. Holders' = Holders /\ Spent' = Spent
      BY <2>3 DEF RegistryReload, Holders, Spent
    <3>2. QED
      BY <3>1 DEF Semaphore!SemNext, Semaphore!Reconfigure, Spent, Cap
  <2>4. ASSUME NEW r \in Requests, OnRequestAdmission(r)
        PROVE  [Semaphore!SemNext]_(Semaphore!semVars)
    BY <2>1, <2>4, AdmissionAcquires DEF Semaphore!SemNext
  <2>5. ASSUME NEW r \in Requests, ReleaseStep(r)
        PROVE  [Semaphore!SemNext]_(Semaphore!semVars)
    <3>1. ReleaseAgentAdmission(r) /\ admitted' = admitted /\ tenants' = tenants
      BY <2>5 DEF ReleaseStep, BodyTimeout, OnRequestAbort, OnResponse, HandlerDone, registryVars
    <3>2. QED
      BY <2>1, <3>1, ReleaseGivesBack DEF Semaphore!SemNext
  <2>6. ASSUME NEW r \in Requests,
               \/ OnRequestTurnedAway(r) \/ OnResponseLost(r) \/ HandleInvalid(r)
               \/ HandleExecute(r) \/ ClientCloses(r) \/ LastWriteStep(r) \/ ExecutionStep(r)
        PROVE  UNCHANGED <<admitted, released, tenants>>
    BY <2>6
    DEF OnRequestTurnedAway, OnResponseLost, HandleInvalid, HandleExecute, ClientCloses,
        LastWriteStep, LastWriteWaits, ClientReads,
        ExecutionStep, StartOwnerTask, StartGlobalTask, StartProviderTask,
        FinishExecution, requestVars, registryVars
  <2>7. UNCHANGED vars => UNCHANGED <<admitted, released, tenants>>
    BY DEF vars, requestVars, registryVars
  <2>8. QED
    BY <2>2, <2>3, <2>4, <2>5, <2>6, <2>7 DEF Next, LastWriteStep, ExecutionStep, ReleaseStep
<1>4. QED
  BY <1>1, <1>2, <1>3, Invariance, PTL DEF Spec, ImplementsSemaphore, Semaphore!SemSpec
==============================================================================
