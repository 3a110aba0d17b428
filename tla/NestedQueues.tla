---------------------------- MODULE NestedQueues -----------------------------
(***************************************************************************)
(* The queues every execution goes through in both contours:               *)
(*     queueFor(client).add(() => globalQueue.add(() => call))             *)
(* Each is a p-queue: tasks start in order while fewer than `concurrency'  *)
(* of them run, and a task runs until the promise it returned settles, so  *)
(* that an execution holds its place in the client queue while it waits    *)
(* and runs in the global one.                                             *)
(*                                                                         *)
(* queueFor falls back to the global queue itself when the client has no   *)
(* slot: the execution then enters the global queue twice, the outer task  *)
(* holding one place while the inner one waits for another.                *)
(***************************************************************************)
EXTENDS FairnessManager, SequencesExt

CONSTANTS Requests,   \* requests that may ever arrive
          ClientOf    \* the tenant a request belongs to

ASSUME QueuesAssumption ==
    /\ IsFiniteSet(Requests)
    /\ ClientOf \in [Requests -> Clients]

VARIABLES stage,        \* where the execution a request started is
          queueOf,      \* the queue it was put in; 0 is the global queue
          clientWait,   \* tasks waiting in client queues, oldest first
          globalWait    \* tasks waiting in the global queue, oldest first

queueVars == <<stage, queueOf, clientWait, globalWait>>

Stages == {"none", "clientWait", "globalWait", "outerWait", "innerWait",
           "providerWait", "upstream", "settled"}

QueuesTypeOK ==
    /\ stage \in [Requests -> Stages]
    /\ queueOf \in [Requests -> Nat]
    /\ clientWait \in Seq(Requests)
    /\ globalWait \in Seq(Requests)

QueuesInit ==
    /\ stage = [r \in Requests |-> "none"]
    /\ queueOf = [r \in Requests |-> 0]
    /\ clientWait = << >>
    /\ globalWait = << >>

InFlight(r) == stage[r] \notin {"none", "settled"}

\* The execution is put in the queue queueFor returns at this moment.
Enqueue(r) ==
    LET q == QueueFor(ClientOf[r])
    IN  /\ queueOf' = [queueOf EXCEPT ![r] = q]
        /\ stage' = [stage EXCEPT ![r] = IF q = 0 THEN "outerWait" ELSE "clientWait"]
        /\ IF q = 0
           THEN globalWait' = Append(globalWait, r) /\ UNCHANGED clientWait
           ELSE clientWait' = Append(clientWait, r) /\ UNCHANGED globalWait

SameQueue(r, s) == ClientOf[r] = ClientOf[s] /\ queueOf[r] = queueOf[s]

\* Defect: the client queue does not wait for the promise of the global one.
RunningUpstreamOf(r) ==
    {s \in Requests : /\ SameQueue(r, s)
                      /\ queueOf[s] # 0
                      /\ stage[s] = "upstream"}

\* Executions holding a place of the client queue that r is in.
RunningInQueueOf(r) ==
    {s \in Requests : /\ SameQueue(r, s)
                      /\ queueOf[s] # 0
                      /\ stage[s] \in {"globalWait", "providerWait", "upstream"}}

\* Executions whose call runs inside the global queue.
InsideGlobal == {r \in Requests : stage[r] \in {"providerWait", "upstream"}}

\* Places of the global queue in use, the outer tasks included.
GlobalRunning ==
    Cardinality(InsideGlobal)
    + Cardinality({r \in Requests : /\ queueOf[r] = 0
                                    /\ stage[r] \in {"innerWait", "providerWait", "upstream"}})

\* A client queue starts its oldest task, which enters the global queue.
StartClient(r) ==
    /\ stage[r] = "clientWait"
    /\ \E i \in DOMAIN clientWait :
          /\ clientWait[i] = r
          /\ \A j \in 1..(i - 1) : ~SameQueue(clientWait[j], r)
          /\ clientWait' = RemoveAt(clientWait, i)
    /\ Cardinality(RunningInQueueOf(r)) < queues[ClientOf[r]][queueOf[r]]
    /\ stage' = [stage EXCEPT ![r] = "globalWait"]
    /\ globalWait' = Append(globalWait, r)
    /\ UNCHANGED queueOf

\* The global queue starts its oldest task: the call itself, which goes on to
\* the stage inside, or an outer task, which adds its call behind the others.
StartGlobal(r, inside) ==
    /\ globalWait # << >>
    /\ r = Head(globalWait)
    /\ GlobalRunning < GlobalConcurrency
    /\ stage' = [stage EXCEPT ![r] = IF @ = "outerWait" THEN "innerWait" ELSE inside]
    /\ globalWait' = IF stage[r] = "outerWait"
                     THEN Append(Tail(globalWait), r) ELSE Tail(globalWait)
    /\ UNCHANGED <<queueOf, clientWait>>

\* The call settles: every place the execution held is free.
Settle(r) ==
    /\ stage' = [stage EXCEPT ![r] = "settled"]
    /\ UNCHANGED <<queueOf, clientWait, globalWait>>

\* Executions of a client with a place in the global queue, waiting or running,
\* and those of them whose outer task holds a second one.
PlacedOf(c) ==
    {r \in Requests : /\ ClientOf[r] = c
                      /\ stage[r] \in {"globalWait", "outerWait", "innerWait",
                                       "providerWait", "upstream"}}

PlacedTwiceOf(c) ==
    {r \in Requests : /\ ClientOf[r] = c
                      /\ queueOf[r] = 0
                      /\ stage[r] \in {"innerWait", "providerWait", "upstream"}}

PlacesInGlobalQueue(c) == Cardinality(PlacedOf(c)) + Cardinality(PlacedTwiceOf(c))

\* fairness.ts: a client takes no more places of the shared FIFO than its
\* maxConcurrency, so it cannot crowd the others out.  The limit meant is the
\* highest one any configuration gives.
ClientShareOfGlobalQueue ==
    \A c \in Clients :
        PlacesInGlobalQueue(c) > 0 =>
            \E l \in Limits : PlacesInGlobalQueue(c) <= l.maxConcurrency
==============================================================================
