------------------------- MODULE NestedQueuesProofs --------------------------
(***************************************************************************)
(* What the operations of FairnessManager and NestedQueues do, stated once *)
(* for the proofs about both contours: each keeps the state well-formed    *)
(* and changes the counters by what its name says; the global queue holds  *)
(* every request at most once, and only requests that wait in it; and a    *)
(* queue's limit is always one that some configuration gave (QueueLimits). *)
(***************************************************************************)
EXTENDS NestedQueues, FiniteSetTheorems, SequenceTheorems, TLAPS

\* ensureSlot returns a slot of the type, backed by a queue, whose active
\* count is the one the client had (0 for a new slot).
LEMMA EnsuredSlotType ==
    ASSUME FairnessTypeOK, NEW c \in Clients, NEW lim \in Limits
    PROVE  /\ EnsuredSlot(c, lim) \in Slot
           /\ EnsuredSlot(c, lim).exists
           /\ EnsuredSlot(c, lim).active = slots[c].active
           /\ EnsuredQueues(c, lim) \in Seq(Nat)
           /\ EnsuredSlot(c, lim).queue \in 1..Len(EnsuredQueues(c, lim))
<1>1. /\ lim.maxConcurrency \in Nat
      /\ lim.maxPending \in Nat
  BY FairnessAssumption
<1>2. /\ slots[c] \in Slot
      /\ queues[c] \in Seq(Nat)
  BY DEF FairnessTypeOK
<1>3. CASE slots[c].exists
  <2>1. slots[c].queue \in 1..Len(queues[c])
    BY <1>3 DEF FairnessTypeOK
  <2>2. /\ [queues[c] EXCEPT ![slots[c].queue] = lim.maxConcurrency] \in Seq(Nat)
        /\ Len([queues[c] EXCEPT ![slots[c].queue] = lim.maxConcurrency]) = Len(queues[c])
    BY <1>1, <1>2, <2>1, ExceptSeq
  <2>3. QED
    BY <1>1, <1>2, <1>3, <2>1, <2>2 DEF EnsuredSlot, EnsuredQueues, Slot
<1>4. CASE ~slots[c].exists
  <2>1. slots[c] = NoSlot
    BY <1>4 DEF FairnessTypeOK
  <2>2. /\ Append(queues[c], lim.maxConcurrency) \in Seq(Nat)
        /\ Len(Append(queues[c], lim.maxConcurrency)) = Len(queues[c]) + 1
        /\ Len(queues[c]) \in Nat
    BY <1>1, <1>2, AppendProperties, LenProperties
  <2>3. QED
    BY <1>1, <1>2, <1>4, <2>1, <2>2 DEF EnsuredSlot, EnsuredQueues, Slot, NoSlot
<1>5. QED
  BY <1>3, <1>4

\* tryAdmit adds one to the client's and to the global counter when it admits
\* and changes no counter when it refuses.
LEMMA TryAdmitCounts ==
    ASSUME FairnessTypeOK, NEW c \in Clients, NEW lim \in Limits, NEW d,
           TryAdmit(c, lim, d),
           NEW n, n = IF AdmitResult(c, lim, d) = "ok" THEN 1 ELSE 0
    PROVE  /\ FairnessTypeOK'
           /\ slots'[c].active = slots[c].active + n
           /\ \A x \in Clients \ {c} : slots'[x].active = slots[x].active
           /\ globalActive' = globalActive + n
<1> DEFINE s == [EnsuredSlot(c, lim) EXCEPT !.active = @ + n]
<1>1. /\ slots' = [slots EXCEPT ![c] = s]
      /\ queues' = [queues EXCEPT ![c] = EnsuredQueues(c, lim)]
      /\ globalActive' = globalActive + n
  BY DEF TryAdmit
<1>2. /\ slots \in [Clients -> Slot]
      /\ queues \in [Clients -> Seq(Nat)]
      /\ globalActive \in Nat
      /\ slots[c].active \in Nat
  BY DEF FairnessTypeOK, Slot
<1>3. /\ s \in Slot
      /\ s.exists
      /\ s.active = slots[c].active + n
      /\ s.queue \in 1..Len(EnsuredQueues(c, lim))
  <2> DEFINE e == EnsuredSlot(c, lim)
  <2>1. /\ e \in Slot
        /\ e.exists
        /\ e.active = slots[c].active
        /\ e.queue \in 1..Len(EnsuredQueues(c, lim))
    BY EnsuredSlotType
  <2>2. n \in Nat
    OBVIOUS
  <2>3. s = [e EXCEPT !.active = e.active + n]
    OBVIOUS
  <2> HIDE DEF e, s
  <2>4. s \in Slot
    BY <2>1, <2>2, <2>3 DEF Slot
  <2>5. s.active = e.active + n /\ s.exists = e.exists /\ s.queue = e.queue
    BY <2>1, <2>3 DEF Slot
  <2>6. QED
    BY <2>1, <2>4, <2>5
<1>4. EnsuredQueues(c, lim) \in Seq(Nat)
  BY EnsuredSlotType
<1> HIDE DEF s
<1>5. /\ slots' \in [Clients -> Slot]
      /\ queues' \in [Clients -> Seq(Nat)]
      /\ globalActive' \in Nat
  BY <1>1, <1>2, <1>3, <1>4
<1>6. ASSUME NEW x \in Clients
      PROVE  IF slots'[x].exists THEN slots'[x].queue \in 1..Len(queues'[x])
             ELSE slots'[x] = NoSlot
  BY <1>1, <1>2, <1>3 DEF FairnessTypeOK
<1>7. QED
  BY <1>1, <1>2, <1>3, <1>5, <1>6 DEF FairnessTypeOK

\* An admission finds room below the client's limits and below the global one.
LEMMA AdmittedHasRoom ==
    ASSUME FairnessTypeOK, NEW c \in Clients, NEW lim \in Limits, NEW d,
           AdmitResult(c, lim, d) = "ok"
    PROVE  /\ slots[c].active < lim.maxConcurrency + lim.maxPending
           /\ globalActive < GlobalMaxPending
<1>1. /\ slots[c].active \in Nat
      /\ globalActive \in Nat
      /\ lim.maxConcurrency \in Nat
      /\ lim.maxPending \in Nat
      /\ GlobalMaxPending \in Nat
  BY FairnessAssumption DEF FairnessTypeOK, Slot
<1>2. EnsuredSlot(c, lim).active = slots[c].active
  BY EnsuredSlotType
<1>3. QED
  BY <1>1, <1>2 DEF AdmitResult

\* release takes one from the client's and from the global counter, neither
\* below zero, and forgets nothing that is still counted.
LEMMA ReleaseCounts ==
    ASSUME FairnessTypeOK, NEW c \in Clients, Release(c)
    PROVE  /\ FairnessTypeOK'
           /\ slots'[c].active = Minus(slots[c].active, 1)
           /\ \A x \in Clients \ {c} : slots'[x].active = slots[x].active
           /\ globalActive' = Minus(globalActive, 1)
<1> DEFINE s == IF slots[c].exists THEN ReleasedSlot(slots[c]) ELSE slots[c]
<1>1. /\ slots' = [slots EXCEPT ![c] = s]
      /\ queues' = queues
      /\ globalActive' = Minus(globalActive, 1)
  BY DEF Release
<1>2. /\ slots \in [Clients -> Slot]
      /\ queues \in [Clients -> Seq(Nat)]
      /\ globalActive \in Nat
      /\ slots[c] \in Slot
  BY DEF FairnessTypeOK
<1>3. /\ s \in Slot
      /\ s.active = Minus(slots[c].active, 1)
      /\ IF s.exists THEN s.queue \in 1..Len(queues[c]) ELSE s = NoSlot
  <2>1. CASE slots[c].exists
    <3>1. slots[c].queue \in 1..Len(queues[c])
      BY <2>1 DEF FairnessTypeOK
    <3> DEFINE k == Minus(slots[c].active, 1)
    <3>2. k \in Nat
      BY <1>2 DEF Minus, Slot
    <3>3. s = IF slots[c].retired /\ k = 0 THEN NoSlot ELSE [slots[c] EXCEPT !.active = k]
      BY <2>1 DEF ReleasedSlot
    <3> HIDE DEF k, s
    <3>4. CASE slots[c].retired /\ k = 0
      BY <3>3, <3>4 DEF Slot, NoSlot, k
    <3>5. CASE ~(slots[c].retired /\ k = 0)
      BY <1>2, <2>1, <3>1, <3>2, <3>3, <3>5 DEF Slot, k
    <3>6. QED
      BY <3>4, <3>5
  <2>2. CASE ~slots[c].exists
    <3>1. slots[c] = NoSlot
      BY <2>2 DEF FairnessTypeOK
    <3>2. QED
      BY <1>2, <2>2, <3>1 DEF Minus, NoSlot
  <2>3. QED
    BY <2>1, <2>2
<1> HIDE DEF s
<1>4. /\ slots' \in [Clients -> Slot]
      /\ queues' \in [Clients -> Seq(Nat)]
      /\ globalActive' \in Nat
  BY <1>1, <1>2, <1>3 DEF Minus
<1>5. ASSUME NEW x \in Clients
      PROVE  IF slots'[x].exists THEN slots'[x].queue \in 1..Len(queues'[x])
             ELSE slots'[x] = NoSlot
  BY <1>1, <1>2, <1>3 DEF FairnessTypeOK
<1>6. QED
  BY <1>1, <1>2, <1>3, <1>4, <1>5 DEF FairnessTypeOK

\* syncClients changes no counter: it deletes only slots that count nothing.
LEMMA SyncClientsCounts ==
    ASSUME FairnessTypeOK, NEW tn \in [Clients -> Limits \cup {NoTenant}],
           SyncClients(tn)
    PROVE  /\ FairnessTypeOK'
           /\ \A c \in Clients : slots'[c].active = slots[c].active
           /\ globalActive' = globalActive
<1>1. /\ globalActive' = globalActive
      /\ slots' = [c \in Clients |-> slots'[c]]
      /\ queues' = [c \in Clients |-> queues'[c]]
  BY DEF SyncClients
<1>2. ASSUME NEW c \in Clients
      PROVE  /\ slots'[c] \in Slot
             /\ queues'[c] \in Seq(Nat)
             /\ slots'[c].active = slots[c].active
             /\ IF slots'[c].exists THEN slots'[c].queue \in 1..Len(queues'[c])
                ELSE slots'[c] = NoSlot
  <2>1. /\ slots[c] \in Slot
        /\ queues[c] \in Seq(Nat)
    BY DEF FairnessTypeOK
  <2>2. CASE tn[c] # NoTenant
    <3>1. tn[c] \in Limits
      BY <2>2
    <3>2. /\ slots'[c] = EnsuredSlot(c, tn[c])
          /\ queues'[c] = EnsuredQueues(c, tn[c])
      BY <2>2 DEF SyncClients
    <3>3. QED
      BY <3>1, <3>2, EnsuredSlotType
  <2>3. CASE tn[c] = NoTenant /\ slots[c].exists /\ slots[c].active # 0
    <3>1. /\ slots'[c] = [slots[c] EXCEPT !.retired = TRUE]
          /\ queues'[c] = queues[c]
      BY <2>3 DEF SyncClients
    <3>2. slots[c].queue \in 1..Len(queues[c])
      BY <2>3 DEF FairnessTypeOK
    <3>3. QED
      BY <2>1, <2>3, <3>1, <3>2 DEF Slot
  <2>4. CASE tn[c] = NoTenant /\ ~(slots[c].exists /\ slots[c].active # 0)
    <3>1. /\ slots'[c] = NoSlot
          /\ queues'[c] = queues[c]
      BY <2>4 DEF SyncClients
    <3>2. slots[c].active = 0
      BY <2>4 DEF FairnessTypeOK, NoSlot
    <3>3. QED
      BY <2>1, <3>1, <3>2 DEF NoSlot, Slot
  <2>5. QED
    BY <2>2, <2>3, <2>4
<1>3. /\ slots' \in [Clients -> Slot]
      /\ queues' \in [Clients -> Seq(Nat)]
  BY <1>1, <1>2
<1>4. globalActive' \in Nat
  BY <1>1 DEF FairnessTypeOK
<1>5. QED
  BY <1>1, <1>2, <1>3, <1>4 DEF FairnessTypeOK

\* The constructor's slots are well-formed and count nothing.
LEMMA FairnessInitCounts ==
    ASSUME NEW tn \in [Clients -> Limits \cup {NoTenant}], FairnessInit(tn)
    PROVE  /\ FairnessTypeOK
           /\ \A c \in Clients : slots[c].active = 0
           /\ globalActive = 0
<1>1. ASSUME NEW c \in Clients
      PROVE  /\ slots[c] \in Slot
             /\ queues[c] \in Seq(Nat)
             /\ slots[c].active = 0
             /\ IF slots[c].exists THEN slots[c].queue \in 1..Len(queues[c])
                ELSE slots[c] = NoSlot
  <2>1. CASE tn[c] = NoTenant
    BY <2>1 DEF FairnessInit, NoSlot, Slot
  <2>2. CASE tn[c] # NoTenant
    <3>1. tn[c].maxConcurrency \in Nat /\ tn[c].maxPending \in Nat
      BY <2>2, FairnessAssumption
    <3>2. <<tn[c].maxConcurrency>> \in Seq(Nat) /\ Len(<<tn[c].maxConcurrency>>) = 1
      BY <3>1
    <3>3. QED
      BY <2>2, <3>1, <3>2 DEF FairnessInit, Slot
  <2>3. QED
    BY <2>1, <2>2
<1>2. /\ slots \in [Clients -> Slot]
      /\ queues \in [Clients -> Seq(Nat)]
      /\ globalActive = 0
  <2>1. DOMAIN slots = Clients /\ slots = [c \in Clients |-> slots[c]]
    BY DEF FairnessInit
  <2>2. queues = [c \in Clients |-> queues[c]]
    BY DEF FairnessInit
  <2>3. QED
    BY <1>1, <2>1, <2>2 DEF FairnessInit
<1>3. QED
  BY <1>1, <1>2 DEF FairnessTypeOK

------------------------------------------------------------------------------
\* Every queue ever made for a client runs as many tasks as some limits allow.
QueueLimits ==
    \A c \in Clients : \A i \in 1..Len(queues[c]) :
        \E l \in Limits : queues[c][i] = l.maxConcurrency

\* A slot that lasts keeps its queue.
QueueNumbersStay ==
    \A c \in Clients :
        slots[c].exists /\ slots'[c].exists => slots'[c].queue = slots[c].queue

\* ensureSlot changes limits of a queue only to limits.
LEMMA EnsuredQueueLimits ==
    ASSUME FairnessTypeOK, QueueLimits, NEW c \in Clients, NEW lim \in Limits
    PROVE  /\ \A i \in 1..Len(EnsuredQueues(c, lim)) :
                 \E l \in Limits : EnsuredQueues(c, lim)[i] = l.maxConcurrency
           /\ slots[c].exists => EnsuredSlot(c, lim).queue = slots[c].queue
<1>1. /\ slots[c] \in Slot
      /\ queues[c] \in Seq(Nat)
      /\ lim.maxConcurrency \in Nat
  BY FairnessAssumption DEF FairnessTypeOK
<1>2. CASE slots[c].exists
  <2>1. EnsuredQueues(c, lim) = [queues[c] EXCEPT ![slots[c].queue] = lim.maxConcurrency]
    BY <1>2 DEF EnsuredQueues
  <2>2. /\ Len(EnsuredQueues(c, lim)) = Len(queues[c])
        /\ DOMAIN queues[c] = 1..Len(queues[c])
        /\ slots[c].queue \in 1..Len(queues[c])
    BY <1>1, <1>2, <2>1, ExceptSeq, LenProperties DEF FairnessTypeOK
  <2>3. \A i \in 1..Len(queues[c]) :
           EnsuredQueues(c, lim)[i] = IF i = slots[c].queue THEN lim.maxConcurrency ELSE queues[c][i]
    BY <2>1, <2>2
  <2>4. EnsuredSlot(c, lim).queue = slots[c].queue
    BY <1>1, <1>2 DEF EnsuredSlot, Slot
  <2>5. QED
    BY <2>2, <2>3, <2>4 DEF QueueLimits
<1>3. CASE ~slots[c].exists
  <2>1. EnsuredQueues(c, lim) = Append(queues[c], lim.maxConcurrency)
    BY <1>3 DEF EnsuredQueues
  <2>2. /\ Len(EnsuredQueues(c, lim)) = Len(queues[c]) + 1
        /\ Len(queues[c]) \in Nat
        /\ EnsuredQueues(c, lim)[Len(queues[c]) + 1] = lim.maxConcurrency
        /\ \A i \in 1..Len(queues[c]) : EnsuredQueues(c, lim)[i] = queues[c][i]
    BY <1>1, <2>1, AppendProperties, LenProperties
  <2>3. \A i \in 1..(Len(queues[c]) + 1) : i \in 1..Len(queues[c]) \/ i = Len(queues[c]) + 1
    BY <2>2
  <2>4. QED
    BY <1>3, <2>2, <2>3 DEF QueueLimits
<1>4. QED
  BY <1>2, <1>3

\* Whatever FairnessManager does, queues keep to the limits and lasting slots
\* keep their queues.
LEMMA QueuesStand ==
    ASSUME FairnessTypeOK, QueueLimits,
           \/ UNCHANGED fairnessVars
           \/ \E c \in Clients, lim \in Limits, d \in Nat : TryAdmit(c, lim, d)
           \/ \E c \in Clients : Release(c)
           \/ \E tn \in [Clients -> Limits \cup {NoTenant}] : SyncClients(tn)
    PROVE  QueueLimits' /\ QueueNumbersStay
<1>1. /\ slots \in [Clients -> Slot]
      /\ queues \in [Clients -> Seq(Nat)]
  BY DEF FairnessTypeOK
<1>2. CASE UNCHANGED fairnessVars
  BY <1>2 DEF fairnessVars, QueueLimits, QueueNumbersStay
<1>3. ASSUME NEW c \in Clients, NEW lim \in Limits, NEW d \in Nat, TryAdmit(c, lim, d)
      PROVE  QueueLimits' /\ QueueNumbersStay
  <2> DEFINE n == IF AdmitResult(c, lim, d) = "ok" THEN 1 ELSE 0
             s == [EnsuredSlot(c, lim) EXCEPT !.active = @ + n]
  <2>1. /\ slots' = [slots EXCEPT ![c] = s]
        /\ queues' = [queues EXCEPT ![c] = EnsuredQueues(c, lim)]
    BY <1>3 DEF TryAdmit
  <2>2. s.queue = EnsuredSlot(c, lim).queue
    BY EnsuredSlotType DEF Slot
  <2> HIDE DEF s
  <2>3. QueueNumbersStay
    BY <1>1, <2>1, <2>2, EnsuredQueueLimits DEF QueueNumbersStay
  <2>4. QueueLimits'
    BY <1>1, <2>1, EnsuredQueueLimits DEF QueueLimits
  <2>5. QED
    BY <2>3, <2>4
<1>4. ASSUME NEW c \in Clients, Release(c)
      PROVE  QueueLimits' /\ QueueNumbersStay
  <2> DEFINE s == IF slots[c].exists THEN ReleasedSlot(slots[c]) ELSE slots[c]
  <2>1. slots' = [slots EXCEPT ![c] = s] /\ queues' = queues
    BY <1>4 DEF Release
  <2>2. s.exists => s.queue = slots[c].queue
    BY <1>1 DEF ReleasedSlot, NoSlot, Slot
  <2> HIDE DEF s
  <2>3. QED
    BY <1>1, <2>1, <2>2 DEF QueueNumbersStay, QueueLimits
<1>5. ASSUME NEW tn \in [Clients -> Limits \cup {NoTenant}], SyncClients(tn)
      PROVE  QueueLimits' /\ QueueNumbersStay
  <2>1. ASSUME NEW c \in Clients
        PROVE  /\ \A i \in 1..Len(queues'[c]) : \E l \in Limits : queues'[c][i] = l.maxConcurrency
               /\ slots[c].exists /\ slots'[c].exists => slots'[c].queue = slots[c].queue
    <3>1. CASE tn[c] # NoTenant
      <4>1. tn[c] \in Limits
        BY <3>1
      <4>2. slots'[c] = EnsuredSlot(c, tn[c]) /\ queues'[c] = EnsuredQueues(c, tn[c])
        BY <1>5, <3>1 DEF SyncClients
      <4>3. QED
        BY <4>1, <4>2, EnsuredQueueLimits
    <3>2. CASE tn[c] = NoTenant
      <4>1. /\ queues'[c] = queues[c]
            /\ slots'[c] = NoSlot \/ slots'[c] = [slots[c] EXCEPT !.retired = TRUE]
        BY <1>5, <3>2 DEF SyncClients
      <4>2. slots'[c].exists => slots'[c].queue = slots[c].queue
        BY <1>1, <4>1 DEF NoSlot, Slot
      <4>3. QED
        BY <4>1, <4>2 DEF QueueLimits
    <3>3. QED
      BY <3>1, <3>2
  <2>2. QED
    BY <2>1 DEF QueueLimits, QueueNumbersStay
<1>6. QED
  BY <1>2, <1>3, <1>4, <1>5

\* The constructor's queues keep to the limits.
LEMMA FairnessInitLimits ==
    ASSUME NEW tn \in [Clients -> Limits \cup {NoTenant}], FairnessInit(tn)
    PROVE  QueueLimits
<1>1. ASSUME NEW c \in Clients, NEW i \in 1..Len(queues[c])
      PROVE  \E l \in Limits : queues[c][i] = l.maxConcurrency
  <2>1. CASE tn[c] = NoTenant
    BY <1>1, <2>1 DEF FairnessInit
  <2>2. CASE tn[c] # NoTenant
    <3>1. tn[c] \in Limits /\ queues[c] = <<tn[c].maxConcurrency>>
      BY <2>2 DEF FairnessInit
    <3>2. i = 1
      BY <1>1, <3>1
    <3>3. QED
      BY <3>1, <3>2
  <2>3. QED
    BY <2>1, <2>2
<1>2. QED
  BY <1>1 DEF QueueLimits

------------------------------------------------------------------------------
\* The members of a set of requests that belong to a client.
OfClient(H, c) == {r \in H : ClientOf[r] = c}

\* A request more: one more for its client, one more in all.
LEMMA CountOneMore ==
    ASSUME NEW H \in SUBSET Requests, NEW r \in Requests, r \notin H
    PROVE  /\ Cardinality(H \cup {r}) = Cardinality(H) + 1
           /\ Cardinality(OfClient(H \cup {r}, ClientOf[r])) = Cardinality(OfClient(H, ClientOf[r])) + 1
           /\ \A c \in Clients \ {ClientOf[r]} : OfClient(H \cup {r}, c) = OfClient(H, c)
<1>1. IsFiniteSet(H) /\ IsFiniteSet(OfClient(H, ClientOf[r]))
  BY FS_Subset, QueuesAssumption DEF OfClient
<1>2. OfClient(H \cup {r}, ClientOf[r]) = OfClient(H, ClientOf[r]) \cup {r}
  BY DEF OfClient
<1>3. r \notin OfClient(H, ClientOf[r])
  BY DEF OfClient
<1>4. \A c \in Clients \ {ClientOf[r]} : OfClient(H \cup {r}, c) = OfClient(H, c)
  BY DEF OfClient
<1>5. Cardinality(H \cup {r}) = Cardinality(H) + 1
  BY <1>1, FS_AddElement
<1>6. Cardinality(OfClient(H, ClientOf[r]) \cup {r}) = Cardinality(OfClient(H, ClientOf[r])) + 1
  BY <1>1, <1>3, FS_AddElement
<1>7. QED
  BY <1>2, <1>4, <1>5, <1>6

\* A request less: one less for its client, one less in all, none below zero.
LEMMA CountOneLess ==
    ASSUME NEW H \in SUBSET Requests, NEW r \in H
    PROVE  /\ Cardinality(H \ {r}) = Minus(Cardinality(H), 1)
           /\ Cardinality(OfClient(H \ {r}, ClientOf[r])) = Minus(Cardinality(OfClient(H, ClientOf[r])), 1)
           /\ \A c \in Clients \ {ClientOf[r]} : OfClient(H \ {r}, c) = OfClient(H, c)
<1>1. IsFiniteSet(H) /\ IsFiniteSet(OfClient(H, ClientOf[r]))
  BY FS_Subset, QueuesAssumption DEF OfClient
<1>2. OfClient(H \ {r}, ClientOf[r]) = OfClient(H, ClientOf[r]) \ {r}
  BY DEF OfClient
<1>3. r \in OfClient(H, ClientOf[r])
  BY DEF OfClient
<1>4. /\ Cardinality(H \ {r}) = Cardinality(H) - 1
      /\ Cardinality(OfClient(H, ClientOf[r]) \ {r}) = Cardinality(OfClient(H, ClientOf[r])) - 1
      /\ Cardinality(H \ {r}) \in Nat
      /\ Cardinality(OfClient(H, ClientOf[r]) \ {r}) \in Nat
      /\ Cardinality(H) \in Nat
      /\ Cardinality(OfClient(H, ClientOf[r])) \in Nat
  BY <1>1, <1>3, FS_RemoveElement, FS_CardinalityType
<1>5. \A c \in Clients \ {ClientOf[r]} : OfClient(H \ {r}, c) = OfClient(H, c)
  BY DEF OfClient
<1>6. \A k, m \in Nat : m = k - 1 => m = Minus(k, 1)
  BY DEF Minus
<1>7. /\ Cardinality(H \ {r}) = Minus(Cardinality(H), 1)
      /\ Cardinality(OfClient(H, ClientOf[r]) \ {r}) = Minus(Cardinality(OfClient(H, ClientOf[r])), 1)
  BY <1>4, <1>6
<1>8. QED
  BY <1>2, <1>5, <1>7

------------------------------------------------------------------------------
\* The queue operations keep the types of the queues' variables.
LEMMA QueueSteps ==
    ASSUME QueuesTypeOK, FairnessTypeOK, NEW r \in Requests,
           NEW inside \in {"providerWait", "upstream"},
           Enqueue(r) \/ StartClient(r) \/ StartGlobal(r, inside) \/ Settle(r)
    PROVE  QueuesTypeOK'
<1>1. /\ stage \in [Requests -> Stages]
      /\ queueOf \in [Requests -> Nat]
      /\ clientWait \in Seq(Requests)
      /\ globalWait \in Seq(Requests)
  BY DEF QueuesTypeOK
<1>2. CASE Enqueue(r)
  <2>1. QueueFor(ClientOf[r]) \in Nat
    BY QueuesAssumption DEF QueueFor, FairnessTypeOK, Slot
  <2>2. /\ stage' \in [Requests -> Stages]
        /\ queueOf' \in [Requests -> Nat]
    BY <1>1, <1>2, <2>1 DEF Enqueue, Stages
  <2>3. Append(globalWait, r) \in Seq(Requests) /\ Append(clientWait, r) \in Seq(Requests)
    BY <1>1, AppendProperties
  <2>4. QED
    BY <1>1, <1>2, <2>2, <2>3 DEF QueuesTypeOK, Enqueue
<1>3. CASE StartClient(r)
  <2>1. PICK i \in DOMAIN clientWait : clientWait' = RemoveAt(clientWait, i)
    BY <1>3 DEF StartClient
  <2>2. i \in 1..Len(clientWait) /\ Len(clientWait) \in Nat
    BY <1>1, <2>1, LenProperties
  <2>3. SubSeq(clientWait, 1, i - 1) \in Seq(Requests)
    <3>1. \A j \in 1..(i - 1) : clientWait[j] \in Requests
      BY <1>1, <2>2, ElementOfSeq
    <3>2. QED
      BY <2>2, <3>1, SubSeqProperties
  <2>4. SubSeq(clientWait, i + 1, Len(clientWait)) \in Seq(Requests)
    <3>1. \A j \in (i + 1)..Len(clientWait) : clientWait[j] \in Requests
      BY <1>1, <2>2, ElementOfSeq
    <3>2. QED
      BY <2>2, <3>1, SubSeqProperties
  <2>5. clientWait' \in Seq(Requests)
    BY <2>1, <2>3, <2>4, ConcatProperties DEF RemoveAt
  <2>6. globalWait' \in Seq(Requests)
    BY <1>1, <1>3, AppendProperties DEF StartClient
  <2>7. stage' \in [Requests -> Stages] /\ queueOf' = queueOf
    BY <1>1, <1>3 DEF StartClient, Stages
  <2>8. QED
    BY <1>1, <2>5, <2>6, <2>7 DEF QueuesTypeOK
<1>4. CASE StartGlobal(r, inside)
  <2>1. Tail(globalWait) \in Seq(Requests)
    BY <1>1, <1>4, HeadTailProperties DEF StartGlobal
  <2>2. Append(Tail(globalWait), r) \in Seq(Requests)
    BY <2>1, AppendProperties
  <2>3. stage' \in [Requests -> Stages]
    BY <1>1, <1>4 DEF StartGlobal, Stages
  <2>4. QED
    BY <1>1, <1>4, <2>1, <2>2, <2>3 DEF QueuesTypeOK, StartGlobal
<1>5. CASE Settle(r)
  BY <1>1, <1>5 DEF Settle, QueuesTypeOK, Stages
<1>6. QED
  BY <1>2, <1>3, <1>4, <1>5
------------------------------------------------------------------------------
(* The order of a waiting line.                                             *)

\* The line s holds members of W only, each once.
OneEach(s, W) ==
    /\ \A i \in 1..Len(s) : s[i] \in W
    /\ \A i, j \in 1..Len(s) : s[i] = s[j] => i = j

\* A newcomer goes to the end of the line.
LEMMA LinePush ==
    ASSUME NEW R, NEW s \in Seq(R), NEW W, OneEach(s, W), NEW r \in R, r \notin W
    PROVE  OneEach(Append(s, r), W \cup {r})
<1>1. /\ Len(s) \in Nat
      /\ Len(Append(s, r)) = Len(s) + 1
      /\ \A i \in 1..Len(s) : Append(s, r)[i] = s[i]
      /\ Append(s, r)[Len(s) + 1] = r
  BY LenProperties, AppendProperties
<1> DEFINE t == Append(s, r)
<1> HIDE DEF t
<1>2. ASSUME NEW i \in 1..(Len(s) + 1)
      PROVE  t[i] \in W \cup {r} /\ (t[i] = r <=> i = Len(s) + 1)
  <2>1. CASE i = Len(s) + 1
    BY <1>1, <2>1 DEF t
  <2>2. CASE i # Len(s) + 1
    <3>1. i \in 1..Len(s) /\ t[i] = s[i]
      BY <1>1, <2>2 DEF t
    <3>2. QED
      BY <2>2, <3>1 DEF OneEach
  <2>3. QED
    BY <2>1, <2>2
<1>3. ASSUME NEW i \in 1..(Len(s) + 1), NEW j \in 1..(Len(s) + 1), t[i] = t[j]
      PROVE  i = j
  <2>1. CASE i = Len(s) + 1 \/ j = Len(s) + 1
    BY <1>2, <1>3, <2>1
  <2>2. CASE i # Len(s) + 1 /\ j # Len(s) + 1
    <3>1. i \in 1..Len(s) /\ j \in 1..Len(s)
      BY <1>1, <2>2
    <3>2. s[i] = s[j]
      BY <1>1, <1>3, <3>1 DEF t
    <3>3. QED
      BY <3>1, <3>2 DEF OneEach
  <2>3. QED
    BY <2>1, <2>2
<1>4. Len(t) = Len(s) + 1
  BY <1>1 DEF t
<1>5. OneEach(t, W \cup {r})
  BY <1>2, <1>3, <1>4 DEF OneEach
<1>6. QED
  BY <1>5 DEF t

\* The first in the line leaves it and nobody else has its name.
LEMMA LinePop ==
    ASSUME NEW R, NEW s \in Seq(R), NEW W, OneEach(s, W), s # << >>
    PROVE  /\ Head(s) \in W
           /\ OneEach(Tail(s), W \ {Head(s)})
<1>1. /\ Len(s) \in Nat \ {0}
      /\ Head(s) = s[1]
      /\ Tail(s) \in Seq(R)
      /\ Len(Tail(s)) = Len(s) - 1
      /\ \A i \in 1..Len(Tail(s)) : Tail(s)[i] = s[i + 1]
  BY EmptySeq, LenProperties, HeadTailProperties
<1> DEFINE t == Tail(s)
           h == Head(s)
<1> HIDE DEF t, h
<1>2. ASSUME NEW i \in 1..Len(t)
      PROVE  i + 1 \in 1..Len(s) /\ t[i] = s[i + 1]
  BY <1>1 DEF t
<1>3. 1 \in 1..Len(s) /\ h = s[1]
  BY <1>1 DEF h
<1>4. ASSUME NEW i \in 1..Len(t)
      PROVE  t[i] \in W \ {h}
  <2>1. i + 1 \in 1..Len(s) /\ t[i] = s[i + 1] /\ i + 1 # 1
    BY <1>2
  <2>2. QED
    BY <1>3, <2>1 DEF OneEach
<1>5. ASSUME NEW i \in 1..Len(t), NEW j \in 1..Len(t), t[i] = t[j]
      PROVE  i = j
  <2>1. i + 1 = j + 1
    BY <1>2, <1>5 DEF OneEach
  <2>2. QED
    BY <2>1
<1>6. h \in W /\ OneEach(t, W \ {h})
  BY <1>3, <1>4, <1>5 DEF OneEach
<1>7. QED
  BY <1>6 DEF t, h

\* Requests that wait in the global queue, and the global queue in order.
GlobalWaiting == {r \in Requests : stage[r] \in {"globalWait", "outerWait", "innerWait"}}

GlobalLine == OneEach(globalWait, GlobalWaiting)

\* The queue operations keep the global queue in order, whoever calls them.
LEMMA GlobalLineSteps ==
    ASSUME QueuesTypeOK, GlobalLine, NEW r \in Requests,
           NEW inside \in {"providerWait", "upstream"},
           \/ Enqueue(r) /\ ~InFlight(r)
           \/ StartClient(r)
           \/ StartGlobal(r, inside)
           \/ Settle(r) /\ r \notin GlobalWaiting
    PROVE  GlobalLine'
<1>1. /\ stage \in [Requests -> Stages]
      /\ globalWait \in Seq(Requests)
  BY DEF QueuesTypeOK
<1>2. CASE Enqueue(r) /\ ~InFlight(r)
  <2>1. r \notin GlobalWaiting
    BY <1>2 DEF InFlight, GlobalWaiting
  <2>2. CASE QueueFor(ClientOf[r]) = 0
    <3>1. globalWait' = Append(globalWait, r) /\ GlobalWaiting' = GlobalWaiting \cup {r}
      BY <1>1, <1>2, <2>2 DEF Enqueue, GlobalWaiting
    <3>2. QED
      BY <1>1, <2>1, <3>1, LinePush DEF GlobalLine
  <2>3. CASE QueueFor(ClientOf[r]) # 0
    <3>1. globalWait' = globalWait /\ GlobalWaiting' = GlobalWaiting
      BY <1>1, <1>2, <2>1, <2>3 DEF Enqueue, GlobalWaiting
    <3>2. QED
      BY <3>1 DEF GlobalLine
  <2>4. QED
    BY <2>2, <2>3
<1>3. CASE StartClient(r)
  <2>1. r \notin GlobalWaiting
    BY <1>3 DEF StartClient, GlobalWaiting
  <2>2. globalWait' = Append(globalWait, r) /\ GlobalWaiting' = GlobalWaiting \cup {r}
    BY <1>1, <1>3 DEF StartClient, GlobalWaiting
  <2>3. QED
    BY <1>1, <2>1, <2>2, LinePush DEF GlobalLine
<1>4. CASE StartGlobal(r, inside)
  <2>1. /\ r \in GlobalWaiting
        /\ OneEach(Tail(globalWait), GlobalWaiting \ {r})
    BY <1>1, <1>4, LinePop DEF StartGlobal, GlobalLine
  <2>2. Tail(globalWait) \in Seq(Requests)
    BY <1>1, <1>4, HeadTailProperties DEF StartGlobal
  <2>3. CASE stage[r] = "outerWait"
    <3>1. /\ globalWait' = Append(Tail(globalWait), r)
          /\ GlobalWaiting' = (GlobalWaiting \ {r}) \cup {r}
      BY <1>1, <1>4, <2>1, <2>3 DEF StartGlobal, GlobalWaiting
    <3>2. QED
      BY <2>1, <2>2, <3>1, LinePush DEF GlobalLine
  <2>4. CASE stage[r] # "outerWait"
    <3>1. /\ globalWait' = Tail(globalWait)
          /\ GlobalWaiting' = GlobalWaiting \ {r}
      BY <1>1, <1>4, <2>1, <2>4 DEF StartGlobal, GlobalWaiting
    <3>2. QED
      BY <2>1, <3>1 DEF GlobalLine
  <2>5. QED
    BY <2>3, <2>4
<1>5. CASE Settle(r) /\ r \notin GlobalWaiting
  <2>1. globalWait' = globalWait /\ GlobalWaiting' = GlobalWaiting
    BY <1>1, <1>5 DEF Settle, GlobalWaiting
  <2>2. QED
    BY <2>1 DEF GlobalLine
<1>6. QED
  BY <1>2, <1>3, <1>4, <1>5
==============================================================================
