---------------------------- MODULE SiteReconciler ---------------------------
(***************************************************************************)
(* The site contour together with startFairnessReconciler of               *)
(* concurrency/reconcile.ts: every 30 s it compares the admission counters *)
(* with the admitted requests ActiveMetrics knows and takes back what was  *)
(* in excess at each of the last SustainTicks observations.                *)
(*                                                                         *)
(* Two states look like a leak to it although the request is alive: the    *)
(* body is still being read (slot taken, not yet registered), and the      *)
(* reply is being sent (unregistered, slot not yet given back).            *)
(***************************************************************************)
EXTENDS SiteContour

CONSTANTS SustainTicks,  \* SUSTAIN_TICKS
          Global,        \* GLOBAL_SCOPE
          ShortWindows   \* does no second tick find a request unregistered?

ASSUME ReconcilerAssumption ==
    /\ SustainTicks \in Nat \ {0}
    /\ Global \notin Clients
    /\ ShortWindows \in BOOLEAN

VARIABLES history,   \* excess per scope at the last ticks
          seen,      \* requests some tick found unregistered
          hidden,    \* history variable: slots in use that no tick could see
          misled     \* history variable: how far that has misled a correction

windowVars == <<history, seen, hidden, misled>>
allVars == <<vars, windowVars>>

Scopes == Clients \cup {Global}

\* countAdmittedByClient and countAdmittedTotal.
AdmittedLive == {r \in live : admitted[r]}
AdmittedLiveOf(c) == {r \in AdmittedLive : ClientOf[r] = c}

Counted(scope) == IF scope = Global THEN globalActive ELSE slots[scope].active

\* measureDrift, as tracked - actual; a scope without a slot has no drift.
Excess(scope) ==
    IF scope = Global THEN Counted(scope) - Cardinality(AdmittedLive)
    ELSE IF slots[scope].exists
    THEN Counted(scope) - Cardinality(AdmittedLiveOf(scope))
    ELSE 0

\* samples.push, and shift when there are more than SustainTicks.
Sampled(samples, new) ==
    LET longer == Append(samples, new)
    IN  IF Len(longer) > SustainTicks THEN Tail(longer) ELSE longer

\* The window with the new sample.  The code starts a window at the first
\* drift of a scope; the zeros recorded here before that change no minimum.
Window(scope) == Sampled(history[scope], Excess(scope))

Lowest(samples) ==
    CHOOSE m \in ToSet(samples) : \A s \in ToSet(samples) : m <= s

\* Defect: an excess of one is not worth a correction.
SustainedAboveOne(scope) ==
    LET w == Window(scope)
    IN  IF Len(w) = SustainTicks /\ Lowest(w) > 1 THEN Lowest(w) ELSE 0

\* Defect: the drift of the moment is corrected, as before SUSTAIN_TICKS.
SustainedNow(scope) ==
    LET w == Window(scope)
    IN  IF Len(w) = SustainTicks /\ Excess(scope) > 0 THEN Excess(scope) ELSE 0

\* How much releaseLeaked takes from a scope at this tick.
Sustained(scope) ==
    LET w == Window(scope)
    IN  IF Len(w) = SustainTicks /\ Lowest(w) > 0 THEN Lowest(w) ELSE 0

\* Requests whose slot is not backed by ActiveMetrics at this moment.
Unregistered == {r \in Requests : phase[r] \in {"body", "replied"}}

\* The slots of a scope, and those of them whose hooks will never run.
HoldersIn(scope) == IF scope = Global THEN Holders ELSE HoldersOf(scope)
Leaked == {r \in Holders : phase[r] = "gone"}

\* Slots in use that a tick cannot tell from leaked ones, now and at each of
\* the ticks of the window.
Hidden(scope) == Cardinality(HoldersIn(scope) \cap Unregistered)
HiddenWindow(scope) == Sampled(hidden[scope], Hidden(scope))

\* A correction is misled by the least that its ticks could not see.
Misled(scope) ==
    IF Sustained(scope) > 0 /\ Lowest(HiddenWindow(scope)) > misled[scope]
    THEN Lowest(HiddenWindow(scope)) ELSE misled[scope]

\* releaseLeaked of every scope whose excess was sustained.
Tick ==
    /\ ShortWindows => Unregistered \cap seen = {}
    /\ slots' = [c \in Clients |->
                    [slots[c] EXCEPT !.active = Minus(@, Sustained(c))]]
    /\ globalActive' = Minus(globalActive, Sustained(Global))
    /\ history' = [s \in Scopes |-> IF Sustained(s) > 0 THEN << >> ELSE Window(s)]
    /\ seen' = IF ShortWindows THEN seen \cup Unregistered ELSE seen
    /\ hidden' = [s \in Scopes |-> IF Sustained(s) > 0 THEN << >> ELSE HiddenWindow(s)]
    /\ misled' = [s \in Scopes |-> Misled(s)]
    /\ UNCHANGED <<queues, tenants, reloads, requestVars, execVars>>

RInit ==
    /\ Init
    /\ history = [s \in Scopes |-> << >>]
    /\ seen = {}
    /\ hidden = [s \in Scopes |-> << >>]
    /\ misled = [s \in Scopes |-> 0]

RNext ==
    \/ Next /\ UNCHANGED windowVars
    \/ Tick

RSpec == RInit /\ [][RNext]_allVars

\* The interval timer fires forever; the contour is fair as before.
RFairSpec ==
    /\ RSpec
    /\ WF_allVars(Tick)
    /\ \A r \in Requests : /\ WF_allVars(OnResponse(r) /\ UNCHANGED windowVars)
                           /\ WF_allVars(StartClientTask(r) /\ UNCHANGED windowVars)
                           /\ WF_allVars(StartGlobalTask(r) /\ UNCHANGED windowVars)
                           /\ WF_allVars(FinishExecution(r) /\ UNCHANGED windowVars)
                           /\ WF_allVars(HandlerDone(r) /\ UNCHANGED windowVars)

------------------------------------------------------------------------------
(* Properties.                                                              *)

HistoryTypeOK ==
    /\ TypeOK
    /\ history \in [Scopes -> Seq(Int)]
    /\ seen \subseteq Requests
    /\ hidden \in [Scopes -> Seq(Nat)]
    /\ misled \in [Scopes -> Nat]

\* Whatever the reconciler takes away, whenever, and however releases and
\* slot deletions interleave with it, no counter ends above the slots really
\* held: a client is never refused for requests it does not have.
NoOvercount ==
    /\ \A c \in Clients : slots[c].active <= Cardinality(HoldersOf(c))
    /\ globalActive <= Cardinality(Holders)

\* What a correction takes is leaked: the slots of all other requests stay
\* counted, per client and in total.  The exception is as large as the case
\* the window cannot exclude: when each of the last SustainTicks ticks found
\* slots in use whose requests were not registered (their bodies under way, or
\* their replies), as many of them as the least crowded of those ticks found
\* may be taken for leaked ones.  One tick that finds none rules that out.
OnlyLeakedTaken ==
    \A s \in Scopes : Cardinality(HoldersIn(s) \ Leaked) <= Counted(s) + misled[s]

\* The reason the reconciler exists: slots leaked by lost hooks do not lock a
\* client, or everyone, out for good.
LeaksHeal ==
    /\ \A c \in Clients :
          (\E r \in Leaked : ClientOf[r] = c) ~> slots[c].active <= Cardinality(HoldersOf(c) \ Leaked)
    /\ Leaked # {} ~> globalActive <= Cardinality(Holders \ Leaked)

\* releaseLeaked: a request between admission and registration, or running,
\* keeps its slot through a correction; reconcile.ts: an upload is gone at the
\* next tick, so that it cannot pass for a leak.
AliveKeepSlots ==
    \A c \in Clients :
        Cardinality({r \in HoldersOf(c) : phase[r] \in {"body", "awaiting"}}) <= slots[c].active

\* Corrections keep the types of the counters, also of slots deleted meanwhile.
\* They leave no counter above the slots held, and none below the slots held
\* by requests that are not leaked, but for what misled them.
CorrectionsSound == HistoryTypeOK /\ NoOvercount /\ OnlyLeakedTaken
==============================================================================
