-------------------------- MODULE CountingSemaphore --------------------------
(***************************************************************************)
(* What admission control promises, without its counters: a set of         *)
(* requests that hold a slot, a capacity per client and one for everyone.  *)
(* A request takes a slot only while both capacities leave room, takes at  *)
(* most one in its life and gives it back at most once.  Capacities change *)
(* when an administrator edits a client; a lowered capacity takes nothing  *)
(* away from the requests that already hold a slot.                        *)
(***************************************************************************)
EXTENDS Naturals, FiniteSets

CONSTANTS Requests,   \* requests that may ever ask for a slot
          Clients,    \* the tenants
          ClientOf,   \* the tenant of a request
          GlobalCap   \* slots for everyone together

VARIABLES holders,    \* requests that hold a slot
          spent,      \* requests that gave their slot back
          cap         \* capacity of every client; 0 while it is disabled

semVars == <<holders, spent, cap>>

HeldBy(c) == {r \in holders : ClientOf[r] = c}

SemInit ==
    /\ holders = {}
    /\ spent = {}
    /\ cap \in [Clients -> Nat]

Acquire(r) ==
    /\ r \notin holders \cup spent
    /\ Cardinality(HeldBy(ClientOf[r])) < cap[ClientOf[r]]
    /\ Cardinality(holders) < GlobalCap
    /\ holders' = holders \cup {r}
    /\ UNCHANGED <<spent, cap>>

GiveBack(r) ==
    /\ r \in holders
    /\ holders' = holders \ {r}
    /\ spent' = spent \cup {r}
    /\ UNCHANGED cap

Reconfigure ==
    /\ cap' \in [Clients -> Nat]
    /\ UNCHANGED <<holders, spent>>

SemNext ==
    \/ \E r \in Requests : Acquire(r) \/ GiveBack(r)
    \/ Reconfigure

SemSpec == SemInit /\ [][SemNext]_semVars
==============================================================================
