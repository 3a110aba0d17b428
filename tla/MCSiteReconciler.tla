-------------------------- MODULE MCSiteReconciler ---------------------------
(* Small instances of SiteReconciler for TLC.                               *)
EXTENDS SiteReconciler

CONSTANTS c1, c2, r1, r2, r3, r4, k1

\* Two requests of c1 share a key, a third has none; c2 has one without a key.
MCClientOf == [r \in Requests |-> IF r = r4 THEN c2 ELSE c1]
MCKeyOf    == [r \in Requests |-> IF r \in {r1, r2} THEN k1 ELSE NoKey]

\* One running and one waiting request per client.
MCLimits == {[maxConcurrency |-> 1, maxPending |-> 1]}

\* Four independent requests of one client that may all be admitted.
MCOneClient == [r \in Requests |-> c1]
MCNoKeys    == [r \in Requests |-> NoKey]
MCWide      == {[maxConcurrency |-> 2, maxPending |-> 2]}
==============================================================================
