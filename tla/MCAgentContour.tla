--------------------------- MODULE MCAgentContour ----------------------------
(* Small instances of AgentContour for TLC.                                 *)
EXTENDS AgentContour

CONSTANTS c1, c2, r1, r2, r3, t1, t2, t3

\* Two requests of c1, each with a key of its own, and one of c2.
MCTokenOf  == [r \in Requests |-> CASE r = r1 -> t1 [] r = r2 -> t2 [] r = r3 -> t3]
MCOwnerOf  == [t \in Tokens |-> IF t = t3 THEN c2 ELSE c1]
MCClientOf == [r \in Requests |-> IF r = r3 THEN c2 ELSE c1]

MCLimits == {[maxConcurrency |-> 1, maxPending |-> 1]}
==============================================================================
