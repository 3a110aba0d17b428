---------------------------- MODULE MCSiteContour ----------------------------
(* Small instances of SiteContour for TLC.                                  *)
EXTENDS SiteContour

CONSTANTS c1, c2, r1, r2, r3, r4, k1

\* Two requests of c1 share a key, a third has none; the one of c2 carries the
\* same key, which is another one because it is another client's.
MCClientOf == [r \in Requests |-> IF r = r4 THEN c2 ELSE c1]
MCKeyOf    == [r \in Requests |-> IF r = r3 THEN NoKey ELSE k1]

\* One running and one waiting request per client.
MCLimits == {[maxConcurrency |-> 1, maxPending |-> 1]}
==============================================================================
