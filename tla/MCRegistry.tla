------------------------------ MODULE MCRegistry ------------------------------
(***************************************************************************)
(* A small installation: two sites, of which clients.json names one, two   *)
(* tokens of each kind, two providers, a department with an employee.      *)
(***************************************************************************)
EXTENDS Registry, TLC

CONSTANTS s1, s2, a1, a2, d1, e1, p1, p2, t1, t2, m1, m2, x, k1, k2

MCSites == {s1, s2}
MCSiteTokens == {a1, a2}
MCDepartments == {d1}
MCEmployees == {e1}
MCProviders == {p1, p2}
MCAgentTokens == {t1, t2}
MCModels == {m1, m2}
MCPolicies == {x}
MCBoxes == {k1, k2}
MCModelOf == p1 :> m1 @@ p2 :> m2
MCFile == [clients |-> {s1}, keyed |-> {s1}, policy |-> x, tokens |-> a1 :> s1]

(* A service that has never run, and one in use.                           *)
Fresh ==
    [sites |-> <<>>, siteTokens |-> <<>>, departments |-> <<>>, employees |-> <<>>,
     providers |-> <<>>, agentTokens |-> <<>>, defaultProvider |-> None,
     defaultModel |-> None, defaultLimit |-> None, generation |-> 0, imported |-> FALSE]

InUse ==
    [Fresh EXCEPT
        !.departments = d1 :> [enabled |-> TRUE],
        !.employees = e1 :> [enabled |-> TRUE, department |-> d1],
        !.providers = p1 :> [enabled |-> TRUE, sealed |-> k1] @@ p2 :> [enabled |-> TRUE, sealed |-> None],
        !.agentTokens = t1 :> [department |-> None, employee |-> e1, provider |-> p1, model |-> m1,
                               enabled |-> TRUE, revoked |-> FALSE],
        !.defaultProvider = p2, !.defaultModel = m2]

MCDatabases == {Fresh, InUse}
=============================================================================
