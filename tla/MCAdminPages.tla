---------------------------- MODULE MCAdminPages ----------------------------
(***************************************************************************)
(* The sessions of the server under any use of them (part "logins"), under *)
(* the pages of one browser (part "pages"), and under parallel attempts to *)
(* guess passwords for longer than a window of the throttle (part          *)
(* "guesses"), in one run.                                                 *)
(***************************************************************************)
EXTENDS AdminPages, TLC

CONSTANTS root, deputy, c1, c2, s1, s2, t1, t2, j1, j2, j3,
          LoginRows, SessionHorizon

VARIABLE part

MCAdmins == {root, deputy}
MCCallers == {c1, c2}
MCSecrets == {s1}
MCGuesses == {s1, s2}
MCTabs == {t1, t2}
MCJobs == {j1, j2, j3}
Symmetric == Permutations(MCAdmins) \cup Permutations(MCCallers)
MCTabOf == j1 :> t1 @@ j2 :> t1 @@ j3 :> t2

(* Bound of the first part: rows of sessions, with those that logins under *)
(* way may add, and the clock of the first two parts.                      *)
LoginsBound ==
    /\ now <= SessionHorizon
    /\ lastId <= LoginRows
    /\ lastId + Cardinality({c \in Callers : calls[c] # Idle}) <= LoginRows + 1

(* Part "guesses": wrong passwords only.                                   *)
Guessing == \/ \E c \in Callers : \/ \E login \in Logins : Login(c, login, s2)
                                 \/ LoginFails(c)
            \/ Tick

BothInit == \/ part \in {"logins", "guesses"} /\ Init /\ PagesRest
            \/ part = "pages" /\ PagesInit

BothNext ==
    /\ UNCHANGED part
    /\ \/ part = "logins" /\ Next /\ LoginsBound' /\ UNCHANGED pageVars
       \/ part = "pages" /\ PagesNext /\ now' <= SessionHorizon
       \/ part = "guesses" /\ Guessing /\ UNCHANGED pageVars

BothSpec == BothInit /\ [][BothNext]_<<part, vars, pageVars>>
=============================================================================
