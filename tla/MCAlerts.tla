------------------------------ MODULE MCAlerts ------------------------------
(***************************************************************************)
(* Two clients, one of sites and one of agents may fail at once; two       *)
(* handlers wait for Telegram at the same time.                            *)
(***************************************************************************)
EXTENDS Alerts, TLC

CONSTANTS c1, c2

MCClients == {c1, c2}

MCCooldown ==
    [k \in Kinds |-> IF k \in {"streak", "rate", "disk_low"} THEN 2 ELSE 0]

MCContourOf == c1 :> "site" @@ c2 :> "agent"
=============================================================================
