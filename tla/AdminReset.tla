---------------------------- MODULE AdminReset -----------------------------
(***************************************************************************)
(* AdminSessions with two history variables, for what the documentation    *)
(* says of reset-password: which password opened each session, and what    *)
(* the last completed reset of an administrator set.  They restrict no     *)
(* step of AdminSessions.                                                  *)
(***************************************************************************)
EXTENDS AdminSessions

VARIABLES opened,   \* id of a row -> the password its login proved
          resetTo   \* admin -> the password in force since a reset, or Unset

historyVars == <<opened, resetTo>>

Unset == [secret |-> "none", done |-> FALSE]

(* revoke-sessions is a reset to the password in force. *)
Starts(a) == \E secret \in Secrets : CliReset(a, secret)

Completes == /\ cli # Idle /\ cli' = Idle
             /\ \A i \in RowsOf(cli.admin) : rows'[i].revoked

ChangedBy(c, a) == /\ calls[c].stage = "hash" /\ calls[c].for = "change"
                   /\ calls[c].login = a
                   /\ users' # users

OpenedBy(i) ==
    IF i \in DOMAIN rows THEN opened[i]
    ELSE IF \E j \in DOMAIN rows : rows'[j].replacedBy = i
         THEN opened[CHOOSE j \in DOMAIN rows : rows'[j].replacedBy = i]
         ELSE calls[CHOOSE c \in Callers : calls'[c] # calls[c]].next

HistoryInit ==
    /\ Init
    /\ opened = <<>>
    /\ resetTo = [a \in Admins |-> Unset]

HistoryNext ==
    /\ Next
    /\ opened' = [i \in DOMAIN rows' |-> OpenedBy(i)]
    /\ resetTo' =
         [a \in Admins |->
            IF Starts(a) THEN [secret |-> users'[a].secret, done |-> FALSE]
            ELSE IF Completes /\ cli.admin = a /\ resetTo[a] # Unset
                 THEN [resetTo[a] EXCEPT !.done = TRUE]
            ELSE IF \E c \in Callers : ChangedBy(c, a) /\ calls'[c] = Idle THEN Unset
            ELSE resetTo[a]]

HistorySpec == HistoryInit /\ [][HistoryNext]_<<vars, historyVars>>

----------------------------------------------------------------------------
(* "revoke-sessions and reset-password act at once" (cli/admin.ts:28-29):  *)
(* once a reset has returned, and until the password is changed again, no  *)
(* session that another password opened is alive.                          *)
OldPasswordIsOut ==
    \A i \in DOMAIN rows :
        /\ resetTo[rows[i].admin].done
        /\ FamilyActive(rows[i].family)
        => opened[i] = resetTo[rows[i].admin].secret
============================================================================
