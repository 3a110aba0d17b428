----------------------------- MODULE RegistryDb -----------------------------
(***************************************************************************)
(* The tables of the registries (storage/*-repo.ts) and the snapshots that *)
(* SiteRegistry and AgentRegistry build of them.  A database is a record   *)
(* of tables, a table a function from the keys that exist to rows; every   *)
(* statement is an operator that returns the database after it.            *)
(*                                                                         *)
(* Secrets are known by the SECRETS_ENCRYPTION_KEY they were sealed with;  *)
(* the columns of a site's policy are one field; the limits of single      *)
(* owners, labels, networks and expiry dates are left out.                 *)
(***************************************************************************)
EXTENDS Naturals

CONSTANTS Sites, SiteTokens, Departments, Employees, Providers, AgentTokens,
          Models,     \* model names
          Policies,   \* what a site's policy, or the default limit, can be
          Boxes,      \* values of SECRETS_ENCRYPTION_KEY
          None        \* NULL

ASSUME NoneAssumption ==
    None \notin Sites \cup Departments \cup Employees \cup Providers \cup Models
                 \cup Boxes

SiteRow == [enabled: BOOLEAN, policy: Policies, sealed: Boxes \cup {None}]
SiteTokenRow == [client: Sites, revoked: BOOLEAN]
DepartmentRow == [enabled: BOOLEAN]
EmployeeRow == [enabled: BOOLEAN, department: Departments]
ProviderRow == [enabled: BOOLEAN, sealed: Boxes \cup {None}]

(* The table's CHECKs: one owner, and the provider and the model together. *)
AgentTokenRow ==
    {row \in [department: Departments \cup {None}, employee: Employees \cup {None},
              provider: Providers \cup {None}, model: Models \cup {None},
              enabled: BOOLEAN, revoked: BOOLEAN] :
        /\ row.department = None <=> row.employee # None
        /\ row.provider = None <=> row.model = None}

Tables(keys, row) == UNION {[k -> row] : k \in SUBSET keys}

Database ==
    [sites: Tables(Sites, SiteRow), siteTokens: Tables(SiteTokens, SiteTokenRow),
     departments: Tables(Departments, DepartmentRow),
     employees: Tables(Employees, EmployeeRow),
     providers: Tables(Providers, ProviderRow),
     agentTokens: Tables(AgentTokens, AgentTokenRow),
     defaultProvider: Providers \cup {None}, defaultModel: Models \cup {None},
     defaultLimit: Policies \cup {None},
     generation: Nat, imported: BOOLEAN]

----------------------------------------------------------------------------
(* Statements.                                                             *)

(* INSERT; the caller has checked that the key is free (withConflict).     *)
With(table, key, row) ==
    [k \in DOMAIN table \cup {key} |-> IF k = key THEN row ELSE table[k]]

(* Mutant of WithAbsent: the imported rows win.                            *)
WithImported(table, rows) ==
    [k \in DOMAIN table \cup DOMAIN rows |->
        IF k \in DOMAIN rows THEN rows[k] ELSE table[k]]

(* INSERT ... ON CONFLICT DO NOTHING of several rows.                      *)
WithAbsent(table, rows) ==
    [k \in DOMAIN table \cup DOMAIN rows |->
        IF k \in DOMAIN table THEN table[k] ELSE rows[k]]

(* buildUpdate: the columns in the patch, no other.                        *)
Patched(row, patch) ==
    [f \in DOMAIN row |-> IF f \in DOMAIN patch THEN patch[f] ELSE row[f]]

Updated(table, key, patch) == [table EXCEPT ![key] = Patched(@, patch)]

SiteCreated(d, s, sealed, policy) ==
    [d EXCEPT !.sites = With(@, s, [enabled |-> TRUE, policy |-> policy, sealed |-> sealed])]

SiteTokenIssued(d, t, s) ==
    [d EXCEPT !.siteTokens = With(@, t, [client |-> s, revoked |-> FALSE])]

SiteTokenRevoked(d, t) == [d EXCEPT !.siteTokens[t].revoked = TRUE]

DepartmentCreated(d, dep) ==
    [d EXCEPT !.departments = With(@, dep, [enabled |-> TRUE])]

EmployeeCreated(d, e, dep) ==
    [d EXCEPT !.employees = With(@, e, [enabled |-> TRUE, department |-> dep])]

ProviderCreated(d, p, sealed) ==
    [d EXCEPT !.providers = With(@, p, [enabled |-> TRUE, sealed |-> sealed])]

AgentTokenIssued(d, t, dep, e, p, m) ==
    [d EXCEPT !.agentTokens = With(@, t,
        [department |-> dep, employee |-> e, provider |-> p, model |-> m,
         enabled |-> TRUE, revoked |-> FALSE])]

AgentTokenRevoked(d, t) == [d EXCEPT !.agentTokens[t].revoked = TRUE]

(* Mutant of Bumped: a flag instead of a counter.                          *)
BumpedToOne(d) == [d EXCEPT !.generation = 1]

(* bumpRegistryGeneration: a value that was never there.                   *)
Bumped(d) == [d EXCEPT !.generation = @ + 1]

(* importClientEntries: file gives a client and a policy for each entry,   *)
(* and a client for each token.  What exists, revoked or not, stays.       *)
EntriesImported(d, file, box) ==
    [d EXCEPT
        !.sites = WithAbsent(@, [s \in file.clients |->
            [enabled |-> TRUE, policy |-> file.policy,
             sealed |-> IF s \in file.keyed THEN box ELSE None]]),
        !.siteTokens = WithAbsent(@, [t \in DOMAIN file.tokens |->
            [client |-> file.tokens[t], revoked |-> FALSE]])]

(* rekey: every sealed column, in one transaction; None if the old key     *)
(* does not open one of them.                                              *)
Sealed(table, old) == {k \in DOMAIN table : table[k].sealed \notin {None, old}} = {}

Resealed(table, box) ==
    [k \in DOMAIN table |->
        IF table[k].sealed = None THEN table[k] ELSE [table[k] EXCEPT !.sealed = box]]

Rekeyed(d, box) == [d EXCEPT !.sites = Resealed(@, box), !.providers = Resealed(@, box)]

----------------------------------------------------------------------------
(* Snapshots.  Opening a secret that was sealed with another key throws:   *)
(* the snapshot is not built.                                              *)

EnabledRows(table) == {k \in DOMAIN table : table[k].enabled}

Opens(table, box) == \A k \in EnabledRows(table) : table[k].sealed \in {None, box}

SiteBuilds(d, box) == Opens(d.sites, box)

AgentBuilds(d, box) == Opens(d.providers, box)

(* SiteRegistry.buildSnapshot: the enabled clients, and the client of each *)
(* token that is not revoked.                                              *)
SiteSnapshot(d) ==
    [clients |-> [s \in EnabledRows(d.sites) |-> d.sites[s].policy],
     byToken |-> [t \in {u \in DOMAIN d.siteTokens :
                           /\ ~d.siteTokens[u].revoked
                           /\ d.siteTokens[u].client \in EnabledRows(d.sites)} |->
                    d.siteTokens[t].client]]

(* listResolvable: live tokens whose owner, and whose owner's department,  *)
(* is enabled.                                                             *)
DepartmentOf(d, row) ==
    IF row.department # None THEN row.department ELSE d.employees[row.employee].department

Resolvable(d) ==
    {t \in DOMAIN d.agentTokens :
        LET row == d.agentTokens[t]
        IN  /\ ~row.revoked /\ row.enabled
            /\ d.departments[DepartmentOf(d, row)].enabled
            /\ row.employee # None => d.employees[row.employee].enabled}

NoTarget == [provider |-> None, model |-> None, origin |-> "none"]

GlobalTarget(d) ==
    IF d.defaultProvider \in EnabledRows(d.providers) /\ d.defaultModel # None
    THEN [provider |-> d.defaultProvider, model |-> d.defaultModel, origin |-> "global_default"]
    ELSE NoTarget

(* Mutant of TargetOf: a provider that is off gives way to the default.    *)
TargetOrDefault(d, row) ==
    IF row.provider # None /\ row.provider \in EnabledRows(d.providers)
    THEN [provider |-> row.provider, model |-> row.model, origin |-> "token"]
    ELSE GlobalTarget(d)

(* principalOf: a token that names a provider gets that one or none.       *)
TargetOf(d, row) ==
    IF row.provider = None \/ row.model = None THEN GlobalTarget(d)
    ELSE IF row.provider \in EnabledRows(d.providers)
         THEN [provider |-> row.provider, model |-> row.model, origin |-> "token"]
         ELSE NoTarget

SlotOf(row) == IF row.employee # None THEN row.employee ELSE row.department

Principal(d, t) ==
    LET row == d.agentTokens[t]
    IN  [slot |-> SlotOf(row), department |-> DepartmentOf(d, row), target |-> TargetOf(d, row),
         limit |-> d.defaultLimit]

AgentSnapshot(d) == [t \in Resolvable(d) |-> Principal(d, t)]

=============================================================================
