--------------------------- MODULE RegistryProofs ---------------------------
(***************************************************************************)
(* Proofs about Registry: the types of the tables, that the snapshots are  *)
(* current unless a known reason explains it, that a revoked token never   *)
(* comes back, and that the payer of a token stays.  Every step of an      *)
(* operator, in the admin API or in the CLI, is first shown to be a good   *)
(* change of the tables: one that keeps their types, keeps what is         *)
(* revoked, and never turns the mark back.                                 *)
(***************************************************************************)
EXTENDS Registry, TLAPS

(* What is revoked in d is there, and revoked, in e.                       *)
KeepsRevoked(old, new) ==
    \A t \in DOMAIN old : old[t].revoked => t \in DOMAIN new /\ new[t].revoked

Good(d, e) ==
    /\ e \in Database
    /\ KeepsRevoked(d.siteTokens, e.siteTokens)
    /\ KeepsRevoked(d.agentTokens, e.agentTokens)
    /\ e.generation >= d.generation

----------------------------------------------------------------------------
(* Tables.                                                                 *)

(* A table maps keys to rows.                                              *)
LEMMA TableShape ==
    ASSUME NEW keys, NEW row, NEW t \in Tables(keys, row)
    PROVE  /\ DOMAIN t \in SUBSET keys
           /\ t \in [DOMAIN t -> row]
BY DEF Tables

(* A function from some of the keys to rows is a table.                    *)
LEMMA TableIntro ==
    ASSUME NEW keys, NEW row, NEW D \in SUBSET keys, NEW t \in [D -> row]
    PROVE  t \in Tables(keys, row)
BY DEF Tables

LEMMA WithType ==
    ASSUME NEW keys, NEW row, NEW t \in Tables(keys, row), NEW k \in keys, NEW r \in row
    PROVE  With(t, k, r) \in Tables(keys, row)
<1>1. DOMAIN t \cup {k} \in SUBSET keys
  BY TableShape
<1>2. With(t, k, r) \in [DOMAIN t \cup {k} -> row]
  BY TableShape DEF With
<1> QED
  BY <1>1, <1>2, TableIntro

LEMMA WithAbsentType ==
    ASSUME NEW keys, NEW row, NEW t \in Tables(keys, row), NEW u \in Tables(keys, row)
    PROVE  WithAbsent(t, u) \in Tables(keys, row)
<1>1. DOMAIN t \cup DOMAIN u \in SUBSET keys
  BY TableShape
<1>2. WithAbsent(t, u) \in [DOMAIN t \cup DOMAIN u -> row]
  BY TableShape DEF WithAbsent
<1> QED
  BY <1>1, <1>2, TableIntro

LEMMA ExceptType ==
    ASSUME NEW keys, NEW row, NEW t \in Tables(keys, row), NEW k \in DOMAIN t, NEW r \in row
    PROVE  [t EXCEPT ![k] = r] \in Tables(keys, row)
<1>1. DOMAIN t \in SUBSET keys /\ t \in [DOMAIN t -> row]
  BY TableShape
<1>2. [t EXCEPT ![k] = r] \in [DOMAIN t -> row]
  BY <1>1
<1> QED
  BY <1>1, <1>2, TableIntro

(* A row that is there and is not touched stays what it is.                *)
LEMMA WithKeeps ==
    ASSUME NEW t, NEW k, k \notin DOMAIN t, NEW r
    PROVE  \A j \in DOMAIN t : j \in DOMAIN With(t, k, r) /\ With(t, k, r)[j] = t[j]
BY DEF With

LEMMA WithAbsentKeeps ==
    ASSUME NEW t, NEW u
    PROVE  \A j \in DOMAIN t : j \in DOMAIN WithAbsent(t, u) /\ WithAbsent(t, u)[j] = t[j]
BY DEF WithAbsent

LEMMA SameKeeps ==
    ASSUME NEW t
    PROVE  KeepsRevoked(t, t)
BY DEF KeepsRevoked

----------------------------------------------------------------------------
(* Rows.                                                                   *)

(* A patch of typed columns leaves a row of the table.                     *)
LEMMA SitePatched ==
    ASSUME NEW row \in SiteRow,
           NEW patch \in [enabled: BOOLEAN] \cup [policy: Policies] \cup [sealed: Boxes \cup {None}]
    PROVE  Patched(row, patch) \in SiteRow
BY DEF Patched, SiteRow

LEMMA ProviderPatched ==
    ASSUME NEW row \in ProviderRow,
           NEW patch \in [enabled: BOOLEAN] \cup [sealed: Boxes \cup {None}]
    PROVE  Patched(row, patch) \in ProviderRow
BY DEF Patched, ProviderRow

LEMMA DepartmentPatched ==
    ASSUME NEW row \in DepartmentRow, NEW patch \in [enabled: BOOLEAN]
    PROVE  Patched(row, patch) \in DepartmentRow
BY DEF Patched, DepartmentRow

LEMMA EmployeePatched ==
    ASSUME NEW row \in EmployeeRow, NEW patch \in [enabled: BOOLEAN] \cup [department: Departments]
    PROVE  Patched(row, patch) \in EmployeeRow
BY DEF Patched, EmployeeRow

(* A provider with a model of its own, or neither.                         *)
Targets ==
    {patch \in [provider: Providers \cup {None}, model: Models \cup {None}] :
        patch.provider = None <=> patch.model = None}

LEMMA AgentTokenPatched ==
    ASSUME NEW row \in AgentTokenRow,
           NEW patch \in [enabled: BOOLEAN] \cup Targets
    PROVE  /\ Patched(row, patch) \in AgentTokenRow
           /\ Patched(row, patch).revoked = row.revoked
BY DEF Patched, AgentTokenRow, Targets

(* Sealing the secrets with another key changes no other column.           *)
LEMMA ResealedSites ==
    ASSUME NEW t \in Tables(Sites, SiteRow), NEW box \in Boxes
    PROVE  /\ Resealed(t, box) \in Tables(Sites, SiteRow)
           /\ DOMAIN Resealed(t, box) = DOMAIN t
           /\ \A k \in DOMAIN t : /\ Resealed(t, box)[k].enabled = t[k].enabled
                                 /\ Resealed(t, box)[k].policy = t[k].policy
<1>1. DOMAIN t \in SUBSET Sites /\ t \in [DOMAIN t -> SiteRow]
  BY TableShape
<1>2. DOMAIN Resealed(t, box) = DOMAIN t
  BY DEF Resealed
<1>3. ASSUME NEW k \in DOMAIN t
      PROVE  /\ Resealed(t, box)[k] \in SiteRow
             /\ Resealed(t, box)[k].enabled = t[k].enabled
             /\ Resealed(t, box)[k].policy = t[k].policy
  BY <1>1 DEF Resealed, SiteRow
<1>4. Resealed(t, box) \in [DOMAIN t -> SiteRow]
  BY <1>3 DEF Resealed
<1> QED
  BY <1>1, <1>2, <1>3, <1>4, TableIntro

LEMMA ResealedProviders ==
    ASSUME NEW t \in Tables(Providers, ProviderRow), NEW box \in Boxes
    PROVE  /\ Resealed(t, box) \in Tables(Providers, ProviderRow)
           /\ DOMAIN Resealed(t, box) = DOMAIN t
           /\ \A k \in DOMAIN t : Resealed(t, box)[k].enabled = t[k].enabled
<1>1. DOMAIN t \in SUBSET Providers /\ t \in [DOMAIN t -> ProviderRow]
  BY TableShape
<1>2. DOMAIN Resealed(t, box) = DOMAIN t
  BY DEF Resealed
<1>3. ASSUME NEW k \in DOMAIN t
      PROVE  /\ Resealed(t, box)[k] \in ProviderRow
             /\ Resealed(t, box)[k].enabled = t[k].enabled
  BY <1>1 DEF Resealed, ProviderRow
<1>4. Resealed(t, box) \in [DOMAIN t -> ProviderRow]
  BY <1>3 DEF Resealed
<1> QED
  BY <1>1, <1>2, <1>3, <1>4, TableIntro

(* What a snapshot is built of.                                            *)
LEMMA RekeyedSnapshots ==
    ASSUME NEW d \in Database, NEW box \in Boxes
    PROVE  /\ SiteSnapshot(Rekeyed(d, box)) = SiteSnapshot(d)
           /\ AgentSnapshot(Rekeyed(d, box)) = AgentSnapshot(d)
<1> DEFINE e == Rekeyed(d, box)
<1>1. d.sites \in Tables(Sites, SiteRow) /\ d.providers \in Tables(Providers, ProviderRow)
  BY DEF Database
<1>2. /\ e.sites = Resealed(d.sites, box) /\ e.providers = Resealed(d.providers, box)
      /\ e.siteTokens = d.siteTokens /\ e.departments = d.departments
      /\ e.employees = d.employees /\ e.agentTokens = d.agentTokens
      /\ e.defaultProvider = d.defaultProvider /\ e.defaultModel = d.defaultModel
      /\ e.defaultLimit = d.defaultLimit
  BY DEF Rekeyed, Database
<1>3. EnabledRows(e.sites) = EnabledRows(d.sites)
  BY <1>1, <1>2, ResealedSites DEF EnabledRows
<1>4. EnabledRows(e.providers) = EnabledRows(d.providers)
  BY <1>1, <1>2, ResealedProviders DEF EnabledRows
<1>5. [s \in EnabledRows(e.sites) |-> e.sites[s].policy]
        = [s \in EnabledRows(d.sites) |-> d.sites[s].policy]
  BY <1>1, <1>2, <1>3, ResealedSites DEF EnabledRows
<1>6. SiteSnapshot(e) = SiteSnapshot(d)
  BY <1>2, <1>3, <1>5 DEF SiteSnapshot
<1>7. Resolvable(e) = Resolvable(d)
  BY <1>2 DEF Resolvable, DepartmentOf
<1>8. ASSUME NEW t PROVE Principal(e, t) = Principal(d, t)
  BY <1>2, <1>4 DEF Principal, DepartmentOf, TargetOf, GlobalTarget
<1>9. AgentSnapshot(e) = AgentSnapshot(d)
  BY <1>7, <1>8 DEF AgentSnapshot
<1> QED
  BY <1>6, <1>9

----------------------------------------------------------------------------
(* Good changes: one table at a time.                                      *)

LEMMA SitesGood ==
    ASSUME NEW d \in Database, NEW t \in Tables(Sites, SiteRow)
    PROVE  Good(d, [d EXCEPT !.sites = t])
BY SMTT(30) DEF Good, Database, KeepsRevoked

LEMMA SiteTokensGood ==
    ASSUME NEW d \in Database, NEW t \in Tables(SiteTokens, SiteTokenRow),
           KeepsRevoked(d.siteTokens, t)
    PROVE  Good(d, [d EXCEPT !.siteTokens = t])
BY SMTT(30) DEF Good, Database, KeepsRevoked

LEMMA DepartmentsGood ==
    ASSUME NEW d \in Database, NEW t \in Tables(Departments, DepartmentRow)
    PROVE  Good(d, [d EXCEPT !.departments = t])
BY SMTT(30) DEF Good, Database, KeepsRevoked

LEMMA EmployeesGood ==
    ASSUME NEW d \in Database, NEW t \in Tables(Employees, EmployeeRow)
    PROVE  Good(d, [d EXCEPT !.employees = t])
BY SMTT(30) DEF Good, Database, KeepsRevoked

LEMMA ProvidersGood ==
    ASSUME NEW d \in Database, NEW t \in Tables(Providers, ProviderRow)
    PROVE  Good(d, [d EXCEPT !.providers = t])
BY SMTT(30) DEF Good, Database, KeepsRevoked

LEMMA AgentTokensGood ==
    ASSUME NEW d \in Database, NEW t \in Tables(AgentTokens, AgentTokenRow),
           KeepsRevoked(d.agentTokens, t)
    PROVE  Good(d, [d EXCEPT !.agentTokens = t])
BY SMTT(30) DEF Good, Database, KeepsRevoked

LEMMA DefaultProviderGood ==
    ASSUME NEW d \in Database, NEW p \in Providers \cup {None}
    PROVE  Good(d, [d EXCEPT !.defaultProvider = p])
BY SMTT(30) DEF Good, Database, KeepsRevoked

LEMMA DefaultModelGood ==
    ASSUME NEW d \in Database, NEW m \in Models \cup {None}
    PROVE  Good(d, [d EXCEPT !.defaultModel = m])
BY SMTT(30) DEF Good, Database, KeepsRevoked

LEMMA DefaultLimitGood ==
    ASSUME NEW d \in Database, NEW l \in Policies \cup {None}
    PROVE  Good(d, [d EXCEPT !.defaultLimit = l])
BY SMTT(30) DEF Good, Database, KeepsRevoked

LEMMA ImportedGood ==
    ASSUME NEW d \in Database
    PROVE  Good(d, [d EXCEPT !.imported = TRUE])
<1> DEFINE e == [d EXCEPT !.imported = TRUE]
<1>1. e \in Database
  <2>1. ASSUME NEW b \in BOOLEAN PROVE [d EXCEPT !.imported = b] \in Database
    BY DEF Database
  <2>2. TRUE \in BOOLEAN
    OBVIOUS
  <2> QED
    BY <2>1, <2>2, Zenon
<1>2. /\ e.siteTokens = d.siteTokens /\ e.agentTokens = d.agentTokens
      /\ e.generation = d.generation /\ d.generation \in Nat
  BY DEF Database
<1> HIDE DEF e
<1>3. Good(d, e)
  BY <1>1, <1>2 DEF Good, KeepsRevoked
<1> QED
  BY <1>3 DEF e

(* Good changes one after the other are a good change.                     *)
LEMMA GoodAfterGood ==
    ASSUME NEW d, NEW e, NEW f,
           d \in Database, Good(d, e), Good(e, f)
    PROVE  Good(d, f)
<1>1. KeepsRevoked(d.siteTokens, f.siteTokens) /\ KeepsRevoked(d.agentTokens, f.agentTokens)
  BY DEF Good, KeepsRevoked
<1>2. d.generation \in Nat /\ e.generation \in Nat /\ f.generation \in Nat
  BY DEF Good, Database
<1> QED
  BY <1>1, <1>2 DEF Good

LEMMA DefaultsGood ==
    ASSUME NEW d \in Database, NEW p \in Providers \cup {None}, NEW m \in Models \cup {None},
           NEW l \in Policies \cup {None}
    PROVE  Good(d, [d EXCEPT !.defaultProvider = p, !.defaultModel = m, !.defaultLimit = l])
<1> DEFINE e == [d EXCEPT !.defaultProvider = p]
           f == [e EXCEPT !.defaultModel = m]
           g == [f EXCEPT !.defaultLimit = l]
<1>1. Good(d, e)
  BY DefaultProviderGood
<1>2. Good(e, f)
  <2> HIDE DEF e
  <2> QED BY <1>1, DefaultModelGood DEF Good
<1>3. Good(f, g)
  <2> HIDE DEF f
  <2> QED BY <1>2, DefaultLimitGood DEF Good
<1>4. Good(d, g)
  <2> HIDE DEF e, f, g
  <2> QED BY <1>1, <1>2, <1>3, GoodAfterGood
<1> QED
  BY <1>4

LEMMA BumpedGood ==
    ASSUME NEW d \in Database
    PROVE  Good(d, Bumped(d)) /\ Bumped(d).generation = d.generation + 1
BY SMTT(30) DEF Good, Database, KeepsRevoked, Bumped

(* Good changes: the statements.                                           *)

LEMMA SiteCreatedGood ==
    ASSUME NEW d \in Database, NEW s \in Sites, NEW sealed \in Boxes \cup {None},
           NEW policy \in Policies
    PROVE  Good(d, SiteCreated(d, s, sealed, policy))
<1>1. d.sites \in Tables(Sites, SiteRow)
  BY DEF Database
<1>2. [enabled |-> TRUE, policy |-> policy, sealed |-> sealed] \in SiteRow
  BY DEF SiteRow
<1> QED
  BY <1>1, <1>2, WithType, SitesGood DEF SiteCreated

LEMMA SiteUpdatedGood ==
    ASSUME NEW d \in Database, NEW s \in DOMAIN d.sites,
           NEW patch \in [enabled: BOOLEAN] \cup [policy: Policies] \cup [sealed: Boxes \cup {None}]
    PROVE  Good(d, [d EXCEPT !.sites = Updated(@, s, patch)])
<1>1. d.sites \in Tables(Sites, SiteRow)
  BY DEF Database
<1>2. d.sites[s] \in SiteRow
  BY <1>1, TableShape
<1>3. Patched(d.sites[s], patch) \in SiteRow
  BY <1>2, SitePatched
<1>4. Updated(d.sites, s, patch) \in Tables(Sites, SiteRow)
  BY <1>1, <1>3, ExceptType DEF Updated
<1> QED
  BY <1>4, SitesGood

LEMMA SiteTokenIssuedGood ==
    ASSUME NEW d \in Database, NEW t \in SiteTokens \ DOMAIN d.siteTokens, NEW s \in Sites
    PROVE  Good(d, SiteTokenIssued(d, t, s))
<1> DEFINE r == [client |-> s, revoked |-> FALSE]
<1>1. d.siteTokens \in Tables(SiteTokens, SiteTokenRow)
  BY DEF Database
<1>2. r \in SiteTokenRow
  BY DEF SiteTokenRow
<1>3. With(d.siteTokens, t, r) \in Tables(SiteTokens, SiteTokenRow)
  BY <1>1, <1>2, WithType
<1>4. KeepsRevoked(d.siteTokens, With(d.siteTokens, t, r))
  BY WithKeeps DEF KeepsRevoked
<1> QED
  BY <1>3, <1>4, SiteTokensGood DEF SiteTokenIssued

LEMMA SiteTokenRevokedGood ==
    ASSUME NEW d \in Database, NEW t \in DOMAIN d.siteTokens
    PROVE  Good(d, SiteTokenRevoked(d, t))
<1> DEFINE r == [d.siteTokens[t] EXCEPT !.revoked = TRUE]
           new == [d.siteTokens EXCEPT ![t] = r]
<1>1. d.siteTokens \in Tables(SiteTokens, SiteTokenRow)
  BY DEF Database
<1>2. d.siteTokens[t] \in SiteTokenRow
  BY <1>1, TableShape
<1>3. r \in SiteTokenRow /\ r.revoked
  BY <1>2 DEF SiteTokenRow
<1>4. new \in Tables(SiteTokens, SiteTokenRow)
  BY <1>1, <1>3, ExceptType
<1>5. KeepsRevoked(d.siteTokens, new)
  BY <1>3 DEF KeepsRevoked
<1> HIDE DEF r, new
<1>6. Good(d, [d EXCEPT !.siteTokens = new])
  BY <1>4, <1>5, SiteTokensGood
<1> QED
  BY <1>6 DEF SiteTokenRevoked, new, r

LEMMA ProviderCreatedGood ==
    ASSUME NEW d \in Database, NEW p \in Providers, NEW sealed \in Boxes \cup {None}
    PROVE  Good(d, ProviderCreated(d, p, sealed))
<1>1. d.providers \in Tables(Providers, ProviderRow)
  BY DEF Database
<1>2. [enabled |-> TRUE, sealed |-> sealed] \in ProviderRow
  BY DEF ProviderRow
<1> QED
  BY <1>1, <1>2, WithType, ProvidersGood DEF ProviderCreated

LEMMA ProviderUpdatedGood ==
    ASSUME NEW d \in Database, NEW p \in DOMAIN d.providers,
           NEW patch \in [enabled: BOOLEAN] \cup [sealed: Boxes \cup {None}]
    PROVE  Good(d, [d EXCEPT !.providers = Updated(@, p, patch)])
<1>1. d.providers \in Tables(Providers, ProviderRow)
  BY DEF Database
<1>2. d.providers[p] \in ProviderRow
  BY <1>1, TableShape
<1>3. Patched(d.providers[p], patch) \in ProviderRow
  BY <1>2, ProviderPatched
<1>4. Updated(d.providers, p, patch) \in Tables(Providers, ProviderRow)
  BY <1>1, <1>3, ExceptType DEF Updated
<1> QED
  BY <1>4, ProvidersGood

LEMMA DepartmentCreatedGood ==
    ASSUME NEW d \in Database, NEW dep \in Departments
    PROVE  Good(d, DepartmentCreated(d, dep))
<1>1. d.departments \in Tables(Departments, DepartmentRow)
  BY DEF Database
<1>2. [enabled |-> TRUE] \in DepartmentRow
  BY DEF DepartmentRow
<1> QED
  BY <1>1, <1>2, WithType, DepartmentsGood DEF DepartmentCreated

LEMMA DepartmentUpdatedGood ==
    ASSUME NEW d \in Database, NEW dep \in DOMAIN d.departments, NEW patch \in [enabled: BOOLEAN]
    PROVE  Good(d, [d EXCEPT !.departments = Updated(@, dep, patch)])
<1>1. d.departments \in Tables(Departments, DepartmentRow)
  BY DEF Database
<1>2. d.departments[dep] \in DepartmentRow
  BY <1>1, TableShape
<1>3. Patched(d.departments[dep], patch) \in DepartmentRow
  BY <1>2, DepartmentPatched
<1>4. Updated(d.departments, dep, patch) \in Tables(Departments, DepartmentRow)
  BY <1>1, <1>3, ExceptType DEF Updated
<1> QED
  BY <1>4, DepartmentsGood

LEMMA EmployeeCreatedGood ==
    ASSUME NEW d \in Database, NEW e \in Employees, NEW dep \in Departments
    PROVE  Good(d, EmployeeCreated(d, e, dep))
<1>1. d.employees \in Tables(Employees, EmployeeRow)
  BY DEF Database
<1>2. [enabled |-> TRUE, department |-> dep] \in EmployeeRow
  BY DEF EmployeeRow
<1> QED
  BY <1>1, <1>2, WithType, EmployeesGood DEF EmployeeCreated

LEMMA EmployeeUpdatedGood ==
    ASSUME NEW d \in Database, NEW e \in DOMAIN d.employees,
           NEW patch \in [enabled: BOOLEAN] \cup [department: Departments]
    PROVE  Good(d, [d EXCEPT !.employees = Updated(@, e, patch)])
<1>1. d.employees \in Tables(Employees, EmployeeRow)
  BY DEF Database
<1>2. d.employees[e] \in EmployeeRow
  BY <1>1, TableShape
<1>3. Patched(d.employees[e], patch) \in EmployeeRow
  BY <1>2, EmployeePatched
<1>4. Updated(d.employees, e, patch) \in Tables(Employees, EmployeeRow)
  BY <1>1, <1>3, ExceptType DEF Updated
<1> QED
  BY <1>4, EmployeesGood

LEMMA AgentTokenIssuedGood ==
    ASSUME NEW d \in Database, NEW t \in AgentTokens \ DOMAIN d.agentTokens,
           NEW dep \in Departments \cup {None}, NEW e \in Employees \cup {None},
           NEW p \in Providers \cup {None}, NEW m \in Models \cup {None},
           dep = None <=> e # None, p = None <=> m = None
    PROVE  Good(d, AgentTokenIssued(d, t, dep, e, p, m))
<1> DEFINE r == [department |-> dep, employee |-> e, provider |-> p, model |-> m,
                 enabled |-> TRUE, revoked |-> FALSE]
<1>1. d.agentTokens \in Tables(AgentTokens, AgentTokenRow)
  BY DEF Database
<1>2. r \in AgentTokenRow
  BY DEF AgentTokenRow
<1>3. With(d.agentTokens, t, r) \in Tables(AgentTokens, AgentTokenRow)
  BY <1>1, <1>2, WithType
<1>4. KeepsRevoked(d.agentTokens, With(d.agentTokens, t, r))
  BY WithKeeps DEF KeepsRevoked
<1> QED
  BY <1>3, <1>4, AgentTokensGood DEF AgentTokenIssued

LEMMA AgentTokenUpdatedGood ==
    ASSUME NEW d \in Database, NEW t \in DOMAIN d.agentTokens,
           NEW patch \in [enabled: BOOLEAN] \cup Targets
    PROVE  Good(d, [d EXCEPT !.agentTokens = Updated(@, t, patch)])
<1> DEFINE new == Updated(d.agentTokens, t, patch)
<1>1. d.agentTokens \in Tables(AgentTokens, AgentTokenRow)
  BY DEF Database
<1>2. d.agentTokens[t] \in AgentTokenRow
  BY <1>1, TableShape
<1>3. /\ Patched(d.agentTokens[t], patch) \in AgentTokenRow
      /\ Patched(d.agentTokens[t], patch).revoked = d.agentTokens[t].revoked
  BY <1>2, AgentTokenPatched
<1>4. new \in Tables(AgentTokens, AgentTokenRow)
  BY <1>1, <1>3, ExceptType DEF Updated
<1>5. KeepsRevoked(d.agentTokens, new)
  BY <1>3 DEF KeepsRevoked, Updated
<1> QED
  BY <1>4, <1>5, AgentTokensGood

LEMMA AgentTokenRevokedGood ==
    ASSUME NEW d \in Database, NEW t \in DOMAIN d.agentTokens
    PROVE  Good(d, AgentTokenRevoked(d, t))
<1> DEFINE r == [d.agentTokens[t] EXCEPT !.revoked = TRUE]
           new == [d.agentTokens EXCEPT ![t] = r]
<1>1. d.agentTokens \in Tables(AgentTokens, AgentTokenRow)
  BY DEF Database
<1>2. d.agentTokens[t] \in AgentTokenRow
  BY <1>1, TableShape
<1>3. r \in AgentTokenRow /\ r.revoked
  BY <1>2 DEF AgentTokenRow
<1>4. new \in Tables(AgentTokens, AgentTokenRow)
  BY <1>1, <1>3, ExceptType
<1>5. KeepsRevoked(d.agentTokens, new)
  BY <1>3 DEF KeepsRevoked
<1> HIDE DEF r, new
<1>6. Good(d, [d EXCEPT !.agentTokens = new])
  BY <1>4, <1>5, AgentTokensGood
<1> QED
  BY <1>6 DEF AgentTokenRevoked, new, r

LEMMA EntriesImportedGood ==
    ASSUME NEW d \in Database, NEW box \in Boxes
    PROVE  Good(d, EntriesImported(d, File, box))
<1> DEFINE ss == [s \in File.clients |->
                    [enabled |-> TRUE, policy |-> File.policy,
                     sealed |-> IF s \in File.keyed THEN box ELSE None]]
           ts == [t \in DOMAIN File.tokens |-> [client |-> File.tokens[t], revoked |-> FALSE]]
           sites == WithAbsent(d.sites, ss)
           tokens == WithAbsent(d.siteTokens, ts)
<1>1. /\ File.clients \in SUBSET Sites /\ File.policy \in Policies
      /\ File.tokens \in Tables(SiteTokens, Sites)
  BY RegistryAssumption
<1>2. ss \in Tables(Sites, SiteRow)
  <2>1. ss \in [File.clients -> SiteRow]
    BY <1>1 DEF SiteRow
  <2> QED
    BY <1>1, <2>1, TableIntro
<1>3. ts \in Tables(SiteTokens, SiteTokenRow)
  <2>1. DOMAIN File.tokens \in SUBSET SiteTokens /\ File.tokens \in [DOMAIN File.tokens -> Sites]
    BY <1>1, TableShape
  <2>2. ts \in [DOMAIN File.tokens -> SiteTokenRow]
    BY <2>1 DEF SiteTokenRow
  <2> QED
    BY <2>1, <2>2, TableIntro
<1>4. d.sites \in Tables(Sites, SiteRow) /\ d.siteTokens \in Tables(SiteTokens, SiteTokenRow)
  BY DEF Database
<1>5. sites \in Tables(Sites, SiteRow) /\ tokens \in Tables(SiteTokens, SiteTokenRow)
  BY <1>2, <1>3, <1>4, WithAbsentType
<1>6. KeepsRevoked(d.siteTokens, tokens)
  BY WithAbsentKeeps DEF KeepsRevoked
<1> HIDE DEF ss, ts, sites, tokens
<1>7. Good(d, [d EXCEPT !.sites = sites, !.siteTokens = tokens])
  <2> DEFINE e == [d EXCEPT !.sites = sites]
  <2>1. Good(d, e) /\ e.siteTokens = d.siteTokens
    BY <1>5, SitesGood DEF Database
  <2>2. Good(e, [e EXCEPT !.siteTokens = tokens])
    <3> HIDE DEF e
    <3> QED BY <2>1, <1>5, <1>6, SiteTokensGood DEF Good
  <2>3. Good(d, [e EXCEPT !.siteTokens = tokens])
    <3> HIDE DEF e
    <3> QED BY <2>1, <2>2, GoodAfterGood
  <2> QED
    BY <2>3
<1> QED
  BY <1>7 DEF EntriesImported, ss, ts, sites, tokens

LEMMA RekeyedGood ==
    ASSUME NEW d \in Database, NEW box \in Boxes
    PROVE  Good(d, Rekeyed(d, box))
<1>1. d.sites \in Tables(Sites, SiteRow) /\ d.providers \in Tables(Providers, ProviderRow)
  BY DEF Database
<1>2. /\ Resealed(d.sites, box) \in Tables(Sites, SiteRow)
      /\ Resealed(d.providers, box) \in Tables(Providers, ProviderRow)
  BY <1>1, ResealedSites, ResealedProviders
<1> DEFINE e == [d EXCEPT !.sites = Resealed(d.sites, box)]
<1>3. Good(d, e) /\ e.providers = d.providers
  BY <1>2, SitesGood DEF Database
<1>4. Good(e, [e EXCEPT !.providers = Resealed(d.providers, box)])
  <2> HIDE DEF e
  <2> QED BY <1>2, <1>3, ProvidersGood DEF Good
<1>5. Good(d, [e EXCEPT !.providers = Resealed(d.providers, box)])
  <2> HIDE DEF e
  <2> QED BY <1>3, <1>4, GoodAfterGood
<1> QED
  BY <1>5 DEF Rekeyed

----------------------------------------------------------------------------
(* Steps.                                                                  *)

LEMMA ModelForType ==
    ASSUME NEW p \in Providers \cup {None}
    PROVE  /\ ModelFor(p) \in Models \cup {None}
           /\ p = None <=> ModelFor(p) = None
BY RegistryAssumption, NoneAssumption DEF ModelFor

LEMMA SwitchType == Switch \in SUBSET [enabled: BOOLEAN]
BY DEF Switch

(* A handler of the admin API applies a good change.                       *)
LEMMA AdminShape ==
    ASSUME TypeOK, AdminHandler
    PROVE  \E e : Good(db, e) /\ ApplyChange(e)
<1>1. db \in Database /\ service.box \in Boxes
  BY DEF TypeOK
<1>2. Seals \in SUBSET (Boxes \cup {None})
  BY <1>1 DEF Seals
<1>3. CASE \E s \in Sites, sealed \in Seals, policy \in Policies : CreateSite(s, sealed, policy)
  BY <1>1, <1>2, <1>3, SiteCreatedGood DEF CreateSite
<1>4. CASE \E s \in Sites, patch \in Switch \cup [policy: Policies] \cup [sealed: Seals] :
              PatchSite(s, patch)
  <2>1. PICK s \in Sites, patch \in Switch \cup [policy: Policies] \cup [sealed: Seals] :
              PatchSite(s, patch)
    BY <1>4
  <2>2. patch \in [enabled: BOOLEAN] \cup [policy: Policies] \cup [sealed: Boxes \cup {None}]
    BY <1>2, SwitchType
  <2> QED
    BY <1>1, <2>1, <2>2, SiteUpdatedGood DEF PatchSite
<1>5. CASE \E t \in SiteTokens, s \in Sites : IssueSiteToken(t, s)
  BY <1>1, <1>5, SiteTokenIssuedGood DEF IssueSiteToken
<1>6. CASE \E t \in SiteTokens : RevokeSiteToken(t)
  BY <1>1, <1>6, SiteTokenRevokedGood DEF RevokeSiteToken
<1>7. CASE \E p \in Providers, sealed \in Seals : CreateProvider(p, sealed)
  BY <1>1, <1>2, <1>7, ProviderCreatedGood DEF CreateProvider
<1>8. CASE \E p \in Providers, patch \in Switch \cup [sealed: Seals] : PatchProvider(p, patch)
  <2>1. PICK p \in Providers, patch \in Switch \cup [sealed: Seals] : PatchProvider(p, patch)
    BY <1>8
  <2>2. patch \in [enabled: BOOLEAN] \cup [sealed: Boxes \cup {None}]
    BY <1>2, SwitchType
  <2> QED
    BY <1>1, <2>1, <2>2, ProviderUpdatedGood DEF PatchProvider
<1>9. CASE \E dep \in Departments : CreateDepartment(dep)
  BY <1>1, <1>9, DepartmentCreatedGood DEF CreateDepartment
<1>10. CASE \E dep \in Departments, patch \in Switch : PatchDepartment(dep, patch)
  BY <1>1, <1>10, SwitchType, DepartmentUpdatedGood DEF PatchDepartment
<1>11. CASE \E e \in Employees, dep \in Departments : CreateEmployee(e, dep)
  BY <1>1, <1>11, EmployeeCreatedGood DEF CreateEmployee
<1>12. CASE \E e \in Employees, patch \in Switch \cup [department: Departments] :
              PatchEmployee(e, patch)
  <2>1. PICK e \in Employees, patch \in Switch \cup [department: Departments] :
              PatchEmployee(e, patch)
    BY <1>12
  <2>2. patch \in [enabled: BOOLEAN] \cup [department: Departments]
    BY SwitchType
  <2> QED
    BY <1>1, <2>1, <2>2, EmployeeUpdatedGood DEF PatchEmployee
<1>13. CASE \E t \in AgentTokens, p \in Providers \cup {None} :
              \E dep \in Departments : IssueAgentToken(t, dep, None, p)
  BY <1>1, <1>13, ModelForType, NoneAssumption, AgentTokenIssuedGood DEF IssueAgentToken
<1>14. CASE \E t \in AgentTokens, p \in Providers \cup {None} :
              \E e \in Employees : IssueAgentToken(t, None, e, p)
  BY <1>1, <1>14, ModelForType, NoneAssumption, AgentTokenIssuedGood DEF IssueAgentToken
<1>15. CASE \E t \in AgentTokens, p \in Providers \cup {None} :
              PatchAgentToken(t, [provider |-> p, model |-> ModelFor(p)])
  <2>1. PICK t \in AgentTokens, p \in Providers \cup {None} :
              PatchAgentToken(t, [provider |-> p, model |-> ModelFor(p)])
    BY <1>15
  <2>2. [provider |-> p, model |-> ModelFor(p)] \in Targets
    BY ModelForType DEF Targets
  <2> QED
    BY <1>1, <2>1, <2>2, AgentTokenUpdatedGood DEF PatchAgentToken
<1>16. CASE \E t \in AgentTokens, patch \in Switch : PatchAgentToken(t, patch)
  BY <1>1, <1>16, SwitchType, AgentTokenUpdatedGood DEF PatchAgentToken
<1>17. CASE \E t \in AgentTokens : RevokeAgentToken(t)
  BY <1>1, <1>17, AgentTokenRevokedGood DEF RevokeAgentToken
<1>18. CASE \E p \in Providers \cup {None}, limit \in Policies \cup {None} : PutDefaults(p, limit)
  BY <1>1, <1>18, ModelForType, DefaultsGood DEF PutDefaults
<1> QED
  BY <1>3, <1>4, <1>5, <1>6, <1>7, <1>8, <1>9, <1>10, <1>11, <1>12, <1>13, <1>14, <1>15,
     <1>16, <1>17, <1>18 DEF AdminHandler

(* A command that is under way.                                            *)
Busy == Commands \ {Idle}

(* A step of the CLI writes a good change and has its mark still to leave, *)
(* or it is rekey, or it writes nothing.                                   *)
LEMMA CliShape ==
    ASSUME TypeOK, NEW c \in Processes, Cli(c)
    PROVE  \/ \E e, next : Good(db, e) /\ next \in Busy /\ CliWrites(c, e, next)
           \/ \E box \in Boxes : cli[c] = Idle /\ CliWrites(c, Rekeyed(db, box), Idle)
           \/ \E next \in Busy : /\ cli' = [cli EXCEPT ![c] = next]
                                /\ UNCHANGED <<db, memory, excuse, changes, deaths>>
           \/ CliAnnounces(c)
           \/ CliDies(c)
<1>1. db \in Database /\ cli \in [Processes -> Commands]
  BY DEF TypeOK
<1>2. Changed \in Busy
  BY DEF Changed, Idle, Commands, Busy
<1>3. CASE \E p \in Providers, sealed \in Boxes \cup {None} : CliAddProvider(c, p, sealed)
  BY <1>1, <1>2, <1>3, ProviderCreatedGood DEF CliAddProvider
<1>4. CASE \E dep \in Departments : CliAddDepartment(c, dep)
  BY <1>1, <1>2, <1>4, DepartmentCreatedGood DEF CliAddDepartment
<1>5. CASE \E dep \in Departments, e \in Employees : CliAddEmployee(c, e, dep)
  BY <1>1, <1>2, <1>5, EmployeeCreatedGood DEF CliAddEmployee
<1>6. CASE \E t \in AgentTokens, p \in Providers \cup {None}, dep \in Departments :
              CliIssueToken(c, t, dep, None, p)
  BY <1>1, <1>2, <1>6, ModelForType, NoneAssumption, AgentTokenIssuedGood DEF CliIssueToken
<1>7. CASE \E t \in AgentTokens, p \in Providers \cup {None}, e \in Employees :
              CliIssueToken(c, t, None, e, p)
  BY <1>1, <1>2, <1>7, ModelForType, NoneAssumption, AgentTokenIssuedGood DEF CliIssueToken
<1>8. CASE \E t \in AgentTokens : CliRevokeToken(c, t)
  BY <1>1, <1>2, <1>8, AgentTokenRevokedGood DEF CliRevokeToken
<1>9. CASE \E box \in Boxes : CliImport(c, box)
  BY <1>1, <1>2, <1>9, EntriesImportedGood DEF CliImport
<1>10. CASE \E old, new \in Boxes : CliRekey(c, old, new)
  BY <1>10 DEF CliRekey
<1>11. CASE \E p \in Providers : CliReadDefaults(c, p)
  <2>1. PICK p \in Providers : CliReadDefaults(c, p)
    BY <1>11
  <2>2. db.defaultLimit \in Policies \cup {None}
    BY <1>1 DEF Database
  <2>3. [stage |-> "provider", named |-> p, limit |-> db.defaultLimit] \in Busy
    BY <2>2 DEF Busy, Commands, Idle
  <2> QED
    BY <2>1, <2>3 DEF CliReadDefaults
<1>12. ASSUME cli[c].stage \in {"provider", "model", "limit"}
       PROVE  cli[c] \in [stage: {"provider", "model", "limit"}, named: Providers,
                          limit: Policies \cup {None}]
  BY <1>1, <1>12 DEF Commands, Idle, Changed
<1>13. CASE CliSetProvider(c)
  <2>1. cli[c] \in [stage: {"provider", "model", "limit"}, named: Providers,
                    limit: Policies \cup {None}]
    BY <1>12, <1>13 DEF CliSetProvider
  <2>2. [cli[c] EXCEPT !.stage = "model"] \in Busy
    BY <2>1 DEF Busy, Commands, Idle
  <2>3. Good(db, [db EXCEPT !.defaultProvider = cli[c].named])
    BY <1>1, <2>1, DefaultProviderGood
  <2> QED
    BY <1>13, <2>2, <2>3 DEF CliSetProvider
<1>14. CASE CliSetModel(c)
  <2>1. cli[c] \in [stage: {"provider", "model", "limit"}, named: Providers,
                    limit: Policies \cup {None}]
    BY <1>12, <1>14 DEF CliSetModel
  <2>2. [cli[c] EXCEPT !.stage = "limit"] \in Busy
    BY <2>1 DEF Busy, Commands, Idle
  <2>3. ModelOf[cli[c].named] \in Models
    BY <2>1, RegistryAssumption
  <2>4. Good(db, [db EXCEPT !.defaultModel = ModelOf[cli[c].named]])
    BY <1>1, <2>3, DefaultModelGood
  <2> QED
    BY <1>14, <2>2, <2>4 DEF CliSetModel
<1>15. CASE CliSetLimit(c)
  <2>1. cli[c] \in [stage: {"provider", "model", "limit"}, named: Providers,
                    limit: Policies \cup {None}]
    BY <1>12, <1>15 DEF CliSetLimit
  <2>2. Good(db, [db EXCEPT !.defaultLimit = cli[c].limit])
    BY <1>1, <2>1, DefaultLimitGood
  <2> QED
    BY <1>2, <1>15, <2>2 DEF CliSetLimit
<1> QED
  BY <1>3, <1>4, <1>5, <1>6, <1>7, <1>8, <1>9, <1>10, <1>11, <1>13, <1>14, <1>15 DEF Cli

----------------------------------------------------------------------------
(* Type correctness.                                                       *)

LEMMA TypeInit == Init => TypeOK
<1> SUFFICES ASSUME Init PROVE TypeOK
  OBVIOUS
<1>1. db \in Database
  BY RegistryAssumption DEF Init
<1>2. db.generation \in Nat
  BY <1>1 DEF Database
<1>3. service \in [phase: Phases, box: Boxes, seen: Nat] /\ service.seen = 0
  BY DEF Init, Down, Phases
<1>4. cli \in [Processes -> Commands]
  BY DEF Init, Commands
<1> QED
  BY <1>1, <1>2, <1>3, <1>4 DEF Init, TypeOK

(* The bootstrap of a start is a good change.                              *)
LEMMA BootstrappedGood ==
    ASSUME TypeOK
    PROVE  Good(db, Bootstrapped(db))
<1>1. db \in Database /\ service.box \in Boxes
  BY DEF TypeOK
<1>2. CASE db.imported
  BY <1>1, <1>2, SameKeeps DEF Bootstrapped, Good, Database
<1>3. CASE ~db.imported
  <2>1. Good(db, EntriesImported(db, File, service.box))
    BY <1>1, EntriesImportedGood
  <2>2. Good(EntriesImported(db, File, service.box),
             [EntriesImported(db, File, service.box) EXCEPT !.imported = TRUE])
    BY <2>1, ImportedGood DEF Good
  <2>3. Good(db, [EntriesImported(db, File, service.box) EXCEPT !.imported = TRUE])
    BY <1>1, <2>1, <2>2, GoodAfterGood
  <2> QED
    BY <1>3, <2>3 DEF Bootstrapped
<1> QED
  BY <1>2, <1>3

(* Whatever the step, the tables change for the good.                      *)
LEMMA StepGood ==
    ASSUME TypeOK, Next
    PROVE  Good(db, db')
<1>1. db \in Database /\ db.generation \in Nat
  BY DEF TypeOK, Database
<1>2. ASSUME UNCHANGED db PROVE Good(db, db')
  BY <1>1, <1>2, SameKeeps DEF Good
<1>3. CASE AdminHandler
  BY <1>3, AdminShape DEF ApplyChange
<1>4. CASE \E c \in Processes : Cli(c)
  <2>1. PICK c \in Processes : Cli(c)
    BY <1>4
  <2> USE <2>1, CliShape
  <2>2. CASE \E e, next : Good(db, e) /\ next \in Busy /\ CliWrites(c, e, next)
    BY <2>2 DEF CliWrites
  <2>3. CASE \E box \in Boxes : cli[c] = Idle /\ CliWrites(c, Rekeyed(db, box), Idle)
    BY <1>1, <2>3, RekeyedGood DEF CliWrites
  <2>4. CASE \E next \in Busy : /\ cli' = [cli EXCEPT ![c] = next]
                               /\ UNCHANGED <<db, memory, excuse, changes, deaths>>
    BY <1>2, <2>4
  <2>5. CASE CliAnnounces(c)
    BY <1>1, <2>5, BumpedGood DEF CliAnnounces
  <2>6. CASE CliDies(c)
    BY <1>2, <2>6 DEF CliDies
  <2> QED
    BY <2>2, <2>3, <2>4, <2>5, <2>6
<1>5. CASE Tick \/ Hup
  BY <1>2, <1>5 DEF Tick, Hup
<1>6. CASE BuildSites
  BY <1>6, BootstrappedGood DEF BuildSites
<1>7. CASE BuildAgents \/ Watch
  BY <1>2, <1>7 DEF BuildAgents, Watch
<1>8. CASE \E box \in Boxes : Restart(box)
  BY <1>2, <1>8 DEF Restart
<1> QED
  BY <1>3, <1>4, <1>5, <1>6, <1>7, <1>8 DEF Next, Start

LEMMA TypeNext == TypeOK /\ [Next]_vars => TypeOK'
<1> SUFFICES ASSUME TypeOK, [Next]_vars PROVE TypeOK'
  OBVIOUS
<1>1. CASE UNCHANGED vars
  BY <1>1 DEF vars, TypeOK
<1>2. CASE Next
  <2>1. /\ db \in Database /\ db' \in Database
        /\ db.generation \in Nat /\ db'.generation \in Nat
        /\ db'.generation >= db.generation
    BY <1>2, StepGood DEF Good, Database, TypeOK
  <2>2. /\ service \in [phase: Phases, box: Boxes, seen: Nat] /\ service.seen \in Nat
        /\ service.seen <= db.generation
        /\ excuse \subseteq Excuses /\ cli \in [Processes -> Commands]
    BY DEF TypeOK
  <2>3. ASSUME UNCHANGED <<service, excuse>>, cli' \in [Processes -> Commands] PROVE TypeOK'
    BY <2>1, <2>2, <2>3 DEF TypeOK
  <2>4. ASSUME NEW n \in Commands, NEW c \in Processes
        PROVE  [cli EXCEPT ![c] = n] \in [Processes -> Commands]
    BY <2>2
  <2>5. Idle \in Commands /\ Busy \in SUBSET Commands
    BY DEF Commands, Busy
  <2>6. CASE AdminHandler
    <3>1. service' = service /\ excuse' = {} /\ cli' = cli
      BY <2>6, AdminShape DEF ApplyChange
    <3> QED
      BY <2>1, <2>2, <3>1 DEF TypeOK
  <2>7. CASE \E c \in Processes : Cli(c)
    <3>1. PICK c \in Processes : Cli(c)
      BY <2>7
    <3> USE <3>1, CliShape
    <3>2. CASE \E e, next : Good(db, e) /\ next \in Busy /\ CliWrites(c, e, next)
      BY <2>3, <2>4, <2>5, <3>2 DEF CliWrites, memory
    <3>3. CASE \E box \in Boxes : cli[c] = Idle /\ CliWrites(c, Rekeyed(db, box), Idle)
      BY <2>3, <2>4, <2>5, <3>3 DEF CliWrites, memory
    <3>4. CASE \E next \in Busy : /\ cli' = [cli EXCEPT ![c] = next]
                                 /\ UNCHANGED <<db, memory, excuse, changes, deaths>>
      BY <2>3, <2>4, <2>5, <3>4 DEF memory
    <3>5. CASE CliAnnounces(c)
      BY <2>3, <2>4, <2>5, <3>5 DEF CliAnnounces, memory
    <3>6. CASE CliDies(c)
      <4>1. cli' \in [Processes -> Commands] /\ service' = service /\ excuse' \subseteq Excuses
        BY <2>2, <2>4, <2>5, <3>6 DEF CliDies, memory, Excuses
      <4> QED
        BY <2>1, <2>2, <4>1 DEF TypeOK
    <3> QED
      BY <3>2, <3>3, <3>4, <3>5, <3>6
  <2>8. CASE Tick
    <3>1. /\ service' \in [phase: Phases, box: Boxes, seen: Nat]
          /\ service'.seen = db.generation /\ db' = db /\ cli' = cli
      BY <2>1, <2>2, <2>8 DEF Tick
    <3>2. excuse' \subseteq Excuses
      BY <2>2, <2>8 DEF Tick, Reload, Excuses
    <3> QED
      BY <2>1, <2>2, <3>1, <3>2 DEF TypeOK
  <2>9. CASE Hup
    <3>1. service' = service /\ cli' = cli
      BY <2>9 DEF Hup
    <3>2. excuse' \subseteq Excuses
      BY <2>2, <2>9 DEF Hup, Reload, Excuses
    <3> QED
      BY <2>1, <2>2, <3>1, <3>2 DEF TypeOK
  <2>10. CASE BuildSites \/ BuildAgents
    <3>1. /\ service' \in [phase: Phases, box: Boxes, seen: Nat]
          /\ service'.seen = service.seen /\ cli' = cli /\ excuse' = excuse
      BY <2>2, <2>10 DEF BuildSites, BuildAgents, Fails, Phases
    <3> QED
      BY <2>1, <2>2, <3>1 DEF TypeOK
  <2>11. CASE Watch
    <3>1. /\ service' \in [phase: Phases, box: Boxes, seen: Nat]
          /\ service'.seen = db.generation /\ db' = db /\ cli' = cli
      BY <2>1, <2>2, <2>11 DEF Watch, Phases
    <3>2. excuse' \subseteq Excuses
      BY <2>11 DEF Watch, Excuses
    <3> QED
      BY <2>1, <2>2, <3>1, <3>2 DEF TypeOK
  <2>12. CASE \E box \in Boxes : Restart(box)
    <3>1. /\ service' \in [phase: Phases, box: Boxes, seen: Nat]
          /\ service'.seen = 0 /\ cli' = cli /\ excuse' = excuse
      BY <2>12 DEF Restart, Down, Phases
    <3> QED
      BY <2>1, <2>2, <3>1 DEF TypeOK
  <2> QED
    BY <1>2, <2>6, <2>7, <2>8, <2>9, <2>10, <2>11, <2>12 DEF Next, Start
<1> QED
  BY <1>1, <1>2

(* The tables, the service and the CLI stay within their types.            *)
THEOREM TypeCorrect == Spec => []TypeOK
BY TypeInit, TypeNext, PTL DEF Spec

----------------------------------------------------------------------------
(* The snapshots.                                                          *)

LEMMA CurrentNext ==
    TypeOK /\ SnapshotsAreCurrent /\ [Next]_vars => SnapshotsAreCurrent'
<1> SUFFICES ASSUME TypeOK, SnapshotsAreCurrent, [Next]_vars PROVE SnapshotsAreCurrent'
  OBVIOUS
<1>1. CASE UNCHANGED vars
  <2>1. /\ db' = db /\ siteSnap' = siteSnap /\ agentSnap' = agentSnap /\ service' = service
        /\ cli' = cli /\ excuse' = excuse
    BY <1>1 DEF vars
  <2> QED
    BY <2>1 DEF SnapshotsAreCurrent, Up
<1>2. ASSUME siteSnap' = SiteSnapshot(db'), agentSnap' = AgentSnapshot(db')
      PROVE  SnapshotsAreCurrent'
  BY <1>2 DEF SnapshotsAreCurrent
<1>3. ASSUME excuse' # {} PROVE SnapshotsAreCurrent'
  BY <1>3 DEF SnapshotsAreCurrent
<1>4. ASSUME ~Up' PROVE SnapshotsAreCurrent'
  BY <1>4 DEF SnapshotsAreCurrent
<1>5. db \in Database /\ cli \in [Processes -> Commands]
  BY DEF TypeOK
<1>6. ASSUME NEW c \in Processes, cli'[c] # Idle PROVE SnapshotsAreCurrent'
  BY <1>6 DEF SnapshotsAreCurrent
<1>7. CASE AdminHandler
  BY <1>2, <1>7, AdminShape DEF ApplyChange
<1>8. CASE \E c \in Processes : Cli(c)
  <2>1. PICK c \in Processes : Cli(c)
    BY <1>8
  <2> USE <2>1, CliShape
  <2>2. CASE \E e, next : Good(db, e) /\ next \in Busy /\ CliWrites(c, e, next)
    <3>1. PICK e, next : Good(db, e) /\ next \in Busy /\ CliWrites(c, e, next)
      BY <2>2
    <3>2. cli'[c] # Idle
      BY <1>5, <3>1 DEF CliWrites, Busy
    <3> QED
      BY <1>6, <3>2
  <2>3. CASE \E box \in Boxes : cli[c] = Idle /\ CliWrites(c, Rekeyed(db, box), Idle)
    <3>1. PICK box \in Boxes : cli[c] = Idle /\ CliWrites(c, Rekeyed(db, box), Idle)
      BY <2>3
    <3>2. /\ siteSnap' = siteSnap /\ agentSnap' = agentSnap /\ service' = service
          /\ excuse' = excuse /\ db' = Rekeyed(db, box) /\ cli' = cli
      BY <1>5, <3>1 DEF CliWrites, memory
    <3>3. SiteSnapshot(db') = SiteSnapshot(db) /\ AgentSnapshot(db') = AgentSnapshot(db)
      BY <1>5, <3>2, RekeyedSnapshots
    <3>4. db'.generation = db.generation
      BY <1>5, <3>2 DEF Rekeyed, Database
    <3> QED
      BY <3>2, <3>3, <3>4 DEF SnapshotsAreCurrent, Up
  <2>4. CASE \E next \in Busy : /\ cli' = [cli EXCEPT ![c] = next]
                               /\ UNCHANGED <<db, memory, excuse, changes, deaths>>
    <3>1. cli'[c] # Idle
      BY <1>5, <2>4 DEF Busy
    <3> QED
      BY <1>6, <3>1
  <2>5. CASE CliAnnounces(c)
    <3>1. db'.generation = db.generation + 1 /\ service' = service
      BY <1>5, <2>5, BumpedGood DEF CliAnnounces, memory
    <3>2. db'.generation # service'.seen
      BY <3>1 DEF TypeOK, Database
    <3> QED
      BY <3>2 DEF SnapshotsAreCurrent
  <2>6. CASE CliDies(c)
    BY <1>3, <2>6 DEF CliDies
  <2> QED
    BY <2>2, <2>3, <2>4, <2>5, <2>6
<1>9. ASSUME Reload, db' = db PROVE SnapshotsAreCurrent'
  <2>1. CASE SiteBuilds(db, service.box) /\ AgentBuilds(db, service.box)
    BY <1>2, <1>9, <2>1 DEF Reload
  <2>2. CASE ~(SiteBuilds(db, service.box) /\ AgentBuilds(db, service.box))
    BY <1>3, <1>9, <2>2 DEF Reload
  <2> QED
    BY <2>1, <2>2
<1>10. CASE Tick \/ Hup
  BY <1>9, <1>10 DEF Tick, Hup
<1>11. CASE BuildSites \/ BuildAgents
  <2>1. service'.phase # "up"
    BY <1>11 DEF BuildSites, BuildAgents, Fails, TypeOK
  <2> QED
    BY <1>4, <2>1 DEF Up
<1>12. CASE Watch
  <2>1. CASE siteSnap = SiteSnapshot(db) /\ agentSnap = AgentSnapshot(db)
    BY <1>2, <1>12, <2>1 DEF Watch
  <2>2. CASE ~(siteSnap = SiteSnapshot(db) /\ agentSnap = AgentSnapshot(db))
    BY <1>3, <1>12, <2>2 DEF Watch
  <2> QED
    BY <2>1, <2>2
<1>13. CASE \E box \in Boxes : Restart(box)
  BY <1>4, <1>13 DEF Restart, Down, Up
<1> QED
  BY <1>1, <1>7, <1>8, <1>10, <1>11, <1>12, <1>13 DEF Next, Start

LEMMA CurrentInit == Init => SnapshotsAreCurrent
<1> SUFFICES ASSUME Init PROVE ~Up
  BY DEF SnapshotsAreCurrent
<1> QED
  BY DEF Init, Down, Up

(* What the service answers with is what the tables say, up to the known   *)
(* reasons: applyChange publishes what it commits, and the CLI's mark is   *)
(* never equal to one the watcher has seen.                                *)
THEOREM Current == Spec => []SnapshotsAreCurrent
<1>1. TypeOK /\ SnapshotsAreCurrent /\ [Next]_vars => (TypeOK /\ SnapshotsAreCurrent)'
  BY TypeNext, CurrentNext
<1> QED
  BY <1>1, TypeInit, CurrentInit, PTL DEF Spec

(* A step leaves a snapshot alone or builds it of the tables it leaves.    *)
LEMMA SnapshotSource ==
    ASSUME TypeOK, Next
    PROVE  /\ siteSnap' = siteSnap \/ siteSnap' = SiteSnapshot(db')
           /\ agentSnap' = agentSnap \/ agentSnap' = AgentSnapshot(db')
<1>1. CASE AdminHandler
  BY <1>1, AdminShape DEF ApplyChange
<1>2. CASE \E c \in Processes : Cli(c)
  <2>1. PICK c \in Processes : Cli(c)
    BY <1>2
  <2>2. UNCHANGED memory
    BY <2>1, CliShape DEF CliWrites, CliAnnounces, CliDies
  <2> QED
    BY <2>2 DEF memory
<1>3. CASE Tick \/ Hup
  BY <1>3 DEF Tick, Hup, Reload
<1>4. CASE Start
  BY <1>4 DEF Start, BuildSites, BuildAgents, Watch, Fails
<1>5. CASE \E box \in Boxes : Restart(box)
  BY <1>5 DEF Restart
<1> QED
  BY <1>1, <1>2, <1>3, <1>4, <1>5 DEF Next

(* A revoked token is in no snapshot that is built of the tables.          *)
LEMMA RevokedNotBuilt ==
    ASSUME NEW d
    PROVE  /\ \A t \in DOMAIN SiteSnapshot(d).byToken :
                t \in DOMAIN d.siteTokens /\ ~d.siteTokens[t].revoked
           /\ \A t \in DOMAIN AgentSnapshot(d) :
                t \in DOMAIN d.agentTokens /\ ~d.agentTokens[t].revoked
BY DEF SiteSnapshot, AgentSnapshot, Resolvable

(* Neither an import, nor a command of the CLI, nor a restart brings a     *)
(* revoked token back: no statement clears revoked_at and an import leaves *)
(* the rows it finds.                                                      *)
THEOREM RevokedStays == Spec => RevokedStaysOut
<1>1. ASSUME TypeOK, [Next]_vars
      PROVE  [/\ \A t \in DOMAIN db.siteTokens : db.siteTokens[t].revoked =>
                    /\ db'.siteTokens[t].revoked
                    /\ t \notin DOMAIN siteSnap.byToken => t \notin DOMAIN siteSnap'.byToken
              /\ \A t \in DOMAIN db.agentTokens : db.agentTokens[t].revoked =>
                    /\ db'.agentTokens[t].revoked
                    /\ t \notin DOMAIN agentSnap => t \notin DOMAIN agentSnap']_vars
  <2>1. CASE UNCHANGED vars
    BY <2>1
  <2>2. CASE Next
    <3>1. Good(db, db')
      BY <1>1, <2>2, StepGood
    <3>2. ASSUME NEW t \in DOMAIN db.siteTokens, db.siteTokens[t].revoked
          PROVE  /\ db'.siteTokens[t].revoked
                 /\ t \notin DOMAIN siteSnap.byToken => t \notin DOMAIN siteSnap'.byToken
      <4>1. t \in DOMAIN db'.siteTokens /\ db'.siteTokens[t].revoked
        BY <3>1, <3>2 DEF Good, KeepsRevoked
      <4>2. t \notin DOMAIN SiteSnapshot(db').byToken
        BY <4>1, RevokedNotBuilt
      <4> QED
        BY <1>1, <2>2, <4>1, <4>2, SnapshotSource
    <3>3. ASSUME NEW t \in DOMAIN db.agentTokens, db.agentTokens[t].revoked
          PROVE  /\ db'.agentTokens[t].revoked
                 /\ t \notin DOMAIN agentSnap => t \notin DOMAIN agentSnap'
      <4>1. t \in DOMAIN db'.agentTokens /\ db'.agentTokens[t].revoked
        BY <3>1, <3>3 DEF Good, KeepsRevoked
      <4>2. t \notin DOMAIN AgentSnapshot(db')
        BY <4>1, RevokedNotBuilt
      <4> QED
        BY <1>1, <2>2, <4>1, <4>2, SnapshotSource
    <3> QED
      BY <3>2, <3>3
  <2> QED
    BY <1>1, <2>1, <2>2
<1> QED
  BY <1>1, TypeCorrect, PTL DEF RevokedStaysOut, Spec

----------------------------------------------------------------------------
(* Who pays.                                                               *)

(* What a snapshot gives to a token as the token's own is a provider.      *)
OwnTargets ==
    \A t \in DOMAIN agentSnap :
        agentSnap[t].target.origin = "token" => agentSnap[t].target.provider # None

(* The target of a row that names a provider is that provider or none, and *)
(* only such a row has a target of its own.                                *)
LEMMA TargetCases ==
    ASSUME NEW d, NEW row \in AgentTokenRow
    PROVE  /\ TargetOf(d, row).origin = "token" =>
                row.provider # None /\ TargetOf(d, row).provider = row.provider
           /\ row.provider # None => TargetOf(d, row).provider \in {row.provider, None}
<1>1. row.provider = None <=> row.model = None
  BY DEF AgentTokenRow
<1>2. CASE row.provider = None
  BY <1>1, <1>2 DEF TargetOf, GlobalTarget, NoTarget
<1>3. CASE row.provider # None
  BY <1>1, <1>3 DEF TargetOf, NoTarget
<1> QED
  BY <1>2, <1>3

(* The target of a token in a snapshot built of typed tables.              *)
LEMMA BuiltTargets ==
    ASSUME NEW d \in Database, NEW t \in DOMAIN AgentSnapshot(d)
    PROVE  /\ t \in DOMAIN d.agentTokens /\ d.agentTokens[t] \in AgentTokenRow
           /\ AgentSnapshot(d)[t].target = TargetOf(d, d.agentTokens[t])
<1>1. d.agentTokens \in Tables(AgentTokens, AgentTokenRow)
  BY DEF Database
<1>2. t \in Resolvable(d)
  BY DEF AgentSnapshot
<1>3. t \in DOMAIN d.agentTokens
  BY <1>2 DEF Resolvable
<1>4. d.agentTokens[t] \in AgentTokenRow
  BY <1>1, <1>3, TableShape
<1>5. AgentSnapshot(d)[t].target = TargetOf(d, d.agentTokens[t])
  BY <1>2 DEF AgentSnapshot, Principal
<1> QED
  BY <1>3, <1>4, <1>5

LEMMA OwnTargetsNext ==
    ASSUME TypeOK, TypeOK', OwnTargets, [Next]_vars
    PROVE  OwnTargets'
<1>1. db' \in Database
  BY DEF TypeOK
<1>2. CASE agentSnap' = agentSnap
  BY <1>2 DEF OwnTargets
<1>3. CASE agentSnap' = AgentSnapshot(db')
  BY <1>1, <1>3, BuiltTargets, TargetCases DEF OwnTargets
<1> QED
  BY <1>2, <1>3, SnapshotSource DEF vars

(* A token that names a provider is served by it or not at all, through    *)
(* every change of providers and of the default, every reload and restart. *)
THEOREM PayerStays == Spec => PayerKept
<1>1. Init => OwnTargets
  BY DEF Init, OwnTargets
<1>2. ASSUME TypeOK, TypeOK', OwnTargets, [Next]_vars
      PROVE  [\A t \in DOMAIN agentSnap \cap DOMAIN agentSnap' :
                 /\ agentSnap[t].target.origin = "token"
                 /\ db'.agentTokens[t] = db.agentTokens[t]
                 /\ agentSnap[t].target.provider = db.agentTokens[t].provider
                 => agentSnap'[t].target.provider \in {db.agentTokens[t].provider, None}]_vars
  <2> SUFFICES ASSUME Next, NEW t \in DOMAIN agentSnap \cap DOMAIN agentSnap',
                      agentSnap[t].target.origin = "token",
                      db'.agentTokens[t] = db.agentTokens[t],
                      agentSnap[t].target.provider = db.agentTokens[t].provider
               PROVE  agentSnap'[t].target.provider \in {db.agentTokens[t].provider, None}
    BY <1>2
  <2>1. db.agentTokens[t].provider # None
    BY <1>2 DEF OwnTargets
  <2>2. CASE agentSnap' = agentSnap
    BY <2>2
  <2>3. CASE agentSnap' = AgentSnapshot(db')
    <3> DEFINE row == db'.agentTokens[t]
    <3>1. db' \in Database /\ t \in DOMAIN AgentSnapshot(db')
      BY <1>2, <2>3 DEF TypeOK
    <3>2. row \in AgentTokenRow /\ AgentSnapshot(db')[t].target = TargetOf(db', row)
      BY <3>1, BuiltTargets
    <3>3. row.provider # None /\ row.provider = db.agentTokens[t].provider
      BY <2>1
    <3> QED
      BY <2>3, <3>2, <3>3, TargetCases
  <2> QED
    BY <1>2, <2>2, <2>3, SnapshotSource
<1> QED
  BY <1>1, <1>2, OwnTargetsNext, TypeCorrect, PTL DEF PayerKept, Spec

=============================================================================
