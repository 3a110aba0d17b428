------------------------------ MODULE Registry ------------------------------
(***************************************************************************)
(* The registries of sites and agents: the service that keeps a snapshot   *)
(* of the tables in memory (app.ts, registry-tx.ts, registry-watcher.ts,   *)
(* the SIGHUP handler of server.ts), the handlers of the admin API that    *)
(* change the tables and publish at once (admin/routes/*.ts), and the      *)
(* operator's CLI (cli/admin.ts), another process, that changes them and   *)
(* then leaves a mark for the watcher.                                     *)
(*                                                                         *)
(* A handler runs in one turn of the event loop and is one step.  The CLI  *)
(* is as many steps as it has transactions, and may die after each.        *)
(***************************************************************************)
EXTENDS RegistryDb

CONSTANTS Processes,     \* CLI processes that may run at once
          ModelOf,       \* the model that is named together with a provider
          File,          \* the entries of clients.json
          Databases,     \* what the service may find at its first start
          MaxChanges, MaxDeaths   \* bounds of the instance

ASSUME RegistryAssumption ==
    /\ Databases \subseteq Database
    /\ ModelOf \in [Providers -> Models]
    /\ File \in [clients: SUBSET Sites, keyed: SUBSET Sites, policy: Policies,
                 tokens: Tables(SiteTokens, Sites)]
    /\ {MaxChanges, MaxDeaths} \subseteq Nat

VARIABLES db,
          siteSnap, agentSnap,   \* SiteRegistry.snap, AgentRegistry.snap
          service,               \* phase of the process, its key, seen of the watcher
          cli,                   \* process -> what it is about to do
          excuse,                \* why a snapshot may be older than the tables
          changes, deaths        \* counted for the bounds

vars == <<db, siteSnap, agentSnap, service, cli, excuse, changes, deaths>>
memory == <<siteSnap, agentSnap, service>>

Phases == {"down", "site built", "agent built", "up"}
Excuses == {"silent", "failed", "gap"}
Idle == [stage |-> "idle"]
Changed == [stage |-> "changed"]
Commands == {Idle, Changed}
    \cup [stage: {"provider", "model", "limit"}, named: Providers, limit: Policies \cup {None}]

NoSiteSnapshot == SiteSnapshot([sites |-> <<>>, siteTokens |-> <<>>])
Up == service.phase = "up"
Room == changes < MaxChanges

----------------------------------------------------------------------------
(* applyChange: the change, its audit and both snapshots in a transaction, *)
(* then the snapshots are published.  A snapshot that cannot be built      *)
(* rolls everything back, which is no step.                                *)
ApplyChange(d) ==
    /\ Up /\ Room
    /\ SiteBuilds(d, service.box) /\ AgentBuilds(d, service.box)
    /\ db' = d
    /\ siteSnap' = SiteSnapshot(d) /\ agentSnap' = AgentSnapshot(d)
    /\ excuse' = {}
    /\ changes' = changes + 1
    /\ UNCHANGED <<service, cli, deaths>>

CreateSite(s, sealed, policy) ==
    /\ s \notin DOMAIN db.sites
    /\ ApplyChange(SiteCreated(db, s, sealed, policy))

PatchSite(s, patch) ==
    /\ s \in DOMAIN db.sites
    /\ ApplyChange([db EXCEPT !.sites = Updated(@, s, patch)])

IssueSiteToken(t, s) ==
    /\ s \in DOMAIN db.sites /\ t \notin DOMAIN db.siteTokens
    /\ ApplyChange(SiteTokenIssued(db, t, s))

RevokeSiteToken(t) ==
    /\ t \in DOMAIN db.siteTokens
    /\ ApplyChange(SiteTokenRevoked(db, t))

CreateProvider(p, sealed) ==
    /\ p \notin DOMAIN db.providers
    /\ ApplyChange(ProviderCreated(db, p, sealed))

(* The provider of the global default is not switched off.                 *)
PatchProvider(p, patch) ==
    /\ p \in DOMAIN db.providers
    /\ patch = [enabled |-> FALSE] => db.defaultProvider # p
    /\ ApplyChange([db EXCEPT !.providers = Updated(@, p, patch)])

CreateDepartment(dep) ==
    /\ dep \notin DOMAIN db.departments
    /\ ApplyChange(DepartmentCreated(db, dep))

PatchDepartment(dep, patch) ==
    /\ dep \in DOMAIN db.departments
    /\ ApplyChange([db EXCEPT !.departments = Updated(@, dep, patch)])

CreateEmployee(e, dep) ==
    /\ dep \in DOMAIN db.departments /\ e \notin DOMAIN db.employees
    /\ ApplyChange(EmployeeCreated(db, e, dep))

PatchEmployee(e, patch) ==
    /\ e \in DOMAIN db.employees
    /\ "department" \in DOMAIN patch => patch.department \in DOMAIN db.departments
    /\ ApplyChange([db EXCEPT !.employees = Updated(@, e, patch)])

(* The owner exists, and the provider is enabled when one is named.        *)
Owner(dep, e) ==
    \/ dep \in DOMAIN db.departments /\ e = None
    \/ dep = None /\ e \in DOMAIN db.employees

Nameable(p) == p = None \/ p \in EnabledRows(db.providers)
ModelFor(p) == IF p = None THEN None ELSE ModelOf[p]

IssueAgentToken(t, dep, e, p) ==
    /\ t \notin DOMAIN db.agentTokens
    /\ Owner(dep, e) /\ Nameable(p)
    /\ ApplyChange(AgentTokenIssued(db, t, dep, e, p, ModelFor(p)))

PatchAgentToken(t, patch) ==
    /\ t \in DOMAIN db.agentTokens /\ ~db.agentTokens[t].revoked
    /\ "provider" \in DOMAIN patch => Nameable(patch.provider)
    /\ ApplyChange([db EXCEPT !.agentTokens = Updated(@, t, patch)])

RevokeAgentToken(t) ==
    /\ t \in DOMAIN db.agentTokens
    /\ ApplyChange(AgentTokenRevoked(db, t))

PutDefaults(p, limit) ==
    /\ Nameable(p)
    /\ ApplyChange([db EXCEPT !.defaultProvider = p, !.defaultModel = ModelFor(p),
                              !.defaultLimit = limit])

(* What the admin API can ask for.                                         *)
Switch == {[enabled |-> on] : on \in BOOLEAN}
Seals == {None, service.box}
AdminHandler ==
    \/ \E s \in Sites, sealed \in Seals, policy \in Policies : CreateSite(s, sealed, policy)
    \/ \E s \in Sites, patch \in Switch \cup [policy: Policies] \cup [sealed: Seals] :
            PatchSite(s, patch)
    \/ \E t \in SiteTokens, s \in Sites : IssueSiteToken(t, s)
    \/ \E t \in SiteTokens : RevokeSiteToken(t)
    \/ \E p \in Providers, sealed \in Seals : CreateProvider(p, sealed)
    \/ \E p \in Providers, patch \in Switch \cup [sealed: Seals] : PatchProvider(p, patch)
    \/ \E dep \in Departments : CreateDepartment(dep)
    \/ \E dep \in Departments, patch \in Switch : PatchDepartment(dep, patch)
    \/ \E e \in Employees, dep \in Departments : CreateEmployee(e, dep)
    \/ \E e \in Employees, patch \in Switch \cup [department: Departments] :
            PatchEmployee(e, patch)
    \/ \E t \in AgentTokens, p \in Providers \cup {None} :
          \/ \E dep \in Departments : IssueAgentToken(t, dep, None, p)
          \/ \E e \in Employees : IssueAgentToken(t, None, e, p)
          \/ PatchAgentToken(t, [provider |-> p, model |-> ModelFor(p)])
    \/ \E t \in AgentTokens, patch \in Switch : PatchAgentToken(t, patch)
    \/ \E t \in AgentTokens : RevokeAgentToken(t)
    \/ \E p \in Providers \cup {None}, limit \in Policies \cup {None} : PutDefaults(p, limit)

----------------------------------------------------------------------------
(* The CLI: a command that writes once, then bumpRegistryGeneration.       *)
CliWrites(c, d, next) ==
    /\ Room
    /\ db' = d
    /\ cli' = [cli EXCEPT ![c] = next]
    /\ changes' = changes + 1
    /\ UNCHANGED <<memory, excuse, deaths>>

CliAddProvider(c, p, sealed) ==
    /\ cli[c] = Idle /\ p \notin DOMAIN db.providers
    /\ CliWrites(c, ProviderCreated(db, p, sealed), Changed)

CliAddDepartment(c, dep) ==
    /\ cli[c] = Idle /\ dep \notin DOMAIN db.departments
    /\ CliWrites(c, DepartmentCreated(db, dep), Changed)

CliAddEmployee(c, e, dep) ==
    /\ cli[c] = Idle /\ dep \in DOMAIN db.departments /\ e \notin DOMAIN db.employees
    /\ CliWrites(c, EmployeeCreated(db, e, dep), Changed)

CliIssueToken(c, t, dep, e, p) ==
    /\ cli[c] = Idle /\ t \notin DOMAIN db.agentTokens
    /\ Owner(dep, e) /\ Nameable(p)
    /\ CliWrites(c, AgentTokenIssued(db, t, dep, e, p, ModelFor(p)), Changed)

CliRevokeToken(c, t) ==
    /\ cli[c] = Idle /\ t \in DOMAIN db.agentTokens
    /\ CliWrites(c, AgentTokenRevoked(db, t), Changed)

CliImport(c, box) ==
    /\ cli[c] = Idle
    /\ CliWrites(c, EntriesImported(db, File, box), Changed)

(* rekey leaves no mark: the service is restarted with the new key.        *)
CliRekey(c, old, new) ==
    /\ cli[c] = Idle /\ old # new
    /\ Sealed(db.sites, old) /\ Sealed(db.providers, old)
    /\ CliWrites(c, Rekeyed(db, new), Idle)

(* settings set-default: the provider and the limits are read, then each   *)
(* setting is written by a statement of its own.                           *)
CliReadDefaults(c, p) ==
    /\ cli[c] = Idle /\ p \in EnabledRows(db.providers)
    /\ cli' = [cli EXCEPT ![c] = [stage |-> "provider", named |-> p, limit |-> db.defaultLimit]]
    /\ UNCHANGED <<db, memory, excuse, changes, deaths>>

CliSetProvider(c) ==
    /\ cli[c].stage = "provider"
    /\ CliWrites(c, [db EXCEPT !.defaultProvider = cli[c].named],
                 [cli[c] EXCEPT !.stage = "model"])

CliSetModel(c) ==
    /\ cli[c].stage = "model"
    /\ CliWrites(c, [db EXCEPT !.defaultModel = ModelOf[cli[c].named]],
                 [cli[c] EXCEPT !.stage = "limit"])

CliSetLimit(c) ==
    /\ cli[c].stage = "limit"
    /\ CliWrites(c, [db EXCEPT !.defaultLimit = cli[c].limit], Changed)

CliAnnounces(c) ==
    /\ cli[c] = Changed
    /\ db' = Bumped(db)
    /\ cli' = [cli EXCEPT ![c] = Idle]
    /\ UNCHANGED <<memory, excuse, changes, deaths>>

(* The process is killed before it has left its mark.                      *)
CliDies(c) ==
    /\ cli[c] # Idle /\ deaths < MaxDeaths
    /\ cli' = [cli EXCEPT ![c] = Idle]
    /\ excuse' = excuse \cup {"silent"}
    /\ deaths' = deaths + 1
    /\ UNCHANGED <<db, memory, changes>>

Cli(c) ==
    \/ \E p \in Providers, sealed \in Boxes \cup {None} : CliAddProvider(c, p, sealed)
    \/ \E dep \in Departments :
          \/ CliAddDepartment(c, dep)
          \/ \E e \in Employees : CliAddEmployee(c, e, dep)
    \/ \E t \in AgentTokens, p \in Providers \cup {None} :
          \/ \E dep \in Departments : CliIssueToken(c, t, dep, None, p)
          \/ \E e \in Employees : CliIssueToken(c, t, None, e, p)
    \/ \E t \in AgentTokens : CliRevokeToken(c, t)
    \/ \E box \in Boxes : CliImport(c, box)
    \/ \E old, new \in Boxes : CliRekey(c, old, new)
    \/ \E p \in Providers : CliReadDefaults(c, p)
    \/ CliSetProvider(c) \/ CliSetModel(c) \/ CliSetLimit(c)
    \/ CliAnnounces(c) \/ CliDies(c)

----------------------------------------------------------------------------
(* Both registries are read again, sites first; the second may fail when   *)
(* the first is published already.                                         *)
Reload ==
    LET site == SiteBuilds(db, service.box)
        both == site /\ AgentBuilds(db, service.box)
    IN  /\ siteSnap' = IF site THEN SiteSnapshot(db) ELSE siteSnap
        /\ agentSnap' = IF both THEN AgentSnapshot(db) ELSE agentSnap
        /\ excuse' = IF both THEN {} ELSE excuse \cup {"failed"}

(* Mutant of Tick: only what changed for sites makes the watcher move.     *)
TickForSites ==
    /\ Up /\ db.generation # service.seen /\ siteSnap # SiteSnapshot(db)
    /\ service' = [service EXCEPT !.seen = db.generation]
    /\ Reload
    /\ UNCHANGED <<db, cli, changes, deaths>>

(* The watcher: the mark is remembered before the registries are read.     *)
Tick ==
    /\ Up /\ db.generation # service.seen
    /\ service' = [service EXCEPT !.seen = db.generation]
    /\ Reload
    /\ UNCHANGED <<db, cli, changes, deaths>>

Hup ==
    /\ Up /\ Reload
    /\ UNCHANGED <<db, service, cli, changes, deaths>>

(* buildApp: bootstrapSiteRegistry imports the file once; then each        *)
(* registry is built, and the process ends when one cannot be; the watcher *)
(* takes its first mark last.                                              *)
Bootstrapped(d) ==
    IF d.imported THEN d ELSE [EntriesImported(d, File, service.box) EXCEPT !.imported = TRUE]

Fails ==
    /\ service' = [service EXCEPT !.phase = "down"]
    /\ UNCHANGED <<siteSnap, agentSnap, excuse>>

BuildSites ==
    /\ service.phase = "down"
    /\ db' = Bootstrapped(db)
    /\ IF SiteBuilds(db', service.box)
       THEN /\ siteSnap' = SiteSnapshot(db')
            /\ service' = [service EXCEPT !.phase = "site built"]
            /\ UNCHANGED <<agentSnap, excuse>>
       ELSE Fails
    /\ UNCHANGED <<cli, changes, deaths>>

BuildAgents ==
    /\ service.phase = "site built"
    /\ IF AgentBuilds(db, service.box)
       THEN /\ agentSnap' = AgentSnapshot(db)
            /\ service' = [service EXCEPT !.phase = "agent built"]
            /\ UNCHANGED <<siteSnap, excuse>>
       ELSE Fails
    /\ UNCHANGED <<db, cli, changes, deaths>>

(* What was committed and marked since the snapshots were read goes unseen. *)
Watch ==
    /\ service.phase = "agent built"
    /\ service' = [service EXCEPT !.phase = "up", !.seen = db.generation]
    /\ excuse' = IF siteSnap = SiteSnapshot(db) /\ agentSnap = AgentSnapshot(db)
                 THEN {} ELSE {"gap"}
    /\ UNCHANGED <<db, siteSnap, agentSnap, cli, changes, deaths>>

Down(box) == [phase |-> "down", box |-> box, seen |-> 0]

(* The process dies, or the operator stops it, and is started again, with  *)
(* the key that is in its environment by then.                             *)
Restart(box) ==
    /\ deaths < MaxDeaths
    /\ deaths' = deaths + 1
    /\ service' = Down(box)
    /\ UNCHANGED <<db, siteSnap, agentSnap, cli, excuse, changes>>

Init ==
    /\ db \in Databases
    /\ siteSnap = NoSiteSnapshot /\ agentSnap = <<>>
    /\ \E box \in Boxes : service = Down(box)
    /\ cli = [c \in Processes |-> Idle]
    /\ excuse = {}
    /\ changes = 0 /\ deaths = 0

Start == BuildSites \/ BuildAgents \/ Watch

Next ==
    \/ AdminHandler
    \/ \E c \in Processes : Cli(c)
    \/ Tick \/ Hup \/ Start
    \/ \E box \in Boxes : Restart(box)

(* The watcher's timer and the start of a process go on by themselves; an  *)
(* operator's command may never end.                                       *)
Spec == Init /\ [][Next]_vars /\ WF_vars(Tick) /\ WF_vars(Start)

----------------------------------------------------------------------------
TypeOK ==
    /\ db \in Database
    /\ service \in [phase: Phases, box: Boxes, seen: Nat]
    /\ service.seen <= db.generation
    /\ excuse \subseteq Excuses
    /\ cli \in [Processes -> Commands]

(* While the service is up, what it answers requests with is what the      *)
(* tables say; if it is not, the watcher has a mark to see, a CLI command  *)
(* has not left it yet, or one of the three known gaps explains it: a      *)
(* command that died before its mark, a reload that failed, a change that  *)
(* was marked while the service was starting.                              *)
SnapshotsAreCurrent ==
    Up => \/ siteSnap = SiteSnapshot(db) /\ agentSnap = AgentSnapshot(db)
          \/ db.generation # service.seen
          \/ \E c \in Processes : cli[c] # Idle
          \/ excuse # {}

(* Nothing brings a revoked token back: neither an import that names it    *)
(* nor a restart, and no snapshot that has dropped it takes it in again.   *)
RevokedStaysOut ==
    [][/\ \A t \in DOMAIN db.siteTokens : db.siteTokens[t].revoked =>
             /\ db'.siteTokens[t].revoked
             /\ t \notin DOMAIN siteSnap.byToken => t \notin DOMAIN siteSnap'.byToken
       /\ \A t \in DOMAIN db.agentTokens : db.agentTokens[t].revoked =>
             /\ db'.agentTokens[t].revoked
             /\ t \notin DOMAIN agentSnap => t \notin DOMAIN agentSnap']_vars

(* A token that names a provider is never moved to another payer by what   *)
(* happens to providers or to the global default: as long as its row names *)
(* that provider it is served by it or not at all.                         *)
PayerKept ==
    [][\A t \in DOMAIN agentSnap \cap DOMAIN agentSnap' :
          /\ agentSnap[t].target.origin = "token"
          /\ db'.agentTokens[t] = db.agentTokens[t]
          /\ agentSnap[t].target.provider = db.agentTokens[t].provider
          => agentSnap'[t].target.provider \in {db.agentTokens[t].provider, None}]_vars

(* A revocation that was marked takes effect: the watcher drops the token, *)
(* unless the registries cannot be read or the service stops.              *)
RevocationArrives ==
    \A t \in AgentTokens :
        (/\ Up /\ db.generation # service.seen
         /\ t \in DOMAIN db.agentTokens /\ db.agentTokens[t].revoked)
        ~> (t \notin DOMAIN agentSnap \/ "failed" \in excuse \/ ~Up)

(* The provider and the model of the global default go together           *)
(* (admin/routes/settings.ts, cli/admin.ts), when no command is under way  *)
(* and no process has ever died.                                           *)
DefaultGoesTogether ==
    (\A c \in Processes : cli[c] = Idle) /\ deaths = 0 =>
        db.defaultModel = ModelFor(db.defaultProvider)
=============================================================================
