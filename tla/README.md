# proxy_llm: formal models

TLA+ models of the LLM proxy in `src/`: what they cover, what TLC checks on
small instances, and what TLAPS proves for every size.  File and line
references are relative to the repository root (`src/src/...` in
`PROJECT.json`, here shortened to the path below the program's `src/`).

## 1. The system

One Node.js process with an SQLite file.  It accepts OpenAI-style chat requests
in two contours, queues them and passes them to an LLM provider.

| part | state it keeps | operations | talks to |
|---|---|---|---|
| Admission (`concurrency/fairness.ts`) | a slot per client (`active`, limits, `retired`, its PQueue), `globalActive`, the global PQueue | `tryAdmit`, `release`, `syncClients`, `queueFor`, `measureDrift`, `releaseLeaked` | called from Fastify hooks, registry reloads, reconciler |
| Site requests (`routes/chat-completions.ts`) | per request: `admitted`, `released`, live id, execution id | hooks `onRequest`, `onResponse`, `onRequestAbort`; handler | admission, dedup, metrics, upstream client, journal |
| Dedup (`dedup/active-requests.ts`) | Map key -> execution | `has`, `registerOrJoinTracked`, removal when the promise settles | site requests |
| Live requests (`concurrency/active-metrics.ts`) | Map live id -> request, abort controller | `register`, `unregister`, `abort*`, counts | both contours, watchdog, reconciler, shutdown |
| Reconciler (`concurrency/reconcile.ts`) | a window of samples per client and globally | `tick` every 30 s | admission, live requests |
| Agent requests (`agent/*.ts`) | as above plus body timer, sink, abort reason, provider queue | hooks, `handleAgentChat`, body timer | a second instance of admission and metrics, provider limiter |
| Registries (`clients/*.ts`) | an immutable snapshot per contour | `buildSnapshot`, `publish`, `reload`, `resolveToken`, `touch` | admin API, watcher, admission, live requests |
| Watcher and CLI (`clients/registry-watcher.ts`, `cli/admin.ts`) | last generation seen; the CLI is another process | `tick`; CLI commands | database, registries |
| Upstream clients (`upstream/*.ts`) | attempt number, deadline, abort signal; for streams: committed or not | attempts, retries, pump | provider, billing sink, reply |
| Billing and journal (`journal`, `storage/billing-repo.ts`, `storage/requests-repo.ts`) | rows of the database | insert | handlers, upstream clients |
| Prices (`billing/*.ts`, `storage/provider-prices-repo.ts`) | price versions | daily sync, set, delete, re-estimate | admin API, billing |
| Admin sessions (`admin/auth/*.ts`) | session rows, login throttle, scrypt guard | login, refresh, logout, change password, verify | admin API, CLI |
| Alerts, watchdog (`alerts`, `watchdog`) | error streaks, cooldowns, what was told as stuck, the state file | `onEvent`, ticks, startup alert | journal, Telegram, live requests |
| Limiters (`agent/limiters.ts`) | windows of requests, places of a provider, refusals | `hit`, `run`, `record`, `shouldNotify`, `logDecision` | agent requests, admin routes |
| SSE parser, payloads (`upstream/sse-parser.ts`, `resolve-model.ts`, `*-payload.ts`) | the unfinished line and event; none | `push`, `flush`; pure functions | upstream clients |
| Directory import (`admin/import`, `admin/routes/directory.ts`) | departments, employees | import of a sheet, changes | admin API |
| Pages (`views/admin/static/admin.js`) | per tab: CSRF token, calls, one refresh they share; cookies of the browser | `api`, refresh, login, logout, the log | admin API |
| Shutdown (`shutdown.ts`) | drain timer | `gracefulShutdown` | everything |

A request of a site goes: `onRequest` (token, length, join or `tryAdmit`) ->
body -> handler (join the running execution of its idempotency key, or start
one) -> client queue -> global queue -> upstream -> journal row -> reply ->
`onResponse` (slot back).  A request of an agent goes: `onRequest` (token,
`tryAdmit`, body timer) -> body -> handler -> owner queue -> global queue ->
provider queue -> upstream -> row -> reply; slot back in the handler's
`finally`.

### What is hard here

JavaScript runs one callback at a time, so every stretch between two `await`s
is atomic; the trouble is between them:

* a fact read before the body upload (`active.has`, the registry, the slot) is
  used after it;
* slots are taken in one hook and returned in another that may run twice, in
  either order, or never;
* the reconciler infers leaks from counters read at different moments;
* timers race with what they guard (body timer, attempt timeout, deadline,
  back-off sleep);
* registry snapshots change under requests in every stage, slots are retired,
  deleted and created again while old queues still run tasks;
* another process (CLI) changes the database and says so in a second
  transaction;
* a row is written for an attempt that began before the price, the estimate or
  the run that concerns it was there;
* tabs of one browser share cookies but not memory, and answers cross.

What makes each part correct is listed as `hazards` in `PROJECT.json`, with
the properties that cover them.

## 2. Modules

| module | models | state | actions |
|---|---|---|---|
| `CountingSemaphore` | what admission promises (abstract) | `holders`, `spent`, `cap` | `Acquire`, `GiveBack`, `Reconfigure` |
| `FairnessManager` | `concurrency/fairness.ts` | `slots`, `globalActive` | operators `TryAdmit`, `Release`, `SyncClients`, `QueueFor`, ... |
| `NestedQueues` | the client queue inside the global queue (`queueFor`, p-queue) | `stage`, `queueOf`, the waiting lines | operators `Enqueue`, `StartClient`, `StartGlobal`, `Settle` |
| `SiteContour` | `routes/chat-completions.ts`, `dedup/active-requests.ts`, `concurrency/active-metrics.ts` | phases of a request, `dedup`, `live`, `journal`, the published limits | one per hook and per branch of the handler, `RegistryReload` |
| `SiteReconciler` | `concurrency/reconcile.ts` over `SiteContour` | `history` per scope; ghosts `hidden`, `misled` | `Tick` |
| `AgentContour` | `agent/plugin.ts`, `agent/chat-handler.ts`, `agent/deps.ts`, the provider limit | as a site plus `bodyTimer`, abort reason, `providerWait`, `lastWrite`; ghost `first` | hooks, timer, three queues, handler, the last write of a stream, `RegistryReload` |
| `RetryPolicy` | `upstream/retry.ts`, the decisions of `chat-attempt-loop.ts` and `deadline.ts` | none | operators `Classify`, `ShouldRetry`, `RetryWait`, ... |
| `AttemptLoop` | the mutable part of `runChatAttempts` | clock, attempt, timers, rows | steps used by `AgentStream` |
| `AgentStream` | one upstream request, plain or streamed (`openai-compatible-client.ts`, `reply-stream-sink.ts`) | as above plus what the client was sent | call, answer, timers, pump, aborts |
| `SseParser` | `upstream/sse-parser.ts` | `tail`, `scanFrom`, the event under way | `push` of a chunk, `flush` |
| `Payloads` | `resolve-model.ts`, `sanitize-payload.ts`, `agent-payload.ts` | the case under test | pure functions, one step |
| `Limiters` | `agent/limiters.ts` and its uses | windows, a provider's queue, refusals | `hit`, `run`, a changed limit, a refusal |
| `RegistryDb` | the statements of `storage/*-repo.ts` on the registries, `buildSnapshot` | a database is a record of tables | operators |
| `Registry` | `clients/*.ts`, `registry-watcher.ts`, SIGHUP, the admin routes on registries, `cli/admin.ts` | `db`, two snapshots, the service's phase and mark, the commands under way | one per handler, one per transaction of the CLI, tick, start, death |
| `PriceSync` | `billing/price-sync.ts`, the catalogue's part of `billing-repo.ts` | scheduler, `versions`, `runs`, attempts | tick, answer, write, complete, fail, restart |
| `Ledger` | `storage/billing-repo.ts`, `provider-prices-repo.ts`, `billing/provider-*.ts`, `seed-provider-prices.ts` | `ledger`, `prices`, marks of the built-in list | attempts, set, delete, seed, move of a provider, revocation |
| `Reports` | the statements of `storage/requests-repo.ts`, the daily digest's counts, the log's page | both tables; the log and the page | write, page, "more", "reload" |
| `DirectoryImport` | `admin/import/directory-import.ts`, `utils/translit.ts`, `admin/routes/directory.ts` | departments, employees | upload, import, an administrator's changes |
| `LoginThrottle` | `admin/auth/login-throttle.ts` | `failures` | operators `Allowed`, `Check`, `Fail`, `Reset` |
| `AdminSessions` | `admin/auth/session-service.ts`, the session and user tables, the CLI commands on them | `users`, `rows`, `inFlight`, `calls`, `cli` | login and password change in steps between their awaits, refresh, logout, CLI statements, restart |
| `AdminPages` | `views/admin/static/admin.js` over `AdminSessions`, `admin/routes/auth.ts` | cookies, documents, calls, what is on the wire | user's deeds, serving, arrival, loss |
| `AdminReset` | `AdminSessions` with two history variables | `opened`, `resetTo` | those of `AdminSessions` |
| `Alerts` | `alerts/rules.ts`, `alerts/dedup.ts` | the engine's memory, events that wait for a message | a row with its event, an answer of Telegram |
| `Service` | `shutdown.ts`, `server.ts`, `watchdog/*.ts` | the process, live requests, rows, ticks, the state file | requests, ticks, signal, drain, close, exit, crash, start |
| `MC...` | instances for TLC | | |
| `...Proofs` | theorems | | |

How they compose: `FairnessManager` is extended by `NestedQueues`, which both
contours extend: each contour has its own counters, queues and registry, as
`app.ts` builds two of everything.  `SiteReconciler` extends `SiteContour` with
the interval timer.  `RetryPolicy` -> `AttemptLoop` -> `AgentStream` is one
upstream request; in the contours the same request is one step
(`FinishExecution`) that succeeds or fails.  `RegistryDb` -> `Registry`; the
contours take the published limits as a choice, `Registry` says what is
published.  `LoginThrottle` -> `AdminSessions` -> `AdminPages` (and
`AdminReset`).  `MCParts` puts the parts that share no state side by side: a
behaviour is one of one part, so the run costs the sum of the parts.
`MCAdminPages` does the same with sessions under any use and under the pages.

`PROJECT.json` maps every definition to the lines it stands for.

### Conventions

* One action is one stretch of JavaScript between two awaits (or one SQL
  statement or transaction of the CLI, which is another process).  An `async`
  function that awaits nothing but an already resolved promise is one step.
* Libraries are modelled from how the code uses them and marked external in
  the map: p-queue (starting a task is a step of its own, in FIFO order, as
  many as the concurrency allows), Fastify's hooks (`onResponse` after a reply,
  `onRequestAbort` when the client leaves during the body, neither when a
  connection is lost in the way `fairness.ts:140-144` documents: the constant
  `LossyHooks`), undici (a call whose signal has fired is refused unsent),
  timers (run at or after their time) and the browser (cookies of all tabs, a
  request leaves with those of that moment).
* For agents `onRequestAbort` is only taken while the body is read
  (`reply-stream-sink.ts:21-23`); later the reply's `close` event counts.
* `reconcile.ts` records zeros for scopes without drift; as a minimum over the
  window is all that is used, recording them or not makes no difference and the
  model records the excess directly.  The agents' reconciler is the same
  function over the same classes, so it is modelled once, for sites.
* `AttemptLoop` counts time in seconds; a timer may fire up to `Jitter` late,
  and time does not pass a step that is overdue by more.  An answer may arrive
  while an abort is under way: both orders are explored.  `Retry-After` is a
  member of a small set; parsing its two formats is not modelled.
* The stream is modelled by its events, applied when they are written: data,
  `[DONE]`, an error event, the end, a break.  `SseParser` says how events come
  of chunks; the BOM, the space after a colon and letters of several bytes are
  left out.
* In `DirectoryImport` a login or slug is a sequence of integers: a character is
  the negative of its code, and a number appended to a base is one element,
  however many digits it has.
* In `Ledger` money is in units of a price times a token, so no rounding is
  there.
* A registry's secrets are known by the key that sealed them; networks, expiry
  dates, labels and single limits are left out.
* `LoginThrottle` counts the clock in ticks, `TicksPerSecond` to a second (the
  code: milliseconds, 1000), and the wait of a 429 in seconds, rounded up and at
  least one, as the code tells it.
* In `Payloads` a body is a function from the fields the two contours act on to
  values of any type; `OtherType` is a value of a type the code does not act on
  in that field (a limit given as a string, a model that is no string).
* In `AdminSessions` a password is a model value and a hash is that value with
  whether its parameters are outdated.  The result of scrypt is fixed by the
  row read *before* the await, as in the code.  A family is named by the id of
  its first row (the code draws a UUID).  The service's own
  `setPassword` and `revokeAllForAdmin` run without an await in between and are
  one step; the CLI's are two.  The access token of a password change is
  verified in `onRequest`, before its body is read.
* In `AdminPages` a refresh of a document that was left is served before the
  next one leaves or never; a lost refresh or login stands for 429 and 5xx too.
* Operators whose comment begins with "Defect" or "Mutant of" are wrong
  variants of the operator after them; putting one in its place must break the
  property that `PROJECT.json` names under `mutants`.

## 3. Abstract specification

`CountingSemaphore` says what admission is for: a request takes a slot only
while its client's capacity and the global one leave room, at most once in its
life, and gives it back at most once; lowering a capacity takes nothing from
those who hold.  `SiteContour` and
`AgentContour` implement it (`ImplementsSemaphore`, by `INSTANCE ... WITH`):
`holders` is the set of admitted and unreleased requests, whatever counters
the code keeps.  TLC checks the refinement on the small instances and TLAPS
proves it for every instance (`ContourIsSemaphore`, twice).

Where a component is a function of its input, the reference is a definition
over the whole input: `SseParser` compares the parser, which sees chunks, with a
reading of all letters received, one by one (`Read`, which knows neither chunks
nor a limit), `Ledger` a
stored estimate with the one computed from the whole history of prices,
`Registry` a snapshot with the one built from the tables, `Reports` the reports
with one another and with the ledger.

## 4. What TLC checks

Every run ends within five minutes on two workers.
`CHECK_DEADLOCK FALSE` everywhere: once all requests of an instance are
finished, or its bounds are used up, the model rightly stands still.

| run | instance | shows |
|---|---|---|
| `SiteSafety` | 2 clients, 4 requests (two with one key, one without, one of the other client with an equal key), limits 1+1, global 1+2, one reload from and to any set of clients | counters exact (`Accounting`), at most one execution per key, joined rows name an execution that ran, semaphore implemented |
| `SiteLive` | 3 requests, working hooks, no reload, one global place | every handler that awaits an execution, its own or one it joined, gets the result |
| `SiteCrowdOut` | the same with two reloads | the opposite: see section 5 |
| `Reconciler` | 1 client, 2 requests, window 2, lost hooks, one reload, fair ticks | corrections leave no counter above the slots held and take only leaked slots, but for what no tick of the window could tell from them (`CorrectionsSound`); leaked slots come back |
| `AgentRequests` | 2 owners, 3 keys and requests, provider limit 1, global 2+2, one revocation or restoration, lost hooks | executions hold slots, share of the global queue, the first of revocation, departure and call decides what is called and written (`FirstDecides`), semaphore, slots come back unless a client keeps a stream open unread |
| `Upstream` | 3 attempts, deadline 12, attempt 6, headers and first event 3, idle 2, `Retry-After` 0 or 5, lateness 1, both modes | on time, only justified retries, cuts are told, termination but for an unread last write |
| `Registry` | 2 of each table, two sealing keys, one CLI process, 3 changes, 1 death | snapshots current or excused by name, revoked tokens stay out, nobody's payer changes, a marked revocation arrives |
| `Alerts` | 2 clients of 2 contours, 2 handlers at once, streak of 2, window of 3 with 50 % of at least 2, cooldown 2, 4 events, time 2 | one message per cooldown; streaks and rates count their own events (`AlertsSound`) |
| `Service` | 2 requests, one of which may hang, 2 ticks, all delays 1, time 2, 1 restart | each stuck request told once (`WatchdogSound`); what an exit loses and what the next start says (`ExitIsHonest`); shutdown and stuck requests end (`NothingHangs`) |
| `AdminLogins` | sessions: 2 administrators, 2 parallel requests, right and wrong password, limit 1 in a window of 4, sessions of at most 2, 2 rows, CLI and restarts, horizon 2; guesses: the same with wrong passwords only, no sessions, 2 ticks a second, horizon 7; pages: 2 tabs, 3 calls, 2 deeds of the user, 1 lost message, 3 rows, horizon 2 | guesses bounded under parallel attempts, the seconds of a 429 are enough and not one too many (`WaitIsEnough`), chains, dead sessions stay dead; under the pages no tab is taken for a thief, no change is made twice, a logout holds, no call waits for ever (`PagesSound`) |
| `Ledger` | 2 executions of up to 2 attempts, days of 2 hours, 2 kinds of answers, 2 changes of prices, 2 rows | each estimate is the one of the version in force and pays each token once (`EstimatesSound`); reports add up; seeds come once |
| `Parts` | see below | one property per part |

The parts of `Parts`:

* prices: two days of 3 units, an hour to sync, back-off 2, two changes of the
  catalogue, one restart, one attempt - `EstimatesStand`;
* the window of requests, the places of a provider, the monitor of refusals:
  clock 8, 6 calls, limits 1 and 2 and none, 3 changes of the limit -
  `LimitersSound`;
* events: up to 6 letters in chunks of 1 or 2, buffer of 4 - `EventsSound`: the
  events do not depend on the cuts; whether a stream is given up does, for the
  limit is looked at only after a chunk, and is then exact;
* import: seven sheets of two rows, names in two spellings, logins that
  collide, two changes of an administrator - `ImportSound`;
* payloads: 2100 bodies (5 models with and without a list, 5 ways to stream, 6
  to ask for tokens, 7 with other fields that decide who answers or what it
  costs, and types the code does not expect) to 6 sites and 6 targets -
  `PayloadsSound`;
* reports: up to 4 rows of five kinds over two executions, the percentile as
  one half of at most 3 rows instead of 0.95 of 500 - `ReportsAgree`;
* log: 5 entries, pages of 2, 4 loads - `LogHasNoGap`.

Properties whose names end in `Sound`, and `ExitIsHonest`, `NothingHangs` and
`ReportsAgree`, are conjunctions of named parts defined next to them, each with
its comment; where a module's types are not proved they are one of the parts.

Why these bounds are enough to meet the interesting cases: one request per
distinct role is there (owner of a key, joiner, stranger, other client), with
limits of one so that every queue and every limit is reached; one reload may
remove, restore or resize any set of clients at every moment of every request
(two are needed only to delete a slot and create it again, which
`SiteCrowdOut` uses); three attempts give a first, a middle and a last one, and
the deadline lets the budget run out in each; two scrypt computations are what
`MAX_PARALLEL_SCRYPT` allows, and with a limit of one failure the second of
them passes the throttle together with the first; two ticks a second make a wait that
is not a whole number of seconds, and a horizon of 7 outlasts a window of 4 that
begins late; three changes of the
registries allow an admin's change inside a CLI command of two transactions;
two ticks and two requests let ticks overlap over one request; two handlers at
their awaits are the least that can disorder a client's events, and a third
event ends the streak; two changes of prices give a version and one backdated
before it; two tabs and three calls give a refresh shared inside a tab and one
raced by another tab; two-row sheets let a row collide with a row before and
with the tables.  The theorems of section 6 do not depend on any of them.

Bounds that exist only for TLC: `MaxReloads`, `Horizon`, `SessionHorizon`, `MaxNow`, `MaxHour`,
`MaxClock` (clocks), `MaxRows`, `LoginRows`, `MaxEntries`, `MaxWritten` (rows),
`MaxChanges`,
`MaxAdminChanges`, `MaxLimitChanges`, `MaxDeeds`, `MaxLosses`, `MaxDeaths`,
`MaxStarts`, `MaxRestarts`, `MaxCalls`, `MaxEvents` of `Alerts`, `MaxLoads`, the
sets of requests, clients and keys; and `ShortWindows`, which restricts
`ReconcilerUploads.cfg` to behaviours in which no request is unregistered at two
ticks.  `ProviderLimit` is a constant of `AgentContour`; `Limiters` lets it
change.  `Ledger` has `MaxHour = 1`, so its weekend tariff is mapped and not
reached by the run; the theorems hold for every calendar.

## 5. Where the code differs from what it says

One run ends in a violation on purpose.

* `SiteCrowdOut`: a request let through as a join holds no slot.  If reloads
  remove and restore its client meanwhile, `queueFor` falls back to the global
  queue *itself*; the outer task keeps the only place of the queue
  (`QUEUE_CONCURRENCY` is 1 by default) and waits for the inner one behind it.
  Nothing is served until a restart.  (A client's share of the global queue,
  which `AgentRequests` confirms for agents, is exceeded by sites in the same
  way.)

Six more configurations are kept beside the runs; TLC run on each
(`tlc -config X.cfg M`) ends with a counterexample.

* `SiteUnadmitted.cfg` (`MCSiteContour`, `OnlyAdmittedExecute`): a join whose
  execution ends while its body is read executes without a slot.  `Joined`
  holds nevertheless: what it says is about the row.
* `ReconcilerUploads.cfg` (`MCSiteReconciler`, `AliveKeepSlots`): four short
  uploads at four consecutive ticks look like one leaked slot.  This is all that
  `CorrectionsSound` allows: what a correction takes from slots in use is at most
  what the least crowded of its ticks found in use and not registered (`misled`).
* `AgentRevoked.cfg` (`MCAgentContour`, `RevokedKeyIsAborted`): a key revoked
  during the body of its request is not aborted.
* `UpstreamAborted.cfg` (`AgentStream`, `RowsArePaidCalls`): a request aborted
  while it waits for its next attempt leaves a row of `billing_attempts` for a
  call that is never sent.
* `RegistryDefaults.cfg` (`MCRegistry`, `DefaultGoesTogether`): `set-default` of
  the CLI reads the limits and writes provider, model and limits one by one; a
  change of the admin API in between is half overwritten.
* `AdminReset.cfg` (`AdminReset`, `OldPasswordIsOut`): a login whose password is
  being verified during `reset-password` opens a session afterwards.  With
  outdated scrypt parameters it would even write the old password back
  (`Rehashed`).

Met while modelling, and left as they are in the models:

* Sessions: the hash of a *new* password is computed outside `scryptGuard`, so
  more than `MAX_PARALLEL_SCRYPT` computations may run; a CLI killed between
  `setPassword` and `revokeAllForAdmin` leaves the sessions alive; the 401 of a
  stale refresh clears the cookies of a login made meanwhile in another tab
  (`admin/routes/auth.ts:85`); a 409 that arrives before the other tab's cookies
  leads to the login page; a lost answer to a refresh makes the next refresh
  look like reuse, which ends the session and alerts; after a login as another
  administrator in another tab, a change is repeated with the new CSRF token
  under the new administrator while the page shows the old name.
* Upstream: a back-off sleep that runs late turns the provider's last answer
  into `deadline_exceeded`; `tryWrite` carries no signal, so a client that
  neither reads nor closes holds the handler past the deadline, and in the
  agents' contour its slot and its places in the queues (`lastWrite`); an overflow of
  the SSE buffer loses the events of its own chunk, and event names are not
  counted by its limit; an event longer than the limit passes when it ends in
  the chunk that exceeds it, so that the same bytes are taken or refused by how
  the network cut them.
* Payloads: the override for Qwen applies to the first model, not to the
  fallbacks; `buildAgentPayload` caps nothing when no `max_tokens` is sent, and
  a limit that is no number passes the cap (`agent-payload.ts:51-52`).  For sites
  `preset`, `n`, `service_tier`, `store` and `web_search_options` go upstream as
  they came: `sanitize-payload.ts:1-11` does not name them, though
  `agent-payload.ts:18-29` calls the first a way round the model and says that
  the others cost more.  `OnlyModelsOfTheSite` speaks of bodies without a preset,
  and nothing is claimed of what a site's call costs.
* Limiters: a raised limit of a provider takes effect with the next request;
  with the limit null a request goes past the queue.  The threshold of alerts
  for refused keys has no upper bound in the configuration, and over the
  monitor's cap of 5000 events no alert is ever sent.
* Alerts: a success awaits the message "recovered" before it resets
  (`rules.ts:146-149`), so errors counted meanwhile are wiped out and two
  successes may both announce the recovery.
* Shutdown: a request still uploading when the drain timer fires
  (`shutdown.ts:35`) registers later, is never aborted, and its row may be lost
  at the close of the database (`late` in `ExitKeepsRows`).
* Prices: `POST /admin` on provider prices has no guard for providers of the
  OpenRouter kind, whose estimates come from the catalogue: a re-estimation
  overwrites them (`provider-prices-repo.ts:79-91`, `agent/chat-handler.ts:74`).
  A synchronisation that started before a call and ends after it writes a
  version older than the call (`unsettled` in `PriceSync`).  A catalogue that
  lists a model twice would write two versions each day (not in the model,
  which follows one entry).
* Reports: the percentile looks at the last 500 rows and is the maximum for
  fewer than 20.  The buttons "more" and "reload" of the log disable only
  themselves; with both loads under way the list can have a gap, and
  `LogHasNoGap` speaks of loads that do not overlap.

## 6. What TLAPS proves

For every value of the constants allowed by the assumptions named in the
modules (`FairnessAssumption`, `QueuesAssumption`, `SiteAssumption`,
`AgentAssumption`, `PolicyAssumption`, `JitterAssumption`, `StreamAssumption`,
`ThrottleAssumption`, `SessionAssumption`, `NoneAssumption`,
`RegistryAssumption`, `PriceSyncAssumption`, `ReconcilerAssumption`,
`LimitersAssumption`, `PayloadsAssumption`, `LedgerAssumption`,
`ReportsAssumption`, `ImportAssumption`, `SseAssumption`, `ServiceAssumption`,
`AlertsAssumption`, `PagesAssumption`; they ask for limits of at least one,
finitely many requests and constants of the right type; `LedgerAssumption` also
that prices, tokens and costs are not negative, as the schemas validate them;
`ServiceAssumption` that an exit waits longer after the drain than an aborted
request takes to react).  Every safety invariant and every action property of
the runs is proved; what is left to TLC is liveness.

* `SiteContourProofs`: types, exact counters, one execution per key, the
  semaphore.  `Accounting` is not inductive alone: a request could be admitted
  a second time after giving its slot back.  The invariant adds `Lifecycle`
  (a request that was released had been admitted, and one not yet admitted has
  nothing), `GlobalLine` (the global line holds exactly the executions waiting
  in it) and `KeyOwner` (the table entry of a running execution names it).
  `Joined` adds what a request that waits for another's execution knows of it,
  from which the rows of joins name their execution.  The same module proves
  the reconciler (`CorrectionsHold`).  With it `Accounting` fails, for a
  corrected counter is lower than its holders are many; `RInv` keeps what is
  left of it, through releases clamped at zero and slots deleted between two
  ticks: a counter never exceeds its holders, and those of them that are not
  leaked never exceed it by more than misled a correction.  Each sample of a
  window is at most what was leaked when it was taken and what was hidden from
  it; leaked slots only become more, so the least sample is at most what is
  leaked now and the least that was hidden.  That windows of whole numbers have
  a least one comes from well-foundedness.
* `AgentContourProofs`: types, counters, executions hold slots, the
  semaphore, and that the first event decides (`FirstEventDecides`): the
  invariant ties `first` to the abort reason, the clients that left, the stage
  and the outcome through all three queues, so that no later event can change
  the row.  Here an execution always holds its slot,
  and therefore its queue exists: the invariant links `Lifecycle`, the published
  snapshot (`TenantsFollow`), both waiting lines and the outcome of each
  execution.  A client's share of the global queue (`Share`) follows from its
  executions being all in the queue of its present slot (`OneQueue`), whose
  limit is one that some configuration gave (`QueueLimits`).
* `BillingProofs`: what is paid.
  - Sums.  The library's sum over a set takes elements in the order `CHOOSE`
    gives them; that the sum depends neither on the order nor on the names of
    the elements, and that it may be taken kind by kind, is proved first
    (`SumWith`, `SumByKind`, `SumRenamed`), by induction over the numbers for a
    set of numbers, which well-foundedness gives.
  - The ledger (`EstimatesSound`, `ReportsAddUp`, `SeedsOnce`).  A row is written
    once, and changed afterwards by every re-estimation: `LedgerInv` says that
    its estimate is, at any time, what the table of prices now gives for its
    usage and its start (`EstimateFits`), that it stands under its own
    execution and number, and that the rows of one execution are of one caller.
    The reports are sums over the same rows, grouped in different ways, and
    therefore equal.  A built-in price comes once because the provider of every
    pair that got one is marked (`SeedsMarked`).
  - The reports over both tables (`ReportsAgree`).  `TablesInv` needs that one
    row at most owns an execution; then each call of the list has its attempts
    to itself and the sums of the list are those of the ledger
    (`MoneyIsListedOnce`), counts add up over clients and contours, and the
    percentile is one of the values it is taken of, by the order of a sorted
    sequence.
  - The attempts of one upstream request: punctuality, ledgers, justified
    retries, one answer, cuts that are told.  `Clock` says which timer bounds
    each phase, `Booking` how rows follow attempts, `Answering` what the client
    can have been sent.
* `RegistryProofs`: types, current snapshots, revoked tokens.  Every statement,
  of a handler or of a CLI transaction, is shown to be a `Good` change of the
  tables: types kept, revoked rows kept, the mark never lower.  The rest is a
  case per phase of the service: a snapshot is either built in this step, or
  unchanged with the tables, or one of the reasons in `SnapshotsAreCurrent` has
  just come true.  The payer (`PayerKept`) compares two snapshots of the same
  row: what the first resolved by the token, the second resolves the same way.
* `PartsProofs`: the parts that share no state.
  - Prices: types, one success a day, versions that are changes, estimates that
    stand, the back-off, the last version seen.  `SyncInv` adds what ties a run
    under way to tables it has not written yet: its day has no success, no
    version is younger than it, no settled estimate is of an attempt that began
    with it or later, and a failure is heeded.  That a set of version numbers
    has a last one comes from well-foundedness.
  - Limiters (`LimitersSound`): an admitted request is of the open window or was
    over when it opened (`AdmittedInWindows`); the tasks of a provider's queue
    are those that wait or call (`QueueIsTasks`); the monitor's events are a
    final piece of the refusals (`EventsAreLast`).  That a storm is told holds
    only for a threshold of alerts within the cap of 5000 events, which the
    configuration does not enforce; the property says so.
  - The page of the log (`LogHasNoGap`): a load under way fits the ends of what
    is shown (`LoadsFit`).
  - Payloads (`PayloadsKept`), field by field for every sender and every body;
    of the values of its fields nothing is assumed but that a model is no marker
    of absence when put in a list.
  - The import of a sheet (`ImportSound`), for tables and sheets of any length.
    The recursion over the rows exists (`RowsFollow`), and `SoFar` holds after
    each of them: no two people have one login and no two departments one slug,
    a person who was added is the only one of that name, and stands in the
    department that a row read so far names.  An id that is made up is free,
    because of one number more than there are ids one is not taken
    (`MadeUpIsFree`).
  - The events of a stream (`EventsSound`), for any letters, cut anywhere.  The
    reference reads letter by letter; `LoopInv` ties each turn of `drainLines`
    to it: the unread part of the buffer is the line under way, the fields are
    those of the lines under way (`Pend`), a pending CR holds back a line that
    is not empty, and an LF after a CR that has been taken before ends nothing.
    `Cut` is what is kept between two calls of `push`.  The bytes that
    `checkOverflow` counts are those of the event under way (`Weighs`), so a
    stream is kept exactly while it fits, and what was given out before is a
    prefix of the events of all letters (`PrefixOfMore`).
* `ServiceProofs`: `WatchdogSound`, `ExitIsHonest`, `AlertsSound`,
  `CooldownKept`.  What an exit keeps is a matter of time: what is live at the
  drain is aborted then (`Drained`), what was aborted answers within the
  reaction time (`Reacting`), and the exit comes later than that unless nothing
  was live (`Settling`).  The alert engine is proved turn by turn of `onEvent`:
  every message leaves its mark (`GoodMarks`), the counts of one client alone
  move (`CountsMove`), and a count that is too high is explained by a recovery
  being told (`CountOf`).
* `AdminSessionsProofs`: types, the scrypt guard, the bound on guesses, chains
  of sessions, dead sessions.  `Attempts` keeps the failures of a login together
  with the attempts under way, for only their sum is bounded: an attempt let
  through turns into a failure later.  `Table` needs that a family's first row
  belongs to the family, so that a purge takes all of it or nothing.  `Shapes`
  reduces every step to one of four changes of the session table.  The wait of
  a 429 (`WaitsHold`) follows from failures being recorded in order of time and
  from what rounding up to a second, and to one at least, adds to the ticks that
  are left: less than a second, so one second less would not have been enough.
  The pages (`PagesSound`, by `PagesInv`), for any number of tabs, calls, deeds
  and losses: a refresh is under way exactly as long as a call awaits it
  (`Heard`), so nobody waits in vain; a change that may be sent again has not
  been carried out (`Once`); nobody knows the row of an answer on its way
  (`Unseen`), so unless something was late a replaced token is presented only
  in the moment of its replacement (`InTime`) and no tab is taken for a thief;
  a family that was left has only revoked rows (`OutIsDead`).  The server's part
  of each step is one of `AdminSessions`, whose invariant is reused as it is.
* `NestedQueuesProofs`: the lemmas on `FairnessManager` and the queues that both
  contours use.

Proved without a listed run of their own: the types of the contours, of
`Registry`, `AdminSessions` and `PriceSync`, the agents' counters,
`JournalAgreesWithBilling`, `OneAnswer`, `ScryptBudget`,
`OneSuccessADay`, `VersionsAreChanges`, `BackoffKept`, `LastSeenIsLatest`.

Only model-checked:

* liveness (`EveryHandlerReplies`, `SlotsComeBack`, `LeaksHeal`, `Terminates`,
  `RevocationArrives`, `NothingHangs`): fairness and ENABLED are out of the
  prover's reach.

The library states induction for an operator, which the installed provers
cannot instantiate.  Where an argument goes over the length of a sheet, a stream
or a sum, it is given for a *set* of numbers instead (`FromZero`, from the
least element of a well-founded set), and a recursive function is shown to exist
before anything is said of its values.

## 7. Fairness

The event loop runs what is ready: starting a queued task, the handler's
continuation, `onResponse` after a reply, and due timers are weakly fair.
`FinishExecution` is fair because the deadline bounds every upstream call,
which `Upstream` checks (`Terminates`, `OnTime`), with one exception that it
does not bound: the last write of a stream, which carries neither a signal nor
a timer (`openai-compatible-client.ts:470,488-495`).  In `AgentContour`
`LastWriteWaits` blocks `FinishExecution` until the client reads or leaves, and
`SlotsComeBack` states what it needs: that no client keeps its stream both
unread and open for ever.  In `AgentStream` `LastWriteEnds` is fair only for a
connection that is closed, and `Terminates` names the state in which a request
may stay: the last write, its client connected.  The body timer is fair for
agents; sites have none and nothing is assumed of uploads.  Clients owe
nothing: no arrival, upload, reading or disconnection is fair.  The reconciler's
interval timer is fair.  With `LossyHooks` the hooks of a lost connection never
run; `LeaksHeal` speaks of those.

In `Registry` the watcher's interval timer (`Tick`) and the restart by the
supervisor (`Start`) are weakly fair; no command of an operator is.
`RevocationArrives` lets a failed reload and a stop of the service excuse it.
In `Service` time, the drain timer, the give-up timer and the exit are fair,
and a request that was aborted reacts unless it is one that may hang; a tick of
the watchdog goes on (Telegram answers or times out after ten seconds) and the
interval timer starts another.  The signal and the crash are not fair.

## 8. Not modelled, and what is left

With the reason, in `PROJECT.json` under `components`.  Configuration,
logging, formatting, schema migrations, the parser of xlsx files (a child
process; its result is a choice of rows), the two formats of `Retry-After`, the
parsing of usage and of plain answers, forms and rendering of the pages, and the
alerts of the admin API (messages with a cooldown of their own) hold no state
that the properties above could tell apart, or only convert.

What would still be worth having:

1. proofs of termination where a variant is at hand (`Terminates`,
   `NothingHangs`), with a prover that handles fairness;
2. `Ledger` with a horizon that reaches the weekend tariff, and the pages with
   two administrators.
