------------------------------- MODULE Ledger -------------------------------
(***************************************************************************)
(* The billing ledger (storage/billing-repo.ts, journal/billing-sink.ts)   *)
(* and the prices an administrator keeps for providers whose answers name  *)
(* no cost (storage/provider-prices-repo.ts, billing/provider-*.ts,        *)
(* billing/seed-provider-prices.ts, admin/routes/providers.ts).            *)
(*                                                                         *)
(* An attempt has run for a while when its row is written; prices are set, *)
(* backdated, deleted and seeded meanwhile.  Time is counted in hours, of  *)
(* which DayHours are a day.  Money is in units of a price times a token.  *)
(***************************************************************************)
EXTENDS Integers, Sequences, SequencesExt, FiniteSets, FiniteSetsExt

CONSTANTS Executions, MaxNo,   \* the attempts of an execution are 1..MaxNo
          Callers,               \* contour, token, provider and model of an execution
          Providers, OpenRouter, \* the providers, and the one with the catalogue
          Models, Tokens,
          BuiltIn,               \* model -> price of the built-in list
          Prices, Usages,        \* what an administrator sets, an upstream reports
          CatalogueCost,         \* an estimate by the catalogue (module PriceSync)
          DayHours, WeekDays, Weekend, Offset,  \* the calendar; of the billing zone
          MaxHour, MaxChanges, MaxRows  \* bounds of the instance

None == -1

(* A tariff: prices per token; no price for the cache is the input's.      *)
Tariffs == [input: Nat, cacheRead: Nat \cup {None}, output: Nat]

(* Prices, tokens and costs are validated as non-negative where they come  *)
(* in (providerPriceSchema, normalizeUsage).                               *)
ASSUME LedgerAssumption ==
    /\ OpenRouter \in Providers /\ IsFiniteSet(Providers) /\ IsFiniteSet(Tokens)
    /\ DOMAIN BuiltIn \subseteq Models /\ IsFiniteSet(DOMAIN BuiltIn)
    /\ \A price \in Prices \cup Range(BuiltIn) :
          price.tariff \in Tariffs /\ (price.offPeak # <<>> => price.offPeak \in Tariffs)
    /\ Usages \subseteq [prompt: Nat, cached: Nat, cacheWrite: Nat, completion: Nat,
                        cost: Nat \cup {None}]
    /\ Callers \subseteq [contour: {"site", "agent"}, token: Tokens, provider: Providers, model: Models]
    /\ DayHours \in Nat \ {0} /\ WeekDays \in Nat \ {0} /\ Offset \in 0..(DayHours - 1)
    /\ {MaxHour, MaxChanges, MaxRows, CatalogueCost} \subseteq Nat /\ MaxNo \in Nat \ {0}

VARIABLES hour,
          calls,      \* execution -> the attempt that runs, or none
          ledger,     \* billing_attempts, by its unique key
          prices,     \* provider_model_prices, by id
          marked,     \* providers with the mark of the built-in list
          known,      \* providers at the host of the built-in list
          given,      \* pairs that once got a built-in price; for SeedsOnce only
          revoked, changes

ledgerVars == <<hour, calls, ledger, prices, marked, known, given, revoked, changes>>

Keys == Executions \X (1..MaxNo)
Rows == {ledger[k] : k \in {k \in Keys : ledger[k] # <<>>}}

----------------------------------------------------------------------------
(* Provider prices.                                                        *)

(* isPeak, tariffAt.                                                       *)
IsPeak(price, t) ==
    \/ price.offPeak = <<>>
    \/ /\ ~(price.weekdaysOnly /\ (t \div DayHours) % WeekDays \in Weekend)
       /\ \E hours \in price.peakHours : hours[1] <= t % DayHours /\ t % DayHours < hours[2]

TariffAt(price, t) == IF IsPeak(price, t) THEN price.tariff ELSE price.offPeak

NoEstimate == [usd |-> None, quality |-> "no_price"]

(* Mutant of EstimateProviderCost: the cached tokens stay in the input.    *)
EstimateTwice(price, usage, t) ==
    IF usage.prompt = 0 /\ usage.completion = 0 THEN NoEstimate
    ELSE LET tariff == TariffAt(price, t)
             cacheRead == IF tariff.cacheRead = None THEN tariff.input ELSE tariff.cacheRead
         IN  [usd |-> usage.prompt * tariff.input + usage.cached * cacheRead
                      + usage.completion * tariff.output,
              quality |-> "ok"]

(* estimateProviderCost: what was read from the cache, or written to it, is *)
(* part of the prompt, whatever the answer says.                           *)
EstimateProviderCost(price, usage, t) ==
    IF usage.prompt = 0 /\ usage.completion = 0 THEN NoEstimate
    ELSE LET tariff == TariffAt(price, t)
             cached == Min({usage.cached, usage.prompt})
             cacheWrite == Min({usage.cacheWrite, usage.prompt - cached})
             uncached == usage.prompt - cached - cacheWrite
             cacheRead == IF tariff.cacheRead = None THEN tariff.input ELSE tariff.cacheRead
         IN  [usd |-> (uncached + cacheWrite) * tariff.input + cached * cacheRead
                      + usage.completion * tariff.output,
              quality |-> IF cached > 0 /\ tariff.cacheRead = None THEN "partial" ELSE "ok"]

Versions(table, p, m) ==
    {i \in DOMAIN table : table[i].live /\ table[i].provider = p /\ table[i].model = m}

(* Mutant of PriceAt: the version that was saved last.                     *)
PriceSavedLast(table, p, m, t) ==
    LET past == {i \in Versions(table, p, m) : table[i].from <= t}
    IN  IF past = {} THEN None ELSE Max(past)

(* priceAt: ORDER BY effective_from DESC, id DESC.                         *)
PriceAt(table, p, m, t) ==
    LET past == {i \in Versions(table, p, m) : table[i].from <= t}
    IN  IF past = {} THEN None
        ELSE CHOOSE i \in past : \A j \in past :
                table[j].from < table[i].from \/ (table[j].from = table[i].from /\ j <= i)

(* The columns cost_est_usd, est_quality and est_provider_price_id.        *)
Estimated(estimate, id) ==
    [usd |-> estimate.usd, quality |-> estimate.quality,
     priceId |-> IF estimate.usd = None THEN None ELSE id]

ProviderEstimate(table, p, m, t, usage) ==
    LET id == PriceAt(table, p, m, t)
    IN  IF id = None THEN Estimated(NoEstimate, None)
        ELSE Estimated(EstimateProviderCost(table[id].price, usage, t), id)

(* repriceRows.                                                            *)
ToReprice(row, pairs, from) ==
    row # <<>> /\ row.contour = "agent" /\ <<row.provider, row.model>> \in pairs
    /\ row.started >= from /\ row.source # "response"

(* Mutant of Repriced: the rows get the price that was just set.           *)
RepricedByLast(rows, table, pairs, from) ==
    [k \in Keys |->
        IF ToReprice(rows[k], pairs, from)
        THEN [rows[k] EXCEPT !.est = Estimated(
                EstimateProviderCost(Last(table).price, rows[k].usage, rows[k].started), Len(table))]
        ELSE rows[k]]

(* repriceProviderModel: every row by the version of its own start.        *)
Repriced(rows, table, pairs, from) ==
    [k \in Keys |->
        IF ToReprice(rows[k], pairs, from)
        THEN [rows[k] EXCEPT !.est =
                ProviderEstimate(table, rows[k].provider, rows[k].model, rows[k].started, rows[k].usage)]
        ELSE rows[k]]

(* insert; a built-in price has no created_by.                             *)
NewVersion(p, m, from, price, builtIn) ==
    [provider |-> p, model |-> m, from |-> from, price |-> price, builtIn |-> builtIn, live |-> TRUE]

SetPrice(p, m, from, price) ==
    /\ changes < MaxChanges
    /\ changes' = changes + 1
    /\ prices' = Append(prices, NewVersion(p, m, from, price, FALSE))
    /\ ledger' = Repriced(ledger, prices', {<<p, m>>}, from)
    /\ UNCHANGED <<hour, calls, marked, known, given, revoked>>

(* clearEstimates.                                                         *)
Cleared(rows, p, m) ==
    [k \in Keys |->
        IF ToReprice(rows[k], {<<p, m>>}, 0)
        THEN [rows[k] EXCEPT !.est = Estimated(NoEstimate, None)]
        ELSE rows[k]]

(* All versions of the model; its ids are not used again.                  *)
DeletePrice(p, m) ==
    /\ Versions(prices, p, m) # {}
    /\ prices' = [i \in DOMAIN prices |->
                    IF i \in Versions(prices, p, m) THEN [prices[i] EXCEPT !.live = FALSE]
                    ELSE prices[i]]
    /\ ledger' = Cleared(ledger, p, m)
    /\ UNCHANGED <<hour, calls, marked, known, given, revoked, changes>>

----------------------------------------------------------------------------
(* The built-in list.                                                      *)

(* The pairs of the list that have no price: the others are left alone.    *)
Unpriced(ps) == {pair \in ps \X DOMAIN BuiltIn : Versions(prices, pair[1], pair[2]) = {}}

(* Mutant of Unseeded: a provider is seeded while a model has no price.    *)
UnseededModels(p) == p \in known /\ Unpriced({p}) # {}

Unseeded(p) == p \in known /\ p \notin marked

(* The versions, the estimates and the mark of a provider are one          *)
(* transaction; ps are those whose transaction did not fail.  A pair's     *)
(* versions and rows are its own, so that all pairs are done at once.      *)
SeedKnownProviderPrices(ps) ==
    LET added == SetToSeq(Unpriced(ps))
    IN  /\ prices' = prices \o [i \in DOMAIN added |->
                        NewVersion(added[i][1], added[i][2], 0, BuiltIn[added[i][2]], TRUE)]
        /\ ledger' = Repriced(ledger, prices', Unpriced(ps), 0)
        /\ marked' = marked \cup ps /\ given' = given \cup Unpriced(ps)

(* PATCH of the provider's address; the prices come at the next start.     *)
MoveProvider(p) ==
    /\ p # OpenRouter /\ changes < MaxChanges
    /\ changes' = changes + 1
    /\ known' = IF p \in known THEN known \ {p} ELSE known \cup {p}
    /\ UNCHANGED <<hour, calls, ledger, prices, marked, given, revoked>>

(* The calls of the process are gone; their attempts were never written.   *)
Restart ==
    /\ changes < MaxChanges
    /\ changes' = changes + 1
    /\ calls' = [x \in Executions |-> IF calls[x].at = "running" THEN [at |-> "over"] ELSE calls[x]]
    /\ \E ps \in SUBSET {p \in Providers : Unseeded(p)} : SeedKnownProviderPrices(ps)
    /\ UNCHANGED <<hour, known, revoked>>

----------------------------------------------------------------------------
(* Attempts.                                                               *)

Begin(x, caller) ==
    /\ calls[x].at = "idle" /\ caller.token \notin revoked
    /\ calls' = [calls EXCEPT ![x] = [at |-> "running", no |-> 1, started |-> hour, caller |-> caller]]
    /\ UNCHANGED <<hour, ledger, prices, marked, known, given, revoked, changes>>

(* makeBillingSink: OpenRouter's calls by the catalogue.                   *)
EstimateOf(caller, t, usage) ==
    IF caller.contour = "site" \/ caller.provider = OpenRouter
    THEN [usd |-> CatalogueCost, quality |-> "ok", priceId |-> None]
    ELSE ProviderEstimate(prices, caller.provider, caller.model, t, usage)

BillingDay(t) == (t + Offset) \div DayHours

AttemptRow(x, usage) ==
    LET c == calls[x]
    IN  [contour |-> c.caller.contour, token |-> c.caller.token,
         provider |-> c.caller.provider, model |-> c.caller.model,
         execution |-> x, no |-> c.no, started |-> c.started, day |-> BillingDay(c.started),
         usage |-> usage, source |-> IF usage.cost = None THEN "missing" ELSE "response",
         est |-> EstimateOf(c.caller, c.started, usage)]

(* ON CONFLICT(execution_id, attempt_no) DO NOTHING.                       *)
InsertAttempt(row) ==
    ledger' = [ledger EXCEPT ![<<row.execution, row.no>>] = IF @ = <<>> THEN row ELSE @]

(* The row is written when the attempt is over; a failed attempt may be    *)
(* followed by another.                                                    *)
Attempt(x, usage, again) ==
    /\ calls[x].at = "running" /\ (again => calls[x].no < MaxNo)
    /\ Cardinality(Rows) < MaxRows
    /\ InsertAttempt(AttemptRow(x, usage))
    /\ calls' = [calls EXCEPT ![x] = IF again THEN [calls[x] EXCEPT !.no = calls[x].no + 1, !.started = hour]
                                     ELSE [at |-> "over"]]
    /\ UNCHANGED <<hour, prices, marked, known, given, revoked, changes>>

RevokeToken(k) ==
    /\ k \notin revoked /\ changes < MaxChanges
    /\ changes' = changes + 1
    /\ revoked' = revoked \cup {k}
    /\ UNCHANGED <<hour, calls, ledger, prices, marked, known, given>>

Pass ==
    /\ hour < MaxHour
    /\ hour' = hour + 1
    /\ UNCHANGED <<calls, ledger, prices, marked, known, given, revoked, changes>>

----------------------------------------------------------------------------
(* Reports.                                                                *)

Days == BillingDay(0)..BillingDay(MaxHour)

InRange(from, to, contours) == {r \in Rows : r.day \in from..to /\ r.contour \in contours}

Amount(row) == IF row.source = "response" THEN row.usage.cost ELSE 0
Approx(row) == IF row.source # "response" /\ row.est.usd # None THEN row.est.usd ELSE 0

(* Mutant of Spend: an estimate counts as one although there is the fact.  *)
SpendTwice(rows) ==
    [upstream_attempts |-> Cardinality(rows),
     executions |-> Cardinality({r.execution : r \in rows}),
     input_tokens |-> SumFunction([r \in rows |-> r.usage.prompt]),
     output_tokens |-> SumFunction([r \in rows |-> r.usage.completion]),
     cost_actual_usd |-> SumFunction([r \in rows |-> Amount(r)]),
     cost_approx_usd |-> SumFunction([r \in rows |-> Approx(r)]),
     missing_rows |-> Cardinality({r \in rows : r.source # "response" /\ r.est.usd = None}),
     approx_rows |-> Cardinality({r \in rows : r.est.usd # None})]

(* SPEND_COLUMNS.                                                          *)
Spend(rows) ==
    [upstream_attempts |-> Cardinality(rows),
     executions |-> Cardinality({r.execution : r \in rows}),
     input_tokens |-> SumFunction([r \in rows |-> r.usage.prompt]),
     output_tokens |-> SumFunction([r \in rows |-> r.usage.completion]),
     cost_actual_usd |-> SumFunction([r \in rows |-> Amount(r)]),
     cost_approx_usd |-> SumFunction([r \in rows |-> Approx(r)]),
     missing_rows |-> Cardinality({r \in rows : r.source # "response" /\ r.est.usd = None}),
     approx_rows |-> Cardinality({r \in rows : r.source # "response" /\ r.est.usd # None})]

SpendTotals(from, to, contours) == Spend(InRange(from, to, contours))

ReportRow(key, rows) == [key |-> key, spend |-> Spend(rows)]

(* The reports that group the rows by a column of theirs.                  *)
SpendBy(column, from, to, contours) ==
    LET rows == InRange(from, to, contours)
    IN  {ReportRow(key, {r \in rows : r[column] = key}) : key \in {r[column] : r \in rows}}

(* Mutant of SpendByAgentToken: the keys that are valid today.             *)
SpendByValidToken(from, to) ==
    LET rows == InRange(from, to, {"agent"})
    IN  {ReportRow(k, {r \in rows : r.token = k}) : k \in Tokens \ revoked}

(* From the table of tokens: a revoked one is shown for what it spent.     *)
SpendByAgentToken(from, to) ==
    LET rows == InRange(from, to, {"agent"})
    IN  {ReportRow(k, {r \in rows : r.token = k}) :
            k \in {k \in Tokens : k \notin revoked \/ \E r \in rows : r.token = k}}

(* retryWasteUsd: what was paid for attempts that another one followed.    *)
Retried(from, to, contours) ==
    {r \in InRange(from, to, contours) :
        \E later \in Rows : later.execution = r.execution /\ later.no > r.no}

RetryWaste(from, to, contours) == SumFunction([r \in Retried(from, to, contours) |-> Amount(r)])

(* The columns of a report, added up over its rows.                        *)
SumOf(report) ==
    [column \in DOMAIN Spend({}) |-> SumFunction([row \in report |-> row.spend[column]])]

----------------------------------------------------------------------------
LedgerInit ==
    /\ hour = 0 /\ changes = 0
    /\ calls = [x \in Executions |-> [at |-> "idle"]]
    /\ ledger = [k \in Keys |-> <<>>]
    /\ prices = <<>> /\ given = {} /\ marked = {} /\ revoked = {}
    /\ known \in SUBSET (Providers \ {OpenRouter})

Change ==
    \/ \E p \in Providers, m \in Models :
          DeletePrice(p, m) \/ \E from \in 0..MaxHour, price \in Prices : SetPrice(p, m, from, price)
    \/ \E p \in Providers : MoveProvider(p)
    \/ \E k \in Tokens : RevokeToken(k)
    \/ Restart

Work ==
    \E x \in Executions :
        \/ \E caller \in Callers : Begin(x, caller)
        \/ \E usage \in Usages, again \in BOOLEAN : Attempt(x, usage, again)

LedgerNext == Change \/ Work \/ Pass

LedgerSpec == LedgerInit /\ [][LedgerNext]_ledgerVars

----------------------------------------------------------------------------
LedgerTypeOK ==
    /\ hour \in 0..MaxHour /\ changes \in 0..MaxChanges
    /\ revoked \subseteq Tokens /\ {marked, known} \subseteq SUBSET Providers
    /\ given \subseteq Providers \X Models
    /\ \A i \in DOMAIN prices : prices[i].provider \in Providers /\ prices[i].from \in 0..MaxHour
    /\ \A k \in Keys : ledger[k] # <<>> =>
          /\ <<ledger[k].execution, ledger[k].no>> = k
          /\ ledger[k].source \in {"response", "missing"}
          /\ ledger[k].est.usd \in Nat \cup {None}

(* An estimate by an administrator's price is always the one that the      *)
(* version in force at the start of the attempt gives, whatever was set,   *)
(* backdated, deleted or seeded before and after the row was written.      *)
EstimatesInForce ==
    \A r \in Rows :
        r.contour = "agent" /\ r.provider # OpenRouter /\ r.source # "response" =>
            LET past == {i \in Versions(prices, r.provider, r.model) : prices[i].from <= r.started}
                last == {i \in past : \A j \in past : prices[j].from <= prices[i].from}
            IN  IF last = {} THEN r.est.usd = None
                ELSE LET e == EstimateProviderCost(prices[Max(last)].price, r.usage, r.started)
                     IN  r.est.usd = e.usd /\ r.est.quality = e.quality
                         /\ r.est.priceId \in {None, Max(last)}

(* Every token is paid once: an estimate is never above what the tokens    *)
(* cost at the dearest price of their kind, nor below the cheapest.        *)
EstimateInBounds ==
    \A r \in Rows :
        r.est.priceId # None =>
            LET tariff == TariffAt(prices[r.est.priceId].price, r.started)
                input == {tariff.input} \cup ({tariff.cacheRead} \ {None})
            IN  r.est.usd - r.usage.completion * tariff.output
                    \in (r.usage.prompt * Min(input))..(r.usage.prompt * Max(input))

(* The reports of a period agree with its total, to the attempt: by token, *)
(* with the revoked ones, by provider and by day; and every attempt is a   *)
(* fact, an estimate or missing.  What was wasted on retries was paid.     *)
ReportsAddUp ==
    \A from \in Days : \A to \in {day \in Days : from <= day} :
        LET total == SpendTotals(from, to, {"agent"})
            all == SpendTotals(from, to, {"site", "agent"})
            byToken == SpendByAgentToken(from, to)
            byProvider == SpendBy("provider", from, to, {"agent"})
            byDay == SpendBy("day", from, to, {"site", "agent"})
        IN  /\ SumOf(byToken) = total /\ SumOf(byProvider) = total
            /\ [SumOf(byDay) EXCEPT !.executions = all.executions] = all
            /\ all.upstream_attempts = all.missing_rows + all.approx_rows
                  + Cardinality({r \in InRange(from, to, {"site", "agent"}) : r.usage.cost # None})
            /\ RetryWaste(from, to, {"site", "agent"}) <= all.cost_actual_usd

(* A built-in price that was deleted never comes back, through restarts    *)
(* and changes of the provider's address.                                  *)
SeedsOnce ==
    [][\A i \in DOMAIN prices' \ DOMAIN prices :
          prices'[i].builtIn => <<prices'[i].provider, prices'[i].model>> \notin given]_ledgerVars

(* Every estimate on a row is the right one: of the version in force, each *)
(* token paid once.                                                        *)
EstimatesSound == LedgerTypeOK /\ EstimatesInForce /\ EstimateInBounds
=============================================================================
