------------------------------ MODULE Reports -------------------------------
(***************************************************************************)
(* What is read back: the statements of RequestsRepo over the table        *)
(* `requests` and the attempts of its executions, as the daily digest, the *)
(* statistics and the list of requests read them, and the page of the      *)
(* administrators' log, which loads the log piece by piece.                *)
(*                                                                         *)
(* A row of `requests` has the fields client, contour, status, code,       *)
(* latency and at (ts_received); rows are written when requests end, so    *)
(* that `at` is in no order.  An attempt has its usage source, the cost and *)
(* the estimate.  Formatting and the columns that are only shown are left  *)
(* out.  The two halves share nothing.                                     *)
(***************************************************************************)
EXTENDS Integers, Sequences, FiniteSets, FiniteSetsExt, SequencesExt

CONSTANTS Outcomes,             \* what a request may end as
          Charges,              \* [source, cost, est] of an attempt
          Calls,                \* executions
          NoSum,                \* NULL
          Portion,              \* 0.95, as a fraction <<numerator, denominator>>
          SampleSize,           \* how many latencies the percentile looks at
          ErrorsTold,           \* how many kinds of errors the digest names
          PageLength,           \* LIMIT of pageAudit
          MaxWritten, MaxEntries, MaxLoads  \* bounds of the instance

VARIABLES requests, charged,           \* the tables requests and billing_attempts
          entries, page, loads, begun   \* the log, the page, its two buttons

reportVars == <<requests, charged, entries, page, loads, begun>>

ReportContours == {"site", "agent"}
NonError == {"success", "client_aborted"}

(* A cost that was told is a number; so is an estimate that could be made. *)
ASSUME ReportsAssumption ==
    /\ Portion[2] \in Nat \ {0} /\ Portion[1] \in 0..(Portion[2] - 1)
    /\ {SampleSize, ErrorsTold, PageLength} \subseteq Nat \ {0}
    /\ IsFiniteSet(Calls) /\ NoSum \notin Int
    /\ \A o \in Outcomes :
          o.contour \in ReportContours /\ o.at \in Nat /\ o.latency \in Nat \cup {NoSum}
    /\ \A c \in Charges : IF c.source = "response" THEN c.cost \in Nat ELSE c.est \in Nat \cup {NoSum}

----------------------------------------------------------------------------
(* The two tables.                                                         *)

(* Mutant of Reported: whether the request joined is not written.          *)
ReportedAlone(outcome, call, joined) ==
    [client |-> outcome.client, contour |-> outcome.contour, status |-> outcome.status,
     code |-> outcome.code, latency |-> outcome.latency, at |-> outcome.at,
     execution |-> call, dedupJoin |-> FALSE]

(* The row of a request.                                                   *)
Reported(outcome, call, joined) ==
    [client |-> outcome.client, contour |-> outcome.contour, status |-> outcome.status,
     code |-> outcome.code, latency |-> outcome.latency, at |-> outcome.at,
     execution |-> call, dedupJoin |-> joined]

(* Rows in the two tables.                                                 *)
Written == Len(requests) + SumFunction([c \in Calls |-> Len(charged[c])])

HasOwnersRow(call) == \E i \in DOMAIN requests : requests[i].execution = call /\ ~requests[i].dedupJoin

(* A request ends.  Its execution is its own, or one it has joined: those  *)
(* end together, their rows are written in any order.                      *)
RequestEnds(outcome, call, joined) ==
    /\ Written < MaxWritten
    /\ joined \/ ~HasOwnersRow(call)
    /\ joined => outcome.contour = "site"
    /\ requests' = Append(requests, Reported(outcome, call, joined))
    /\ UNCHANGED <<charged, entries, page, loads, begun>>

(* An attempt of an execution is written before the execution's own row.   *)
AttemptWritten(call, charge) ==
    /\ Written < MaxWritten
    /\ \A i \in DOMAIN requests : requests[i].execution # call
    /\ charged' = [charged EXCEPT ![call] = Append(@, charge)]
    /\ UNCHANGED <<requests, entries, page, loads, begun>>

----------------------------------------------------------------------------
(* The statements.  Anyone is a parameter that is NULL.                       *)
Anyone == "*"
Matching(since, client, contour) ==
    {i \in DOMAIN requests :
        /\ requests[i].at >= since
        /\ client \in {Anyone, requests[i].client} /\ contour \in {Anyone, requests[i].contour}}

IsError(i) == requests[i].status \notin NonError

(* Mutant of Summary: whatever is not a success is an error.              *)
SummaryStrict(ids) ==
    [total |-> Cardinality(ids),
     success |-> Cardinality({i \in ids : requests[i].status = "success"}),
     errors |-> Cardinality({i \in ids : requests[i].status # "success"})]

Summary(ids) ==
    [total |-> Cardinality(ids),
     success |-> Cardinality({i \in ids : requests[i].status = "success"}),
     errors |-> Cardinality({i \in ids : IsError(i)})]

AggregateSince(since, client, contour) == Summary(Matching(since, client, contour))

(* GROUP BY client_id.                                                     *)
PerClientAggregate(since, contour) ==
    LET ids == Matching(since, Anyone, contour)
    IN  {[client |-> c, counts |-> Summary({i \in ids : requests[i].client = c})] :
            c \in {requests[i].client : i \in ids}}

(* GROUP BY status, error_code: the groups, each with its count.           *)
ErrorGroups(since, contour) ==
    LET errors == {i \in Matching(since, Anyone, contour) : IsError(i)}
        Group(i) == <<requests[i].status, requests[i].code>>
    IN  {[kind |-> Group(i), n |-> Cardinality({j \in errors : Group(j) = Group(i)})] : i \in errors}

(* ORDER BY key; what has the same key is in any order.                    *)
SortedBy(S, key) ==
    CHOOSE s \in [1..Cardinality(S) -> S] :
        \A i, j \in DOMAIN s : i < j => s[i] # s[j] /\ key[s[i]] <= key[s[j]]

(* ORDER BY n DESC.                                                        *)
ErrorBreakdownSince(since, contour) ==
    LET groups == ErrorGroups(since, contour)
    IN  SortedBy(groups, [g \in groups |-> -g.n])

(* Mutant of P95LatencySince: the next index is taken.                     *)
P95RoundedUp(since, contour) ==
    LET ids == {i \in Matching(since, Anyone, contour) : requests[i].latency # NoSum}
        sample == {i \in ids : Cardinality({j \in ids : j > i}) < SampleSize}
        sorted == SortedBy(sample, [i \in sample |-> requests[i].latency])
        index == (Portion[1] * Len(sorted)) \div Portion[2] + 1
    IN  IF sample = {} THEN NoSum ELSE requests[sorted[Min({index, Len(sorted) - 1}) + 1]].latency

(* p95LatencySince: of the last rows, not of all.                          *)
P95LatencySince(since, contour) ==
    LET ids == {i \in Matching(since, Anyone, contour) : requests[i].latency # NoSum}
        sample == {i \in ids : Cardinality({j \in ids : j > i}) < SampleSize}
        sorted == SortedBy(sample, [i \in sample |-> requests[i].latency])
        index == (Portion[1] * Len(sorted)) \div Portion[2]
    IN  IF sample = {} THEN NoSum ELSE requests[sorted[Min({index, Len(sorted) - 1}) + 1]].latency

(* SUM over the attempts of an execution; SUM of no value is NULL.         *)
SumOfSaid(values) ==
    LET said == {k \in DOMAIN values : values[k] # NoSum}
    IN  IF said = {} THEN NoSum ELSE SumFunctionOnSet(values, said)

IsFact(attempt) == attempt.source = "response"

Sums(attempts) ==
    LET Column(fact, estimate) ==
            [k \in DOMAIN attempts |-> IF IsFact(attempts[k]) THEN fact[k] ELSE estimate[k]]
        cost == [k \in DOMAIN attempts |-> attempts[k].cost]
        est == [k \in DOMAIN attempts |-> attempts[k].est]
        Same(v) == [k \in DOMAIN attempts |-> v]
    IN  [actual  |-> SumOfSaid(Column(cost, Same(0))),
         approx  |-> SumOfSaid(Column(Same(NoSum), est)),
         missing |-> SumOfSaid(Column(Same(0), Same(1)))]

(* A row as the list shows it, with the sums of its execution.             *)
Listed(i) ==
    LET sums == Sums(charged[requests[i].execution])
    IN  [id |-> i, dedupJoin |-> requests[i].dedupJoin,
         costActual |-> sums.actual, costApprox |-> sums.approx, missing |-> sums.missing]

ListRecentFiltered(limit, client, contour) ==
    LET ids == Matching(0, client, contour)
        newest == SortedBy(ids, [i \in ids |-> -i])
    IN  [k \in 1..Min({limit, Len(newest)}) |-> Listed(newest[k])]

----------------------------------------------------------------------------
(* The lines of the digest that are counts.                                *)
DailyDigest(since) ==
    LET agents == AggregateSince(since, Anyone, "agent")
        kinds == ErrorBreakdownSince(since, "site")
    IN  [sites |-> AggregateSince(since, Anyone, "site"), p95 |-> P95LatencySince(since, "site"),
         told |-> SubSeq(kinds, 1, Min({ErrorsTold, Len(kinds)})),
         agents |-> agents, aborted |-> agents.total - agents.success - agents.errors]

----------------------------------------------------------------------------
(* The page of the log.  Entries are numbered as they are written; nothing *)
(* removes one.  busy() disables the button that was pressed, so there is  *)
(* at most one load of each of the two, and one of each at a time.         *)
Buttons == {"more", "reload"}
NoLoad == [state |-> "none"]

EntryWritten ==
    /\ entries < MaxEntries
    /\ entries' = entries + 1
    /\ UNCHANGED <<requests, charged, page, loads, begun>>

(* AdminAuditRepo.listRecent; 0 is NULL.                                   *)
ListedBefore(beforeId) ==
    LET from == IF beforeId = 0 THEN entries ELSE beforeId - 1
    IN  [k \in 1..Min({PageLength, from}) |-> from - k + 1]

(* A button is pressed, or the page is opened (which presses "reload").    *)
LoadStarts(b) ==
    /\ begun < MaxLoads
    /\ loads[b] = NoLoad /\ (b = "more" => page.more)
    /\ loads' = [loads EXCEPT ![b] =
                    [state |-> "asked", beforeId |-> IF b = "reload" THEN 0 ELSE page.lastId]]
    /\ begun' = begun + 1
    /\ page' = [page EXCEPT !.crossed = @ \/ \E c \in Buttons : loads[c] # NoLoad]
    /\ UNCHANGED <<requests, charged, entries>>

LogServed(b) ==
    /\ loads[b].state = "asked"
    /\ loads' = [loads EXCEPT ![b] = [state |-> "answered", rows |-> ListedBefore(@.beforeId)]]
    /\ UNCHANGED <<requests, charged, entries, page, begun>>

LoadFails(b) ==
    /\ loads[b] # NoLoad
    /\ loads' = [loads EXCEPT ![b] = NoLoad]
    /\ UNCHANGED <<requests, charged, entries, page, begun>>

(* Mutant of Shown: a reload forgets the mark only if it finds nothing.    *)
ShownFromTheOldMark(b, rows) ==
    [page EXCEPT !.rows = IF b = "reload" THEN rows ELSE @ \o rows,
                 !.lastId = IF b = "reload" /\ @ # 0 THEN @
                            ELSE IF rows # <<>> THEN Last(rows) ELSE @,
                 !.more = Len(rows) >= PageLength]

Shown(b, rows) ==
    [page EXCEPT !.rows = IF b = "reload" THEN rows ELSE @ \o rows,
                 !.lastId = IF rows # <<>> THEN Last(rows) ELSE IF b = "reload" THEN 0 ELSE @,
                 !.more = Len(rows) >= PageLength]

LoadArrives(b) ==
    /\ loads[b].state = "answered"
    /\ page' = Shown(b, loads[b].rows)
    /\ loads' = [loads EXCEPT ![b] = NoLoad]
    /\ UNCHANGED <<requests, charged, entries, begun>>

----------------------------------------------------------------------------
ReportsInit ==
    /\ requests = <<>> /\ charged = [c \in Calls |-> <<>>]
    /\ entries = 0 /\ begun = 0
    /\ page = [rows |-> <<>>, lastId |-> 0, more |-> FALSE, crossed |-> FALSE]
    /\ loads = [b \in Buttons |-> NoLoad]

ReportsNext ==
    \/ \E o \in Outcomes, c \in Calls, j \in BOOLEAN : RequestEnds(o, c, j)
    \/ \E c \in Calls, charge \in Charges : AttemptWritten(c, charge)

LogNext ==
    \/ EntryWritten
    \/ \E b \in Buttons : LoadStarts(b) \/ LogServed(b) \/ LoadFails(b) \/ LoadArrives(b)

ReportsSpec == ReportsInit /\ [][ReportsNext \/ LogNext]_reportVars

----------------------------------------------------------------------------
Times == {requests[i].at : i \in DOMAIN requests}

Number(v) == IF v = NoSum THEN 0 ELSE v

(* The attempts of the executions that have ended, by execution and number. *)
AttemptsEnded == UNION {{c} \X DOMAIN charged[c] : c \in {c \in Calls : HasOwnersRow(c)}}

(* The reports of one moment agree with one another, whatever was written: *)
(* the two contours add up to the whole, the clients and the kinds of      *)
(* errors to their contour, what is neither a success nor an error is what *)
(* clients gave up, and the kinds the digest leaves out are not more       *)
(* frequent than those it names.                                           *)
CountsAgree ==
    \A since \in Times :
        LET digest == DailyDigest(since)
        IN  /\ \A c \in ReportContours :
                LET whole == AggregateSince(since, Anyone, c)
                    clients == PerClientAggregate(since, c)
                    groups == ErrorGroups(since, c)
                IN  /\ SumFunction([e \in clients |-> e.counts.total]) = whole.total
                    /\ SumFunction([e \in clients |-> e.counts.errors]) = whole.errors
                    /\ SumFunction([g \in groups |-> g.n]) = whole.errors
            /\ digest.sites.total + digest.agents.total = AggregateSince(since, Anyone, Anyone).total
            /\ digest.aborted = Cardinality({i \in Matching(since, Anyone, "agent") :
                                                requests[i].status = "client_aborted"})
            /\ \A g \in ErrorGroups(since, "site") :
                   g \in Range(digest.told) \/ \A told \in Range(digest.told) : told.n >= g.n

(* The latency that is called the 95th percentile is one: of the rows that *)
(* are looked at, not fewer than that part are as fast or faster, and not  *)
(* more than that part are faster.                                         *)
P95IsAPercentile ==
    \A since \in Times, c \in ReportContours :
        LET value == P95LatencySince(since, c)
            ids == {i \in Matching(since, Anyone, c) : requests[i].latency # NoSum}
            sample == {i \in ids : Cardinality({j \in ids : j > i}) < SampleSize}
        IN  sample # {} =>
                /\ Portion[2] * Cardinality({i \in sample : requests[i].latency <= value})
                        >= Portion[1] * Cardinality(sample)
                /\ Portion[2] * Cardinality({i \in sample : requests[i].latency < value})
                        <= Portion[1] * Cardinality(sample)

(* Money is on the list once: the rows that did not join another request   *)
(* add up to the attempts of the executions that have ended, in facts,     *)
(* estimates and attempts without a fact; a row that joined repeats the    *)
(* sums of the one it joined.                                              *)
MoneyIsListedOnce ==
    LET list == ListRecentFiltered(Len(requests), Anyone, Anyone)
        own == {k \in DOMAIN list : ~list[k].dedupJoin}
        facts == {a \in AttemptsEnded : IsFact(charged[a[1]][a[2]])}
    IN  /\ SumFunction([k \in own |-> Number(list[k].costActual)])
               = SumFunction([a \in facts |-> charged[a[1]][a[2]].cost])
        /\ SumFunction([k \in own |-> Number(list[k].costApprox)])
               = SumFunction([a \in AttemptsEnded \ facts |-> Number(charged[a[1]][a[2]].est)])
        /\ SumFunction([k \in own |-> Number(list[k].missing)]) = Cardinality(AttemptsEnded \ facts)

(* As long as no load was started while another was under way, the page    *)
(* shows an unbroken piece of the log, newest first, and the button for    *)
(* more is there as long as there is an older entry.                       *)
LogHasNoGap ==
    ~page.crossed =>
        /\ \A k \in 1..(Len(page.rows) - 1) : page.rows[k + 1] = page.rows[k] - 1
        /\ page.rows # <<>> /\ ~page.more => Last(page.rows) = 1

(* The reports over the journal agree with one another, with the ledger,   *)
(* and with what their names say.                                          *)
ReportsAgree == CountsAgree /\ P95IsAPercentile /\ MoneyIsListedOnce
=============================================================================
