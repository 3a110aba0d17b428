------------------------------ MODULE MCParts -------------------------------
(***************************************************************************)
(* The parts that share no state with one another, side by side: a         *)
(* behaviour is one of one part, with the others at rest in their initial  *)
(* states, so that one run checks them all at the cost of the sum.         *)
(***************************************************************************)
EXTENDS PriceSync, Limiters, SseParser, DirectoryImport, Payloads, Reports

VARIABLE part

Parts == {"prices", "rate", "places", "monitor", "events", "import", "payloads", "reports", "log"}

partVars == <<part, vars, limiterVars, sseVars, importVars, payloadVars, reportVars>>

PartsInit ==
    /\ part \in Parts
    /\ Init /\ LimitersInit /\ SseInit /\ ImportInit /\ PayloadsInit /\ ReportsInit
    /\ part # "prices" => listed = CHOOSE p \in Prices : TRUE

PartsNext ==
    /\ UNCHANGED part
    /\ \/ part = "prices" /\ Next
          /\ UNCHANGED <<limiterVars, sseVars, importVars, payloadVars, reportVars>>
       \/ part = "rate" /\ RateNext
          /\ UNCHANGED <<vars, sseVars, importVars, payloadVars, reportVars>>
       \/ part = "places" /\ PlacesNext
          /\ UNCHANGED <<vars, sseVars, importVars, payloadVars, reportVars>>
       \/ part = "monitor" /\ MonitorNext
          /\ UNCHANGED <<vars, sseVars, importVars, payloadVars, reportVars>>
       \/ part = "events" /\ SseNext
          /\ UNCHANGED <<vars, limiterVars, importVars, payloadVars, reportVars>>
       \/ part = "import" /\ ImportNext
          /\ UNCHANGED <<vars, limiterVars, sseVars, payloadVars, reportVars>>
       \/ part = "payloads" /\ PayloadsNext
          /\ UNCHANGED <<vars, limiterVars, sseVars, importVars, reportVars>>
       \/ part = "reports" /\ ReportsNext
          /\ UNCHANGED <<vars, limiterVars, sseVars, importVars, payloadVars>>
       \/ part = "log" /\ LogNext
          /\ UNCHANGED <<vars, limiterVars, sseVars, importVars, payloadVars>>

PartsSpec == PartsInit /\ [][PartsNext]_partVars

----------------------------------------------------------------------------
(* People of one name in two spellings, people whose logins have one base, *)
(* one of them a base with a number; departments likewise.                 *)
Name(key, spelling, base) == [key |-> key, spelling |-> spelling, base |-> base]
LetterI == -105
LetterL == -108
LetterS == -115
LetterV == -118
LetterX == -120
NoName == Name("", 0, <<>>)
LongName == Name("long", 0, <<LetterL>>)
Ivanov == Name("ivanov", 1, <<LetterI, LetterV>>)
IVANOV == Name("ivanov", 2, <<LetterI, LetterV>>)
Ivleva == Name("ivleva", 1, <<LetterI, LetterV>>)
Number2 == Name("i 2", 1, <<LetterI, 2>>)
Sales == Name("sales", 1, <<LetterS>>)
SALES == Name("sales", 2, <<LetterS>>)
Supply == Name("supply", 1, <<LetterS>>)

MCNames == {NoName, LongName, Ivanov, IVANOV, Ivleva, Number2, Sales, SALES, Supply}

Row(fio, dept) == [fio |-> fio, dept |-> dept]
Sheet(r1, r2) == [header |-> TRUE, rows |-> <<r1, r2>>]

MCSheets ==
    {Sheet(Row(Ivanov, Sales), Row(IVANOV, Supply)), Sheet(Row(Ivleva, SALES), Row(Ivanov, Sales)),
     Sheet(Row(Ivleva, Supply), Row(Number2, Sales)), Sheet(Row(Number2, SALES), Row(Ivleva, Sales)),
     Sheet(Row(NoName, Sales), Row(Ivleva, LongName)), Sheet(Row(IVANOV, Supply), Row(IVANOV, Sales)),
     [header |-> FALSE, rows |-> <<Row(Ivanov, Sales)>>]}

MCAdminEmployees == {[login |-> <<LetterI, 2>>, fio |-> IVANOV], [login |-> <<LetterX>>, fio |-> Ivleva]}
MCAdminDepartments == {[slug |-> <<LetterS>>, name |-> SALES], [slug |-> <<LetterS, 2>>, name |-> Sales]}

----------------------------------------------------------------------------
(* Bodies that ask for a model, for several, for more tokens than the cap, *)
(* for what is no model or no number, and for some of the other fields.    *)
CONSTANTS NotSaid

Body(said, others) ==
    [f \in Fields |-> IF f \in DOMAIN said THEN said[f] ELSE IF f \in others THEN "said" ELSE NotSaid]

Tokens == {<<NotSaid, NotSaid, NotSaid>>, <<1, 3, NotSaid>>, <<3, NotSaid, 1>>, <<NotSaid, 3, 3>>,
           <<1, NotSaid, 3>>, <<OtherType, 3, OtherType>>}

Streams == {<<NotSaid, NotSaid>>, <<NotSaid, "other">>, <<"yes", NotSaid>>, <<"yes", "other">>,
            <<OtherType, "other">>}

Others == {{}, {"preset"}, {"provider"}, {"route", "transforms", "plugins", "debug"}, {"n"},
           {"service_tier", "store", "web_search_options"}, {"usage"}}

MCBodies ==
    {Body([model |-> model, models |-> models, stream |-> s[1], stream_options |-> s[2],
           max_tokens |-> t[1], max_completion_tokens |-> t[2], reasoning |-> t[3]], o) :
        model \in {NotSaid, OtherType, "auto", "m1", "m2"}, models \in {NotSaid, <<"m2">>},
        s \in Streams, t \in Tokens, o \in Others}

MCSites ==
    {[defaultModel |-> "m0", allowedModels |-> a, fallbackModels |-> f] :
        a \in {{}, {"m1"}, {"*"}}, f \in {<<>>, <<"m3">>}}

MCTargets == {[model |-> "m0", usageMode |-> u, cap |-> c] :
                 u \in {"openrouter", "stream_options", "none"}, c \in {0, 2}}
----------------------------------------------------------------------------
(* Requests of two sites and of an agent, early and late, fast and slow,   *)
(* with two kinds of errors; attempts with and without a fact.             *)
Outcome(c, contour, s, code, l, at) ==
    [client |-> c, contour |-> contour, status |-> s, code |-> code, latency |-> l, at |-> at]

MCOutcomes ==
    {Outcome("s1", "site", "success", "-", 1, 0), Outcome("s1", "site", "error", "e1", 2, 0),
     Outcome("s2", "site", "error", "e2", 3, 1), Outcome("a1", "agent", "client_aborted", "-", 1, 1),
     Outcome("a1", "agent", "error", "e1", 2, 1)}

MCCharges ==
    {[source |-> "response", cost |-> 1, est |-> 1], [source |-> "missing", cost |-> NoSum, est |-> 2],
     [source |-> "missing", cost |-> NoSum, est |-> NoSum]}

Half == <<1, 2>>
=============================================================================
