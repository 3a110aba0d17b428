------------------------------ MODULE MCLedger ------------------------------
(***************************************************************************)
(* Instance of Ledger: a provider at the host of the built-in list or not, *)
(* a price with peak hours and one without, answers with and without a     *)
(* cost; days of two hours, of which every second one is a weekend.        *)
(***************************************************************************)
EXTENDS Ledger

CONSTANTS own, router, m1, t1, t2

Tariff(input, cacheRead, output) == [input |-> input, cacheRead |-> cacheRead, output |-> output]

Flat == [tariff |-> Tariff(3, None, 1), offPeak |-> <<>>, peakHours |-> {}, weekdaysOnly |-> FALSE]

Peaks == [tariff |-> Tariff(6, 1, 4), offPeak |-> Tariff(3, 0, 2),
          peakHours |-> {<<0, 1>>}, weekdaysOnly |-> TRUE]

MCPrices == {Flat}
MCBuiltIn == [m \in {m1} |-> [Peaks EXCEPT !.tariff.input = 8]]

Usage(prompt, cached, cacheWrite, completion, cost) ==
    [prompt |-> prompt, cached |-> cached, cacheWrite |-> cacheWrite, completion |-> completion,
     cost |-> cost]

(* The second answer names its cost, and counts more tokens from the cache *)
(* than there are in the prompt; it gets an estimate all the same.         *)
MCUsages == {Usage(3, 1, 1, 2, None), Usage(1, 2, 0, 1, 7)}

Caller(contour, token, provider) ==
    [contour |-> contour, token |-> token, provider |-> provider, model |-> m1]

MCCallers == {Caller("agent", t1, own), Caller("agent", t2, router), Caller("site", t1, router)}

CONSTANTS x1, x2
Symmetry == Permutations({x1, x2})
=============================================================================
