----------------------------- MODULE PartsProofs -----------------------------
(***************************************************************************)
(* The parts that share no state, one after another, for any constants.    *)
(*                                                                         *)
(* The limiters of the agents' contour.  An admitted request belongs to    *)
(* the window that is open, or was over when that one opened; of the       *)
(* latter, all but the last MaxHits were over a window earlier             *)
(* (AdmittedInWindows).  The tasks of a provider's queue are those that    *)
(* wait or call, and none waits beside a free place (QueueIsTasks).  The   *)
(* events of the monitor are a final piece of the refusals, and what was   *)
(* thrown away was out of the window or over the cap (EventsAreLast).      *)
(*                                                                         *)
(* The page of the administrators' log: what it shows is a piece of the    *)
(* log without a gap, and a load under way fits its ends (LoadsFit).       *)
(*                                                                         *)
(* Payloads: the fields of what goes upstream, for any body and sender.    *)
(*                                                                         *)
(* The import of a sheet: an id that is made up is free, since of one      *)
(* number more than there are ids one is (MadeUpIsFree); SoFar is what     *)
(* holds after each row, and what the whole sheet leaves is ImportSound.   *)
(*                                                                         *)
(* The parser of events: what is read of the letters is read letter by     *)
(* letter; LoopInv ties one turn of drainLines to that reading, Cut what   *)
(* is kept between two calls, and EventsSound is what they add up to.      *)
(*                                                                         *)
(* The history of prices: SyncInv adds to the properties what ties a run   *)
(* to the two tables it has not written yet: its day has no success, no    *)
(* version is younger than it, and no settled estimate is of an attempt    *)
(* that began with it or later.                                            *)
(***************************************************************************)
EXTENDS PriceSync, Limiters, Reports, Payloads, DirectoryImport, SseParser,
        WellFoundedInduction, FiniteSetTheorems, SequenceTheorems, TLAPS

(* The admitted of the window that is open.                                *)
HeldBy(h) == IF h.count <= MaxHits THEN h.count ELSE MaxHits

OpenWindow(a, h, t) ==
    LET old == Len(a) - HeldBy(h)
    IN  /\ t < h.resetAt /\ h.resetAt <= t + HitWindow /\ 0 <= old
        /\ \A i \in 1..old : a[i] + HitWindow <= h.resetAt
        /\ \A i \in (old + 1)..Len(a) : h.resetAt <= a[i] + HitWindow
        /\ \A i \in 1..(old - MaxHits) : a[i] + 2 * HitWindow <= h.resetAt

NoOpenWindow(a, h, t) ==
    h.resetAt <= t /\ \A i \in 1..(Len(a) - MaxHits) : a[i] + HitWindow <= t

AdmittedInWindows(a, h, t) ==
    /\ a \in Seq(Nat) /\ h \in [count: Nat, resetAt: Int]
    /\ \A i \in 1..Len(a) : a[i] <= t
    /\ \A i, j \in 1..Len(a) : j - i >= 2 * MaxHits => a[j] - a[i] >= HitWindow
    /\ OpenWindow(a, h, t) \/ NoOpenWindow(a, h, t)

RateInv ==
    /\ hits \in [Owners -> [count: Nat, resetAt: Int]]
    /\ admitted \in [Owners -> Seq(Nat)] /\ comeBack \in [Owners -> SUBSET Nat]
    /\ lastPrune \in Int
    /\ \A k \in Owners : AdmittedInWindows(admitted[k], hits[k], clock)
    /\ \A k \in Owners : \A t \in comeBack[k] : hits[k].resetAt <= t
    /\ ~refusedAgain

----------------------------------------------------------------------------
(* The numbers of the module.                                              *)
LEMMA Numbers ==
    /\ MaxHits \in Nat /\ MaxHits >= 1
    /\ HitWindow \in Nat /\ HitWindow >= 1
    /\ Second \in Nat /\ Second >= 1
    /\ MaxEvents \in Nat /\ MaxEvents >= 1
    /\ AlertThreshold \in Nat /\ AlertThreshold >= 1
    /\ NotifyEvery \in Nat /\ NotifyEvery >= 1
    /\ FailureWindow \in Nat /\ LogBurst \in Nat /\ LogWindow \in Nat
    /\ LongAgo \in Int /\ LongAgo <= 0 /\ LongAgo + NotifyEvery <= 0
  <1>1. /\ MaxHits \in Nat \ {0} /\ HitWindow \in Nat \ {0} /\ Second \in Nat \ {0}
        /\ MaxEvents \in Nat \ {0} /\ AlertThreshold \in Nat \ {0} /\ NotifyEvery \in Nat \ {0}
        /\ FailureWindow \in Nat /\ LogBurst \in Nat /\ LogWindow \in Nat
    BY LimitersAssumption
  <1> QED BY <1>1 DEF LongAgo

(* Max and Min of two numbers.                                             *)
LEMMA MaxOfTwo ==
  ASSUME NEW a \in Int, NEW b \in Int
  PROVE  Max({a, b}) = IF a >= b THEN a ELSE b
  <1> DEFINE m == IF a >= b THEN a ELSE b
  <1>1. m \in {a, b} /\ \A y \in {a, b} : m >= y
    OBVIOUS
  <1>2. \A x \in {a, b} : (\A y \in {a, b} : x >= y) => x = m
    OBVIOUS
  <1> HIDE DEF m
  <1>3. Max({a, b}) = m
    BY <1>1, <1>2 DEF Max
  <1> QED BY <1>3 DEF m

LEMMA MinOfTwo ==
  ASSUME NEW a \in Int, NEW b \in Int
  PROVE  Min({a, b}) = IF a <= b THEN a ELSE b
  <1> DEFINE m == IF a <= b THEN a ELSE b
  <1>1. m \in {a, b} /\ \A y \in {a, b} : m <= y
    OBVIOUS
  <1>2. \A x \in {a, b} : (\A y \in {a, b} : x <= y) => x = m
    OBVIOUS
  <1> HIDE DEF m
  <1>3. Min({a, b}) = m
    BY <1>1, <1>2 DEF Min
  <1> QED BY <1>3 DEF m

(* Append, by the positions of the sequence.                               *)
LEMMA Appended ==
  ASSUME NEW a \in Seq(Nat), NEW t \in Nat
  PROVE  /\ Append(a, t) \in Seq(Nat) /\ Len(a) \in Nat /\ Len(Append(a, t)) = Len(a) + 1
         /\ \A i \in 1..Len(a) : Append(a, t)[i] = a[i] /\ a[i] \in Nat
         /\ Append(a, t)[Len(a) + 1] = t
  BY AppendProperties, ElementOfSeq, LenProperties

----------------------------------------------------------------------------
(* Time passes, also past the end of the window.                           *)
LEMMA WindowPasses ==
  ASSUME NEW a, NEW h, NEW t \in Nat, AdmittedInWindows(a, h, t)
  PROVE  AdmittedInWindows(a, h, t + 1)
  <1>1. /\ a \in Seq(Nat) /\ h \in [count: Nat, resetAt: Int]
        /\ Len(a) \in Nat /\ \A i \in 1..Len(a) : a[i] \in Nat
        /\ HeldBy(h) \in Nat /\ HeldBy(h) <= MaxHits
        /\ h.resetAt \in Int
    BY Numbers, ElementOfSeq, LenProperties DEF AdmittedInWindows, HeldBy
  <1>2. \A i \in 1..Len(a) : a[i] <= t + 1
    BY <1>1 DEF AdmittedInWindows
  <1>3. CASE OpenWindow(a, h, t) /\ t + 1 < h.resetAt
    <2>1. h.resetAt <= t + HitWindow
      BY <1>3 DEF OpenWindow
    <2>2. h.resetAt <= t + 1 + HitWindow
      BY <1>1, <2>1, Numbers
    <2>3. OpenWindow(a, h, t + 1)
      BY <1>3, <2>2 DEF OpenWindow
    <2> QED BY <1>2, <2>3 DEF AdmittedInWindows
  <1>4. CASE OpenWindow(a, h, t) /\ ~(t + 1 < h.resetAt)
    <2>1. \A i \in 1..(Len(a) - MaxHits) : i \in 1..(Len(a) - HeldBy(h))
      BY <1>1, Numbers
    <2>2. \A i \in 1..(Len(a) - MaxHits) : a[i] + HitWindow <= h.resetAt
      BY <1>4, <2>1 DEF OpenWindow
    <2>3. h.resetAt <= t + 1
      BY <1>1, <1>4
    <2>4. \A i \in 1..(Len(a) - MaxHits) : i \in 1..Len(a)
      BY <1>1, Numbers
    <2>5. ASSUME NEW i \in 1..(Len(a) - MaxHits) PROVE a[i] + HitWindow <= t + 1
      <3>1. a[i] \in Nat /\ a[i] + HitWindow <= h.resetAt /\ h.resetAt \in Int
        BY <1>1, <2>2, <2>4
      <3> QED BY <2>3, <3>1, Numbers
    <2>6. NoOpenWindow(a, h, t + 1)
      BY <2>3, <2>5 DEF NoOpenWindow
    <2> QED BY <1>2, <2>6 DEF AdmittedInWindows
  <1>5. CASE NoOpenWindow(a, h, t)
    <2>1. \A i \in 1..(Len(a) - MaxHits) : i \in 1..Len(a)
      BY <1>1, Numbers
    <2>2. h.resetAt <= t /\ \A i \in 1..(Len(a) - MaxHits) : a[i] + HitWindow <= t
      BY <1>5 DEF NoOpenWindow
    <2>3. ASSUME NEW i \in 1..(Len(a) - MaxHits) PROVE a[i] + HitWindow <= t + 1
      <3>1. a[i] \in Nat /\ a[i] + HitWindow <= t
        BY <1>1, <2>1, <2>2
      <3> QED BY <3>1, Numbers
    <2>4. h.resetAt <= t + 1
      BY <1>1, <2>2
    <2>5. NoOpenWindow(a, h, t + 1)
      BY <2>3, <2>4 DEF NoOpenWindow
    <2> QED BY <1>2, <2>5 DEF AdmittedInWindows
  <1> QED BY <1>3, <1>4, <1>5 DEF AdmittedInWindows

(* A window that is over may be forgotten.                                 *)
LEMMA WindowForgotten ==
  ASSUME NEW a, NEW h, NEW t \in Nat, AdmittedInWindows(a, h, t), h.resetAt <= t
  PROVE  AdmittedInWindows(a, NoWindow, t)
  <1>1. h.resetAt \in Int /\ ~OpenWindow(a, h, t)
    BY DEF AdmittedInWindows, OpenWindow
  <1>2. NoOpenWindow(a, NoWindow, t)
    BY <1>1, Numbers DEF AdmittedInWindows, NoOpenWindow, NoWindow
  <1> QED BY <1>2, Numbers DEF AdmittedInWindows, NoWindow

(* A hit: the request is admitted, or refused in a window that is open.    *)
LEMMA WindowHit ==
  ASSUME NEW a, NEW h, clock \in Nat, AdmittedInWindows(a, h, clock)
  PROVE  /\ Counted(h) \in [count: Nat, resetAt: Int]
         /\ clock < Counted(h).resetAt /\ Counted(h).resetAt <= clock + HitWindow
         /\ Counted(h).count <= MaxHits => AdmittedInWindows(Append(a, clock), Counted(h), clock)
         /\ Counted(h).count > MaxHits  => AdmittedInWindows(a, Counted(h), clock)
         /\ Counted(h).count > MaxHits  => h.resetAt > clock /\ Counted(h).resetAt = h.resetAt
  <1> DEFINE c == Counted(h)
             n == Len(a)
             b == Append(a, clock)
  <1>1. /\ a \in Seq(Nat) /\ h \in [count: Nat, resetAt: Int] /\ h.count \in Nat /\ h.resetAt \in Int
        /\ n \in Nat /\ \A i \in 1..n : a[i] \in Nat
        /\ \A i \in 1..n : a[i] <= clock
    BY ElementOfSeq, LenProperties DEF AdmittedInWindows
  <1>5. \A i, j \in 1..n : j - i >= 2 * MaxHits => a[j] - a[i] >= HitWindow
    BY DEF AdmittedInWindows
  <1>2. /\ b \in Seq(Nat) /\ Len(b) = n + 1 /\ b[n + 1] = clock
        /\ \A i \in 1..n : b[i] = a[i]
    BY <1>1, Appended
  <1> HIDE DEF b, n
  <1>3. CASE h.resetAt <= clock
    <2>1. c = [count |-> 1, resetAt |-> clock + HitWindow]
      BY <1>3 DEF Counted
    <2>2. /\ c \in [count: Nat, resetAt: Int] /\ c.count = 1 /\ c.resetAt = clock + HitWindow
          /\ HeldBy(c) = 1
      BY <2>1, Numbers DEF HeldBy
    <2> HIDE DEF c
    <2>3. \A i \in 1..(n - MaxHits) : a[i] + HitWindow <= clock
      BY <1>1, <1>3 DEF AdmittedInWindows, OpenWindow, NoOpenWindow, n
    <2>4. OpenWindow(b, c, clock)
      <3>1. ASSUME NEW i \in 1..n PROVE b[i] + HitWindow <= c.resetAt
        <4>1. b[i] = a[i] /\ a[i] \in Nat /\ a[i] <= clock
          BY <1>1, <1>2
        <4> QED BY <2>2, <4>1, Numbers
      <3>2. \A i \in (n + 1)..(n + 1) : c.resetAt <= b[i] + HitWindow
        BY <1>1, <1>2, <2>2, Numbers
      <3>3. \A i \in 1..(n - MaxHits) : i \in 1..n
        BY <1>1, Numbers
      <3>4. ASSUME NEW i \in 1..(n - MaxHits) PROVE b[i] + 2 * HitWindow <= c.resetAt
        <4>1. b[i] = a[i] /\ a[i] \in Nat /\ a[i] + HitWindow <= clock
          BY <1>1, <1>2, <2>3, <3>3
        <4> QED BY <2>2, <4>1, Numbers
      <3> QED BY <1>1, <1>2, <2>2, <3>1, <3>2, <3>4, Numbers DEF OpenWindow
    <2>5. \A i \in 1..(n + 1) : i \in 1..n \/ i = n + 1
      BY <1>1
    <2>6. \A i \in 1..(n + 1) : b[i] <= clock
      BY <1>1, <1>2, <2>5
    <2>7. ASSUME NEW i \in 1..(n + 1), NEW j \in 1..(n + 1), j - i >= 2 * MaxHits
          PROVE  b[j] - b[i] >= HitWindow
      <3>1. i \in 1..(n - MaxHits) /\ i \in 1..n
        BY <1>1, <2>7, Numbers
      <3>2. CASE j = n + 1
        BY <1>1, <1>2, <2>3, <3>1, <3>2, Numbers
      <3>3. CASE j # n + 1
        BY <1>1, <1>2, <1>5, <2>5, <2>7, <3>1, <3>3
      <3> QED BY <3>2, <3>3
    <2>8. AdmittedInWindows(b, c, clock)
      BY <1>2, <2>2, <2>4, <2>6, <2>7 DEF AdmittedInWindows
    <2> QED BY <2>2, <2>8, Numbers DEF b, c
  <1>4. CASE ~(h.resetAt <= clock)
    <2>1. c = [h EXCEPT !.count = @ + 1]
      BY <1>4 DEF Counted
    <2>2. /\ c \in [count: Nat, resetAt: Int] /\ c.count = h.count + 1 /\ c.resetAt = h.resetAt
          /\ h.resetAt > clock
      BY <1>1, <1>4, <2>1
    <2> HIDE DEF c
    <2>3. OpenWindow(a, h, clock)
      BY <1>1, <2>2 DEF AdmittedInWindows, NoOpenWindow
    <2>4. CASE c.count > MaxHits
      <3>1. HeldBy(c) = HeldBy(h)
        BY <1>1, <2>2, <2>4, Numbers DEF HeldBy
      <3>2. OpenWindow(a, c, clock)
        BY <2>2, <2>3, <3>1 DEF OpenWindow
      <3>3. AdmittedInWindows(a, c, clock)
        BY <1>1, <1>5, <2>2, <3>2 DEF AdmittedInWindows, n
      <3> QED BY <1>1, <2>2, <2>3, <2>4, <3>3, Numbers DEF c, OpenWindow
    <2>5. CASE c.count <= MaxHits
      <3> DEFINE old == n - h.count
      <3>1. /\ HeldBy(h) = h.count /\ HeldBy(c) = h.count + 1
            /\ Len(b) - HeldBy(c) = old /\ n - HeldBy(h) = old /\ old \in Int /\ h.count < MaxHits
        BY <1>1, <1>2, <2>2, <2>5, Numbers DEF HeldBy
      <3>2. /\ 0 <= old
            /\ \A i \in 1..old : a[i] + HitWindow <= h.resetAt
            /\ \A i \in (old + 1)..n : h.resetAt <= a[i] + HitWindow
            /\ \A i \in 1..(old - MaxHits) : a[i] + 2 * HitWindow <= h.resetAt
            /\ h.resetAt <= clock + HitWindow
        BY <2>3, <3>1 DEF OpenWindow, n
      <3>3. /\ \A i \in 1..old : i \in 1..n
            /\ \A i \in 1..(old - MaxHits) : i \in 1..n
            /\ \A i \in (old + 1)..(n + 1) : i \in (old + 1)..n \/ i = n + 1
            /\ \A i \in (old + 1)..n : i \in 1..n
            /\ \A i \in 1..(n + 1) : i \in 1..n \/ i = n + 1
        <4>1. n \in Nat /\ old \in Int /\ 0 <= old /\ old <= n /\ MaxHits \in Nat
          BY <1>1, <3>1, <3>2, Numbers
        <4> HIDE DEF old
        <4> QED BY <4>1
      <3>4. \A i \in (old + 1)..(n + 1) : c.resetAt <= b[i] + HitWindow
        BY <1>1, <1>2, <2>2, <3>2, <3>3
      <3>5. \A i \in 1..old : b[i] + HitWindow <= c.resetAt
        BY <1>1, <1>2, <2>2, <3>2, <3>3
      <3>6. \A i \in 1..(old - MaxHits) : b[i] + 2 * HitWindow <= c.resetAt
        BY <1>1, <1>2, <2>2, <3>2, <3>3
      <3>7. OpenWindow(b, c, clock)
        BY <1>2, <2>2, <3>1, <3>2, <3>4, <3>5, <3>6 DEF OpenWindow
      <3>8. ASSUME NEW i \in 1..(n + 1) PROVE b[i] <= clock
        <4>1. CASE i = n + 1
          BY <1>2, <4>1
        <4>2. CASE i # n + 1
          BY <1>1, <1>2, <3>3, <4>2
        <4> QED BY <4>1, <4>2
      <3>9. ASSUME NEW i \in 1..(n + 1), NEW j \in 1..(n + 1), j - i >= 2 * MaxHits
            PROVE  b[j] - b[i] >= HitWindow
        <4>1. i \in 1..n
          BY <1>1, <3>9, Numbers
        <4>2. CASE j = n + 1
          <5>1. i \in 1..(old - MaxHits)
            BY <1>1, <3>1, <3>9, <4>2, Numbers
          <5>2. a[i] + 2 * HitWindow <= h.resetAt
            BY <3>2, <5>1
          <5>3. b[j] = clock /\ b[i] = a[i] /\ a[i] \in Int /\ h.resetAt \in Int /\ clock \in Int
            BY <1>1, <1>2, <4>1, <4>2
          <5>4. h.resetAt <= clock + HitWindow
            BY <3>2
          <5> QED BY <5>2, <5>3, <5>4, Numbers
        <4>3. CASE j # n + 1
          BY <1>1, <1>2, <1>5, <3>3, <3>9, <4>1, <4>3
        <4> QED BY <4>2, <4>3
      <3>10. AdmittedInWindows(b, c, clock)
        BY <1>2, <2>2, <3>7, <3>8, <3>9 DEF AdmittedInWindows
      <3> QED BY <1>1, <2>2, <2>5, <3>2, <3>10, Numbers DEF b, c
    <2> QED BY <1>1, <2>2, <2>4, <2>5, Numbers
  <1> QED BY <1>1, <1>3, <1>4

(* Retry-After reaches the end of the window.                              *)
LEMMA RetryReaches ==
  ASSUME NEW h, h.resetAt \in Int, clock \in Nat, clock < h.resetAt
  PROVE  /\ clock + RetryAfterSec(h) * Second \in Nat
         /\ h.resetAt <= clock + RetryAfterSec(h) * Second
  <1> DEFINE d == h.resetAt - clock + Second - 1
             q == d \div Second
             w == RetryAfterSec(h)
  <1>1. d \in Nat /\ Second \in Nat /\ Second >= 1 /\ h.resetAt - clock \in Int
    BY Numbers
  <1>2. d \in Int /\ d = h.resetAt - clock + Second - 1
    BY <1>1
  <1> HIDE DEF d
  <1>3. q \in Int /\ d = Second * q + (d % Second) /\ d % Second \in 0..(Second - 1)
    BY <1>1, <1>2
  <1>4. h.resetAt - clock <= Second * q
    <2> DEFINE p == Second * q
               r == d % Second
    <2>1. p \in Int /\ r \in 0..(Second - 1) /\ d = p + r
      BY <1>1, <1>3
    <2> HIDE DEF p, r
    <2>2. h.resetAt - clock <= p
      BY <1>1, <1>2, <2>1
    <2> QED BY <2>2 DEF p
  <1>5. w = Max({1, q})
    BY DEF RetryAfterSec, d
  <1>6. w \in Int /\ w >= 1 /\ w >= q
    BY <1>3, <1>5, MaxOfTwo
  <1> HIDE DEF q, w
  <1>7. Second * q <= Second * w /\ Second * w >= 0 /\ w * Second = Second * w /\ Second * w \in Int
    BY <1>1, <1>3, <1>6
  <1>8. h.resetAt <= clock + w * Second /\ clock + w * Second \in Nat
    BY <1>1, <1>3, <1>4, <1>7
  <1> QED BY <1>8 DEF w

(* Pruning forgets no window that is open.                                 *)
LEMMA Pruned ==
  ASSUME RateInv, clock \in Nat, NEW u \in Owners
  PROVE  /\ Prune[u] \in [count: Nat, resetAt: Int]
         /\ AdmittedInWindows(admitted[u], Prune[u], clock)
         /\ Prune[u] = hits[u] \/ Prune[u].resetAt = LongAgo
  <1>1. hits[u] \in [count: Nat, resetAt: Int] /\ AdmittedInWindows(admitted[u], hits[u], clock)
    BY DEF RateInv
  <1>2. CASE Prune[u] = hits[u]
    BY <1>1, <1>2
  <1>3. CASE Prune[u] = NoWindow /\ hits[u].resetAt <= clock
    <2>1. AdmittedInWindows(admitted[u], NoWindow, clock)
      BY <1>1, <1>3, WindowForgotten
    <2> QED BY <1>3, <2>1, Numbers DEF NoWindow
  <1>4. Prune[u] = hits[u] \/ (Prune[u] = NoWindow /\ hits[u].resetAt <= clock)
    BY DEF Prune, RateInv
  <1> QED BY <1>2, <1>3, <1>4

LEMMA HitStep ==
  ASSUME RateInv, clock \in Nat, NEW k \in Owners, Hit(k)
  PROVE  RateInv'
  <1> DEFINE h == Counted(Prune[k])
  <1>1. /\ hits' = [Prune EXCEPT ![k] = h]
        /\ lastPrune' = IF clock - lastPrune < HitWindow THEN lastPrune ELSE clock
        /\ admitted' = IF h.count <= MaxHits THEN [admitted EXCEPT ![k] = Append(@, clock)] ELSE admitted
        /\ comeBack' = [comeBack EXCEPT ![k] = IF h.count <= MaxHits THEN {} ELSE {clock + RetryAfterSec(h) * Second}]
        /\ refusedAgain' = (refusedAgain \/ (~(h.count <= MaxHits) /\ \E t \in comeBack[k] : t <= clock))
        /\ clock' = clock
    BY DEF Hit
  <1>2. /\ hits \in [Owners -> [count: Nat, resetAt: Int]]
        /\ admitted \in [Owners -> Seq(Nat)] /\ comeBack \in [Owners -> SUBSET Nat]
        /\ lastPrune \in Int /\ refusedAgain = FALSE
        /\ \A u \in Owners : AdmittedInWindows(admitted[u], hits[u], clock)
        /\ \A u \in Owners : \A t \in comeBack[u] : hits[u].resetAt <= t
    BY DEF RateInv
  <1>3. /\ h \in [count: Nat, resetAt: Int] /\ h.count \in Nat /\ h.resetAt \in Int
        /\ clock < h.resetAt
        /\ h.count <= MaxHits => AdmittedInWindows(Append(admitted[k], clock), h, clock)
        /\ h.count > MaxHits  => AdmittedInWindows(admitted[k], h, clock)
        /\ h.count > MaxHits  => Prune[k].resetAt > clock /\ h.resetAt = Prune[k].resetAt
    <2>1. AdmittedInWindows(admitted[k], Prune[k], clock)
      BY Pruned
    <2>2. /\ Counted(Prune[k]) \in [count: Nat, resetAt: Int]
          /\ clock < Counted(Prune[k]).resetAt
      BY <2>1, WindowHit
    <2> QED BY <2>1, <2>2, WindowHit
  <1> HIDE DEF h
  <1>4. hits' \in [Owners -> [count: Nat, resetAt: Int]] /\ hits'[k] = h
        /\ \A u \in Owners \ {k} : hits'[u] = Prune[u]
    <2>1. Prune \in [Owners -> [count: Nat, resetAt: Int]]
      BY Pruned, <1>2 DEF Prune
    <2> QED BY <1>1, <1>3, <2>1
  <1>5. /\ admitted' \in [Owners -> Seq(Nat)]
        /\ \A u \in Owners : AdmittedInWindows(admitted'[u], hits'[u], clock')
    <2>1. Append(admitted[k], clock) \in Seq(Nat)
      BY <1>2, Appended
    <2>2. ASSUME NEW u \in Owners \ {k} PROVE AdmittedInWindows(admitted'[u], hits'[u], clock')
      <3>1. admitted'[u] = admitted[u]
        BY <1>1, <1>2
      <3> QED BY <1>1, <1>4, <3>1, Pruned
    <2>3. AdmittedInWindows(admitted'[k], hits'[k], clock')
      <3>1. CASE h.count <= MaxHits
        BY <1>1, <1>2, <1>3, <1>4, <3>1
      <3>2. CASE ~(h.count <= MaxHits)
        BY <1>1, <1>2, <1>3, <1>4, <3>2, Numbers
      <3> QED BY <3>1, <3>2
    <2>4. admitted' \in [Owners -> Seq(Nat)]
      BY <1>1, <1>2, <2>1
    <2> QED BY <2>2, <2>3, <2>4
  <1>6. /\ comeBack' \in [Owners -> SUBSET Nat]
        /\ \A u \in Owners : \A t \in comeBack'[u] : hits'[u].resetAt <= t
    <2>1. /\ clock + RetryAfterSec(h) * Second \in Nat
          /\ h.resetAt <= clock + RetryAfterSec(h) * Second
      BY <1>3, RetryReaches
    <2>2. ASSUME NEW u \in Owners \ {k}, NEW t \in comeBack'[u] PROVE hits'[u].resetAt <= t
      <3>1. comeBack'[u] = comeBack[u] /\ t \in Nat
        BY <1>1, <1>2
      <3>2. Prune[u] = hits[u] \/ Prune[u].resetAt = LongAgo
        BY Pruned
      <3> QED BY <1>2, <1>4, <3>1, <3>2, Numbers
    <2>3. comeBack' \in [Owners -> SUBSET Nat]
      BY <1>1, <1>2, <2>1
    <2>4. \A t \in comeBack'[k] : t = clock + RetryAfterSec(h) * Second
      BY <1>1, <1>2
    <2>5. \A t \in comeBack'[k] : hits'[k].resetAt <= t
      BY <1>4, <2>1, <2>4
    <2> QED BY <2>2, <2>3, <2>5
  <1>7. ~refusedAgain'
    <2>1. SUFFICES ASSUME ~(h.count <= MaxHits), NEW t \in comeBack[k], t <= clock PROVE FALSE
      BY <1>1, <1>2
    <2>2. Prune[k].resetAt > clock /\ t \in Nat /\ hits[k].resetAt <= t /\ hits[k].resetAt \in Int
      BY <1>2, <1>3, <2>1, Numbers
    <2>3. Prune[k] = hits[k] \/ Prune[k].resetAt = LongAgo
      BY Pruned
    <2> QED BY <2>1, <2>2, <2>3, Numbers
  <1>8. lastPrune' \in Int
    BY <1>1, <1>2
  <1> QED BY <1>4, <1>5, <1>6, <1>7, <1>8 DEF RateInv

LEMMA RateStep ==
  ASSUME RateInv, clock \in Nat, [LimitersNext]_limiterVars
  PROVE  RateInv' /\ clock' \in Nat
  <1>1. ASSUME NEW k \in Owners, Hit(k) PROVE RateInv' /\ clock' \in Nat
    BY <1>1, HitStep DEF Hit
  <1>2. CASE UNCHANGED rateVars /\ clock' = clock
    BY <1>2 DEF RateInv, rateVars
  <1>3. CASE ClockTicks
    <2>1. clock' = clock + 1 /\ UNCHANGED rateVars
      BY <1>3 DEF ClockTicks
    <2>2. \A k \in Owners : AdmittedInWindows(admitted[k], hits[k], clock + 1)
      BY WindowPasses DEF RateInv
    <2> QED BY <2>1, <2>2 DEF RateInv, rateVars
  <1>4. [LimitersNext]_limiterVars =>
            (\E k \in Owners : Hit(k)) \/ ClockTicks \/ (UNCHANGED rateVars /\ clock' = clock)
    BY DEF LimitersNext, RateNext, PlacesNext, MonitorNext, RunTask, TaskEnds, LimitChanges, Refusal,
           limiterVars
  <1> QED BY <1>1, <1>2, <1>3, <1>4

LEMMA RateStart == LimitersInit => RateInv /\ clock \in Nat
  <1> SUFFICES ASSUME LimitersInit PROVE RateInv /\ clock \in Nat
    OBVIOUS
  <1>1. /\ clock = 0 /\ hits = [k \in Owners |-> NoWindow] /\ lastPrune = LongAgo
        /\ admitted = [k \in Owners |-> <<>>] /\ comeBack = [k \in Owners |-> {}]
        /\ refusedAgain = FALSE
    BY DEF LimitersInit
  <1>2. NoWindow \in [count: Nat, resetAt: Int] /\ NoWindow.resetAt <= 0
    BY Numbers DEF NoWindow
  <1>3. << >> \in Seq(Nat) /\ Len(<< >>) = 0
    BY EmptySeq
  <1>4. AdmittedInWindows(<< >>, NoWindow, 0)
    BY <1>2, <1>3, Numbers DEF AdmittedInWindows, NoOpenWindow
  <1> QED BY <1>1, <1>2, <1>3, <1>4, Numbers DEF RateInv

----------------------------------------------------------------------------
(* The places of a provider.                                               *)
Queue == [concurrency: Nat, waiting: Seq(Tasks), running: SUBSET Tasks]

(* A task waits once, and does not run meanwhile.                          *)
WaitsOnce(q) ==
    /\ \A i \in 1..Len(q.waiting) : q.waiting[i] \notin q.running
    /\ \A i, j \in 1..Len(q.waiting) : q.waiting[i] = q.waiting[j] => i = j

NoFreePlace(q) == q.waiting # <<>> => Cardinality(q.running) >= q.concurrency

QueueIsTasks ==
    /\ queue \in Queue /\ WaitsOnce(queue) /\ NoFreePlace(queue)
    /\ task \in [Tasks -> {"idle", "waiting", "calling", "unlimited"}]
    /\ \A t \in Tasks : task[t] = "calling" <=> t \in queue.running
    /\ \A i \in 1..Len(queue.waiting) : task[queue.waiting[i]] = "waiting"

PlacesInv ==
    /\ QueueIsTasks
    /\ limit \in ProviderLimits \cup {NoLimit}
    /\ asked = queue.concurrency

(* The first n of a sequence without repetitions are n.                    *)
LEMMA FirstOnes ==
  ASSUME NEW w \in Seq(Tasks), NEW n \in 0..Len(w),
         \A i, j \in 1..Len(w) : w[i] = w[j] => i = j
  PROVE  /\ Cardinality({w[i] : i \in 1..n}) = n
         /\ {w[i] : i \in 1..n} \in SUBSET Tasks
  <1> DEFINE S == {w[i] : i \in 1..n}
             f == [i \in 1..n |-> w[i]]
  <1>1. n \in Nat /\ Len(w) \in Nat /\ \A i \in 1..n : i \in 1..Len(w) /\ w[i] \in Tasks
    BY ElementOfSeq, LenProperties
  <1>2. f \in [1..n -> S]
    OBVIOUS
  <1>3. \A i, j \in 1..n : f[i] = f[j] => i = j
    BY <1>1
  <1>4. \A x \in S : \E i \in 1..n : f[i] = x
    OBVIOUS
  <1>5. f \in Bijection(1..n, S)
    <2> HIDE DEF f, S
    <2> QED BY <1>2, <1>3, <1>4 DEF Bijection, Injection, Surjection, IsInjective
  <1>6. Cardinality(S) = n
    <2> HIDE DEF f, S
    <2> QED BY <1>1, <1>5, FS_CountingElements DEF ExistsBijection
  <1>7. S \in SUBSET Tasks
    BY <1>1
  <1> QED BY <1>6, <1>7

(* What is left of a sequence without its first o elements.                *)
LEMMA TailOf ==
  ASSUME NEW V, NEW s \in Seq(V), NEW o \in 0..Len(s)
  PROVE  LET rest == SubSeq(s, o + 1, Len(s))
         IN  /\ rest \in Seq(V) /\ Len(rest) = Len(s) - o
             /\ \A i \in 1..(Len(s) - o) : rest[i] = s[i + o]
  <1> DEFINE l == Len(s)
             b == o + 1
             rest == SubSeq(s, b, l)
  <1>1. l \in Nat /\ o \in Nat /\ o <= l /\ b \in Nat
    BY LenProperties
  <1>2. \A i \in b..l : i \in 1..l /\ s[i] \in V
    <2>1. \A i \in b..l : i \in 1..l
      BY <1>1
    <2> QED BY <2>1, ElementOfSeq
  <1>3. b \in 1..(l + 1)
    BY <1>1
  <1> HIDE DEF b, l
  <1>4. /\ rest \in Seq(V) /\ Len(rest) = IF b <= l THEN l - b + 1 ELSE 0
        /\ \A i \in 1..(l - b + 1) : rest[i] = s[b + i - 1]
    BY <1>1, <1>2, <1>3, SubSeqProperties
  <1>5. Len(rest) = l - o /\ l - b + 1 = l - o
    BY <1>1, <1>4 DEF b
  <1>6. ASSUME NEW i \in 1..(l - o) PROVE rest[i] = s[i + o]
    <2>1. b + i - 1 = i + o
      BY <1>1 DEF b
    <2> QED BY <1>4, <1>5, <2>1
  <1> QED BY <1>4, <1>5, <1>6 DEF b, l

(* p-queue starts the oldest tasks, as many as it has places for.          *)
LEMMA FilledStarts ==
  ASSUME NEW q \in Queue, WaitsOnce(q)
  PROVE  /\ Filled(q) \in Queue /\ WaitsOnce(Filled(q)) /\ NoFreePlace(Filled(q))
         /\ Filled(q).concurrency = q.concurrency
         /\ q.running \subseteq Filled(q).running
         /\ \E n \in 0..Len(q.waiting) :
               /\ Len(Filled(q).waiting) = Len(q.waiting) - n
               /\ \A i \in 1..(Len(q.waiting) - n) : Filled(q).waiting[i] = q.waiting[i + n]
               /\ Filled(q).running = q.running \cup {q.waiting[i] : i \in 1..n}
  <1> DEFINE w == q.waiting
             r == q.running
             c == q.concurrency
             free == Max({0, c - Cardinality(r)})
             n == Min({Len(w), free})
             S == {w[i] : i \in 1..n}
             f == Filled(q)
             v == SubSeq(w, n + 1, Len(w))
  <1>1. w \in Seq(Tasks) /\ r \in SUBSET Tasks /\ c \in Nat
    BY DEF Queue
  <1>2. Len(w) \in Nat /\ \A i \in 1..Len(w) : w[i] \in Tasks
    BY <1>1, ElementOfSeq, LenProperties
  <1>3. IsFiniteSet(r) /\ Cardinality(r) \in Nat
    BY <1>1, LimitersAssumption, FS_Subset, FS_CardinalityType
  <1>4. free \in Nat /\ free >= c - Cardinality(r)
    BY <1>1, <1>3, MaxOfTwo
  <1> HIDE DEF free
  <1>5. n \in 0..Len(w) /\ (n = Len(w) \/ n = free)
    BY <1>2, <1>4, MinOfTwo
  <1>6. f = [concurrency |-> c, waiting |-> v, running |-> r \cup Range(SubSeq(w, 1, n))]
    <2> DEFINE g == r \cup Range(SubSeq(w, 1, n))
    <2>1. f = [q EXCEPT !.waiting = v, !.running = g]
      BY DEF Filled, free
    <2> HIDE DEF f, v, g
    <2>2. f = [concurrency |-> c, waiting |-> v, running |-> g]
      BY <2>1 DEF Queue
    <2> QED BY <2>2 DEF g
  <1> HIDE DEF n
  <1>7. /\ v \in Seq(Tasks) /\ Len(v) = Len(w) - n
        /\ \A i \in 1..(Len(w) - n) : v[i] = w[i + n]
    BY <1>1, <1>5, TailOf
  <1>8. Range(SubSeq(w, 1, n)) = S
    <2> DEFINE u == SubSeq(w, 1, n)
    <2>1. \A i \in 1..n : w[i] \in Tasks
      BY <1>2, <1>5
    <2>2. /\ u \in Seq(Tasks) /\ Len(u) = IF 1 <= n THEN n - 1 + 1 ELSE 0
          /\ \A i \in 1..(n - 1 + 1) : u[i] = w[1 + i - 1]
      BY <1>2, <1>5, <2>1, SubSeqProperties
    <2>3. DOMAIN u = 1..n /\ \A i \in 1..n : u[i] = w[i]
      <3>1. n \in Nat
        BY <1>2, <1>5
      <3>2. Len(u) = n /\ DOMAIN u = 1..Len(u)
        BY <2>2, <3>1, LenProperties
      <3> QED BY <2>2, <3>1, <3>2
    <2> HIDE DEF u
    <2>4. Range(u) = S
      BY <2>3 DEF Range
    <2> QED BY <2>4 DEF u
  <1> HIDE DEF v
  <1>9. Cardinality(S) = n /\ S \in SUBSET Tasks
    BY <1>1, <1>5, FirstOnes DEF WaitsOnce
  <1>10. S \cap r = {}
    BY <1>2, <1>5 DEF WaitsOnce
  <1> HIDE DEF S
  <1>11. Cardinality(r \cup S) = Cardinality(r) + n
    <2>1. IsFiniteSet(S)
      BY <1>9, LimitersAssumption, FS_Subset
    <2>2. Cardinality(r \cup S) = Cardinality(r) + Cardinality(S) - Cardinality(r \cap S)
      BY <1>3, <2>1, FS_Union
    <2>3. r \cap S = {} /\ Cardinality({}) = 0
      BY <1>10, FS_EmptySet
    <2>4. Cardinality(r \cap S) = 0
      BY <2>3
    <2> QED BY <1>2, <1>3, <1>5, <1>9, <2>2, <2>4
  <1>12. /\ f.concurrency = c /\ f.waiting = v /\ f.running = r \cup S /\ f \in Queue
    BY <1>1, <1>6, <1>7, <1>8, <1>9 DEF Queue
  <1> HIDE DEF f
  <1>13. ASSUME f.waiting # <<>> PROVE Cardinality(f.running) >= f.concurrency
    <2>1. Len(v) # 0
      BY <1>7, <1>12, <1>13, EmptySeq
    <2>2. n = free
      BY <1>2, <1>5, <1>7, <2>1
    <2> QED BY <1>1, <1>3, <1>4, <1>11, <1>12, <2>2
  <1>14. WaitsOnce(f)
    <2>1. \A i \in 1..(Len(w) - n) : i + n \in 1..Len(w) /\ ~(i + n \in 1..n)
      BY <1>2, <1>5
    <2>2. ASSUME NEW i \in 1..Len(v) PROVE v[i] \notin r \cup S
      <3>1. v[i] = w[i + n] /\ i + n \in 1..Len(w) /\ ~(i + n \in 1..n)
        BY <1>7, <2>1, <2>2
      <3>2. \A j \in 1..n : j \in 1..Len(w)
        BY <1>2, <1>5
      <3>3. v[i] \notin S
        BY <3>1, <3>2 DEF WaitsOnce, S
      <3> QED BY <3>1, <3>3 DEF WaitsOnce
    <2>3. ASSUME NEW i \in 1..Len(v), NEW j \in 1..Len(v), v[i] = v[j] PROVE i = j
      <3>1. i + n = j + n
        BY <1>7, <2>1, <2>3 DEF WaitsOnce
      <3> QED BY <1>2, <1>5, <1>7, <3>1
    <2> QED BY <1>12, <2>2, <2>3 DEF WaitsOnce
  <1>15. \E m \in 0..Len(w) :
               /\ Len(f.waiting) = Len(w) - m
               /\ \A i \in 1..(Len(w) - m) : f.waiting[i] = w[i + m]
               /\ f.running = r \cup {w[i] : i \in 1..m}
    BY <1>5, <1>7, <1>12 DEF S
  <1>16. NoFreePlace(f) /\ r \subseteq f.running
    BY <1>12, <1>13 DEF NoFreePlace
  <1> QED BY <1>12, <1>14, <1>15, <1>16 DEF f

(* A request calls its provider, at once or when a place is free.          *)
LEMMA RunStep ==
  ASSUME PlacesInv, NEW t \in Tasks, RunTask(t)
  PROVE  PlacesInv'
  <1> DEFINE w == queue.waiting
             q0 == [concurrency |-> limit, waiting |-> Append(w, t), running |-> queue.running]
             q == Filled(q0)
  <1>1. /\ queue \in Queue /\ WaitsOnce(queue) /\ NoFreePlace(queue)
        /\ task \in [Tasks -> {"idle", "waiting", "calling", "unlimited"}]
        /\ \A u \in Tasks : task[u] = "calling" <=> u \in queue.running
        /\ \A i \in 1..Len(w) : task[w[i]] = "waiting"
        /\ limit \in ProviderLimits \cup {NoLimit} /\ asked = queue.concurrency
        /\ limit' = limit /\ task[t] = "idle"
    BY DEF PlacesInv, QueueIsTasks, RunTask
  <1>2. w \in Seq(Tasks) /\ queue.running \in SUBSET Tasks /\ Len(w) \in Nat
        /\ \A i \in 1..Len(w) : w[i] \in Tasks
    BY <1>1, ElementOfSeq, LenProperties DEF Queue
  <1>3. CASE limit = NoLimit
    <2>1. task' = [task EXCEPT ![t] = "unlimited"] /\ queue' = queue /\ asked' = asked
      BY <1>3 DEF RunTask
    <2>2. \A i \in 1..Len(w) : w[i] # t
      BY <1>1
    <2>3. \A u \in Tasks : task'[u] = "calling" <=> u \in queue.running
      BY <1>1, <2>1
    <2>4. \A i \in 1..Len(w) : task'[w[i]] = "waiting"
      BY <1>1, <1>2, <2>1, <2>2
    <2>5. task' \in [Tasks -> {"idle", "waiting", "calling", "unlimited"}]
      BY <1>1, <2>1
    <2>6. QueueIsTasks'
      BY <1>1, <2>1, <2>3, <2>4, <2>5 DEF QueueIsTasks
    <2> QED BY <1>1, <2>1, <2>6 DEF PlacesInv
  <1>4. CASE limit # NoLimit
    <2>1. limit \in Nat
      BY <1>1, <1>4, LimitersAssumption
    <2>2. [Adopted(queue) EXCEPT !.waiting = Append(@, t)] = q0
      <3>1. queue = [concurrency |-> queue.concurrency, waiting |-> w, running |-> queue.running]
        BY <1>1 DEF Queue
      <3>2. Adopted(queue) = [concurrency |-> limit, waiting |-> w, running |-> queue.running]
        BY <3>1 DEF Adopted
      <3> QED BY <3>2
    <2>3. /\ queue' = q /\ asked' = limit
          /\ task' = [u \in Tasks |-> IF u \in q.running THEN "calling"
                                      ELSE IF u = t THEN "waiting" ELSE task[u]]
      <3> HIDE DEF q0
      <3> QED BY <1>4, <2>2 DEF RunTask
    <2>4. /\ Append(w, t) \in Seq(Tasks) /\ Len(Append(w, t)) = Len(w) + 1
          /\ \A i \in 1..Len(w) : Append(w, t)[i] = w[i]
          /\ Append(w, t)[Len(w) + 1] = t
      BY <1>2, AppendProperties
    <2>5. \A i \in 1..(Len(w) + 1) : i \in 1..Len(w) \/ i = Len(w) + 1
      BY <1>2
    <2>6. q0 \in Queue /\ WaitsOnce(q0)
      <3> DEFINE v == Append(w, t)
      <3>1. q0 \in Queue
        BY <1>2, <2>1, <2>4 DEF Queue
      <3> HIDE DEF v
      <3>2. ASSUME NEW i \in 1..(Len(w) + 1) PROVE v[i] \notin queue.running
        <4>1. CASE i = Len(w) + 1
          BY <1>1, <2>4, <4>1 DEF v
        <4>2. CASE i \in 1..Len(w)
          BY <1>1, <2>4, <4>2 DEF WaitsOnce, v
        <4> QED BY <2>5, <4>1, <4>2
      <3>3. \A i \in 1..Len(w) : v[i] # t
        BY <1>1, <2>4 DEF v
      <3>4. ASSUME NEW i \in 1..(Len(w) + 1), NEW j \in 1..(Len(w) + 1), v[i] = v[j]
            PROVE  i = j
        <4>1. CASE i \in 1..Len(w) /\ j \in 1..Len(w)
          BY <1>1, <2>4, <3>4, <4>1 DEF WaitsOnce, v
        <4>2. CASE i = Len(w) + 1 /\ j = Len(w) + 1
          BY <4>2
        <4>3. CASE (i \in 1..Len(w) /\ j = Len(w) + 1) \/ (j \in 1..Len(w) /\ i = Len(w) + 1)
          BY <2>4, <3>3, <3>4, <4>3 DEF v
        <4> QED BY <2>5, <4>1, <4>2, <4>3
      <3>5. Len(v) = Len(w) + 1
        BY <2>4 DEF v
      <3>6. q0.waiting = v /\ q0.running = queue.running
        BY DEF v
      <3> HIDE DEF q0
      <3>7. WaitsOnce(q0)
        BY <3>2, <3>4, <3>5, <3>6 DEF WaitsOnce
      <3> QED BY <3>1, <3>7
    <2>7. /\ q0.concurrency = limit /\ q0.running = queue.running /\ Len(q0.waiting) = Len(w) + 1
          /\ \A i \in 1..(Len(w) + 1) : q0.waiting[i] = t \/ task[q0.waiting[i]] = "waiting"
          /\ \A i \in 1..(Len(w) + 1) : q0.waiting[i] \in Tasks
      BY <1>1, <1>2, <2>4, <2>5
    <2> HIDE DEF q0
    <2>8. /\ q \in Queue /\ WaitsOnce(q) /\ NoFreePlace(q)
          /\ q.concurrency = q0.concurrency /\ q0.running \subseteq q.running
      BY <2>6, FilledStarts
    <2>9. PICK n \in 0..Len(q0.waiting) :
               /\ Len(q.waiting) = Len(q0.waiting) - n
               /\ \A i \in 1..(Len(q0.waiting) - n) : q.waiting[i] = q0.waiting[i + n]
      <3> HIDE DEF q
      <3>1. \E n \in 0..Len(q0.waiting) :
               /\ Len(q.waiting) = Len(q0.waiting) - n
               /\ \A i \in 1..(Len(q0.waiting) - n) : q.waiting[i] = q0.waiting[i + n]
               /\ q.running = q0.running \cup {q0.waiting[i] : i \in 1..n}
        BY <2>6, FilledStarts DEF q
      <3> QED BY <3>1
    <2> HIDE DEF q
    <2>10. \A u \in Tasks : task'[u] = "calling" <=> u \in q.running
      BY <1>1, <2>3, <2>7, <2>8
    <2>11. ASSUME NEW i \in 1..Len(q.waiting) PROVE task'[q.waiting[i]] = "waiting"
      <3>1. q.waiting[i] \notin q.running
        BY <2>8 DEF WaitsOnce
      <3>2. i + n \in 1..(Len(w) + 1) /\ q.waiting[i] = q0.waiting[i + n]
        BY <1>2, <2>7, <2>9
      <3> QED BY <2>3, <2>7, <3>1, <3>2
    <2>12. task' \in [Tasks -> {"idle", "waiting", "calling", "unlimited"}]
      BY <1>1, <2>3
    <2>13. QueueIsTasks'
      BY <2>3, <2>8, <2>10, <2>11, <2>12 DEF QueueIsTasks
    <2> QED BY <1>1, <2>3, <2>7, <2>8, <2>13 DEF PlacesInv
  <1> QED BY <1>3, <1>4

(* A task ends, and leaves its place to the oldest that waits.             *)
LEMMA EndStep ==
  ASSUME PlacesInv, NEW t \in Tasks, TaskEnds(t)
  PROVE  PlacesInv'
  <1> DEFINE w == queue.waiting
             q0 == [concurrency |-> queue.concurrency, waiting |-> w, running |-> queue.running \ {t}]
             q == Filled(q0)
  <1>1. /\ queue \in Queue /\ WaitsOnce(queue) /\ NoFreePlace(queue)
        /\ task \in [Tasks -> {"idle", "waiting", "calling", "unlimited"}]
        /\ \A u \in Tasks : task[u] = "calling" <=> u \in queue.running
        /\ \A i \in 1..Len(w) : task[w[i]] = "waiting"
        /\ limit \in ProviderLimits \cup {NoLimit} /\ asked = queue.concurrency
        /\ limit' = limit /\ asked' = asked /\ task[t] \in {"calling", "unlimited"}
        /\ task' = [u \in Tasks |-> IF u = t THEN "idle"
                                    ELSE IF u \in queue'.running THEN "calling" ELSE task[u]]
    BY DEF PlacesInv, QueueIsTasks, TaskEnds
  <1>2. w \in Seq(Tasks) /\ queue.running \in SUBSET Tasks /\ Len(w) \in Nat
        /\ \A i \in 1..Len(w) : w[i] \in Tasks /\ w[i] # t
    BY <1>1, ElementOfSeq, LenProperties DEF Queue
  <1>3. task' \in [Tasks -> {"idle", "waiting", "calling", "unlimited"}]
    BY <1>1
  <1>4. CASE task[t] # "calling"
    <2>1. queue' = queue
      BY <1>4 DEF TaskEnds
    <2>2. \A u \in Tasks : task'[u] = "calling" <=> u \in queue.running
      BY <1>1, <1>4, <2>1
    <2>3. \A i \in 1..Len(w) : task'[w[i]] = "waiting"
      BY <1>1, <1>2, <2>1 DEF WaitsOnce
    <2>4. QueueIsTasks'
      BY <1>1, <1>3, <2>1, <2>2, <2>3 DEF QueueIsTasks
    <2> QED BY <1>1, <2>1, <2>4 DEF PlacesInv
  <1>5. CASE task[t] = "calling"
    <2>1. [queue EXCEPT !.running = @ \ {t}] = q0
      <3>1. queue = [concurrency |-> queue.concurrency, waiting |-> w, running |-> queue.running]
        BY <1>1 DEF Queue
      <3> QED BY <3>1
    <2>2. queue' = q
      <3> HIDE DEF q0
      <3> QED BY <1>5, <2>1 DEF TaskEnds
    <2>3. q0 \in Queue /\ WaitsOnce(q0)
      BY <1>1, <1>2 DEF Queue, WaitsOnce
    <2>4. q0.waiting = w /\ q0.running = queue.running \ {t} /\ q0.concurrency = queue.concurrency
      OBVIOUS
    <2> HIDE DEF q0
    <2>5. /\ q \in Queue /\ WaitsOnce(q) /\ NoFreePlace(q)
          /\ q.concurrency = q0.concurrency /\ q0.running \subseteq q.running
      BY <2>3, FilledStarts
    <2>11. PICK n \in 0..Len(q0.waiting) :
               /\ Len(q.waiting) = Len(q0.waiting) - n
               /\ \A i \in 1..(Len(q0.waiting) - n) : q.waiting[i] = q0.waiting[i + n]
               /\ q.running = q0.running \cup {q0.waiting[i] : i \in 1..n}
      <3> HIDE DEF q
      <3>1. \E n \in 0..Len(q0.waiting) :
               /\ Len(q.waiting) = Len(q0.waiting) - n
               /\ \A i \in 1..(Len(q0.waiting) - n) : q.waiting[i] = q0.waiting[i + n]
               /\ q.running = q0.running \cup {q0.waiting[i] : i \in 1..n}
        BY <2>3, FilledStarts DEF q
      <3> QED BY <3>1
    <2>6. /\ n \in 0..Len(w) /\ Len(q.waiting) = Len(w) - n
          /\ \A i \in 1..(Len(w) - n) : q.waiting[i] = w[i + n]
          /\ q.running = q0.running \cup {w[i] : i \in 1..n}
      BY <2>4, <2>11
    <2> HIDE DEF q
    <2>7. t \notin q.running
      <3>1. \A i \in 1..n : i \in 1..Len(w)
        BY <1>2, <2>6
      <3> QED BY <1>2, <2>4, <2>6, <3>1
    <2>8. \A u \in Tasks : task'[u] = "calling" <=> u \in q.running
      BY <1>1, <2>2, <2>4, <2>5, <2>7
    <2>9. ASSUME NEW i \in 1..Len(q.waiting) PROVE task'[q.waiting[i]] = "waiting"
      <3>1. q.waiting[i] \notin q.running
        BY <2>5 DEF WaitsOnce
      <3>2. i + n \in 1..Len(w) /\ q.waiting[i] = w[i + n]
        BY <1>2, <2>6
      <3> QED BY <1>1, <1>2, <2>2, <3>1, <3>2
    <2>10. QueueIsTasks'
      BY <1>3, <2>2, <2>5, <2>8, <2>9 DEF QueueIsTasks
    <2> QED BY <1>1, <2>2, <2>4, <2>5, <2>10 DEF PlacesInv
  <1> QED BY <1>4, <1>5

LEMMA PlacesStep ==
  ASSUME PlacesInv, [LimitersNext]_limiterVars
  PROVE  PlacesInv'
  <1>1. CASE UNCHANGED placeVars
    BY <1>1 DEF PlacesInv, QueueIsTasks, placeVars
  <1>2. ASSUME NEW l \in ProviderLimits \cup {NoLimit}, LimitChanges(l) PROVE PlacesInv'
    BY <1>2 DEF LimitChanges, PlacesInv, QueueIsTasks
  <1>3. \/ UNCHANGED placeVars
        \/ \E t \in Tasks : RunTask(t) \/ TaskEnds(t)
        \/ \E l \in ProviderLimits \cup {NoLimit} : LimitChanges(l)
    BY DEF LimitersNext, RateNext, PlacesNext, MonitorNext, Hit, ClockTicks, Refusal, limiterVars
  <1> QED BY <1>1, <1>2, <1>3, RunStep, EndStep

LEMMA PlacesStart == LimitersInit => PlacesInv
  <1> SUFFICES ASSUME LimitersInit PROVE PlacesInv
    OBVIOUS
  <1>1. /\ limit = NoLimit /\ asked = 0
        /\ queue = [concurrency |-> 0, waiting |-> <<>>, running |-> {}]
        /\ task = [t \in Tasks |-> "idle"]
    BY DEF LimitersInit
  <1>2. << >> \in Seq(Tasks) /\ Len(<< >>) = 0
    BY EmptySeq
  <1>3. queue \in Queue /\ WaitsOnce(queue) /\ NoFreePlace(queue)
    BY <1>1, <1>2 DEF Queue, WaitsOnce, NoFreePlace
  <1> QED BY <1>1, <1>2, <1>3 DEF PlacesInv, QueueIsTasks

----------------------------------------------------------------------------
(* The monitor of refused keys.                                            *)
Rising(f) == \A i, j \in 1..Len(f) : i <= j => f[i] <= f[j]

(* e is what is left of f without its first d.                             *)
LeftOf(f, e, d) ==
    /\ d \in 0..Len(f) /\ Len(e) = Len(f) - d
    /\ \A i \in 1..Len(e) : e[i] = f[i + d]
    /\ Len(e) <= MaxEvents
    /\ Len(e) = MaxEvents \/ \A i \in 1..d : f[Len(f)] - f[i] > FailureWindow
    /\ \A i \in (d + 1)..Len(f) : f[Len(f)] - f[i] <= FailureWindow

EventsAreLast ==
    /\ failures \in Seq(Nat) /\ events \in Seq(Nat) /\ Rising(failures)
    /\ \A i \in 1..Len(failures) : failures[i] <= clock
    /\ \E d \in 0..Len(failures) : LeftOf(failures, events, d)

AlertsAreSpaced ==
    /\ alerts \in Seq(Nat) /\ overs \in SUBSET Nat
    /\ \A i \in 1..Len(alerts) : alerts[i] <= clock
    /\ lastNotifiedAt = IF Len(alerts) = 0 THEN LongAgo ELSE alerts[Len(alerts)]
    /\ StormIsTold

LinesAreCounted ==
    /\ logWindow \in [start: Int, logged: Nat, suppressed: Nat]
    /\ lines \in [written: Nat, reported: Nat]
    /\ RefusalsAccounted

MonitorInv == EventsAreLast /\ AlertsAreSpaced /\ LinesAreCounted

(* A set of the first numbers that leaves none out has the numbers up to   *)
(* its cardinality.                                                        *)
LEMMA FirstNumbers ==
    ASSUME NEW n \in Nat, NEW D \in SUBSET (1..n),
           \A i \in D : \A j \in 1..i : j \in D
    PROVE  Cardinality(D) \in Nat /\ D = 1..Cardinality(D)
<1> DEFINE Less == OpToRel(<, Nat)
           Out  == {k \in Nat : k + 1 \notin D}
<1>1. n \in Out
  OBVIOUS
<1>2. IsWellFoundedOn(Less, Nat)
  BY NatLessThanWellFounded
<1>3. PICK m \in Out : \A k \in Out : ~(<<k, m>> \in Less)
  <2> HIDE DEF Out, Less
  <2>1. Out \subseteq Nat /\ Out # {}
    BY <1>1 DEF Out
  <2>2. QED
    BY <1>2, <2>1, WFMin
<1>4. m \in Nat /\ m + 1 \notin D
  OBVIOUS
<1>5. ASSUME NEW i \in 1..m
      PROVE  i \in D
  <2> DEFINE k == i - 1
  <2>1. k \in Nat /\ k < m /\ k + 1 = i
    BY <1>4, <1>5
  <2> HIDE DEF k
  <2>2. <<k, m>> \in Less
    BY <1>4, <2>1 DEF OpToRel
  <2>3. k \notin Out
    BY <1>3, <2>2
  <2>4. QED
    BY <2>1, <2>3
<1>6. ASSUME NEW i \in D
      PROVE  i \in 1..m
  <2>1. i \in Nat /\ i >= 1
    OBVIOUS
  <2>2. CASE i > m
    <3>1. m + 1 \in 1..i
      BY <1>4, <2>1, <2>2
    <3>2. QED
      BY <1>4, <3>1
  <2>3. QED
    BY <1>4, <2>1, <2>2
<1>7. D = 1..m
  BY <1>5, <1>6
<1>8. Cardinality(1..m) = m
  BY <1>4, FS_Interval
<1>9. QED
  BY <1>4, <1>7, <1>8

(* The number the alert is decided by.                                     *)
LEMMA Counting ==
  ASSUME NEW f \in Seq(Nat), NEW e \in Seq(Nat), NEW d \in Nat, LeftOf(f, e, d), Len(f) # 0
  PROVE  Len(e) = Min({MaxEvents, InWindow(f, f[Len(f)])})
  <1> DEFINE n == Len(f)
             D == {i \in DOMAIN f : f[n] - f[i] <= FailureWindow}
             k == Cardinality(D)
  <1>1. n \in Nat /\ DOMAIN f = 1..n /\ d \in 0..n /\ Len(e) = n - d
    BY LenProperties DEF LeftOf
  <1>2. D \in SUBSET (1..n) /\ (d + 1)..n \subseteq D
    <2>1. \A i \in (d + 1)..n : i \in 1..n
      BY <1>1
    <2> QED BY <1>1, <2>1 DEF LeftOf
  <1>3. IsFiniteSet(D) /\ k \in Nat /\ Cardinality((d + 1)..n) <= k
    <2> HIDE DEF D, n
    <2>2. IsFiniteSet(1..n)
      BY <1>1, FS_Interval
    <2>1. IsFiniteSet(D)
      BY <1>2, <2>2, FS_Subset
    <2> QED BY <1>2, <2>1, FS_Subset, FS_CardinalityType
  <1>4. Cardinality((d + 1)..n) = n - d
    <2> HIDE DEF n
    <2>0. d + 1 \in Int /\ n \in Int
      BY <1>1
    <2>1. Cardinality((d + 1)..n) = IF d + 1 > n THEN 0 ELSE n - (d + 1) + 1
      BY <2>0, FS_Interval
    <2> QED BY <1>1, <2>1
  <1>5. CASE Len(e) = MaxEvents
    <2>1. k = InWindow(f, f[Len(f)])
      BY DEF InWindow
    <2> HIDE DEF k, n
    <2>2. k >= MaxEvents /\ k \in Int /\ MaxEvents \in Int
      BY <1>1, <1>3, <1>4, <1>5, Numbers
    <2>3. Min({MaxEvents, k}) = MaxEvents
      BY <2>2, MinOfTwo
    <2> QED BY <1>5, <2>1, <2>3
  <1>6. CASE \A i \in 1..d : f[n] - f[i] > FailureWindow
    <2>1. \A i \in 1..d : f[n] \in Nat /\ f[i] \in Nat
      <3>1. \A i \in 1..d : i \in 1..n /\ n \in 1..n
        BY <1>1
      <3> QED BY <3>1, ElementOfSeq
    <2>2. \A i \in D : i \in (d + 1)..n
      <3> SUFFICES ASSUME NEW i \in D, ~(i \in (d + 1)..n) PROVE FALSE
        OBVIOUS
      <3>1. i \in 1..d
        BY <1>1
      <3>2. f[n] \in Nat /\ f[i] \in Nat /\ f[n] - f[i] > FailureWindow
        BY <1>6, <2>1, <3>1
      <3> QED BY <3>2, Numbers
    <2>3. D = (d + 1)..n
      BY <1>2, <2>2
    <2>4. k = n - d
      BY <1>4, <2>3
    <2>5. Len(e) <= MaxEvents
      BY DEF LeftOf
    <2>6. k = InWindow(f, f[Len(f)])
      BY DEF InWindow
    <2> HIDE DEF k, n
    <2>7. Len(e) = k /\ k <= MaxEvents /\ k \in Int /\ MaxEvents \in Int
      BY <1>1, <1>3, <2>4, <2>5, Numbers
    <2>8. Min({MaxEvents, k}) = k
      BY <2>7, MinOfTwo
    <2> QED BY <2>6, <2>7, <2>8
  <1> QED BY <1>5, <1>6 DEF LeftOf

(* A refusal is put behind the events; of the refusals, too, the oldest    *)
(* are missing.                                                            *)
LEMMA RecordedIsLast ==
  ASSUME EventsAreLast, clock \in Nat
  PROVE  /\ Recorded \in Seq(Nat)
         /\ \E d \in 0..Len(Append(failures, clock)) : LeftOf(Append(failures, clock), Recorded, d)
  <1> DEFINE f == Append(failures, clock)
             m == Len(failures)
             all == Append(events, clock)
             l == Len(events) + 1
             E == {i \in DOMAIN all : \A j \in 1..i : clock - all[j] > FailureWindow}
             x == Expired(all)
             over == Max({0, l - x - MaxEvents})
             o == x + over
             g == Recorded
  <1>1. PICK d \in 0..m : LeftOf(failures, events, d)
    BY DEF EventsAreLast
  <1>2. /\ failures \in Seq(Nat) /\ events \in Seq(Nat) /\ m \in Nat /\ l \in Nat /\ l >= 1
        /\ Rising(failures) /\ \A i \in 1..m : failures[i] <= clock /\ failures[i] \in Nat
        /\ Len(events) = m - d /\ l = m - d + 1 /\ \A i \in 1..(l - 1) : events[i] = failures[i + d]
        /\ Len(events) \in Nat /\ d \in Nat /\ d <= m
    <2>1. failures \in Seq(Nat) /\ events \in Seq(Nat) /\ Rising(failures)
          /\ \A i \in 1..m : failures[i] <= clock
      BY DEF EventsAreLast
    <2>2. m \in Nat /\ Len(events) \in Nat /\ \A i \in 1..m : failures[i] \in Nat
      BY <2>1, LenProperties, ElementOfSeq
    <2>3. Len(events) = m - d /\ \A i \in 1..Len(events) : events[i] = failures[i + d]
      BY <1>1 DEF LeftOf
    <2>4. l \in Nat /\ l >= 1 /\ l - 1 = Len(events) /\ l = m - d + 1 /\ d \in Nat /\ d <= m
      BY <1>1, <2>2, <2>3
    <2> QED BY <2>1, <2>2, <2>3, <2>4
  <1>3. /\ f \in Seq(Nat) /\ Len(f) = m + 1 /\ f[m + 1] = clock
        /\ \A i \in 1..m : f[i] = failures[i]
    BY <1>2, Appended
  <1>4. /\ all \in Seq(Nat) /\ Len(all) = l /\ all[l] = clock /\ DOMAIN all = 1..l
        /\ \A i \in 1..(l - 1) : all[i] = events[i]
    BY <1>2, Appended, LenProperties
  <1> HIDE DEF f, all, m, l
  <1>5. \A i \in 1..l : all[i] = f[i + d]
    <2> SUFFICES ASSUME NEW i \in 1..l PROVE all[i] = f[i + d]
      OBVIOUS
    <2>1. CASE i = l
      BY <1>2, <1>3, <1>4, <2>1
    <2>2. CASE i # l
      <3>1. i \in 1..(l - 1) /\ i + d \in 1..m
        BY <1>2, <2>2
      <3> QED BY <1>2, <1>3, <1>4, <3>1
    <2> QED BY <2>1, <2>2
  <1>6. \A i \in 1..(m + 1) : f[i] \in Nat /\ f[i] <= clock
    <2> SUFFICES ASSUME NEW i \in 1..(m + 1) PROVE f[i] \in Nat /\ f[i] <= clock
      OBVIOUS
    <2>1. CASE i = m + 1
      BY <1>2, <1>3, <2>1
    <2>2. CASE i \in 1..m
      BY <1>2, <1>3, <2>2
    <2> QED BY <1>2, <2>1, <2>2
  <1>7. \A i, j \in 1..(m + 1) : i <= j => f[i] <= f[j]
    <2> SUFFICES ASSUME NEW i \in 1..(m + 1), NEW j \in 1..(m + 1), i <= j PROVE f[i] <= f[j]
      OBVIOUS
    <2>1. CASE j = m + 1
      BY <1>3, <1>6, <2>1
    <2>2. CASE j # m + 1
      <3>1. i \in 1..m /\ j \in 1..m
        BY <1>2, <2>2
      <3> QED BY <1>2, <1>3, <3>1 DEF Rising, m
    <2> QED BY <2>1, <2>2
  <1>8. x \in Nat /\ E = 1..x /\ x <= l - 1
    <2>1. E \in SUBSET (1..l)
      BY <1>4
    <2>2. \A i \in E : \A j \in 1..i : j \in E
      <3> SUFFICES ASSUME NEW i \in E, NEW j \in 1..i PROVE j \in E
        OBVIOUS
      <3>1. i \in 1..l /\ \A u \in 1..i : clock - all[u] > FailureWindow
        BY <2>1
      <3>2. j \in 1..l /\ \A u \in 1..j : u \in 1..i
        BY <1>2, <3>1
      <3> QED BY <1>4, <3>1, <3>2
    <2>3. Cardinality(E) \in Nat /\ E = 1..Cardinality(E)
      <3> HIDE DEF E
      <3> QED BY <1>2, <2>1, <2>2, FirstNumbers
    <2>4. x = Cardinality(E)
      BY DEF Expired
    <2>5. l \notin E
      <3>1. l \in 1..l /\ ~(clock - all[l] > FailureWindow)
        BY <1>2, <1>4, Numbers
      <3> QED BY <3>1
    <2> HIDE DEF E
    <2>6. ~(x >= l)
      BY <1>2, <2>3, <2>4, <2>5
    <2> QED BY <1>2, <2>3, <2>4, <2>6
  <1>9. over \in Nat /\ over >= l - x - MaxEvents /\ (over = 0 \/ over = l - x - MaxEvents)
    <2>1. l - x - MaxEvents \in Int /\ 0 \in Int
      BY <1>2, <1>8, Numbers
    <2> QED BY <2>1, MaxOfTwo
  <1>10. g = SubSeq(all, o + 1, l)
    BY <1>4 DEF Recorded, all
  <1> HIDE DEF over, x
  <1>11. o \in 0..(l - 1) /\ d + o \in 0..(m + 1)
    BY <1>2, <1>8, <1>9, Numbers
  <1>12. g \in Seq(Nat) /\ Len(g) = l - o /\ \A i \in 1..(l - o) : g[i] = f[i + (d + o)]
    <2>1. o \in 0..Len(all)
      BY <1>2, <1>4, <1>11
    <2>2. /\ SubSeq(all, o + 1, Len(all)) \in Seq(Nat)
          /\ Len(SubSeq(all, o + 1, Len(all))) = Len(all) - o
          /\ \A i \in 1..(Len(all) - o) : SubSeq(all, o + 1, Len(all))[i] = all[i + o]
      BY <1>4, <2>1, TailOf
    <2>3. g = SubSeq(all, o + 1, Len(all))
      BY <1>4, <1>10
    <2> HIDE DEF g
    <2>4. g \in Seq(Nat) /\ Len(g) = l - o /\ \A i \in 1..(l - o) : g[i] = all[i + o]
      BY <1>4, <2>2, <2>3
    <2>5. ASSUME NEW i \in 1..(l - o) PROVE g[i] = f[i + (d + o)]
      <3>1. i \in Nat /\ o \in Nat /\ l \in Nat /\ d \in Nat /\ i >= 1 /\ i <= l - o
        BY <1>2, <1>11
      <3>2. i + o \in 1..l /\ (i + o) + d = i + (d + o)
        BY <3>1
      <3> QED BY <1>5, <2>4, <3>2
    <2> QED BY <2>4, <2>5
  <1> HIDE DEF g, o
  <1>13. Len(g) <= MaxEvents /\ Len(g) = (m + 1) - (d + o)
    BY <1>2, <1>8, <1>9, <1>11, <1>12, Numbers DEF o
  <1>14. Len(g) = MaxEvents \/ \A i \in 1..(d + o) : f[m + 1] - f[i] > FailureWindow
    <2>1. SUFFICES ASSUME Len(g) # MaxEvents, NEW i \in 1..(d + o)
                   PROVE  f[m + 1] - f[i] > FailureWindow
      OBVIOUS
    <2>2. over = 0 /\ o = x
      BY <1>2, <1>8, <1>9, <1>11, <1>12, <2>1, Numbers DEF o
    <2>3. CASE i > d
      <3>1. i - d \in 1..x /\ i - d \in 1..(i - d) /\ i - d \in 1..l /\ (i - d) + d = i
        BY <1>1, <1>2, <1>8, <1>11, <2>1, <2>2, <2>3
      <3>2. clock - all[i - d] > FailureWindow
        BY <1>8, <3>1
      <3> QED BY <1>3, <1>5, <3>1, <3>2
    <2>4. CASE ~(i > d) /\ x > 0
      <3>1. 1 \in 1..x /\ 1 \in 1..l /\ 1 \in 1..1 /\ d + 1 \in 1..(m + 1) /\ i \in 1..(m + 1) /\ i <= d + 1
        BY <1>1, <1>2, <1>8, <2>1, <2>4
      <3>2. clock - all[1] > FailureWindow
        BY <1>8, <3>1
      <3>3. all[1] = f[d + 1] /\ f[i] <= f[d + 1]
        BY <1>5, <1>7, <3>1
      <3> QED BY <1>3, <1>6, <3>1, <3>2, <3>3, Numbers
    <2>5. CASE ~(i > d) /\ x = 0
      <3>1. i \in 1..d /\ i \in 1..m /\ m \in 1..m /\ m >= 1
        BY <1>1, <1>2, <2>1, <2>5
      <3>2. Len(events) # MaxEvents
        BY <1>2, <1>9, <2>1, <2>2, <2>5, <1>12, Numbers
      <3>3. failures[m] - failures[i] > FailureWindow
        BY <1>1, <3>1, <3>2 DEF LeftOf, m
      <3>4. failures[m] <= clock /\ failures[m] \in Nat /\ failures[i] \in Nat
        BY <1>2, <3>1
      <3> QED BY <1>3, <3>1, <3>3, <3>4, Numbers
    <2> QED BY <1>1, <1>8, <2>1, <2>3, <2>4, <2>5
  <1>15. ASSUME NEW i \in (d + o + 1)..(m + 1) PROVE f[m + 1] - f[i] <= FailureWindow
    <2>1. x + 1 \in 1..l /\ x + 1 + d \in 1..(m + 1) /\ i \in 1..(m + 1) /\ x + 1 + d <= i
      BY <1>1, <1>2, <1>8, <1>9, <1>11, <1>15 DEF o
    <2>2. x + 1 \notin E
      BY <1>8
    <2>3. PICK j \in 1..(x + 1) : ~(clock - all[j] > FailureWindow)
      BY <1>4, <2>1, <2>2
    <2>4. j = x + 1
      <3>1. SUFFICES ASSUME j \in 1..x PROVE FALSE
        BY <1>8, <2>3
      <3>2. j \in E
        BY <1>8, <3>1
      <3>3. j \in 1..j
        BY <1>8, <3>1
      <3> QED BY <2>3, <3>2, <3>3
    <2>5. all[x + 1] = f[x + 1 + d] /\ f[x + 1 + d] <= f[i]
      BY <1>5, <1>7, <2>1
    <2>6. f[x + 1 + d] \in Nat /\ f[i] \in Nat
      BY <1>6, <2>1
    <2> QED BY <1>3, <2>3, <2>4, <2>5, <2>6, Numbers
  <1>16. d + o \in 0..Len(f) /\ LeftOf(f, g, d + o)
    BY <1>3, <1>11, <1>12, <1>13, <1>14, <1>15 DEF LeftOf
  <1> QED BY <1>12, <1>16 DEF f, g

(* The alerts after a refusal that count refusals in the window make.      *)
LEMMA NotifyStep ==
  ASSUME AlertsAreSpaced, clock \in Nat, clock' = clock, NEW count \in Nat, Notify(count),
         overs' \in {overs, overs \cup {clock}},
         AlertThreshold <= MaxEvents /\ overs' # overs => count >= AlertThreshold
  PROVE  AlertsAreSpaced'
  <1> DEFINE n == Len(alerts)
  <1>1. /\ alerts \in Seq(Nat) /\ overs \in SUBSET Nat /\ n \in Nat
        /\ \A i \in 1..n : alerts[i] \in Nat /\ alerts[i] <= clock
        /\ lastNotifiedAt = IF n = 0 THEN LongAgo ELSE alerts[n]
        /\ \A i \in 2..n : alerts[i] - alerts[i - 1] >= NotifyEvery
        /\ DOMAIN alerts = 1..n
    BY LenProperties, ElementOfSeq DEF AlertsAreSpaced, StormIsTold
  <1>2. AlertThreshold <= MaxEvents =>
            \A t \in overs : \E i \in 1..n : alerts[i] <= t /\ t - alerts[i] < NotifyEvery
    BY <1>1 DEF AlertsAreSpaced, StormIsTold
  <1>3. overs' \in SUBSET Nat
    BY <1>1
  <1>4. CASE count >= AlertThreshold /\ MayNotify
    <2> DEFINE b == Append(alerts, clock)
    <2>1. alerts' = b /\ lastNotifiedAt' = clock
      BY <1>4 DEF Notify
    <2>2. b \in Seq(Nat) /\ Len(b) = n + 1 /\ b[n + 1] = clock /\ \A i \in 1..n : b[i] = alerts[i]
      BY <1>1, Appended
    <2>3. DOMAIN b = 1..(n + 1)
      BY <2>2, LenProperties
    <2> HIDE DEF b, n
    <2>4. \A i \in 1..(n + 1) : i \in 1..n \/ i = n + 1
      BY <1>1
    <2>5. \A i \in 1..(n + 1) : b[i] <= clock
      BY <1>1, <2>2, <2>4
    <2>6. ASSUME NEW i \in 2..(n + 1) PROVE b[i] - b[i - 1] >= NotifyEvery
      <3>1. CASE i = n + 1
        <4>1. n >= 1 /\ n \in 1..n /\ i - 1 = n /\ lastNotifiedAt = alerts[n] /\ alerts[n] \in Nat
          BY <1>1, <2>6, <3>1
        <4> QED BY <1>4, <2>2, <3>1, <4>1, Numbers DEF MayNotify
      <3>2. CASE i # n + 1
        <4>1. i \in 2..n /\ i \in 1..n /\ i - 1 \in 1..n
          BY <1>1, <2>6, <3>2
        <4> QED BY <1>1, <2>2, <4>1
      <3> QED BY <3>1, <3>2
    <2>7. ASSUME AlertThreshold <= MaxEvents, NEW t \in overs'
          PROVE  \E i \in 1..(n + 1) : b[i] <= t /\ t - b[i] < NotifyEvery
      <3>1. CASE t \in overs
        <4>1. PICK i \in 1..n : alerts[i] <= t /\ t - alerts[i] < NotifyEvery
          BY <1>2, <2>7, <3>1
        <4>2. i \in 1..(n + 1) /\ b[i] = alerts[i]
          BY <1>1, <2>2
        <4> QED BY <4>1, <4>2
      <3>2. CASE t = clock
        <4>1. n + 1 \in 1..(n + 1)
          BY <1>1
        <4> QED BY <2>2, <3>2, <4>1, Numbers
      <3> QED BY <2>7, <3>1, <3>2
    <2>8. StormIsTold'
      BY <2>1, <2>2, <2>3, <2>6, <2>7 DEF StormIsTold
    <2>9. n + 1 # 0
      BY <1>1
    <2> QED BY <1>3, <2>1, <2>2, <2>5, <2>8, <2>9 DEF AlertsAreSpaced
  <1>5. CASE ~(count >= AlertThreshold /\ MayNotify)
    <2>1. alerts' = alerts /\ lastNotifiedAt' = lastNotifiedAt
      BY <1>5 DEF Notify
    <2>2. ASSUME AlertThreshold <= MaxEvents, NEW t \in overs'
          PROVE  \E i \in 1..n : alerts[i] <= t /\ t - alerts[i] < NotifyEvery
      <3>1. CASE t \in overs
        BY <1>2, <2>2, <3>1
      <3>2. CASE t \notin overs
        <4>1. t = clock /\ count >= AlertThreshold
          BY <2>2, <3>2
        <4>2. ~(clock - lastNotifiedAt >= NotifyEvery)
          BY <1>5, <4>1 DEF MayNotify
        <4>3. n # 0
          BY <1>1, <4>2, Numbers
        <4>4. n \in 1..n /\ lastNotifiedAt = alerts[n]
          BY <1>1, <4>3
        <4>5. alerts[n] <= t /\ t - alerts[n] < NotifyEvery
          BY <1>1, <4>1, <4>2, <4>4, Numbers
        <4> QED BY <4>4, <4>5
      <3> QED BY <3>1, <3>2
    <2>3. StormIsTold'
      BY <1>1, <2>1, <2>2 DEF StormIsTold
    <2> QED BY <1>1, <1>3, <2>1, <2>3 DEF AlertsAreSpaced
  <1> QED BY <1>4, <1>5

(* A refusal.                                                              *)
LEMMA RefusalStep ==
  ASSUME MonitorInv, clock \in Nat, Refusal
  PROVE  MonitorInv'
  <1> DEFINE f == Append(failures, clock)
             n == Len(failures)
             d == LogDecision
  <1>1. /\ events' = Recorded /\ failures' = f /\ clock' = clock
        /\ logWindow' = d.window
        /\ lines' = [written  |-> lines.written + (IF d.log THEN 1 ELSE 0),
                     reported |-> lines.reported + d.reported]
        /\ Notify(Len(Recorded))
        /\ overs' = IF InWindow(f, clock) >= AlertThreshold THEN overs \cup {clock} ELSE overs
    BY DEF Refusal
  <1>2. /\ failures \in Seq(Nat) /\ Rising(failures) /\ n \in Nat
        /\ \A i \in 1..n : failures[i] <= clock /\ failures[i] \in Nat
    BY LenProperties, ElementOfSeq DEF MonitorInv, EventsAreLast
  <1>3. /\ f \in Seq(Nat) /\ Len(f) = n + 1 /\ f[n + 1] = clock
        /\ \A i \in 1..n : f[i] = failures[i]
    BY <1>2, Appended
  <1>4. /\ Recorded \in Seq(Nat)
        /\ \E x \in 0..Len(f) : LeftOf(f, Recorded, x)
    BY RecordedIsLast DEF MonitorInv
  <1> HIDE DEF f
  <1>5. EventsAreLast'
    <2>1. \A i \in 1..(n + 1) : i \in 1..n \/ i = n + 1
      BY <1>2
    <2>2. \A i \in 1..(n + 1) : f[i] <= clock
      BY <1>2, <1>3, <2>1
    <2>3. ASSUME NEW i \in 1..(n + 1), NEW j \in 1..(n + 1), i <= j PROVE f[i] <= f[j]
      <3>1. CASE j = n + 1
        BY <1>3, <2>2, <3>1
      <3>2. CASE j # n + 1
        <4>1. i \in 1..n /\ j \in 1..n
          BY <1>2, <2>3, <3>2
        <4> QED BY <1>2, <1>3, <2>3, <4>1 DEF Rising
      <3> QED BY <3>1, <3>2
    <2>4. Rising(f)
      BY <1>3, <2>3 DEF Rising
    <2> QED BY <1>1, <1>3, <1>4, <2>2, <2>4 DEF EventsAreLast, Rising, LeftOf
  <1>6. Len(Recorded) \in Nat /\ Len(Recorded) = Min({MaxEvents, InWindow(f, clock)})
    <2>1. PICK x \in 0..Len(f) : LeftOf(f, Recorded, x)
      BY <1>4
    <2>2. x \in Nat /\ Len(f) # 0
      BY <1>2, <1>3
    <2> HIDE DEF n
    <2>3. Len(Recorded) = Min({MaxEvents, InWindow(f, f[Len(f)])})
      BY <1>3, <1>4, <2>1, <2>2, Counting
    <2> QED BY <1>3, <1>4, <2>3, LenProperties
  <1>7. AlertsAreSpaced'
    <2>1. InWindow(f, clock) \in Nat
      <3>1. DOMAIN f = 1..(n + 1) /\ IsFiniteSet(1..(n + 1))
        BY <1>2, <1>3, LenProperties, FS_Interval
      <3>2. {i \in DOMAIN f : clock - f[i] <= FailureWindow} \in SUBSET (1..(n + 1))
        BY <3>1
      <3> QED BY <3>1, <3>2, FS_Subset, FS_CardinalityType DEF InWindow
    <2>2. ASSUME AlertThreshold <= MaxEvents, overs' # overs
          PROVE  Len(Recorded) >= AlertThreshold
      <3>1. InWindow(f, clock) >= AlertThreshold
        BY <1>1, <2>2
      <3>2. InWindow(f, clock) \in Int /\ MaxEvents \in Int
        BY <2>1, Numbers
      <3>3. Len(Recorded) = IF MaxEvents <= InWindow(f, clock) THEN MaxEvents ELSE InWindow(f, clock)
        BY <1>6, <3>2, MinOfTwo
      <3> QED BY <2>2, <3>1, <3>3
    <2>3. overs' \in {overs, overs \cup {clock}}
      BY <1>1
    <2> QED BY <1>1, <1>6, <2>2, <2>3, NotifyStep DEF MonitorInv
  <1>8. LinesAreCounted'
    <2>1. /\ logWindow \in [start: Int, logged: Nat, suppressed: Nat]
          /\ lines \in [written: Nat, reported: Nat]
          /\ lines.written + lines.reported + logWindow.suppressed = n
      BY DEF MonitorInv, LinesAreCounted, RefusalsAccounted
    <2>2. CASE clock - logWindow.start >= LogWindow
      <3>1. /\ d.log = TRUE /\ d.reported = logWindow.suppressed
            /\ d.window = [start |-> clock, logged |-> 1, suppressed |-> 0]
        BY <2>2 DEF LogDecision
      <3>2. lines.written \in Nat /\ lines.reported \in Nat /\ logWindow.suppressed \in Nat
        BY <2>1
      <3>3. /\ lines' = [written |-> lines.written + 1,
                         reported |-> lines.reported + logWindow.suppressed]
            /\ logWindow' = [start |-> clock, logged |-> 1, suppressed |-> 0]
            /\ Len(failures') = n + 1
        BY <1>1, <1>3, <3>1
      <3>4. logWindow' \in [start: Int, logged: Nat, suppressed: Nat] /\ logWindow'.suppressed = 0
        BY <3>3
      <3>5. /\ lines' \in [written: Nat, reported: Nat]
            /\ lines'.written + lines'.reported + logWindow'.suppressed = n + 1
        BY <1>2, <2>1, <3>2, <3>3, <3>4
      <3> QED BY <3>3, <3>4, <3>5 DEF LinesAreCounted, RefusalsAccounted
    <2>3. CASE ~(clock - logWindow.start >= LogWindow) /\ logWindow.logged < LogBurst
      <3>2. d.log = TRUE /\ d.reported = 0 /\ d.window = [logWindow EXCEPT !.logged = @ + 1]
        BY <2>3 DEF LogDecision
      <3>1. /\ d.log = TRUE /\ d.reported = 0
            /\ d.window \in [start: Int, logged: Nat, suppressed: Nat]
            /\ d.window.suppressed = logWindow.suppressed
        BY <2>1, <3>2
      <3>3. lines.written \in Nat /\ lines.reported \in Nat /\ logWindow.suppressed \in Nat
        BY <2>1
      <3>4. /\ lines' = [written |-> lines.written + 1, reported |-> lines.reported + 0]
            /\ logWindow'.suppressed = logWindow.suppressed
            /\ logWindow' \in [start: Int, logged: Nat, suppressed: Nat] /\ Len(failures') = n + 1
        BY <1>1, <1>3, <3>1
      <3>5. /\ lines' \in [written: Nat, reported: Nat]
            /\ lines'.written + lines'.reported + logWindow'.suppressed = n + 1
        BY <1>2, <2>1, <3>3, <3>4
      <3> QED BY <3>4, <3>5 DEF LinesAreCounted, RefusalsAccounted
    <2>4. CASE ~(clock - logWindow.start >= LogWindow) /\ ~(logWindow.logged < LogBurst)
      <3>2. d.log = FALSE /\ d.reported = 0 /\ d.window = [logWindow EXCEPT !.suppressed = @ + 1]
        BY <2>4 DEF LogDecision
      <3>1. /\ d.log = FALSE /\ d.reported = 0
            /\ d.window \in [start: Int, logged: Nat, suppressed: Nat]
            /\ d.window.suppressed = logWindow.suppressed + 1
        BY <2>1, <3>2
      <3>3. lines.written \in Nat /\ lines.reported \in Nat /\ logWindow.suppressed \in Nat
        BY <2>1
      <3>4. /\ lines' = [written |-> lines.written + 0, reported |-> lines.reported + 0]
            /\ logWindow'.suppressed = logWindow.suppressed + 1
            /\ logWindow' \in [start: Int, logged: Nat, suppressed: Nat] /\ Len(failures') = n + 1
        BY <1>1, <1>3, <3>1
      <3>5. /\ lines' \in [written: Nat, reported: Nat]
            /\ lines'.written + lines'.reported + logWindow'.suppressed = n + 1
        <4>1. lines.written + 0 = lines.written /\ lines.reported + 0 = lines.reported
          BY <3>3
        <4>2. lines'.written = lines.written /\ lines'.reported = lines.reported
          BY <3>4, <4>1
        <4>3. lines' \in [written: Nat, reported: Nat]
          BY <3>3, <3>4, <4>1
        <4>4. lines.written + lines.reported + logWindow.suppressed = n
          BY <2>1
        <4>5. lines.written + lines.reported + (logWindow.suppressed + 1) = n + 1
          <5> DEFINE v == lines.written
                     r == lines.reported
                     u == logWindow.suppressed
          <5>1. v \in Nat /\ r \in Nat /\ u \in Nat /\ v + r + u = n
            BY <3>3, <4>4
          <5> HIDE DEF n, v, r, u
          <5>2. v + r + (u + 1) = n + 1
            BY <5>1
          <5> QED BY <5>2 DEF v, r, u
        <4> QED BY <3>4, <4>2, <4>3, <4>5
      <3> QED BY <3>4, <3>5 DEF LinesAreCounted, RefusalsAccounted
    <2> QED BY <2>2, <2>3, <2>4
  <1> QED BY <1>5, <1>7, <1>8 DEF MonitorInv

LEMMA MonitorStep ==
  ASSUME MonitorInv, clock \in Nat, [LimitersNext]_limiterVars
  PROVE  MonitorInv'
  <1>1. CASE Refusal
    BY <1>1, RefusalStep
  <1>2. CASE UNCHANGED monitorVars /\ clock' \in {clock, clock + 1}
    <2>1. \A i \in 1..Len(failures) : failures[i] \in Nat /\ failures[i] <= clock
      BY ElementOfSeq DEF MonitorInv, EventsAreLast
    <2>2. \A i \in 1..Len(alerts) : alerts[i] \in Nat /\ alerts[i] <= clock
      BY ElementOfSeq DEF MonitorInv, AlertsAreSpaced
    <2>3. /\ \A i \in 1..Len(failures) : failures[i] <= clock'
          /\ \A i \in 1..Len(alerts) : alerts[i] <= clock'
      BY <1>2, <2>1, <2>2
    <2>4. /\ failures' = failures /\ events' = events /\ alerts' = alerts /\ overs' = overs
          /\ lastNotifiedAt' = lastNotifiedAt /\ logWindow' = logWindow /\ lines' = lines
      BY <1>2 DEF monitorVars
    <2>5. EventsAreLast'
      BY <2>3, <2>4 DEF MonitorInv, EventsAreLast, Rising, LeftOf
    <2>6. AlertsAreSpaced'
      BY <2>3, <2>4 DEF MonitorInv, AlertsAreSpaced, StormIsTold
    <2>7. LinesAreCounted'
      BY <2>4 DEF MonitorInv, LinesAreCounted, RefusalsAccounted
    <2> QED BY <2>5, <2>6, <2>7 DEF MonitorInv
  <1>3. Refusal \/ (UNCHANGED monitorVars /\ clock' \in {clock, clock + 1})
    BY DEF LimitersNext, RateNext, PlacesNext, MonitorNext, Hit, ClockTicks, RunTask, TaskEnds,
           LimitChanges, limiterVars
  <1> QED BY <1>1, <1>2, <1>3

LEMMA MonitorStart == LimitersInit => MonitorInv
  <1> SUFFICES ASSUME LimitersInit PROVE MonitorInv
    OBVIOUS
  <1>1. /\ events = <<>> /\ lastNotifiedAt = LongAgo
        /\ logWindow = [start |-> LongAgo, logged |-> 0, suppressed |-> 0]
        /\ failures = <<>> /\ alerts = <<>> /\ overs = {}
        /\ lines = [written |-> 0, reported |-> 0]
    BY DEF LimitersInit
  <1>2. << >> \in Seq(Nat) /\ Len(<< >>) = 0 /\ DOMAIN << >> = {}
    BY EmptySeq
  <1>3. EventsAreLast
    <2>1. 0 \in 0..0 /\ LeftOf(<< >>, << >>, 0)
      BY <1>2, Numbers DEF LeftOf
    <2> QED BY <1>1, <1>2, <2>1 DEF EventsAreLast, Rising
  <1>4. AlertsAreSpaced
    BY <1>1, <1>2 DEF AlertsAreSpaced, StormIsTold
  <1>5. LinesAreCounted
    BY <1>1, <1>2, Numbers DEF LinesAreCounted, RefusalsAccounted
  <1> QED BY <1>3, <1>4, <1>5 DEF MonitorInv

----------------------------------------------------------------------------
LimitersInv == clock \in Nat /\ RateInv /\ PlacesInv /\ MonitorInv

LEMMA LimitersInvSound == LimitersInv => LimitersSound
  <1> SUFFICES ASSUME LimitersInv PROVE LimitersSound
    OBVIOUS
  <1>1. BurstsBounded
    <2> SUFFICES ASSUME NEW k \in Owners, NEW i \in DOMAIN admitted[k], NEW j \in DOMAIN admitted[k],
                        j - i >= 2 * MaxHits
                 PROVE  admitted[k][j] - admitted[k][i] >= HitWindow
      BY DEF BurstsBounded
    <2>1. admitted[k] \in Seq(Nat) /\ AdmittedInWindows(admitted[k], hits[k], clock)
      BY DEF LimitersInv, RateInv
    <2>2. i \in 1..Len(admitted[k]) /\ j \in 1..Len(admitted[k])
      BY <2>1, LenProperties
    <2> QED BY <2>1, <2>2 DEF AdmittedInWindows
  <1>2. RetryAfterIsEnough
    BY DEF LimitersInv, RateInv, RetryAfterIsEnough
  <1>3. NoIdlePlace
    <2>1. Calling = queue.running
      BY DEF LimitersInv, PlacesInv, QueueIsTasks, Calling, Queue
    <2> QED BY <2>1 DEF LimitersInv, PlacesInv, QueueIsTasks, NoFreePlace, NoIdlePlace
  <1>4. CountIsTrue
    <2> SUFFICES ASSUME failures # <<>>
                 PROVE  Len(events) = Min({MaxEvents, InWindow(failures, Last(failures))})
      BY DEF CountIsTrue
    <2>1. failures \in Seq(Nat) /\ events \in Seq(Nat)
      BY DEF LimitersInv, MonitorInv, EventsAreLast
    <2>2. PICK d \in 0..Len(failures) : LeftOf(failures, events, d)
      BY DEF LimitersInv, MonitorInv, EventsAreLast
    <2>3. d \in Nat /\ Len(failures) # 0
      BY <2>1, EmptySeq, LenProperties
    <2> QED BY <2>1, <2>2, <2>3, Counting DEF Last
  <1>5. StormIsTold /\ RefusalsAccounted
    BY DEF LimitersInv, MonitorInv, AlertsAreSpaced, LinesAreCounted
  <1> QED BY <1>1, <1>2, <1>3, <1>4, <1>5 DEF LimitersSound

(* The limiters of the agents' contour keep their promises: no stretch of  *)
(* a window's length has more than twice the limit of admitted requests,   *)
(* Retry-After is enough, nobody waits beside a free place, and of the     *)
(* refused keys the count, the alerts and the lines are true.              *)
THEOREM LimitersKept == LimitersSpec => []LimitersSound
  <1>1. LimitersInit => LimitersInv
    BY RateStart, PlacesStart, MonitorStart DEF LimitersInv
  <1>2. LimitersInv /\ [LimitersNext]_limiterVars => LimitersInv'
    <2> SUFFICES ASSUME LimitersInv, [LimitersNext]_limiterVars PROVE LimitersInv'
      OBVIOUS
    <2>1. clock \in Nat /\ RateInv /\ PlacesInv /\ MonitorInv
      BY DEF LimitersInv
    <2>2. RateInv' /\ clock' \in Nat
      BY <2>1, RateStep
    <2>3. PlacesInv'
      BY <2>1, PlacesStep
    <2>4. MonitorInv'
      BY <2>1, MonitorStep
    <2> QED BY <2>2, <2>3, <2>4 DEF LimitersInv
  <1> QED BY <1>1, <1>2, LimitersInvSound, PTL DEF LimitersSpec

----------------------------------------------------------------------------
(* The page of the log.                                                    *)

(* A piece of the log, from an entry down.                                 *)
Piece(rows, from) ==
    /\ rows \in Seq(Nat)
    /\ Len(rows) = IF PageLength <= from THEN PageLength ELSE from
    /\ \A k \in 1..Len(rows) : rows[k] = from - k + 1

Load ==
    {NoLoad} \cup [state: {"asked"}, beforeId: Nat] \cup [state: {"answered"}, rows: Seq(Nat)]

(* What is on the page is unbroken, and "more" goes on where it ends.      *)
PageIsUnbroken ==
    /\ \A k \in 1..Len(page.rows) : page.rows[k] >= 1
    /\ \A k \in 1..(Len(page.rows) - 1) : page.rows[k + 1] = page.rows[k] - 1
    /\ page.lastId = IF Len(page.rows) = 0 THEN 0 ELSE page.rows[Len(page.rows)]
    /\ page.more => Len(page.rows) # 0
    /\ Len(page.rows) # 0 /\ ~page.more => page.lastId = 1

(* What a load will bring fits the page, which no other load changes.      *)
LoadsFit ==
    /\ \A b, c \in Buttons : loads[b] # NoLoad /\ loads[c] # NoLoad => b = c
    /\ loads["more"] # NoLoad => Len(page.rows) # 0
    /\ \A b \in Buttons :
          /\ loads[b].state = "asked"
                => loads[b].beforeId = IF b = "reload" THEN 0 ELSE page.lastId
          /\ loads[b].state = "answered"
                => \E from \in Nat : /\ Piece(loads[b].rows, from)
                                     /\ b = "more" => from = page.lastId - 1

LogInv ==
    /\ entries \in Nat /\ loads \in [Buttons -> Load]
    /\ page \in [rows: Seq(Nat), lastId: Nat, more: BOOLEAN, crossed: BOOLEAN]
    /\ ~page.crossed => PageIsUnbroken /\ LoadsFit

(* A page of the log is a piece of it.                                     *)
LEMMA ListedIsPiece ==
  ASSUME entries \in Nat, NEW id \in Nat
  PROVE  Piece(ListedBefore(id), IF id = 0 THEN entries ELSE id - 1)
  <1> DEFINE from == IF id = 0 THEN entries ELSE id - 1
             n == Min({PageLength, from})
             rows == [k \in 1..n |-> from - k + 1]
  <1>1. from \in Nat /\ PageLength \in Nat
    BY ReportsAssumption
  <1>2. ListedBefore(id) = rows
    BY DEF ListedBefore
  <1> HIDE DEF from
  <1>3. n = IF PageLength <= from THEN PageLength ELSE from
    BY <1>1, MinOfTwo
  <1>4. n \in Nat /\ \A k \in 1..n : from - k + 1 \in Nat
    BY <1>1, <1>3
  <1> HIDE DEF n
  <1>5. rows \in Seq(Nat) /\ Len(rows) = n /\ \A k \in 1..n : rows[k] = from - k + 1
    <2>1. rows \in [1..n -> Nat]
      BY <1>4
    <2> QED BY <1>4, <2>1, SeqDef, LenProperties
  <1>6. Piece(rows, from)
    BY <1>3, <1>5 DEF Piece
  <1> QED BY <1>2, <1>6 DEF from

(* Behind what is on the page, or in its place.                            *)
LEMMA ShownFits ==
  ASSUME NEW b \in Buttons, NEW rows, NEW from \in Nat, Piece(rows, from),
         page \in [rows: Seq(Nat), lastId: Nat, more: BOOLEAN, crossed: BOOLEAN],
         PageIsUnbroken,
         b = "more" => Len(page.rows) # 0 /\ from = page.lastId - 1,
         page' = Shown(b, rows)
  PROVE  PageIsUnbroken'
  <1> DEFINE n == Len(rows)
             m == Len(page.rows)
             old == page.rows
  <1>1. /\ PageLength \in Nat /\ PageLength >= 1
        /\ rows \in Seq(Nat) /\ n \in Nat /\ n = IF PageLength <= from THEN PageLength ELSE from
        /\ \A k \in 1..n : rows[k] = from - k + 1
        /\ old \in Seq(Nat) /\ m \in Nat /\ \A k \in 1..m : old[k] \in Nat
    BY ReportsAssumption, LenProperties, ElementOfSeq DEF Piece
  <1>2. \A k \in 1..n : rows[k] \in Nat /\ rows[k] >= 1
    BY <1>1
  <1>3. n # 0 => n \in 1..n /\ rows[n] = from - n + 1
    BY <1>1
  <1>4. rows = <<>> <=> n = 0
    BY <1>1, EmptySeq
  <1>5. n < PageLength => n = from
    BY <1>1
  <1>6. /\ \A k \in 1..m : old[k] >= 1
        /\ \A k \in 1..(m - 1) : old[k + 1] = old[k] - 1
        /\ page.lastId = IF m = 0 THEN 0 ELSE old[m]
        /\ page.lastId \in Nat
    BY DEF PageIsUnbroken
  <1>7. CASE b = "reload"
    <2>1. /\ page'.rows = rows /\ page'.lastId = IF n # 0 THEN rows[n] ELSE 0
          /\ page'.more = (n >= PageLength)
      BY <1>4, <1>7 DEF Shown, Last
    <2>2. \A k \in 1..(n - 1) : rows[k + 1] = rows[k] - 1
      <3> SUFFICES ASSUME NEW k \in 1..(n - 1) PROVE rows[k + 1] = rows[k] - 1
        OBVIOUS
      <3>1. k \in 1..n /\ k + 1 \in 1..n
        BY <1>1
      <3> QED BY <1>1, <3>1
    <2>3. n >= PageLength => n # 0
      BY <1>1
    <2>4. n # 0 /\ ~(n >= PageLength) => rows[n] = 1
      BY <1>1, <1>3, <1>5
    <2> HIDE DEF n
    <2> QED BY <1>2, <2>1, <2>2, <2>3, <2>4 DEF PageIsUnbroken, n
  <1>8. CASE b = "more"
    <2> DEFINE all == old \o rows
    <2>1. /\ page'.rows = all /\ page'.lastId = IF n # 0 THEN rows[n] ELSE page.lastId
          /\ page'.more = (n >= PageLength)
      BY <1>4, <1>8 DEF Shown, Last
    <2>2. /\ all \in Seq(Nat) /\ Len(all) = m + n
          /\ \A k \in 1..(m + n) : all[k] = IF k <= m THEN old[k] ELSE rows[k - m]
      BY <1>1, ConcatProperties
    <2> HIDE DEF all
    <2>3. m # 0 /\ from = old[m] - 1 /\ page.lastId = old[m] /\ old[m] \in Nat
      BY <1>1, <1>6, <1>8
    <2>4. ASSUME NEW k \in 1..(m + n) PROVE all[k] >= 1
      <3>1. CASE k <= m
        <4>1. k \in 1..m
          BY <1>1, <2>4, <3>1
        <4>2. all[k] = old[k]
          BY <2>2, <3>1
        <4> QED BY <1>6, <4>1, <4>2
      <3>2. CASE ~(k <= m)
        <4>1. k - m \in 1..n
          BY <1>1, <3>2
        <4> QED BY <1>2, <2>2, <3>2, <4>1
      <3> QED BY <3>1, <3>2
    <2>5. ASSUME NEW k \in 1..(m + n - 1) PROVE all[k + 1] = all[k] - 1
      <3>1. k \in 1..(m + n) /\ k + 1 \in 1..(m + n)
        BY <1>1
      <3>2. CASE k < m
        <4>1. k \in 1..(m - 1) /\ k <= m /\ k + 1 <= m
          BY <1>1, <3>2
        <4> QED BY <1>6, <2>2, <3>1, <4>1
      <3>3. CASE k = m
        <4>1. 1 \in 1..n /\ k + 1 - m = 1 /\ ~(k + 1 <= m) /\ k <= m
          BY <1>1, <2>5, <3>3
        <4>2. all[k + 1] = rows[1] /\ all[k] = old[m]
          BY <2>2, <3>1, <3>3, <4>1
        <4>3. rows[1] = from - 1 + 1
          BY <1>1, <4>1
        <4> QED BY <2>3, <4>2, <4>3
      <3>4. CASE k > m
        <4>1. k - m \in 1..n /\ k + 1 - m \in 1..n /\ ~(k <= m) /\ ~(k + 1 <= m)
          BY <1>1, <2>5, <3>4
        <4>2. all[k + 1] = rows[k + 1 - m] /\ all[k] = rows[k - m]
          <5> DEFINE j == k + 1
          <5>3. j \in 1..(m + n)
            BY <3>1
          <5> HIDE DEF j
          <5>4. all[j] = IF j <= m THEN old[j] ELSE rows[j - m]
            BY <2>2, <5>3
          <5>1. all[k + 1] = IF k + 1 <= m THEN old[k + 1] ELSE rows[k + 1 - m]
            BY <5>4 DEF j
          <5>2. all[k] = IF k <= m THEN old[k] ELSE rows[k - m]
            BY <2>2, <3>1
          <5> QED BY <4>1, <5>1, <5>2
        <4>3. rows[k + 1 - m] = from - (k + 1 - m) + 1 /\ rows[k - m] = from - (k - m) + 1
          BY <1>1, <4>1
        <4> QED BY <1>1, <2>5, <4>2, <4>3
      <3> QED BY <1>1, <2>5, <3>2, <3>3, <3>4
    <2>6. m + n # 0 /\ page'.lastId = all[m + n]
      <3>1. m + n # 0 /\ m + n \in 1..(m + n)
        BY <1>1, <2>3
      <3>2. CASE n = 0
        <4>0. m \in Nat /\ m # 0 /\ n = 0
          BY <1>1, <2>3, <3>2
        <4> HIDE DEF m, n
        <4>1. m + n = m /\ m \in 1..(m + n) /\ m <= m
          BY <4>0
        <4>2. all[m] = old[m]
          BY <2>2, <4>1
        <4> QED BY <2>1, <2>3, <3>1, <3>2, <4>1, <4>2
      <3>3. CASE n # 0
        <4>1. ~(m + n <= m) /\ (m + n) - m = n
          BY <1>1, <3>3
        <4> QED BY <2>1, <2>2, <3>1, <3>3, <4>1
      <3> QED BY <3>1, <3>2, <3>3
    <2>7. ~(n >= PageLength) => page'.lastId = 1
      <3>1. CASE n = 0
        BY <1>1, <1>5, <2>1, <2>3, <3>1
      <3>2. CASE n # 0
        BY <1>1, <1>3, <1>5, <2>1, <3>2
      <3> QED BY <3>1, <3>2
    <2>8. /\ \A k \in 1..Len(page'.rows) : page'.rows[k] >= 1
          /\ \A k \in 1..(Len(page'.rows) - 1) : page'.rows[k + 1] = page'.rows[k] - 1
      BY <2>1, <2>2, <2>4, <2>5
    <2>9. /\ Len(page'.rows) # 0 /\ page'.lastId = page'.rows[Len(page'.rows)]
          /\ ~page'.more => page'.lastId = 1
      BY <2>1, <2>2, <2>6, <2>7
    <2> QED BY <2>8, <2>9 DEF PageIsUnbroken
  <1> QED BY <1>7, <1>8 DEF Buttons

(* A button is pressed: another load under way crosses it.                 *)
LEMMA LoadStartsStep ==
  ASSUME LogInv, NEW b \in Buttons, LoadStarts(b)
  PROVE  LogInv'
  <1> DEFINE id == IF b = "reload" THEN 0 ELSE page.lastId
             load == [state |-> "asked", beforeId |-> id]
  <1>1. /\ entries \in Nat /\ loads \in [Buttons -> Load]
        /\ page \in [rows: Seq(Nat), lastId: Nat, more: BOOLEAN, crossed: BOOLEAN]
    BY DEF LogInv
  <1>2. /\ loads' = [loads EXCEPT ![b] = load] /\ entries' = entries
        /\ page' = [page EXCEPT !.crossed = @ \/ \E c \in Buttons : loads[c] # NoLoad]
        /\ b = "more" => page.more
    BY DEF LoadStarts
  <1>3. load \in Load /\ load # NoLoad /\ load.state = "asked" /\ load.beforeId = id
    BY <1>1 DEF Load, NoLoad
  <1> HIDE DEF load
  <1>4. /\ loads' \in [Buttons -> Load] /\ loads'[b] = load
        /\ \A c \in Buttons \ {b} : loads'[c] = loads[c]
    BY <1>1, <1>2, <1>3
  <1>5. /\ page' \in [rows: Seq(Nat), lastId: Nat, more: BOOLEAN, crossed: BOOLEAN]
        /\ page'.rows = page.rows /\ page'.lastId = page.lastId /\ page'.more = page.more
        /\ page'.crossed = (page.crossed \/ \E c \in Buttons : loads[c] # NoLoad)
    <2> DEFINE x == page.crossed \/ \E c \in Buttons : loads[c] # NoLoad
    <2>1. x \in BOOLEAN
      OBVIOUS
    <2>2. page' = [page EXCEPT !.crossed = x]
      BY <1>2
    <2> HIDE DEF x
    <2>3. /\ page' \in [rows: Seq(Nat), lastId: Nat, more: BOOLEAN, crossed: BOOLEAN]
          /\ page'.rows = page.rows /\ page'.lastId = page.lastId /\ page'.more = page.more
      BY <1>1, <2>1, <2>2
    <2>4. page'.crossed = x
      BY <1>1, <2>2
    <2> QED BY <2>3, <2>4 DEF x
  <1>6. ASSUME ~page'.crossed PROVE PageIsUnbroken' /\ LoadsFit'
    <2>1. ~page.crossed /\ \A c \in Buttons : loads[c] = NoLoad
      BY <1>5, <1>6
    <2>2. PageIsUnbroken
      BY <2>1 DEF LogInv
    <2>3. PageIsUnbroken'
      BY <1>5, <2>2 DEF PageIsUnbroken
    <2>4. \A c \in Buttons \ {b} : loads'[c] = NoLoad /\ NoLoad.state = "none"
      BY <1>4, <2>1 DEF NoLoad
    <2>5. loads'["more"] # NoLoad => Len(page'.rows) # 0
      BY <1>2, <1>5, <2>2, <2>4 DEF Buttons, PageIsUnbroken
    <2>6. \A c \in Buttons :
             /\ loads'[c].state = "asked"
                   => loads'[c].beforeId = IF c = "reload" THEN 0 ELSE page'.lastId
             /\ loads'[c].state # "answered"
      BY <1>3, <1>4, <1>5, <2>4
    <2> QED BY <1>3, <1>4, <2>3, <2>4, <2>5, <2>6 DEF LoadsFit
  <1> QED BY <1>1, <1>2, <1>4, <1>5, <1>6 DEF LogInv

(* The answer is the piece of the log as it is then.                       *)
LEMMA LogServedStep ==
  ASSUME LogInv, NEW b \in Buttons, LogServed(b)
  PROVE  LogInv'
  <1> DEFINE id == loads[b].beforeId
             load == [state |-> "answered", rows |-> ListedBefore(id)]
             from == IF id = 0 THEN entries ELSE id - 1
  <1>1. /\ entries \in Nat /\ loads \in [Buttons -> Load] /\ loads[b].state = "asked"
        /\ page \in [rows: Seq(Nat), lastId: Nat, more: BOOLEAN, crossed: BOOLEAN]
    BY DEF LogInv, LogServed
  <1>2. /\ loads' = [loads EXCEPT ![b] = load]
        /\ entries' = entries /\ page' = page
    BY DEF LogServed
  <1>3. id \in Nat
    BY <1>1 DEF Load, NoLoad
  <1>4. Piece(ListedBefore(id), from) /\ from \in Nat
    BY <1>1, <1>3, ListedIsPiece
  <1>5. /\ load \in Load /\ load.state = "answered" /\ load # NoLoad
        /\ load.rows = ListedBefore(id)
    BY <1>4 DEF Load, Piece, NoLoad
  <1> HIDE DEF load, from
  <1>6. /\ loads' \in [Buttons -> Load] /\ loads'[b] = load
        /\ \A c \in Buttons \ {b} : loads'[c] = loads[c]
    BY <1>1, <1>2, <1>5
  <1>7. ASSUME ~page.crossed PROVE PageIsUnbroken' /\ LoadsFit'
    <2>1. PageIsUnbroken /\ LoadsFit
      BY <1>7 DEF LogInv
    <2>2. loads[b] # NoLoad /\ NoLoad.state = "none"
      BY <1>1 DEF NoLoad
    <2>3. \A c \in Buttons \ {b} : loads'[c] = NoLoad
      BY <1>6, <2>1, <2>2 DEF LoadsFit
    <2>4. PageIsUnbroken'
      BY <1>2, <2>1 DEF PageIsUnbroken
    <2>5. loads'["more"] # NoLoad => Len(page'.rows) # 0
      BY <1>2, <2>1, <2>2, <2>3 DEF LoadsFit, Buttons
    <2>6. b = "more" => from = page'.lastId - 1
      <3>1. b = "more" => id = page.lastId /\ Len(page.rows) # 0
        BY <1>1, <2>1, <2>2 DEF LoadsFit
      <3>2. Len(page.rows) # 0 => page.lastId # 0
        <4>1. ASSUME Len(page.rows) # 0 PROVE page.lastId # 0
          <5>1. Len(page.rows) \in 1..Len(page.rows)
            BY <1>1, <4>1, LenProperties
          <5> QED BY <2>1, <4>1, <5>1 DEF PageIsUnbroken
        <4> QED BY <4>1
      <3> QED BY <1>2, <3>1, <3>2 DEF from
    <2>7. \A c \in Buttons :
             /\ loads'[c].state # "asked"
             /\ loads'[c].state = "answered"
                  => \E x \in Nat : /\ Piece(loads'[c].rows, x)
                                    /\ c = "more" => x = page'.lastId - 1
      BY <1>4, <1>5, <1>6, <2>2, <2>3, <2>6
    <2>8. \A c, d \in Buttons : loads'[c] # NoLoad /\ loads'[d] # NoLoad => c = d
      BY <2>3
    <2> QED BY <2>4, <2>5, <2>7, <2>8 DEF LoadsFit, Piece
  <1> QED BY <1>1, <1>2, <1>6, <1>7 DEF LogInv

(* The rows are shown.                                                     *)
LEMMA LoadArrivesStep ==
  ASSUME LogInv, NEW b \in Buttons, LoadArrives(b)
  PROVE  LogInv'
  <1> DEFINE rows == loads[b].rows
  <1>1. /\ entries \in Nat /\ loads \in [Buttons -> Load] /\ loads[b].state = "answered"
        /\ page \in [rows: Seq(Nat), lastId: Nat, more: BOOLEAN, crossed: BOOLEAN]
    BY DEF LogInv, LoadArrives
  <1>2. /\ loads' = [loads EXCEPT ![b] = NoLoad] /\ entries' = entries
        /\ page' = Shown(b, rows)
    BY DEF LoadArrives
  <1>3. rows \in Seq(Nat)
    BY <1>1 DEF Load, NoLoad
  <1> HIDE DEF rows
  <1>4. /\ loads' \in [Buttons -> Load] /\ loads'[b] = NoLoad
        /\ \A c \in Buttons \ {b} : loads'[c] = loads[c]
    BY <1>1, <1>2 DEF Load
  <1>5. /\ page' \in [rows: Seq(Nat), lastId: Nat, more: BOOLEAN, crossed: BOOLEAN]
        /\ page'.crossed = page.crossed
    <2>1. rows # <<>> => Last(rows) \in Nat
      <3>1. ASSUME rows # <<>> PROVE Last(rows) \in Nat
        <4>1. Len(rows) \in 1..Len(rows)
          BY <1>3, <3>1, EmptySeq, LenProperties
        <4> QED BY <1>3, <4>1, ElementOfSeq DEF Last
      <3> QED BY <3>1
    <2>2. page.rows \o rows \in Seq(Nat)
      BY <1>1, <1>3, ConcatProperties
    <2>3. (Len(rows) >= PageLength) \in BOOLEAN
      OBVIOUS
    <2> QED BY <1>1, <1>2, <1>3, <2>1, <2>2, <2>3 DEF Shown
  <1>6. ASSUME ~page.crossed PROVE PageIsUnbroken' /\ LoadsFit'
    <2>1. PageIsUnbroken /\ LoadsFit
      BY <1>6 DEF LogInv
    <2>2. loads[b] # NoLoad /\ NoLoad.state = "none"
      BY <1>1 DEF NoLoad
    <2>3. \A c \in Buttons : loads'[c] = NoLoad
      BY <1>4, <2>1, <2>2 DEF LoadsFit
    <2>4. PICK from \in Nat : Piece(rows, from) /\ (b = "more" => from = page.lastId - 1)
      BY <1>1, <2>1 DEF LoadsFit, rows
    <2>5. b = "more" => Len(page.rows) # 0
      BY <2>1, <2>2 DEF LoadsFit
    <2>6. PageIsUnbroken'
      BY <1>1, <1>2, <2>1, <2>4, <2>5, ShownFits
    <2> QED BY <2>2, <2>3, <2>6 DEF LoadsFit, Buttons
  <1> QED BY <1>1, <1>2, <1>4, <1>5, <1>6 DEF LogInv

LEMMA LogStep ==
  ASSUME LogInv, [ReportsNext \/ LogNext]_reportVars
  PROVE  LogInv'
  <1>1. CASE UNCHANGED <<page, loads>> /\ entries' \in {entries, entries + 1}
    BY <1>1 DEF LogInv, PageIsUnbroken, LoadsFit, Piece
  <1>2. ASSUME NEW b \in Buttons, LoadFails(b) PROVE LogInv'
    <2>1. /\ loads' = [loads EXCEPT ![b] = NoLoad] /\ entries' = entries /\ page' = page
          /\ loads \in [Buttons -> Load] /\ NoLoad \in Load /\ NoLoad.state = "none"
      BY <1>2 DEF LoadFails, LogInv, Load, NoLoad
    <2>2. /\ loads' \in [Buttons -> Load] /\ loads'[b] = NoLoad
          /\ \A c \in Buttons \ {b} : loads'[c] = loads[c]
      BY <2>1
    <2>3. PageIsUnbroken => PageIsUnbroken'
      BY <2>1 DEF PageIsUnbroken
    <2>4. LoadsFit => LoadsFit'
      <3> SUFFICES ASSUME LoadsFit PROVE LoadsFit'
        OBVIOUS
      <3>1. \A c, d \in Buttons : loads'[c] # NoLoad /\ loads'[d] # NoLoad => c = d
        BY <2>2 DEF LoadsFit
      <3>2. loads'["more"] # NoLoad => Len(page'.rows) # 0
        BY <2>1, <2>2 DEF LoadsFit, Buttons
      <3>3. \A c \in Buttons : loads'[c].state # "none" => loads'[c] = loads[c]
        BY <2>1, <2>2
      <3> QED BY <2>1, <3>1, <3>2, <3>3 DEF LoadsFit, Piece
    <2> QED BY <2>1, <2>2, <2>3, <2>4 DEF LogInv
  <1>3. \/ UNCHANGED <<page, loads>> /\ entries' \in {entries, entries + 1}
        \/ \E b \in Buttons : LoadStarts(b) \/ LogServed(b) \/ LoadFails(b) \/ LoadArrives(b)
    BY DEF ReportsNext, LogNext, RequestEnds, AttemptWritten, EntryWritten, reportVars
  <1> QED BY <1>1, <1>2, <1>3, LoadStartsStep, LogServedStep, LoadArrivesStep

(* The page of the log shows an unbroken piece of it, unless a load was    *)
(* started while another was under way.                                    *)
THEOREM LogUnbroken == ReportsSpec => []LogHasNoGap
  <1>1. ReportsInit => LogInv
    <2> SUFFICES ASSUME ReportsInit PROVE LogInv
      OBVIOUS
    <2>1. /\ entries = 0 /\ loads = [b \in Buttons |-> NoLoad]
          /\ page = [rows |-> <<>>, lastId |-> 0, more |-> FALSE, crossed |-> FALSE]
      BY DEF ReportsInit
    <2>2. << >> \in Seq(Nat) /\ Len(<< >>) = 0 /\ NoLoad \in Load /\ NoLoad.state = "none"
      BY EmptySeq DEF Load, NoLoad
    <2>3. PageIsUnbroken
      BY <2>1, <2>2 DEF PageIsUnbroken
    <2>4. LoadsFit
      BY <2>1, <2>2 DEF LoadsFit, Buttons
    <2> QED BY <2>1, <2>2, <2>3, <2>4 DEF LogInv
  <1>2. LogInv /\ [ReportsNext \/ LogNext]_reportVars => LogInv'
    BY LogStep
  <1>3. LogInv => LogHasNoGap
    <2> SUFFICES ASSUME LogInv, ~page.crossed
                 PROVE  /\ \A k \in 1..(Len(page.rows) - 1) : page.rows[k + 1] = page.rows[k] - 1
                        /\ page.rows # <<>> /\ ~page.more => Last(page.rows) = 1
      BY DEF LogHasNoGap
    <2>1. PageIsUnbroken /\ page.rows \in Seq(Nat)
      BY DEF LogInv
    <2>2. page.rows # <<>> => Len(page.rows) # 0
      BY <2>1, EmptySeq
    <2> QED BY <2>1, <2>2 DEF PageIsUnbroken, Last
  <1> QED BY <1>1, <1>2, <1>3, PTL DEF ReportsSpec

----------------------------------------------------------------------------
(* What goes upstream.                                                     *)

(* The parts of a body that say who may answer: set by the proxy alone.    *)
Stripped == {"provider", "route", "transforms", "plugins", "debug", "stream_options"}

LEMMA SitePayload ==
  ASSUME NEW body \in Bodies, NEW site \in Sites, ResolveModel(body["model"], site) # Absent
  PROVE  LET models == ResolveModel(body["model"], site)
             sent   == BuildUpstreamPayload(body, models)
         IN  /\ AnsweringModels(sent) = IF Len(models) > 1 THEN Range(models) ELSE {models[1]}
             /\ sent["stream"] = "no"
             /\ \A f \in Stripped : sent[f] = Absent
  <1> DEFINE models == ResolveModel(body["model"], site)
             out  == Without(body, DenyFields)
             base == IF Len(models) > 1
                     THEN [out EXCEPT !["models"] = models, !["stream"] = "no"]
                     ELSE [out EXCEPT !["model"] = models[1], !["stream"] = "no"]
             sent == Overrides(models[1], base)
  <1>1. body = [f \in Fields |-> body[f]]
    BY PayloadsAssumption
  <1>2. out = [f \in Fields |-> IF f \in DenyFields THEN Absent ELSE body[f]]
    BY <1>1 DEF Without
  <1>3. BuildUpstreamPayload(body, models) = sent
    BY DEF BuildUpstreamPayload
  <1>4. "model" \in Fields /\ "models" \in Fields /\ out["models"] = Absent
    BY <1>2 DEF Fields, DenyFields
  <1> HIDE DEF models, out
  <1>5. /\ base = [f \in Fields |-> base[f]]
        /\ Len(models) > 1 => base["models"] = models
        /\ ~(Len(models) > 1) => base["models"] = Absent /\ base["model"] = models[1]
        /\ Len(models) > 1 => base["model"] = Absent
        /\ base["stream"] = "no" /\ \A f \in Stripped : base[f] = Absent
    <2>1. /\ {"models", "model", "stream"} \cup Stripped \subseteq Fields
          /\ Stripped \cap {"models", "model", "stream"} = {} /\ Stripped \cup {"model", "models"} \subseteq DenyFields
      BY DEF Fields, DenyFields, Stripped
    <2>2. \A f \in Fields : base[f] = IF f = "stream" THEN "no"
                                    ELSE IF f = "models" /\ Len(models) > 1 THEN models
                                    ELSE IF f = "model" /\ ~(Len(models) > 1) THEN models[1] ELSE out[f]
      BY <1>2
    <2>3. base = [f \in Fields |-> base[f]]
      BY <1>2
    <2>4. \A f \in DenyFields \cap Fields : out[f] = Absent
      BY <1>2
    <2> HIDE DEF base
    <2> QED BY <2>1, <2>2, <2>3, <2>4
  <1> HIDE DEF base
  <1>6. /\ sent["models"] = base["models"] /\ sent["model"] = base["model"]
        /\ sent["stream"] = base["stream"] /\ \A f \in Stripped : sent[f] = base[f]
    <2>1. {"models", "model", "stream"} \cup Stripped \subseteq Fields \ {"reasoning"}
      BY DEF Fields, Stripped
    <2>2. \A f \in Fields \ {"reasoning"} : sent[f] = base[f]
      BY <1>5 DEF Overrides
    <2> HIDE DEF sent
    <2> QED BY <2>1, <2>2
  <1>7. AnsweringModels(sent) = IF Len(models) > 1 THEN Range(models) ELSE {models[1]}
    <2>1. models # Absent
      BY DEF models
    <2> HIDE DEF sent
    <2> QED BY <1>5, <1>6, <2>1 DEF AnsweringModels
  <1>8. sent["stream"] = "no" /\ \A f \in Stripped : sent[f] = Absent
    <2> HIDE DEF sent
    <2> QED BY <1>5, <1>6
  <1> QED BY <1>3, <1>7, <1>8 DEF models

(* A site's call is answered by the models of the site, or by the one it   *)
(* may ask for.                                                            *)
LEMMA SiteModels ==
  ASSUME NEW body \in Bodies, NEW site \in Sites, ResolveModel(body["model"], site) # <<>>
  PROVE  LET wanted  == body["model"]
             own    == {site.defaultModel} \cup Range(site.fallbackModels)
             models == AnsweringModels(BuildUpstreamPayload(body, ResolveModel(wanted, site)))
         IN  \/ models = own /\ (wanted \in Sentinels \cup {Absent, OtherType} \/ site.allowedModels = {})
             \/ models = {wanted} /\ {AnyModel, wanted} \cap site.allowedModels # {}
  <1> DEFINE wanted == body["model"]
             norm  == NormalizeRequested(wanted)
             fall  == site.fallbackModels
             list  == <<site.defaultModel>> \o fall
             answering == AnsweringModels(BuildUpstreamPayload(body, ResolveModel(wanted, site)))
  <1>1. /\ fall = [i \in 1..Len(fall) |-> fall[i]] /\ Len(fall) \in Nat /\ list # Absent
    BY PayloadsAssumption
  <1>2. norm = wanted \/ (norm = Absent /\ wanted \in Sentinels \cup {OtherType})
    BY DEF NormalizeRequested
  <1>3. CASE norm = Absent \/ site.allowedModels = {}
    <2>1. ResolveModel(wanted, site) = list
      BY <1>3 DEF ResolveModel
    <2>2. /\ Len(list) = 1 + Len(fall) /\ DOMAIN list = 1..Len(list) /\ list[1] = site.defaultModel
          /\ \A i \in 1..Len(fall) : list[i + 1] = fall[i]
      <3> DEFINE V == {site.defaultModel} \cup {fall[i] : i \in 1..Len(fall)}
                 one == <<site.defaultModel>>
      <3>1. fall \in Seq(V) /\ one \in Seq(V) /\ Len(one) = 1 /\ one[1] = site.defaultModel
        BY <1>1, SeqDef
      <3> HIDE DEF V, one
      <3>2. /\ one \o fall \in Seq(V) /\ Len(one \o fall) = Len(one) + Len(fall)
            /\ \A i \in 1..(Len(one) + Len(fall)) :
                  (one \o fall)[i] = IF i <= Len(one) THEN one[i] ELSE fall[i - Len(one)]
        BY <3>1, ConcatProperties
      <3>3. list = one \o fall
        BY DEF one
      <3> HIDE DEF list, fall
      <3>4. \A i \in 1..Len(fall) : list[i + 1] = fall[i]
        <4> SUFFICES ASSUME NEW i \in 1..Len(fall) PROVE list[i + 1] = fall[i]
          OBVIOUS
        <4> DEFINE j == i + 1
        <4>1. j \in 1..(1 + Len(fall)) /\ ~(j <= 1) /\ j - 1 = i
          BY <1>1
        <4> HIDE DEF j
        <4>2. list[j] = fall[j - 1]
          BY <3>1, <3>2, <3>3, <4>1
        <4> QED BY <4>1, <4>2 DEF j
      <3>5. list[1] = site.defaultModel
        <4>1. 1 \in 1..(1 + Len(fall))
          BY <1>1
        <4> QED BY <3>1, <3>2, <3>3, <4>1
      <3>6. DOMAIN list = 1..Len(list)
        BY <3>2, <3>3, LenProperties
      <3> QED BY <3>1, <3>2, <3>3, <3>4, <3>5, <3>6
    <2> HIDE DEF list, fall
    <2>3. Range(list) = {site.defaultModel} \cup Range(fall)
      <3>1. DOMAIN fall = 1..Len(fall)
        BY <1>1
      <3>2. ASSUME NEW x \in Range(list) PROVE x \in {site.defaultModel} \cup Range(fall)
        <4>1. PICK i \in 1..(1 + Len(fall)) : x = list[i]
          BY <2>2 DEF Range
        <4>2. CASE i = 1
          BY <2>2, <4>1, <4>2
        <4>3. CASE i # 1
          <5> DEFINE j == i - 1
          <5>1. j \in 1..Len(fall) /\ j + 1 = i
            BY <1>1, <4>1, <4>3
          <5> HIDE DEF j
          <5>2. x = fall[j]
            BY <2>2, <4>1, <5>1
          <5> QED BY <3>1, <5>1, <5>2 DEF Range
        <4> QED BY <4>2, <4>3
      <3>3. ASSUME NEW x \in Range(fall) PROVE x \in Range(list)
        <4>1. PICK i \in 1..Len(fall) : x = fall[i]
          BY <3>1 DEF Range
        <4> DEFINE j == i + 1
        <4>2. j \in 1..Len(list) /\ list[j] = x
          BY <1>1, <2>2, <4>1
        <4> HIDE DEF j
        <4> QED BY <2>2, <4>2 DEF Range
      <3>4. site.defaultModel \in Range(list)
        <4>1. 1 \in DOMAIN list
          BY <1>1, <2>2
        <4> QED BY <2>2, <4>1 DEF Range
      <3> QED BY <3>2, <3>3, <3>4
    <2>4. answering = IF Len(list) > 1 THEN Range(list) ELSE {list[1]}
      BY <1>1, <2>1, SitePayload
    <2>5. ~(Len(list) > 1) => Range(fall) = {}
      <3>1. ~(Len(list) > 1) => 1..Len(fall) = {}
        BY <1>1, <2>2
      <3>2. DOMAIN fall = 1..Len(fall)
        BY <1>1
      <3> QED BY <3>1, <3>2 DEF Range
    <2>6. answering = {site.defaultModel} \cup Range(fall)
      BY <2>2, <2>3, <2>4, <2>5
    <2> HIDE DEF answering
    <2>7. wanted \in Sentinels \cup {Absent, OtherType} \/ site.allowedModels = {}
      BY <1>2, <1>3
    <2> QED BY <2>6, <2>7 DEF answering, fall
  <1>4. CASE ~(norm = Absent \/ site.allowedModels = {})
    <2>1. norm = wanted
      BY <1>2, <1>4
    <2>2. {AnyModel, wanted} \cap site.allowedModels # {} /\ ResolveModel(wanted, site) = <<wanted>>
      BY <1>4, <2>1 DEF ResolveModel
    <2>3. ResolveModel(wanted, site) # Absent
      BY <2>2, PayloadsAssumption
    <2>4. answering = IF Len(<<wanted>>) > 1 THEN Range(<<wanted>>) ELSE {<<wanted>>[1]}
      BY <2>2, <2>3, SitePayload
    <2> HIDE DEF answering
    <2>5. answering = {wanted}
      BY <2>4
    <2> QED BY <2>2, <2>5 DEF answering
  <1> QED BY <1>3, <1>4

(* What goes upstream for an agent, field by field.                        *)
Denied == {"models", "provider", "route", "transforms", "plugins", "preset", "debug",
           "n", "service_tier", "store", "web_search_options"}

TooHigh(body, target, f) == target.cap > 0 /\ body[f] \in Int /\ body[f] > target.cap

LEMMA AgentPayload ==
  ASSUME NEW body \in Bodies, NEW target \in Targets
  PROVE  LET sent == BuildAgentPayload(body, target)
         IN  /\ \A f \in Denied : sent[f] = Absent
             /\ sent["model"] = target.model
             /\ \A f \in LimitFields :
                   sent[f] = IF TooHigh(body, target, f) THEN target.cap ELSE body[f]
             /\ sent["stream"] = body["stream"]
             /\ body["stream"] # "yes" => sent["stream_options"] = Absent
             /\ body["stream"] = "yes" /\ target.usageMode = "openrouter" => sent["usage"] = "include"
             /\ body["stream"] = "yes" /\ target.usageMode = "stream_options"
                   => sent["stream_options"] = "include"
  <1> DEFINE kept   == Without(body, AgentDenyFields \cup AgentCostFields)
             capped == Capped(kept, target.cap)
             base   == [capped EXCEPT !["model"] = target.model]
             sent   == AskUsage(base, target.usageMode)
  <1>1. body = [f \in Fields |-> body[f]]
    BY PayloadsAssumption
  <1>2. kept = [f \in Fields |-> IF f \in Denied THEN Absent ELSE body[f]]
    <2>1. AgentDenyFields \cup AgentCostFields = Denied
      BY DEF AgentDenyFields, AgentCostFields, Denied
    <2> QED BY <1>1, <2>1 DEF Without
  <1>3. /\ LimitFields \subseteq Fields /\ Denied \subseteq Fields
        /\ LimitFields \cap Denied = {} /\ "model" \notin LimitFields \cup Denied
        /\ {"model", "stream", "stream_options", "usage"} \subseteq Fields
        /\ {"model", "stream", "stream_options", "usage"} \cap (LimitFields \cup Denied) = {}
    BY DEF LimitFields, Fields, Denied
  <1> HIDE DEF kept
  <1>4. capped = [f \in Fields |->
                   IF f \in LimitFields /\ target.cap > 0 /\ kept[f] \in Int /\ kept[f] > target.cap
                   THEN target.cap ELSE kept[f]]
    BY <1>2 DEF Capped
  <1> HIDE DEF capped
  <1>5. base = [f \in Fields |-> IF f = "model" THEN target.model ELSE capped[f]]
    BY <1>4
  <1> HIDE DEF base
  <1>6. (\A f \in Denied : base[f] = Absent) /\ base["model"] = target.model
        /\ base["stream"] = body["stream"]
    BY <1>2, <1>3, <1>4, <1>5
  <1>7. ASSUME NEW f \in LimitFields
        PROVE  base[f] = IF TooHigh(body, target, f) THEN target.cap ELSE body[f]
    <2>1. kept[f] = body[f]
      BY <1>2, <1>3
    <2>2. base[f] = capped[f]
      BY <1>3, <1>5
    <2> QED BY <1>3, <1>4, <2>1, <2>2 DEF TooHigh
  <1>8. /\ \A f \in Fields \ {"stream_options", "usage"} : sent[f] = base[f]
        /\ base["stream"] # "yes" => sent["stream_options"] = Absent
        /\ base["stream"] = "yes" /\ target.usageMode = "openrouter" => sent["usage"] = "include"
        /\ base["stream"] = "yes" /\ target.usageMode = "stream_options"
              => sent["stream_options"] = "include"
    BY <1>3, <1>5 DEF AskUsage
  <1>9. BuildAgentPayload(body, target) = sent
    BY DEF BuildAgentPayload, base, capped, kept
  <1> HIDE DEF sent
  <1>10. \A f \in LimitFields \cup Denied : sent[f] = base[f]
    BY <1>3, <1>8
  <1>11. sent["model"] = base["model"] /\ sent["stream"] = base["stream"]
    BY <1>3, <1>8
  <1>12. \A f \in LimitFields : sent[f] = IF TooHigh(body, target, f) THEN target.cap ELSE body[f]
    BY <1>7, <1>10
  <1>13. \A f \in Denied : sent[f] = Absent
    BY <1>6, <1>10
  <1> QED BY <1>6, <1>8, <1>9, <1>11, <1>12, <1>13

(* Nothing yet, or a call of a site or of an agent with its payload.       *)
CaseIsBuilt ==
    \/ case = Absent
    \/ \E body \in Bodies, site \in Sites :
          LET models == ResolveModel(body["model"], site)
          IN  case = [of |-> "site", body |-> body, site |-> site,
                      sent |-> IF models = <<>> THEN Absent ELSE BuildUpstreamPayload(body, models)]
    \/ \E body \in Bodies, target \in Targets :
          case = [of |-> "agent", body |-> body, target |-> target,
                  sent |-> BuildAgentPayload(body, target)]

LEMMA BuiltIsSound ==
  ASSUME CaseIsBuilt
  PROVE  PayloadsSound
  <1>1. ASSUME NEW body \in Bodies, NEW site \in Sites, Sent,
               case = [of |-> "site", body |-> body, site |-> site,
                       sent |-> IF ResolveModel(body["model"], site) = <<>> THEN Absent
                                ELSE BuildUpstreamPayload(body, ResolveModel(body["model"], site))]
        PROVE  PayloadsSound
    <2>1. /\ case.of = "site" /\ case.body = body /\ case.site = site
          /\ case.sent = BuildUpstreamPayload(body, ResolveModel(body["model"], site))
          /\ ResolveModel(body["model"], site) # <<>>
      BY <1>1 DEF Sent
    <2> DEFINE models == ResolveModel(body["model"], site)
               sent   == BuildUpstreamPayload(body, models)
    <2>2. models # Absent
      <3>1. <<site.defaultModel>> \o site.fallbackModels # Absent /\ <<body["model"]>> # Absent
        BY PayloadsAssumption
      <3>2. models = <<site.defaultModel>> \o site.fallbackModels \/ models = <<body["model"]>>
        BY <2>1 DEF ResolveModel, NormalizeRequested
      <3> HIDE DEF models
      <3> QED BY <3>1, <3>2
    <2>3. sent["stream"] = "no" /\ \A f \in Stripped : sent[f] = Absent
      BY <2>2, SitePayload
    <2>4. LET wanted == body["model"]
              own    == {site.defaultModel} \cup Range(site.fallbackModels)
          IN  \/ /\ AnsweringModels(sent) = own
                 /\ wanted \in Sentinels \cup {Absent, OtherType} \/ site.allowedModels = {}
              \/ AnsweringModels(sent) = {wanted} /\ {AnyModel, wanted} \cap site.allowedModels # {}
      BY <2>1, SiteModels
    <2> HIDE DEF sent
    <2>5. case.sent = sent
      BY <2>1 DEF sent
    <2>6. OnlyModelsOfTheSite
      BY <2>1, <2>3, <2>4, <2>5 DEF OnlyModelsOfTheSite, Stripped
    <2> QED BY <2>1, <2>6 DEF PayloadsSound, AgentStaysInBudget, StreamsReportUsage
  <1>2. ASSUME NEW body \in Bodies, NEW target \in Targets, Sent,
               case = [of |-> "agent", body |-> body, target |-> target,
                       sent |-> BuildAgentPayload(body, target)]
        PROVE  PayloadsSound
    <2> DEFINE sent == BuildAgentPayload(body, target)
    <2>1. case.of = "agent" /\ case.body = body /\ case.target = target /\ case.sent = sent
      BY <1>2
    <2>2. /\ \A f \in Denied : sent[f] = Absent
          /\ sent["model"] = target.model
          /\ \A f \in LimitFields :
                sent[f] = IF TooHigh(body, target, f) THEN target.cap ELSE body[f]
          /\ sent["stream"] = body["stream"]
          /\ body["stream"] # "yes" => sent["stream_options"] = Absent
          /\ body["stream"] = "yes" /\ target.usageMode = "openrouter" => sent["usage"] = "include"
          /\ body["stream"] = "yes" /\ target.usageMode = "stream_options"
                => sent["stream_options"] = "include"
      BY AgentPayload
    <2> HIDE DEF sent
    <2>3. AgentStaysInBudget
      <3>1. target.cap \in Nat
        BY PayloadsAssumption
      <3>2. ASSUME NEW f \in LimitFields
            PROVE  /\ target.cap > 0 /\ sent[f] \in Int => sent[f] <= target.cap
                   /\ sent[f] # body[f] => sent[f] < body[f]
        <4>1. CASE TooHigh(body, target, f)
          BY <2>2, <3>1, <4>1 DEF TooHigh
        <4>2. CASE ~TooHigh(body, target, f)
          <5>1. sent[f] = body[f]
            BY <2>2, <4>2
          <5> QED BY <3>1, <4>2, <5>1 DEF TooHigh
        <4> QED BY <4>1, <4>2
      <3>3. AnsweringModels(sent) = {target.model}
        BY <2>2 DEF AnsweringModels, Denied
      <3>4. \A f \in {"provider", "route", "transforms", "plugins", "preset", "debug",
                     "n", "service_tier", "store", "web_search_options"} : sent[f] = Absent
        BY <2>2 DEF Denied
      <3>5. LimitFields = {"max_tokens", "max_completion_tokens", "reasoning"}
        BY DEF LimitFields
      <3> QED BY <2>1, <3>2, <3>3, <3>4, <3>5 DEF AgentStaysInBudget
    <2>4. StreamsReportUsage
      <3>1. target.usageMode \in {"openrouter", "stream_options", "none"}
        BY PayloadsAssumption
      <3> QED BY <2>1, <2>2, <3>1 DEF StreamsReportUsage
    <2> QED BY <2>1, <2>3, <2>4 DEF PayloadsSound, OnlyModelsOfTheSite
  <1>3. CASE Sent
    <2>1. case # Absent
      BY <1>3 DEF Sent
    <2> QED BY <1>1, <1>2, <1>3, <2>1 DEF CaseIsBuilt
  <1>4. CASE ~Sent
    BY <1>4 DEF PayloadsSound, OnlyModelsOfTheSite, AgentStaysInBudget, StreamsReportUsage
  <1> QED BY <1>3, <1>4

(* Whatever JSON a body holds: the models that may answer a site that      *)
(* names no preset, the model and the fields of cost of an agent and its   *)
(* numbers of tokens, and whether its stream reports what it used          *)
(* (resolve-model.ts, sanitize-payload.ts, agent-payload.ts).              *)
THEOREM PayloadsKept == PayloadsSpec => []PayloadsSound
  <1>1. PayloadsInit => CaseIsBuilt
    BY DEF PayloadsInit, CaseIsBuilt
  <1>2. CaseIsBuilt /\ [PayloadsNext]_payloadVars => CaseIsBuilt'
    <2> SUFFICES ASSUME CaseIsBuilt, [PayloadsNext]_payloadVars PROVE CaseIsBuilt'
      OBVIOUS
    <2>1. ASSUME NEW body \in Bodies, NEW site \in Sites, SiteCall(body, site) PROVE CaseIsBuilt'
      BY <2>1 DEF SiteCall, CaseIsBuilt
    <2>2. ASSUME NEW body \in Bodies, NEW target \in Targets, AgentCall(body, target)
          PROVE  CaseIsBuilt'
      BY <2>2 DEF AgentCall, CaseIsBuilt
    <2>3. CASE UNCHANGED payloadVars
      BY <2>3 DEF payloadVars, CaseIsBuilt
    <2> QED BY <2>1, <2>2, <2>3 DEF PayloadsNext
  <1>3. CaseIsBuilt => PayloadsSound
    BY BuiltIsSound
  <1> QED BY <1>1, <1>2, <1>3, PTL DEF PayloadsSpec

----------------------------------------------------------------------------
(* The synchronisation of prices with the catalogue.                       *)

Busy == sync.at # "idle"

(* A run that is under way began in the past, on a day without a success.  *)
RunIsOfAnOpenDay ==
    Busy => /\ sync.startedAt \in 0..now
            /\ ~HasSuccessfulSyncForDay(BillingDay(sync.startedAt))

(* Versions are not younger than the run that will write the next one.     *)
VersionsAreOlder ==
    \A i \in DOMAIN versions :
        /\ versions[i].observedAt <= now
        /\ Busy => versions[i].observedAt <= sync.startedAt

(* Whose estimate is settled began before the run that is under way.       *)
SettledIsOlder ==
    \A a \in Attempts :
        /\ attempts[a].at = "running" => attempts[a].started \in 0..now
        /\ attempts[a].at = "done" => attempts[a].started \in 0..(now - 1)
        /\ attempts[a].at = "done" /\ ~attempts[a].unsettled /\ Busy
              => attempts[a].started < sync.startedAt

FailureIsHeeded == sync.failedAt # Never => sync.nextAttemptAt >= sync.failedAt + Backoff

SyncInv ==
    /\ TypeOK /\ OneSuccessADay /\ VersionsAreChanges /\ EstimatesStand
    /\ RunIsOfAnOpenDay /\ VersionsAreOlder /\ SettledIsOlder /\ FailureIsHeeded

Version == [price: Prices, observedAt: 0..MaxNow]

----------------------------------------------------------------------------
(* A day is a number.                                                      *)
LEMMA DayIsNat == ASSUME NEW t \in Nat PROVE BillingDay(t) \in Nat
  BY PriceSyncAssumption, SMT DEF BillingDay

(* Of some of the first n numbers one is the last.                         *)
LEMMA LastOf ==
  ASSUME NEW n \in Nat, NEW S \in SUBSET (1..n), S # {}
  PROVE  \E i \in S : \A j \in S : j <= i
  <1> DEFINE T == {k \in Nat : n - k \in S}
             Less == OpToRel(<, Nat)
  <1>1. T # {} /\ T \subseteq Nat
    <2>1. PICK i \in S : TRUE
      OBVIOUS
    <2>2. n - i \in Nat /\ n - (n - i) = i
      OBVIOUS
    <2> QED BY <2>1, <2>2
  <1>2. IsWellFoundedOn(Less, Nat)
    BY NatLessThanWellFounded
  <1>3. \E k \in T : \A l \in T : ~(<<l, k>> \in Less)
    <2> HIDE DEF T, Less
    <2> QED BY <1>1, <1>2, WFMin
  <1>4. PICK k \in T : \A l \in T : ~(<<l, k>> \in Less)
    BY <1>3
  <1>5. ASSUME NEW l \in T PROVE k <= l
    <2>1. l < k => <<l, k>> \in Less
      BY DEF OpToRel
    <2> HIDE DEF Less
    <2> QED BY <1>4, <2>1
  <1>6. ASSUME NEW j \in S PROVE j <= n - k
    <2>1. n - j \in T
      OBVIOUS
    <2> QED BY <1>5, <2>1
  <1> QED BY <1>6

(* A version is looked up by its number.                                   *)
LEMMA LookupIsNat == ASSUME TypeOK, NEW t PROVE PriceVersionAt(t) \in Nat
  <1> DEFINE past == {i \in DOMAIN versions : versions[i].observedAt <= t}
  <1>1. Len(versions) \in Nat /\ past \subseteq 1..Len(versions)
    BY DEF TypeOK
  <1>2. PriceVersionAt(t) = IF past = {} THEN NoPrice ELSE CHOOSE i \in past : \A j \in past : j <= i
    BY Zenon DEF PriceVersionAt
  <1>3. past # {} => \E i \in past : \A j \in past : j <= i
    <2> HIDE DEF past
    <2> QED BY <1>1, LastOf
  <1> HIDE DEF past
  <1>4. past # {} => PriceVersionAt(t) \in past
    BY <1>2, <1>3
  <1>5. past = {} => PriceVersionAt(t) = 0
    BY <1>2 DEF NoPrice
  <1> DEFINE found == PriceVersionAt(t)
  <1>6. found = 0 \/ found \in 1..Len(versions)
    BY <1>1, <1>4, <1>5
  <1> HIDE DEF found
  <1>7. found \in Nat
    BY <1>1, <1>6
  <1> QED BY <1>7 DEF found

(* What a run writes keeps the history in order and without repetitions,   *)
(* and leaves the prices before the run's start as they were.              *)
LEMMA WritingKeepsThePast ==
  ASSUME SyncInv, Busy, versions' \in {versions, Upserted}
  PROVE  /\ versions' \in Seq(Version)
         /\ VersionsAreChanges'
         /\ \A i \in DOMAIN versions' : versions'[i].observedAt <= sync.startedAt
         /\ \A t \in Int : t < sync.startedAt => PriceVersionAt(t)' = PriceVersionAt(t)
  <1>1. versions \in Seq(Version) /\ sync.startedAt \in 0..MaxNow /\ sync.seen \in Prices \cup {Unlisted}
    BY SMT, PriceSyncAssumption DEF SyncInv, TypeOK, Version, RunIsOfAnOpenDay
  <1>2. \A i \in DOMAIN versions : versions[i].observedAt <= sync.startedAt
    BY DEF SyncInv, VersionsAreOlder
  <1>3. CASE versions' = versions
    BY <1>1, <1>2, <1>3 DEF SyncInv, VersionsAreChanges, PriceVersionAt
  <1>4. CASE versions' # versions
    <2> DEFINE new == [price |-> sync.seen, observedAt |-> sync.startedAt]
    <2>1. /\ versions' = Append(versions, new) /\ sync.seen # Unlisted
          /\ Len(versions) # 0 => versions[Len(versions)].price # sync.seen
      BY <1>4 DEF Upserted, LatestVersion, ToVersion, NoPrice
    <2>2. new \in Version
      BY <1>1, <2>1 DEF Version
    <2>3. /\ versions' \in Seq(Version) /\ Len(versions') = Len(versions) + 1
          /\ \A i \in 1..Len(versions) : versions'[i] = versions[i]
          /\ versions'[Len(versions) + 1] = new
          /\ Len(versions) \in Nat
      <3> HIDE DEF new, Version
      <3> QED BY <1>1, <2>1, <2>2
    <2>4. VersionsAreChanges'
      <3> SUFFICES ASSUME NEW i \in 2..Len(versions')
                   PROVE  /\ versions'[i].price # versions'[i - 1].price
                          /\ versions'[i].observedAt >= versions'[i - 1].observedAt
        BY DEF VersionsAreChanges
      <3>1. CASE i \in 2..Len(versions)
        BY <2>3, <3>1 DEF SyncInv, VersionsAreChanges
      <3>2. CASE i = Len(versions) + 1
        <4>1. Len(versions) \in 1..Len(versions) /\ i - 1 = Len(versions)
          BY <2>3, <3>2
        <4>2. versions'[i] = new /\ versions'[i - 1] = versions[Len(versions)]
          BY <2>3, <3>2, <4>1
        <4>3. versions[Len(versions)].observedAt <= sync.startedAt /\ versions[Len(versions)] \in Version
          BY <1>1, <1>2, <4>1
        <4> QED BY <1>1, <2>1, <2>3, <4>1, <4>2, <4>3 DEF Version
      <3> QED BY <2>3, <3>1, <3>2
    <2>5. \A i \in DOMAIN versions' : versions'[i].observedAt <= sync.startedAt
      BY <1>1, <1>2, <2>3
    <2>6. ASSUME NEW t \in Int, t < sync.startedAt
          PROVE  PriceVersionAt(t)' = PriceVersionAt(t)
      <3> DEFINE old == {i \in DOMAIN versions : versions[i].observedAt <= t}
                 past == {i \in DOMAIN versions' : versions'[i].observedAt <= t}
                 Latest(S) == IF S = {} THEN NoPrice ELSE CHOOSE i \in S : \A j \in S : j <= i
      <3>1. past = old
        BY <1>1, <2>3, <2>6
      <3>2. PriceVersionAt(t) = Latest(old) /\ PriceVersionAt(t)' = Latest(past)
        BY Zenon DEF PriceVersionAt
      <3> HIDE DEF old, past, Latest
      <3> QED BY <3>1, <3>2
    <2> QED BY <2>3, <2>4, <2>5, <2>6
  <1> QED BY <1>3, <1>4

----------------------------------------------------------------------------
(* The initial states.                                                     *)
LEMMA SyncInit == Init => SyncInv
  <1> SUFFICES ASSUME Init PROVE SyncInv
    OBVIOUS
  <1>1. MaxNow \in Nat /\ MaxChanges \in Nat /\ MaxRestarts \in Nat /\ Backoff \in Nat
    BY PriceSyncAssumption
  <1>2. versions = <<>> /\ runs = <<>> /\ sync = FreshScheduler /\ sync.at = "idle"
        /\ sync.failedAt = Never /\ attempts = [a \in Attempts |-> NoAttempt]
    BY DEF Init, FreshScheduler
  <1>3. NoAttempt \in [at: {"idle", "running", "done", "lost"}, started: 0..MaxNow \cup {Never},
                       version: Nat, unsettled: BOOLEAN]
    BY DEF NoAttempt, NoPrice
  <1>4. FreshScheduler \in [at: {"idle", "with_auth", "without_auth", "answered"},
                  nextAttemptAt: 0..(MaxNow + Backoff), failedAt: 0..MaxNow \cup {Never},
                  startedAt: 0..MaxNow \cup {Never}, seen: Prices \cup {Unlisted}]
    BY <1>1 DEF FreshScheduler
  <1>5. TypeOK
    BY <1>1, <1>2, <1>3, <1>4 DEF TypeOK, Init
  <1>6. \A a \in Attempts : attempts[a].at = "idle"
    BY <1>2 DEF NoAttempt
  <1> QED
    BY <1>2, <1>5, <1>6
    DEF SyncInv, OneSuccessADay, VersionsAreChanges, EstimatesStand, RunIsOfAnOpenDay,
        VersionsAreOlder, SettledIsOlder, FailureIsHeeded, Busy

----------------------------------------------------------------------------
(* A step that touches neither the history, nor the runs, nor an attempt   *)
(* keeps what is said of them; what is left is the scheduler.              *)
LEMMA StandingEstimates ==
  ASSUME SyncInv, UNCHANGED <<versions, runs, attempts>>
  PROVE  OneSuccessADay' /\ VersionsAreChanges' /\ EstimatesStand'
  BY DEF SyncInv, OneSuccessADay, VersionsAreChanges, EstimatesStand, PriceVersionAt

(* A run starts.                                                           *)
LEMMA TickKeeps == SyncInv /\ Tick => SyncInv'
  <1> SUFFICES ASSUME SyncInv, Tick PROVE SyncInv'
    OBVIOUS
  <1>1. /\ sync.at = "idle" /\ ~HasSuccessfulSyncForDay(BillingDay(now))
        /\ UNCHANGED <<now, listed, changes, versions, runs, attempts, restarts>>
        /\ sync' = [sync EXCEPT !.at = "with_auth", !.startedAt = now]
    BY DEF Tick
  <1>2. TypeOK /\ now \in 0..MaxNow /\ MaxNow \in Nat
    BY PriceSyncAssumption DEF SyncInv, TypeOK
  <1>3. /\ sync'.at = "with_auth" /\ sync'.startedAt = now
        /\ sync'.failedAt = sync.failedAt /\ sync'.nextAttemptAt = sync.nextAttemptAt
    BY <1>1, <1>2 DEF TypeOK
  <1>4. TypeOK'
    BY <1>1, <1>2 DEF TypeOK
  <1>5. RunIsOfAnOpenDay'
    BY <1>1, <1>2, <1>3 DEF RunIsOfAnOpenDay, HasSuccessfulSyncForDay, BillingDay
  <1>6. VersionsAreOlder'
    BY <1>1, <1>3 DEF SyncInv, VersionsAreOlder
  <1>7. SettledIsOlder'
    BY <1>1, <1>2, <1>3 DEF SyncInv, SettledIsOlder
  <1>8. FailureIsHeeded'
    BY <1>3 DEF SyncInv, FailureIsHeeded
  <1> QED BY <1>1, <1>4, <1>5, <1>6, <1>7, <1>8, StandingEstimates DEF SyncInv

(* A run goes on.                                                          *)
LEMMA AskingKeeps == SyncInv /\ (Refused \/ Answers) => SyncInv'
  <1> SUFFICES ASSUME SyncInv, Refused \/ Answers PROVE SyncInv'
    OBVIOUS
  <1>1. /\ UNCHANGED <<now, listed, changes, versions, runs, attempts, restarts>>
        /\ sync.at # "idle" /\ TypeOK
    BY DEF Refused, Answers, SyncInv
  <1>2. /\ sync'.at \in {"without_auth", "answered"} /\ sync'.startedAt = sync.startedAt
        /\ sync'.failedAt = sync.failedAt /\ sync'.nextAttemptAt = sync.nextAttemptAt
    BY <1>1 DEF Refused, Answers, TypeOK
  <1>3. TypeOK'
    BY <1>1 DEF Refused, Answers, TypeOK
  <1>4. RunIsOfAnOpenDay' /\ VersionsAreOlder' /\ SettledIsOlder' /\ FailureIsHeeded'
    BY <1>1, <1>2
    DEF SyncInv, RunIsOfAnOpenDay, VersionsAreOlder, SettledIsOlder, FailureIsHeeded, Busy,
        HasSuccessfulSyncForDay
  <1> QED BY <1>1, <1>3, <1>4, StandingEstimates DEF SyncInv

----------------------------------------------------------------------------
(* An attempt the process did not survive.                                 *)
Lost == [NoAttempt EXCEPT !.at = "lost"]

(* A run ends: the versions are written or not, the run leaves a row or    *)
(* none, a success only if the catalogue was there.                        *)
LEMMA EndKeeps ==
  ASSUME SyncInv, Busy,
         versions' \in {versions, Upserted},
         runs' = runs \/ \E ok \in BOOLEAN : runs' = Append(runs, RunOf(ok)),
         sync'.at = "idle",
         \A a \in Attempts : attempts'[a] \in {attempts[a], Lost},
         UNCHANGED now
  PROVE  /\ versions' \in Seq(Version) /\ runs' \in Seq([day: Nat, ok: BOOLEAN])
         /\ OneSuccessADay' /\ VersionsAreChanges' /\ EstimatesStand'
         /\ RunIsOfAnOpenDay' /\ VersionsAreOlder' /\ SettledIsOlder'
  <1>1. /\ TypeOK /\ sync.startedAt \in 0..now /\ now \in Nat
        /\ ~HasSuccessfulSyncForDay(BillingDay(sync.startedAt))
    BY PriceSyncAssumption DEF SyncInv, RunIsOfAnOpenDay, TypeOK
  <1>2. /\ versions' \in Seq(Version) /\ VersionsAreChanges'
        /\ \A i \in DOMAIN versions' : versions'[i].observedAt <= sync.startedAt
        /\ \A t \in Int : t < sync.startedAt => PriceVersionAt(t)' = PriceVersionAt(t)
    BY WritingKeepsThePast
  <1>3. runs \in Seq([day: Nat, ok: BOOLEAN]) /\ \A ok \in BOOLEAN : RunOf(ok) \in [day: Nat, ok: BOOLEAN]
    BY <1>1, DayIsNat DEF TypeOK, RunOf
  <1>4. runs' \in Seq([day: Nat, ok: BOOLEAN])
    <2>1. ASSUME NEW ok \in BOOLEAN, runs' = Append(runs, RunOf(ok))
          PROVE  runs' \in Seq([day: Nat, ok: BOOLEAN])
      <3>1. RunOf(ok) \in [day: Nat, ok: BOOLEAN]
        BY <1>3
      <3> QED BY <1>3, <2>1, <3>1
    <2> QED BY <1>3, <2>1
  <1>5. OneSuccessADay'
    <2>1. CASE runs' = runs
      BY <2>1 DEF SyncInv, OneSuccessADay
    <2>2. ASSUME NEW ok \in BOOLEAN, runs' = Append(runs, RunOf(ok)) PROVE OneSuccessADay'
      <3>1. /\ Len(runs) \in Nat /\ DOMAIN runs' = 1..(Len(runs) + 1) /\ DOMAIN runs = 1..Len(runs)
            /\ \A i \in 1..Len(runs) : runs'[i] = runs[i]
            /\ runs'[Len(runs) + 1] = RunOf(ok)
        <4>1. RunOf(ok) \in [day: Nat, ok: BOOLEAN]
          BY <1>3
        <4> QED BY <1>3, <2>2, <4>1
      <3>2. \A i \in DOMAIN runs : ~(runs[i].day = BillingDay(sync.startedAt) /\ runs[i].ok)
        BY <1>1 DEF HasSuccessfulSyncForDay
      <3>3. RunOf(ok).day = BillingDay(sync.startedAt)
        BY DEF RunOf
      <3> QED
        BY <3>1, <3>2, <3>3 DEF SyncInv, OneSuccessADay
    <2> QED BY <2>1, <2>2
  <1>6. \A a \in Attempts : attempts[a].at = "done" /\ ~attempts[a].unsettled
          => attempts[a].started \in Int /\ attempts[a].started < sync.startedAt
    BY <1>1 DEF SyncInv, SettledIsOlder
  <1>7. \A a \in Attempts : attempts'[a].at \in {"running", "done"} => attempts'[a] = attempts[a]
    BY DEF Lost, NoAttempt
  <1>8. EstimatesStand'
    BY <1>2, <1>6, <1>7 DEF SyncInv, EstimatesStand
  <1>9. RunIsOfAnOpenDay' /\ SettledIsOlder'
    BY <1>7 DEF SyncInv, RunIsOfAnOpenDay, SettledIsOlder, Busy
  <1>10. VersionsAreOlder'
    <2>1. ASSUME NEW i \in DOMAIN versions' PROVE versions'[i] \in Version
      <3> HIDE DEF Version
      <3> QED BY <1>2
    <2>2. \A i \in DOMAIN versions' : versions'[i].observedAt \in Int
      BY <2>1 DEF Version
    <2> QED BY <1>1, <1>2, <2>2 DEF VersionsAreOlder, Busy
  <1> QED BY <1>2, <1>4, <1>5, <1>8, <1>9, <1>10

(* A catalogue has come, and its prices are stored.                        *)
LEMMA CompleteKeeps == SyncInv /\ Complete => SyncInv'
  <1> SUFFICES ASSUME SyncInv, Complete PROVE SyncInv'
    OBVIOUS
  <1>1. /\ TypeOK /\ sync.at = "answered" /\ versions' = Upserted
        /\ runs' = Append(runs, RunOf(TRUE))
        /\ sync' = [FreshScheduler EXCEPT !.nextAttemptAt = sync.nextAttemptAt,
                                          !.failedAt = sync.failedAt]
        /\ UNCHANGED <<now, listed, changes, attempts, restarts>>
    BY DEF Complete, SyncInv
  <1>2. /\ sync'.at = "idle" /\ sync'.nextAttemptAt = sync.nextAttemptAt
        /\ sync'.failedAt = sync.failedAt
    BY <1>1 DEF FreshScheduler
  <1>3. /\ versions' \in Seq(Version) /\ runs' \in Seq([day: Nat, ok: BOOLEAN])
        /\ OneSuccessADay' /\ VersionsAreChanges' /\ EstimatesStand'
        /\ RunIsOfAnOpenDay' /\ VersionsAreOlder' /\ SettledIsOlder'
    BY <1>1, <1>2, EndKeeps DEF Busy
  <1>4. TypeOK'
    BY <1>1, <1>3 DEF TypeOK, Version, FreshScheduler
  <1>5. FailureIsHeeded'
    BY <1>2 DEF SyncInv, FailureIsHeeded
  <1> QED BY <1>3, <1>4, <1>5 DEF SyncInv

(* A run fails, before or after its prices are stored.                     *)
LEMMA FailKeeps ==
  ASSUME NEW stored \in BOOLEAN, NEW recorded \in BOOLEAN, SyncInv, Fail(stored, recorded)
  PROVE  SyncInv'
  <1>1. /\ TypeOK /\ sync.at # "idle" /\ versions' \in {versions, Upserted}
        /\ runs' = runs \/ runs' = Append(runs, RunOf(FALSE))
        /\ sync' = [FreshScheduler EXCEPT !.nextAttemptAt = now + Backoff, !.failedAt = now]
        /\ UNCHANGED <<now, listed, changes, attempts, restarts>>
    BY DEF Fail, Failed, SyncInv
  <1>2. sync'.at = "idle" /\ sync'.nextAttemptAt = now + Backoff /\ sync'.failedAt = now
    BY <1>1 DEF FreshScheduler
  <1>3. /\ versions' \in Seq(Version) /\ runs' \in Seq([day: Nat, ok: BOOLEAN])
        /\ OneSuccessADay' /\ VersionsAreChanges' /\ EstimatesStand'
        /\ RunIsOfAnOpenDay' /\ VersionsAreOlder' /\ SettledIsOlder'
    BY <1>1, <1>2, EndKeeps DEF Busy
  <1>4. now \in 0..MaxNow /\ MaxNow \in Nat /\ Backoff \in Nat
    BY <1>1, PriceSyncAssumption DEF TypeOK
  <1>5. sync' \in [at: {"idle", "with_auth", "without_auth", "answered"},
                  nextAttemptAt: 0..(MaxNow + Backoff), failedAt: 0..MaxNow \cup {Never},
                  startedAt: 0..MaxNow \cup {Never}, seen: Prices \cup {Unlisted}]
    <2>1. sync' = [at |-> "idle", nextAttemptAt |-> now + Backoff, failedAt |-> now,
                   startedAt |-> Never, seen |-> Unlisted]
      BY <1>1 DEF FreshScheduler
    <2>2. now + Backoff \in 0..(MaxNow + Backoff)
      BY <1>4
    <2> QED BY <1>4, <2>1, <2>2
  <1>6. TypeOK'
    BY <1>1, <1>3, <1>5 DEF TypeOK, Version
  <1>7. FailureIsHeeded'
    BY <1>2, <1>4 DEF FailureIsHeeded
  <1> QED BY <1>3, <1>6, <1>7 DEF SyncInv

(* The process dies, in the middle of a run or not, and starts again.      *)
LEMMA RestartKeeps == SyncInv /\ Restart => SyncInv'
  <1> SUFFICES ASSUME SyncInv, Restart PROVE SyncInv'
    OBVIOUS
  <1>1. /\ TypeOK /\ restarts < MaxRestarts /\ restarts' = restarts + 1
        /\ sync' = FreshScheduler /\ versions' \in {versions, Upserted}
        /\ ~Busy => versions' = versions
        /\ attempts' = [a \in Attempts |-> IF attempts[a].at = "running" THEN Lost ELSE attempts[a]]
        /\ UNCHANGED <<now, listed, changes, runs>>
    BY DEF Restart, SyncInv, Busy, Lost
  <1>2. \A a \in Attempts : attempts'[a] \in {attempts[a], Lost}
    BY <1>1
  <1>3. sync'.at = "idle" /\ sync'.failedAt = Never
    BY <1>1 DEF FreshScheduler
  <1>4. /\ versions' \in Seq(Version) /\ runs' \in Seq([day: Nat, ok: BOOLEAN])
        /\ OneSuccessADay' /\ VersionsAreChanges' /\ EstimatesStand'
        /\ RunIsOfAnOpenDay' /\ VersionsAreOlder' /\ SettledIsOlder'
    <2>1. CASE Busy
      BY <1>1, <1>2, <1>3, <2>1, EndKeeps
    <2>2. CASE ~Busy
      <3>1. versions' = versions /\ runs' = runs /\ now' = now
        BY <1>1, <2>2
      <3>2. \A a \in Attempts : attempts'[a].at \in {"running", "done"} => attempts'[a] = attempts[a]
        BY <1>2 DEF Lost, NoAttempt
      <3>3. \A t : PriceVersionAt(t)' = PriceVersionAt(t)
        BY <3>1 DEF PriceVersionAt
      <3> QED
        BY <1>1, <1>3, <3>1, <3>2, <3>3
        DEF SyncInv, TypeOK, Version, OneSuccessADay, VersionsAreChanges, EstimatesStand,
            RunIsOfAnOpenDay, VersionsAreOlder, SettledIsOlder, Busy
    <2> QED BY <2>1, <2>2
  <1>5. TypeOK'
    <2>1. MaxNow \in Nat /\ MaxRestarts \in Nat /\ Backoff \in Nat
      BY PriceSyncAssumption
    <2>2. Lost \in [at: {"idle", "running", "done", "lost"}, started: 0..MaxNow \cup {Never},
                    version: Nat, unsettled: BOOLEAN]
      BY <2>1 DEF Lost, NoAttempt, NoPrice
    <2>3. FreshScheduler \in [at: {"idle", "with_auth", "without_auth", "answered"},
                  nextAttemptAt: 0..(MaxNow + Backoff), failedAt: 0..MaxNow \cup {Never},
                  startedAt: 0..MaxNow \cup {Never}, seen: Prices \cup {Unlisted}]
      BY <2>1 DEF FreshScheduler
    <2>4. attempts' \in [Attempts -> [at: {"idle", "running", "done", "lost"},
                                      started: 0..MaxNow \cup {Never}, version: Nat,
                                      unsettled: BOOLEAN]]
      BY <1>1, <2>2 DEF TypeOK
    <2> QED BY <1>1, <1>4, <2>1, <2>3, <2>4 DEF TypeOK, Version
  <1>6. FailureIsHeeded'
    BY <1>3 DEF FailureIsHeeded
  <1> QED BY <1>4, <1>5, <1>6 DEF SyncInv

----------------------------------------------------------------------------
(* Attempts of the upstream, the catalogue and the clock.                  *)
LEMMA AttemptKeeps ==
  ASSUME SyncInv, NEW a \in Attempts, Start(a) \/ Finish(a)
  PROVE  SyncInv'
  <1>1. /\ TypeOK /\ now \in 0..MaxNow /\ MaxNow \in Nat
        /\ UNCHANGED <<now, listed, changes, sync, versions, runs, restarts>>
    BY PriceSyncAssumption DEF Start, Finish, SyncInv, TypeOK
  <1>2. \A b \in Attempts : b # a => attempts'[b] = attempts[b]
    BY <1>1 DEF Start, Finish, TypeOK
  <1>3. \A t : PriceVersionAt(t)' = PriceVersionAt(t)
    BY <1>1 DEF PriceVersionAt
  <1>4. /\ OneSuccessADay' /\ VersionsAreChanges' /\ RunIsOfAnOpenDay' /\ VersionsAreOlder'
        /\ FailureIsHeeded'
    BY <1>1
    DEF SyncInv, OneSuccessADay, VersionsAreChanges, RunIsOfAnOpenDay, VersionsAreOlder,
        FailureIsHeeded, Busy, HasSuccessfulSyncForDay
  <1>5. PriceVersionAt(attempts[a].started) \in Nat
    BY <1>1, LookupIsNat
  <1>6. CASE Start(a)
    <2>1. attempts'[a] = [NoAttempt EXCEPT !.at = "running", !.started = now]
      BY <1>1, <1>6 DEF Start, TypeOK
    <2>2. attempts'[a].at = "running" /\ attempts'[a].started = now
      BY <2>1 DEF NoAttempt
    <2>3. TypeOK'
      BY <1>1, <1>6 DEF Start, TypeOK, NoAttempt, NoPrice
    <2> QED
      BY <1>1, <1>2, <1>3, <1>4, <2>2, <2>3 DEF SyncInv, EstimatesStand, SettledIsOlder, Busy
  <1>7. CASE Finish(a)
    <2>1. /\ attempts[a].at = "running" /\ attempts[a].started < now
          /\ attempts'[a] = [at |-> "done", started |-> attempts[a].started,
                             version |-> PriceVersionAt(attempts[a].started),
                             unsettled |-> sync.at # "idle" /\ sync.startedAt <= attempts[a].started]
      BY <1>1, <1>7 DEF Finish, TypeOK
    <2>2. attempts[a].started \in 0..now
      BY <2>1 DEF SyncInv, SettledIsOlder
    <2>3. /\ attempts'[a].at = "done" /\ attempts'[a].started = attempts[a].started
          /\ attempts'[a].version = PriceVersionAt(attempts[a].started)
      BY <2>1
    <2>4. ~attempts'[a].unsettled /\ Busy => ~(sync.startedAt <= attempts[a].started)
      <3> DEFINE late == sync.at # "idle" /\ sync.startedAt <= attempts[a].started
      <3>1. attempts'[a].unsettled = late
        <4>1. attempts'[a] = [at |-> "done", started |-> attempts[a].started,
                              version |-> PriceVersionAt(attempts[a].started), unsettled |-> late]
          BY <2>1
        <4> HIDE DEF late
        <4>2. late \in BOOLEAN
          BY DEF late
        <4> QED BY <4>1, <4>2, SMT
      <3> QED BY <3>1, Zenon DEF Busy
    <2>5. EstimatesStand'
      BY <1>2, <1>3, <2>3 DEF SyncInv, EstimatesStand
    <2>6. SettledIsOlder'
      BY <1>1, <1>2, <2>1, <2>2, <2>3, <2>4 DEF SyncInv, SettledIsOlder, RunIsOfAnOpenDay, Busy
    <2>7. TypeOK'
      <3>1. (sync.at # "idle" /\ sync.startedAt <= attempts[a].started) \in BOOLEAN
        OBVIOUS
      <3>2. attempts'[a] \in [at: {"idle", "running", "done", "lost"},
                              started: 0..MaxNow \cup {Never}, version: Nat, unsettled: BOOLEAN]
        <4> DEFINE late == sync.at # "idle" /\ sync.startedAt <= attempts[a].started
        <4>1. late \in BOOLEAN
          BY <3>1
        <4>2. attempts[a].started \in 0..MaxNow
          BY <1>1, <2>2
        <4>3. attempts'[a] = [at |-> "done", started |-> attempts[a].started,
                             version |-> PriceVersionAt(attempts[a].started), unsettled |-> late]
          BY <2>1
        <4> HIDE DEF late
        <4> QED BY <1>5, <4>1, <4>2, <4>3
      <3>3. attempts' \in [Attempts -> [at: {"idle", "running", "done", "lost"},
                              started: 0..MaxNow \cup {Never}, version: Nat, unsettled: BOOLEAN]]
        <4>1. DOMAIN attempts' = Attempts /\ attempts' = [b \in Attempts |-> attempts'[b]]
          BY <1>1, <1>7 DEF Finish, TypeOK
        <4> QED BY <1>1, <1>2, <3>2, <4>1 DEF TypeOK
      <3> QED BY <1>1, <3>3 DEF TypeOK
    <2> QED BY <1>4, <2>5, <2>6, <2>7 DEF SyncInv
  <1> QED BY <1>6, <1>7

LEMMA WorldKeeps ==
  ASSUME SyncInv, Pass \/ \E listing \in Prices \cup {Unlisted} : CatalogueChanges(listing)
  PROVE  SyncInv'
  <1>1. /\ TypeOK /\ MaxNow \in Nat /\ MaxChanges \in Nat /\ now \in 0..MaxNow
        /\ UNCHANGED <<sync, versions, runs, attempts, restarts>>
        /\ now' \in {now, now + 1}
    BY PriceSyncAssumption DEF Pass, CatalogueChanges, SyncInv, TypeOK
  <1>2. TypeOK'
    BY <1>1 DEF Pass, CatalogueChanges, TypeOK
  <1>3. VersionsAreOlder'
    <2>1. ASSUME NEW i \in DOMAIN versions PROVE versions[i] \in Version
      <3>1. versions \in Seq(Version)
        BY <1>1 DEF TypeOK, Version
      <3> HIDE DEF Version
      <3> QED BY <3>1
    <2>2. \A i \in DOMAIN versions : versions[i].observedAt \in Int
      BY <2>1 DEF Version
    <2> QED BY <1>1, <2>2 DEF SyncInv, VersionsAreOlder, Busy
  <1>4. RunIsOfAnOpenDay' /\ SettledIsOlder' /\ FailureIsHeeded'
    BY <1>1
    DEF SyncInv, RunIsOfAnOpenDay, SettledIsOlder, FailureIsHeeded, Busy, HasSuccessfulSyncForDay
  <1> QED BY <1>1, <1>2, <1>3, <1>4, StandingEstimates DEF SyncInv

(* A stutter.                                                              *)
LEMMA StutterKeeps == SyncInv /\ UNCHANGED vars => SyncInv'
  <1> SUFFICES ASSUME SyncInv, UNCHANGED vars PROVE SyncInv'
    OBVIOUS
  <1>1. UNCHANGED <<now, listed, changes, sync, versions, runs, attempts, restarts>>
    BY DEF vars
  <1>2. TypeOK'
    BY <1>1 DEF SyncInv, TypeOK
  <1>3. RunIsOfAnOpenDay' /\ VersionsAreOlder' /\ SettledIsOlder' /\ FailureIsHeeded'
    BY <1>1
    DEF SyncInv, RunIsOfAnOpenDay, VersionsAreOlder, SettledIsOlder, FailureIsHeeded, Busy,
        HasSuccessfulSyncForDay
  <1> QED BY <1>1, <1>2, <1>3, StandingEstimates DEF SyncInv

LEMMA SyncStep == SyncInv /\ [Next]_vars => SyncInv'
  BY TickKeeps, AskingKeeps, CompleteKeeps, FailKeeps, RestartKeeps, AttemptKeeps, WorldKeeps,
     StutterKeeps
  DEF Next

----------------------------------------------------------------------------
(* The scheduler, the two tables of the synchronisation and the attempts   *)
(* keep their types (price-sync.ts, billing-repo.ts).                      *)
THEOREM TypeCorrect == Spec => []TypeOK
  <1>1. SyncInv => TypeOK
    BY DEF SyncInv
  <1> QED BY SyncInit, SyncStep, <1>1, PTL DEF Spec

(* A day never has two successful runs: hasSuccessfulSyncForDay is asked   *)
(* once, at the start of a run that may end on another day.                *)
THEOREM OneSuccess == Spec => []OneSuccessADay
  <1>1. SyncInv => OneSuccessADay
    BY DEF SyncInv
  <1> QED BY SyncInit, SyncStep, <1>1, PTL DEF Spec

(* The history has every change once and in order (upsertPriceVersions).   *)
THEOREM HistoryOfChanges == Spec => []VersionsAreChanges
  <1>1. SyncInv => VersionsAreChanges
    BY DEF SyncInv
  <1> QED BY SyncInit, SyncStep, <1>1, PTL DEF Spec

(* No run changes the price of an estimate that was made before it began   *)
(* (priceVersionAt).                                                       *)
THEOREM EstimatesAreFinal == Spec => []EstimatesStand
  <1>1. SyncInv => EstimatesStand
    BY DEF SyncInv
  <1> QED BY SyncInit, SyncStep, <1>1, PTL DEF Spec

(* Within a process a failure is followed by an hour without an attempt.   *)
THEOREM FailuresBackOff == Spec => BackoffKept
  <1>1. SyncInv /\ [Next]_vars => [Tick /\ sync.failedAt # Never => now >= sync.failedAt + Backoff]_vars
    <2> SUFFICES ASSUME SyncInv, Tick, sync.failedAt # Never
                 PROVE  now >= sync.failedAt + Backoff
      OBVIOUS
    <2>1. now >= sync.nextAttemptAt /\ sync.nextAttemptAt >= sync.failedAt + Backoff
      BY DEF Tick, SyncInv, FailureIsHeeded
    <2>2. /\ now \in Int /\ sync.nextAttemptAt \in Int /\ sync.failedAt \in Int /\ Backoff \in Int
      BY PriceSyncAssumption DEF SyncInv, TypeOK, Never
    <2> QED BY <2>1, <2>2
  <1> QED BY SyncInit, SyncStep, <1>1, PTL DEF Spec, BackoffKept

(* The last version is what the last run saw (upsertPriceVersions).        *)
THEOREM HistoryEndsWithTheLastSeen == Spec => LastSeenIsLatest
  <1>1. SyncInv /\ [Next]_vars
        => [Complete /\ sync.seen # Unlisted => versions' # <<>> /\ Last(versions').price = sync.seen]_vars
    <2> SUFFICES ASSUME SyncInv, Complete, sync.seen # Unlisted
                 PROVE  versions' # <<>> /\ Last(versions').price = sync.seen
      OBVIOUS
    <2>1. /\ versions \in Seq(Version) /\ versions' = Upserted
          /\ [price |-> sync.seen, observedAt |-> sync.startedAt] \in Version
      BY PriceSyncAssumption DEF Complete, SyncInv, TypeOK, Version, RunIsOfAnOpenDay, Busy
    <2>2. CASE versions' = versions
      <3>1. Len(versions) # 0 /\ versions[Len(versions)].price = sync.seen
        <4>1. CASE versions' # Append(versions, ToVersion(sync.seen, sync.startedAt))
          BY <2>1, <4>1 DEF Upserted, LatestVersion, NoPrice
        <4>2. CASE versions' = Append(versions, ToVersion(sync.seen, sync.startedAt))
          <5> HIDE DEF Version
          <5> QED BY <2>1, <2>2, <4>2 DEF ToVersion
        <4> QED BY <4>1, <4>2
      <3> QED BY <2>1, <2>2, <3>1 DEF Last
    <2>3. CASE versions' # versions
      <3> DEFINE new == [price |-> sync.seen, observedAt |-> sync.startedAt]
      <3>1. versions' = Append(versions, new) /\ new \in Version /\ new.price = sync.seen
        BY <2>1, <2>3 DEF Upserted, ToVersion
      <3>2. versions' # <<>> /\ versions'[Len(versions')] = new
        <4> HIDE DEF Version, new
        <4> QED BY <2>1, <3>1
      <3> QED BY <3>1, <3>2 DEF Last
    <2> QED BY <2>2, <2>3
  <1> QED BY SyncInit, SyncStep, <1>1, PTL DEF Spec, LastSeenIsLatest

----------------------------------------------------------------------------
(* The import of a sheet.                                                  *)
Directories ==
    [departments: Seq([slug: Ids, name: Names, enabled: BOOLEAN]),
     employees: Seq([login: Ids, fio: Names, dept: Nat])]

(* Induction over the numbers, for a set of numbers.                       *)
LEMMA FromZero ==
  ASSUME NEW Good, 0 \in Good, \A n \in Nat : n \in Good => n + 1 \in Good
  PROVE  Nat \subseteq Good
  <1> DEFINE Less == OpToRel(<, Nat)
             Bad == {n \in Nat : n \notin Good}
  <1>1. SUFFICES ASSUME Bad # {} PROVE FALSE
    OBVIOUS
  <1>2. IsWellFoundedOn(Less, Nat)
    BY NatLessThanWellFounded
  <1>3. PICK m \in Bad : \A k \in Bad : ~(<<k, m>> \in Less)
    <2> HIDE DEF Bad, Less
    <2>1. Bad \subseteq Nat
      BY DEF Bad
    <2> QED BY <1>1, <1>2, <2>1, WFMin
  <1>4. m \in Nat /\ m \notin Good /\ m # 0 /\ m - 1 \in Nat
    OBVIOUS
  <1>5. <<m - 1, m>> \in Less
    BY <1>4 DEF OpToRel
  <1>6. m - 1 \in Good
    <2>1. m - 1 \notin Bad
      <3> HIDE DEF Bad, Less
      <3> QED BY <1>3, <1>5
    <2> QED BY <1>4, <2>1
  <1>7. (m - 1) + 1 \in Good
    <2> HIDE DEF Bad, Less
    <2> QED BY <1>4, <1>6
  <1>8. (m - 1) + 1 = m
    BY <1>4
  <1> QED BY <1>4, <1>7, <1>8

(* The least of a set of numbers, the greatest of a bounded one.           *)
LEMMA LeastIsThere ==
  ASSUME NEW S \in SUBSET Nat, S # {}
  PROVE  Min(S) \in S /\ \A y \in S : Min(S) <= y
  <1> DEFINE Less == OpToRel(<, Nat)
  <1>1. PICK m \in S : \A y \in S : ~(<<y, m>> \in Less)
    <2> HIDE DEF Less
    <2>1. IsWellFoundedOn(Less, Nat)
      BY NatLessThanWellFounded DEF Less
    <2> QED BY <2>1, WFMin
  <1>2. ASSUME NEW y \in S PROVE m <= y
    <2>1. y \in Nat /\ m \in Nat /\ ~(<<y, m>> \in Less)
      BY <1>1
    <2> QED BY <2>1 DEF OpToRel
  <1> HIDE DEF Less
  <1> QED BY <1>2 DEF Min

LEMMA GreatestIsThere ==
  ASSUME NEW n \in Nat, NEW S \in SUBSET (0..n), S # {}
  PROVE  Max(S) \in S /\ \A y \in S : Max(S) >= y
  <1> DEFINE T == {n - x : x \in S}
  <1>1. T \in SUBSET Nat /\ T # {}
    <2>1. \A x \in S : n - x \in Nat
      OBVIOUS
    <2> QED BY <2>1
  <1>2. Min(T) \in T /\ \A y \in T : Min(T) <= y
    <2> HIDE DEF T
    <2> QED BY <1>1, LeastIsThere
  <1>3. PICK m \in S : Min(T) = n - m
    BY <1>2
  <1>4. ASSUME NEW y \in S PROVE m >= y
    <2>1. n - y \in T
      OBVIOUS
    <2>2. n - m <= n - y
      <3> HIDE DEF T
      <3> QED BY <1>2, <1>3, <2>1
    <2> QED BY <2>2
  <1> HIDE DEF T
  <1> QED BY <1>4 DEF Max

(* The candidates for an id are ids, and no two numbers make the same one. *)
LEMMA TrimmedIsId ==
  ASSUME NEW s \in Ids
  PROVE  TrimEnd(s) \in Ids
  <1> DEFINE S == {0} \cup {i \in DOMAIN s : s[i] \notin Separators}
  <1>1. Len(s) \in Nat /\ DOMAIN s = 1..Len(s)
    BY LenProperties DEF Ids
  <1>2. S \in SUBSET (0..Len(s)) /\ S # {}
    BY <1>1
  <1>3. Max(S) \in 0..Len(s)
    <2> HIDE DEF S
    <2> QED BY <1>1, <1>2, GreatestIsThere
  <1>4. SubSeq(s, 1, Max(S)) \in Seq(Int)
    <2> HIDE DEF S
    <2>1. \A i \in 1..Max(S) : s[i] \in Int
      BY <1>1, <1>3, ElementOfSeq DEF Ids
    <2> QED BY <1>1, <1>3, <2>1, SubSeqProperties DEF Ids
  <1> QED BY <1>4 DEF TrimEnd, Ids

LEMMA NumberedIsId ==
  ASSUME NEW base \in Ids, NEW maxLen \in Nat, NEW sep \in Ids, NEW n \in Nat
  PROVE  LET id == Numbered(base, maxLen, sep, n)
         IN  id \in Ids /\ id[Len(id)] = n
  <1> DEFINE suffix == Append(sep, n)
             room == maxLen - Len(suffix)
             cut == SubSeq(base, 1, Min({Len(base), room}))
  <1>1. /\ suffix \in Ids /\ Len(suffix) \in Nat /\ Len(suffix) >= 1
        /\ suffix[Len(suffix)] = n
    <2>1. sep \in Seq(Int) /\ n \in Int /\ Len(sep) \in Nat
      BY LenProperties DEF Ids
    <2> QED BY <2>1, AppendProperties DEF Ids
  <1>2. Len(base) \in Nat /\ room \in Int
    BY <1>1, LenProperties DEF Ids
  <1>3. Min({Len(base), room}) \in Int /\ Min({Len(base), room}) <= Len(base)
    <2> HIDE DEF room
    <2> QED BY <1>2, MinOfTwo
  <1>4. cut \in Ids
    <2> DEFINE m == Min({Len(base), room})
    <2> HIDE DEF m
    <2>1. m \in Int /\ m <= Len(base)
      BY <1>3 DEF m
    <2>2. \A i \in 1..m : base[i] \in Int
      BY <1>2, <2>1, ElementOfSeq DEF Ids
    <2>3. SubSeq(base, 1, m) \in Seq(Int)
      BY <1>2, <2>1, <2>2, SubSeqProperties DEF Ids
    <2> QED BY <2>3 DEF m, Ids
  <1>5. TrimEnd(cut) \in Ids
    <2> HIDE DEF cut
    <2> QED BY <1>4, TrimmedIsId
  <1> DEFINE id == TrimEnd(cut) \o suffix
  <1>6. id \in Ids /\ id[Len(id)] = n
    <2> DEFINE front == TrimEnd(cut)
    <2> HIDE DEF front, suffix
    <2>1. front \in Seq(Int) /\ suffix \in Seq(Int) /\ Len(front) \in Nat
      BY <1>1, <1>5, LenProperties DEF front, Ids
    <2>2. /\ front \o suffix \in Seq(Int) /\ Len(front \o suffix) = Len(front) + Len(suffix)
          /\ \A i \in 1..(Len(front) + Len(suffix)) :
                 (front \o suffix)[i] = IF i <= Len(front) THEN front[i] ELSE suffix[i - Len(front)]
      BY <2>1, ConcatProperties
    <2>3. (front \o suffix)[Len(front) + Len(suffix)] = suffix[Len(suffix)]
      BY <1>1, <2>1, <2>2
    <2>4. front \o suffix \in Ids /\ (front \o suffix)[Len(front \o suffix)] = n
      BY <1>1, <2>2, <2>3 DEF Ids
    <2> QED BY <2>4 DEF front
  <1> HIDE DEF id
  <1>7. Numbered(base, maxLen, sep, n) = id
    BY DEF Numbered, id
  <1> QED BY <1>6, <1>7

(* An id that is made up is not taken: of one candidate more than there    *)
(* are ids, one is free.                                                   *)
LEMMA MadeUpIsFree ==
  ASSUME NEW base \in Ids, NEW maxLen \in Nat, NEW sep \in Ids, NEW taken, IsFiniteSet(taken)
  PROVE  UniqueId(base, maxLen, sep, taken) \in Ids \ taken
  <1> DEFINE c == Cardinality(taken)
             id(n) == Numbered(base, maxLen, sep, n)
             free == {n \in 2..(c + 2) : id(n) \notin taken}
  <1>1. c \in Nat
    BY FS_CardinalityType
  <1>2. ASSUME NEW m \in 2..(c + 2), NEW n \in 2..(c + 2), id(m) = id(n) PROVE m = n
    <2>1. m \in Nat /\ n \in Nat
      BY <1>1
    <2>2. id(m)[Len(id(m))] = m /\ id(n)[Len(id(n))] = n
      BY <2>1, NumberedIsId
    <2> HIDE DEF id
    <2> QED BY <1>2, <2>2
  <1>3. free # {}
    <2>1. SUFFICES ASSUME free = {} PROVE FALSE
      OBVIOUS
    <2> DEFINE f == [n \in 2..(c + 2) |-> id(n)]
    <2>2. f \in [2..(c + 2) -> taken]
      <3>1. \A n \in 2..(c + 2) : id(n) \in taken
        <4> HIDE DEF id, c
        <4> QED BY <2>1
      <3> HIDE DEF id, c
      <3> QED BY <3>1
    <2>3. IsFiniteSet(2..(c + 2)) /\ Cardinality(2..(c + 2)) = c + 1
      <3> HIDE DEF c
      <3>1. 2 \in Int /\ c + 2 \in Int
        BY <1>1
      <3>2. IsFiniteSet(2..(c + 2)) /\ Cardinality(2..(c + 2)) = IF 2 > c + 2 THEN 0 ELSE (c + 2) - 2 + 1
        BY <3>1, FS_Interval
      <3> QED BY <1>1, <3>2
    <2>4. Cardinality(taken) < Cardinality(2..(c + 2))
      BY <1>1, <2>3
    <2>5. \E x, y \in 2..(c + 2) : x # y /\ f[x] = f[y]
      <3> HIDE DEF f, c
      <3> QED BY <2>2, <2>3, <2>4, FS_PigeonHole
    <2> HIDE DEF id, c
    <2> QED BY <1>2, <2>5
  <1>4. Min(free) \in free
    <2>1. free \in SUBSET Nat
      <3> HIDE DEF c, id
      <3> QED BY <1>1
    <2> HIDE DEF free
    <2> QED BY <1>3, <2>1, LeastIsThere
  <1>5. Min(free) \in Nat /\ id(Min(free)) \notin taken
    <2> DEFINE k == Min(free)
    <2>1. k \in 2..(c + 2) /\ id(k) \notin taken
      <3> HIDE DEF id, c, k
      <3> SUFFICES k \in free
        OBVIOUS
      <3> QED BY <1>4 DEF k
    <2> HIDE DEF k, c, id
    <2>2. k \in Nat /\ id(k) \notin taken
      BY <1>1, <2>1
    <2> QED BY <2>2 DEF k
  <1>6. id(Min(free)) \in Ids
    <2> DEFINE k == Min(free)
    <2> HIDE DEF k
    <2>1. k \in Nat
      BY <1>5 DEF k
    <2>2. id(k) \in Ids
      BY <2>1, NumberedIsId
    <2> QED BY <2>2 DEF k
  <1>7. UniqueId(base, maxLen, sep, taken) = IF base \notin taken THEN base ELSE id(Min(free))
    BY DEF UniqueId
  <1> HIDE DEF free, id
  <1> QED BY <1>5, <1>6, <1>7

(* The ids of a table are finitely many.                                   *)
LEMMA FinitelyMany ==
  ASSUME NEW dir \in Directories
  PROVE  IsFiniteSet(Slugs(dir)) /\ IsFiniteSet(Logins(dir))
  <1>1. ASSUME NEW n \in Nat, NEW f, NEW T, T = {f[i] : i \in 1..n} PROVE IsFiniteSet(T)
    <2> DEFINE g == [i \in 1..n |-> f[i]]
    <2>1. g \in Surjection(1..n, T)
      BY <1>1 DEF Surjection
    <2>2. IsFiniteSet(1..n)
      BY FS_Interval
    <2> HIDE DEF g
    <2> QED BY <2>1, <2>2, FS_Surjection
  <1>2. /\ Len(dir.departments) \in Nat /\ DOMAIN dir.departments = 1..Len(dir.departments)
        /\ Len(dir.employees) \in Nat /\ DOMAIN dir.employees = 1..Len(dir.employees)
    BY LenProperties DEF Directories
  <1>3. IsFiniteSet(Slugs(dir))
    <2> DEFINE f == [i \in 1..Len(dir.departments) |-> dir.departments[i].slug]
    <2>1. Slugs(dir) = {f[i] : i \in 1..Len(dir.departments)}
      BY <1>2 DEF Slugs
    <2> HIDE DEF f
    <2> QED BY <1>1, <1>2, <2>1
  <1>4. IsFiniteSet(Logins(dir))
    <2> DEFINE f == [i \in 1..Len(dir.employees) |-> dir.employees[i].login]
    <2>1. Logins(dir) = {f[i] : i \in 1..Len(dir.employees)}
      BY <1>2 DEF Logins
    <2> HIDE DEF f
    <2> QED BY <1>1, <1>2, <2>1
  <1> QED BY <1>3, <1>4

(* The tables, by their positions.                                         *)
LEMMA Tables ==
  ASSUME NEW dir \in Directories
  PROVE  /\ Len(dir.departments) \in Nat /\ DOMAIN dir.departments = 1..Len(dir.departments)
         /\ Len(dir.employees) \in Nat /\ DOMAIN dir.employees = 1..Len(dir.employees)
         /\ \A i \in DOMAIN dir.departments :
                dir.departments[i] \in [slug: Ids, name: Names, enabled: BOOLEAN]
         /\ \A i \in DOMAIN dir.employees :
                dir.employees[i] \in [login: Ids, fio: Names, dept: Nat]
  <1>1. /\ dir.departments \in Seq([slug: Ids, name: Names, enabled: BOOLEAN])
        /\ dir.employees \in Seq([login: Ids, fio: Names, dept: Nat])
    BY DEF Directories
  <1> QED BY <1>1, LenProperties, ElementOfSeq

(* Department: one of the name, an enabled one if there is one.            *)
Before(dir, i, j) ==
    IF dir.departments[i].enabled # dir.departments[j].enabled THEN dir.departments[i].enabled
    ELSE IF dir.departments[i].name.spelling # dir.departments[j].name.spelling
         THEN dir.departments[i].name.spelling < dir.departments[j].name.spelling
    ELSE i <= j

Called(dir, key) == {i \in DOMAIN dir.departments : dir.departments[i].name.key = key}

LEMMA FirstByName ==
  ASSUME NEW dir \in Directories, NEW named \in SUBSET DOMAIN dir.departments,
         named # {}
  PROVE  \E i \in named : \A j \in named : Before(dir, i, j)
  <1> DEFINE row(i) == dir.departments[i]
             on == {i \in named : row(i).enabled}
             best == IF on = {} THEN named ELSE on
             spellings == {row(i).name.spelling : i \in best}
             first == {i \in best : row(i).name.spelling = Min(spellings)}
  <1>1. \A i \in named : i \in Nat /\ row(i).enabled \in BOOLEAN /\ row(i).name.spelling \in Nat
    <2>1. ASSUME NEW i \in named
          PROVE  i \in Nat /\ dir.departments[i] \in [slug: Ids, name: Names, enabled: BOOLEAN]
      <3>1. i \in DOMAIN dir.departments
        OBVIOUS
      <3>2. dir.departments[i] \in [slug: Ids, name: Names, enabled: BOOLEAN]
        <4> HIDE DEF best
        <4> QED BY <3>1, Tables
      <3>3. i \in 1..Len(dir.departments) /\ Len(dir.departments) \in Nat
        <4> HIDE DEF best
        <4> QED BY <3>1, Tables
      <3> QED BY <3>2, <3>3
    <2> QED BY <2>1, ImportAssumption
  <1>2. best # {} /\ best \in SUBSET named
    OBVIOUS
  <1>3. spellings \in SUBSET Nat /\ spellings # {}
    <2> HIDE DEF best
    <2> QED BY <1>1, <1>2
  <1>4. Min(spellings) \in spellings /\ \A m \in spellings : Min(spellings) <= m
    <2> HIDE DEF spellings
    <2> QED BY <1>3, LeastIsThere
  <1>5. first \in SUBSET Nat /\ first # {}
    <2> HIDE DEF best
    <2>1. PICK i \in best : row(i).name.spelling = Min(spellings)
      BY <1>4
    <2>2. i \in first
      BY <2>1
    <2> HIDE DEF spellings
    <2> QED BY <1>1, <1>2, <2>2
  <1> DEFINE d == Min(first)
  <1>6. d \in first /\ \A i \in first : d <= i
    <2> HIDE DEF first
    <2> QED BY <1>5, LeastIsThere
  <1>7. d \in best /\ row(d).name.spelling = Min(spellings)
    <2> HIDE DEF best, spellings, d
    <2> QED BY <1>6
  <1>8. ASSUME NEW j \in named PROVE Before(dir, d, j)
    <2>1. CASE j \in best
      <3>1. Min(spellings) <= row(j).name.spelling
        <4>1. row(j).name.spelling \in spellings
          <5> HIDE DEF best
          <5> QED BY <2>1
        <4> HIDE DEF spellings
        <4> QED BY <1>4, <4>1
      <3>2. row(d).enabled = row(j).enabled
        <4>1. d \in best
          BY <1>7
        <4> HIDE DEF d, spellings, first
        <4>2. CASE on = {}
          BY <1>1, <2>1, <4>1, <4>2
        <4>3. CASE on # {}
          BY <2>1, <4>1, <4>3, <1>1
        <4> QED BY <4>2, <4>3
      <3>3. row(j).name.spelling = Min(spellings) => d <= j
        <4>1. row(j).name.spelling = Min(spellings) => j \in first
          <5> HIDE DEF best, spellings
          <5> QED BY <2>1
        <4> HIDE DEF d, first, spellings
        <4> QED BY <1>6, <4>1
      <3>4. d \in named /\ row(d).name.spelling \in Nat /\ row(j).name.spelling \in Nat
        <4> HIDE DEF best, d
        <4> QED BY <1>1, <1>2, <1>7
      <3> HIDE DEF d, spellings, best
      <3> QED BY <1>7, <3>1, <3>2, <3>3, <3>4 DEF Before
    <2>2. CASE j \notin best
      <3>1. on # {} /\ ~row(j).enabled
        <4> HIDE DEF d, spellings, first
        <4> QED BY <2>2
      <3>2. d \in on
        <4>1. d \in best
          BY <1>7
        <4> HIDE DEF d, on
        <4> QED BY <3>1, <4>1
      <3>3. row(d).enabled
        <4> HIDE DEF d
        <4> QED BY <3>2
      <3>4. row(d).enabled \in BOOLEAN /\ row(j).enabled \in BOOLEAN
        <4>1. d \in named
          <5> HIDE DEF d, on
          <5> QED BY <3>2, <1>2, <1>7
        <4> HIDE DEF d
        <4> QED BY <1>1, <4>1
      <3> HIDE DEF d
      <3> QED BY <3>1, <3>3, <3>4 DEF Before
    <2> QED BY <2>1, <2>2
  <1>9. d \in named
    <2> HIDE DEF d, best
    <2> QED BY <1>2, <1>7
  <1> HIDE DEF d
  <1> QED BY <1>8, <1>9

LEMMA DepartmentOfName ==
  ASSUME NEW dir \in Directories, NEW key
  PROVE  LET d == Department(dir, key)
         IN  /\ d \in Nat
             /\ d = 0 => \A j \in DOMAIN dir.departments : dir.departments[j].name.key # key
             /\ d # 0 => /\ d \in DOMAIN dir.departments /\ dir.departments[d].name.key = key
                         /\ \/ dir.departments[d].enabled
                            \/ \A j \in DOMAIN dir.departments :
                                   dir.departments[j].name.key = key => ~dir.departments[j].enabled
  <1> DEFINE named == Called(dir, key)
             d == Department(dir, key)
  <1>1. d = IF named = {} THEN 0 ELSE CHOOSE i \in named : \A j \in named : Before(dir, i, j)
    BY DEF Department, Called, Before
  <1>2. DOMAIN dir.departments = 1..Len(dir.departments)
    BY LenProperties DEF Directories
  <1>3. CASE named = {}
    BY <1>1, <1>3 DEF Called
  <1>4. CASE named # {}
    <2>1. named \in SUBSET DOMAIN dir.departments
      BY DEF Called
    <2>2. \E i \in named : \A j \in named : Before(dir, i, j)
      <3> HIDE DEF named
      <3> QED BY <1>4, <2>1, FirstByName
    <2>3. d \in named /\ \A j \in named : Before(dir, d, j)
      <3> HIDE DEF named, d
      <3> QED BY <1>1, <1>4, <2>2
    <2>4. d \in 1..Len(dir.departments) /\ dir.departments[d].name.key = key
      BY <1>2, <2>3 DEF Called
    <2>5. ASSUME NEW j \in DOMAIN dir.departments, dir.departments[j].name.key = key,
                 dir.departments[j].enabled
          PROVE  dir.departments[d].enabled
      <3>1. Before(dir, d, j)
        BY <2>3, <2>5 DEF Called
      <3> HIDE DEF d
      <3> QED BY <3>1, <2>5 DEF Before
    <2>6. d \in Nat /\ d # 0
      BY <1>2, <2>4
    <2> QED BY <1>2, <2>4, <2>5, <2>6
  <1> QED BY <1>3, <1>4

LEMMA DepartmentAdded ==
  ASSUME NEW dir \in Directories, NEW slug \in Ids, NEW name \in Names
  PROVE  LET new == NewDepartment(dir, slug, name)
             n == Len(dir.departments)
         IN  /\ new \in Directories /\ new.employees = dir.employees
             /\ Len(new.departments) = n + 1
             /\ \A i \in 1..n : new.departments[i] = dir.departments[i]
             /\ new.departments[n + 1] = [slug |-> slug, name |-> name, enabled |-> TRUE]
  <1> DEFINE row == [slug |-> slug, name |-> name, enabled |-> TRUE]
             rows == Append(dir.departments, row)
  <1>1. /\ dir.departments \in Seq([slug: Ids, name: Names, enabled: BOOLEAN])
        /\ row \in [slug: Ids, name: Names, enabled: BOOLEAN]
    BY DEF Directories
  <1>2. /\ rows \in Seq([slug: Ids, name: Names, enabled: BOOLEAN])
        /\ Len(rows) = Len(dir.departments) + 1
        /\ \A i \in 1..Len(dir.departments) : rows[i] = dir.departments[i]
        /\ rows[Len(dir.departments) + 1] = row
    <2> HIDE DEF row
    <2> QED BY <1>1, AppendProperties
  <1>3. /\ NewDepartment(dir, slug, name) = [dir EXCEPT !.departments = rows]
        /\ NewDepartment(dir, slug, name).departments = rows
        /\ NewDepartment(dir, slug, name).employees = dir.employees
    BY DEF NewDepartment, Directories
  <1>4. NewDepartment(dir, slug, name) \in Directories
    <2> HIDE DEF rows
    <2> QED BY <1>2, <1>3 DEF Directories
  <1> HIDE DEF rows
  <1> QED BY <1>2, <1>3, <1>4

LEMMA EmployeeAdded ==
  ASSUME NEW dir \in Directories, NEW login \in Ids, NEW fio \in Names,
         NEW dept \in Nat
  PROVE  LET new == NewEmployee(dir, login, fio, dept)
             n == Len(dir.employees)
         IN  /\ new \in Directories /\ new.departments = dir.departments
             /\ Len(new.employees) = n + 1
             /\ \A i \in 1..n : new.employees[i] = dir.employees[i]
             /\ new.employees[n + 1] = [login |-> login, fio |-> fio, dept |-> dept]
  <1> DEFINE row == [login |-> login, fio |-> fio, dept |-> dept]
             rows == Append(dir.employees, row)
  <1>1. /\ dir.employees \in Seq([login: Ids, fio: Names, dept: Nat])
        /\ row \in [login: Ids, fio: Names, dept: Nat]
    BY DEF Directories
  <1>2. /\ rows \in Seq([login: Ids, fio: Names, dept: Nat])
        /\ Len(rows) = Len(dir.employees) + 1
        /\ \A i \in 1..Len(dir.employees) : rows[i] = dir.employees[i]
        /\ rows[Len(dir.employees) + 1] = row
    <2> HIDE DEF row
    <2> QED BY <1>1, AppendProperties
  <1>3. /\ NewEmployee(dir, login, fio, dept) = [dir EXCEPT !.employees = rows]
        /\ NewEmployee(dir, login, fio, dept).employees = rows
        /\ NewEmployee(dir, login, fio, dept).departments = dir.departments
    BY DEF NewEmployee, Directories
  <1>4. NewEmployee(dir, login, fio, dept) \in Directories
    <2> HIDE DEF rows
    <2> QED BY <1>2, <1>3 DEF Directories
  <1> HIDE DEF rows
  <1> QED BY <1>2, <1>3, <1>4

(* The directory after the first k rows of a sheet: the unique columns are *)
(* unique, those that are new are there once, and placed where told.       *)
New(was, dir) == (Len(was.employees) + 1)..Len(dir.employees)

Placed(dir, rows, k, e) ==
    LET d == dir.departments[e.dept]
    IN  /\ e.dept \in DOMAIN dir.departments
        /\ \E r \in 1..k : rows[r].fio = e.fio /\ rows[r].dept.key = d.name.key
        /\ \/ d.enabled
           \/ \A j \in DOMAIN dir.departments :
                  dir.departments[j].name.key = d.name.key => ~dir.departments[j].enabled

SoFar(was, dir, rows, k) ==
    /\ dir \in Directories /\ NoConflict(dir)
    /\ Len(was.employees) <= Len(dir.employees)
    /\ \A i \in New(was, dir) : \A j \in DOMAIN dir.employees :
           dir.employees[j].fio.key = dir.employees[i].fio.key => j = i
    /\ \A i \in New(was, dir) : Placed(dir, rows, k, dir.employees[i])

(* A row that is passed over.                                              *)
LEMMA PassedOver ==
  ASSUME NEW was, NEW dir, NEW rows, NEW k \in Nat, SoFar(was, dir, rows, k)
  PROVE  SoFar(was, dir, rows, k + 1)
  <1>1. \A r \in 1..k : r \in 1..(k + 1)
    OBVIOUS
  <1> QED BY <1>1 DEF SoFar, Placed

(* The department of a row, there or new.                                  *)
LEMMA DepartmentThere ==
  ASSUME NEW was \in Directories, NEW dir, NEW rows, NEW k \in Nat,
         SoFar(was, dir, rows, k), NEW name \in Names
  PROVE  LET with == WithDepartment(dir, name)
         IN  SoFar(was, with, rows, k) /\ Department(with, name.key) # 0
             /\ with.employees = dir.employees
  <1>1. CASE Department(dir, name.key) # 0
    <2>1. WithDepartment(dir, name) = dir
      BY <1>1 DEF WithDepartment
    <2> QED BY <1>1, <2>1
  <1>2. CASE Department(dir, name.key) = 0
    <2> DEFINE slug == UniqueId(name.base, SlugMax, <<Dash>>, Slugs(dir))
               with == NewDepartment(dir, slug, name)
               n == Len(dir.departments)
    <2>1. dir \in Directories /\ name.base \in Ids /\ SlugMax \in Nat /\ <<Dash>> \in Ids
      BY ImportAssumption DEF SoFar, Ids, Dash
    <2>2. slug \in Ids /\ slug \notin Slugs(dir)
      <3>1. IsFiniteSet(Slugs(dir))
        BY <2>1, FinitelyMany
      <3> QED BY <2>1, <3>1, MadeUpIsFree
    <2>3. WithDepartment(dir, name) = with
      BY <1>2 DEF WithDepartment
    <2>4. /\ with \in Directories /\ with.employees = dir.employees
          /\ Len(with.departments) = n + 1
          /\ \A i \in 1..n : with.departments[i] = dir.departments[i]
          /\ with.departments[n + 1] = [slug |-> slug, name |-> name, enabled |-> TRUE]
      <3> HIDE DEF slug
      <3> QED BY <2>1, <2>2, DepartmentAdded
    <2> HIDE DEF with, slug
    <2>5. n \in Nat /\ DOMAIN dir.departments = 1..n /\ DOMAIN with.departments = 1..(n + 1)
      BY <2>1, <2>4, Tables
    <2>6. \A j \in 1..n : dir.departments[j].name.key # name.key
      BY <1>2, <2>1, <2>5, DepartmentOfName
    <2>7. \A j \in 1..n : dir.departments[j].slug # slug
      BY <2>2, <2>5 DEF Slugs
    <2>8. NoConflict(with)
      <3>1. ASSUME NEW i \in 1..(n + 1), NEW j \in 1..(n + 1),
                   with.departments[i].slug = with.departments[j].slug
            PROVE  i = j
        <4>1. CASE i \in 1..n /\ j \in 1..n
          <5>1. dir.departments[i].slug = dir.departments[j].slug
            BY <2>4, <3>1, <4>1
          <5>2. NoConflict(dir)
            BY DEF SoFar
          <5> QED BY <2>5, <4>1, <5>1, <5>2 DEF NoConflict
        <4>2. CASE i = n + 1 /\ j \in 1..n
          BY <2>4, <2>7, <3>1, <4>2
        <4>3. CASE j = n + 1 /\ i \in 1..n
          BY <2>4, <2>7, <3>1, <4>3
        <4>4. i \in 1..n \/ i = n + 1
          BY <2>5
        <4>5. j \in 1..n \/ j = n + 1
          BY <2>5
        <4> QED BY <4>1, <4>2, <4>3, <4>4, <4>5
      <3> QED BY <2>4, <2>5, <3>1 DEF SoFar, NoConflict
    <2>9. ASSUME NEW e, Placed(dir, rows, k, e) PROVE Placed(with, rows, k, e)
      <3>1. e.dept \in 1..n /\ with.departments[e.dept] = dir.departments[e.dept]
        BY <2>4, <2>5, <2>9 DEF Placed
      <3>2. e.dept \in 1..(n + 1)
        BY <2>5, <3>1
      <3>3. ASSUME NEW j \in 1..(n + 1),
                   with.departments[j].name.key = dir.departments[e.dept].name.key
            PROVE  j \in 1..n /\ with.departments[j] = dir.departments[j]
        <4>1. j # n + 1
          BY <2>4, <2>6, <3>1, <3>3
        <4>2. j \in 1..n
          BY <2>5, <4>1
        <4> QED BY <2>4, <4>2
      <3> QED BY <2>5, <2>9, <3>1, <3>2, <3>3 DEF Placed
    <2>10. SoFar(was, with, rows, k)
      BY <2>4, <2>8, <2>9 DEF SoFar, New
    <2>11. Department(with, name.key) # 0
      <3>1. n + 1 \in DOMAIN with.departments /\ with.departments[n + 1].name.key = name.key
        BY <2>4, <2>5
      <3>2. Department(with, name.key) = 0
            => \A j \in DOMAIN with.departments : with.departments[j].name.key # name.key
        BY <2>4, DepartmentOfName
      <3> QED BY <3>1, <3>2
    <2> QED BY <2>3, <2>4, <2>10, <2>11
  <1> QED BY <1>1, <1>2

(* The employee of a row.                                                  *)
LEMMA EmployeeMade ==
  ASSUME NEW was \in Directories, NEW dir, NEW rows, NEW k \in Nat,
         SoFar(was, dir, rows, k), rows[k + 1].fio \in Names,
         ~Known(dir, rows[k + 1].fio), Department(dir, rows[k + 1].dept.key) # 0,
         NEW login \in Ids, login \notin Logins(dir)
  PROVE  SoFar(was, NewEmployee(dir, login, rows[k + 1].fio,
                                Department(dir, rows[k + 1].dept.key)), rows, k + 1)
  <1> DEFINE fio == rows[k + 1].fio
             d == Department(dir, rows[k + 1].dept.key)
             new == NewEmployee(dir, login, fio, d)
             n == Len(dir.employees)
  <1>1. dir \in Directories /\ Len(was.employees) \in Nat /\ Len(was.employees) <= n
    BY Tables DEF SoFar
  <1>2. /\ d \in Nat /\ d \in DOMAIN dir.departments
        /\ dir.departments[d].name.key = rows[k + 1].dept.key
        /\ \/ dir.departments[d].enabled
           \/ \A j \in DOMAIN dir.departments :
                  dir.departments[j].name.key = rows[k + 1].dept.key => ~dir.departments[j].enabled
    BY <1>1, DepartmentOfName
  <1>3. /\ new \in Directories /\ new.departments = dir.departments
        /\ Len(new.employees) = n + 1
        /\ \A i \in 1..n : new.employees[i] = dir.employees[i]
        /\ new.employees[n + 1] = [login |-> login, fio |-> fio, dept |-> d]
    <2>1. fio \in Names /\ d \in Nat
      BY <1>2
    <2> HIDE DEF d, fio
    <2>2. dir \in Directories
      BY <1>1
    <2> QED BY <2>1, <2>2, EmployeeAdded
  <1> HIDE DEF new, d
  <1>4. n \in Nat /\ DOMAIN dir.employees = 1..n /\ DOMAIN new.employees = 1..(n + 1)
    BY <1>1, <1>3, Tables
  <1>5. \A i \in 1..(n + 1) : i \in 1..n \/ i = n + 1
    BY <1>4
  <1>6. \A j \in 1..n : dir.employees[j].fio.key # fio.key /\ dir.employees[j].login # login
    BY <1>4 DEF Known, Logins
  <1>7. NoConflict(new)
    <2>1. ASSUME NEW i \in 1..(n + 1), NEW j \in 1..(n + 1),
                 new.employees[i].login = new.employees[j].login
          PROVE  i = j
      <3>1. CASE i \in 1..n /\ j \in 1..n
        <4>1. NoConflict(dir)
          BY DEF SoFar
        <4>2. dir.employees[i].login = dir.employees[j].login
          BY <1>3, <2>1, <3>1
        <4> QED BY <1>4, <3>1, <4>1, <4>2 DEF NoConflict
      <3>2. CASE i = n + 1 /\ j \in 1..n
        BY <1>3, <1>6, <2>1, <3>2
      <3>3. CASE j = n + 1 /\ i \in 1..n
        BY <1>3, <1>6, <2>1, <3>3
      <3> QED BY <1>5, <3>1, <3>2, <3>3
    <2> QED BY <1>3, <1>4, <2>1 DEF SoFar, NoConflict
  <1>8. ASSUME NEW i \in New(was, new)
        PROVE  i \in 1..(n + 1) /\ (i # n + 1 => i \in New(was, dir) /\ i \in 1..n)
    BY <1>1, <1>3, <1>4 DEF New
  <1>9. ASSUME NEW i \in New(was, new), NEW j \in 1..(n + 1),
               new.employees[j].fio.key = new.employees[i].fio.key
        PROVE  j = i
    <2>1. CASE i # n + 1 /\ j \in 1..n
      BY <1>3, <1>4, <1>8, <1>9, <2>1 DEF SoFar
    <2>2. CASE i # n + 1 /\ j = n + 1
      <3>1. i \in 1..n /\ new.employees[i] = dir.employees[i] /\ new.employees[n + 1].fio = fio
        BY <1>3, <1>8, <2>2
      <3> QED BY <1>6, <1>9, <2>2, <3>1
    <2>3. CASE i = n + 1 /\ j \in 1..n
      <3>1. new.employees[j] = dir.employees[j] /\ new.employees[n + 1].fio = fio
        BY <1>3, <2>3
      <3> QED BY <1>6, <1>9, <2>3, <3>1
    <2> QED BY <1>5, <2>1, <2>2, <2>3
  <1>10. ASSUME NEW i \in New(was, new) PROVE Placed(new, rows, k + 1, new.employees[i])
    <2>1. CASE i # n + 1
      <3>1. Placed(dir, rows, k, new.employees[i])
        BY <1>3, <1>8, <2>1 DEF SoFar
      <3>2. \A r \in 1..k : r \in 1..(k + 1)
        OBVIOUS
      <3> QED BY <1>3, <3>1, <3>2 DEF Placed
    <2>2. CASE i = n + 1
      <3>1. /\ new.employees[i].dept = d /\ new.employees[i].fio = fio
            /\ k + 1 \in 1..(k + 1)
        BY <1>3, <2>2
      <3> QED BY <1>2, <1>3, <3>1 DEF Placed
    <2> QED BY <2>1, <2>2
  <1>11. SoFar(was, new, rows, k + 1)
    BY <1>1, <1>3, <1>4, <1>7, <1>9, <1>10 DEF SoFar
  <1> QED BY <1>11 DEF new, d

(* One row, and all of them.                                               *)
LEMMA RowImported ==
  ASSUME NEW was \in Directories, NEW dir, NEW rows, NEW k \in Nat,
         SoFar(was, dir, rows, k), rows[k + 1] \in [fio: Names, dept: Names]
  PROVE  SoFar(was, ImportRow(dir, rows[k + 1]), rows, k + 1)
  <1> DEFINE row == rows[k + 1]
             with == WithDepartment(dir, row.dept)
             login == UniqueId(row.fio.base, LoginMax, <<>>, Logins(with))
  <1>1. CASE {row.fio, row.dept} \cap {Blank, TooLong} # {} \/ Known(dir, row.fio)
    <2>1. ImportRow(dir, row) = dir
      BY <1>1 DEF ImportRow
    <2> QED BY <2>1, PassedOver
  <1>2. CASE ~({row.fio, row.dept} \cap {Blank, TooLong} # {} \/ Known(dir, row.fio))
    <2>1. ImportRow(dir, row) = NewEmployee(with, login, row.fio, Department(with, row.dept.key))
      BY <1>2 DEF ImportRow
    <2>2. row.fio \in Names /\ row.dept \in Names
      OBVIOUS
    <2>3. SoFar(was, with, rows, k) /\ Department(with, row.dept.key) # 0
          /\ with.employees = dir.employees
      BY <2>2, DepartmentThere
    <2>4. ~Known(with, row.fio)
      BY <1>2, <2>3 DEF Known
    <2>5. login \in Ids /\ login \notin Logins(with)
      <3> HIDE DEF with
      <3>1. IsFiniteSet(Logins(with))
        BY <2>3, FinitelyMany DEF SoFar
      <3>2. row.fio.base \in Ids /\ LoginMax \in Nat /\ <<>> \in Ids
        BY <2>2, ImportAssumption DEF Ids
      <3> QED BY <3>1, <3>2, MadeUpIsFree
    <2> HIDE DEF with, login
    <2>6. SoFar(was, NewEmployee(with, login, row.fio, Department(with, row.dept.key)), rows, k + 1)
      BY <2>2, <2>3, <2>4, <2>5, EmployeeMade
    <2> QED BY <2>1, <2>6
  <1> QED BY <1>1, <1>2

RowByRow(dir, rows, n, f) ==
    f = [k \in 0..n |-> IF k = 0 THEN dir ELSE ImportRow(f[k - 1], rows[k])]

LEMMA RowsFollow ==
  ASSUME NEW dir, NEW rows, NEW n \in Nat
  PROVE  \E f : RowByRow(dir, rows, n, f)
  <1> DEFINE Good == {m \in Nat : \E f : RowByRow(dir, rows, m, f)}
  <1>1. 0 \in Good
    <2>1. RowByRow(dir, rows, 0, [k \in 0..0 |-> dir])
      <3>1. \A k \in 0..0 : k = 0
        OBVIOUS
      <3> QED BY <3>1 DEF RowByRow
    <2> QED BY <2>1
  <1>2. ASSUME NEW m \in Nat, m \in Good PROVE m + 1 \in Good
    <2>1. PICK f : RowByRow(dir, rows, m, f)
      BY <1>2
    <2> DEFINE g == [k \in 0..(m + 1) |-> IF k = 0 THEN dir ELSE ImportRow(f[k - 1], rows[k])]
    <2>2. ASSUME NEW k \in 0..(m + 1), k # 0 PROVE g[k - 1] = f[k - 1]
      <3>1. k - 1 \in 0..m /\ k - 1 \in 0..(m + 1)
        BY <2>2
      <3>2. f[k - 1] = IF k - 1 = 0 THEN dir ELSE ImportRow(f[(k - 1) - 1], rows[k - 1])
        BY <2>1, <3>1 DEF RowByRow
      <3> QED BY <3>1, <3>2
    <2>3. \A k \in 0..(m + 1) : g[k] = IF k = 0 THEN dir ELSE ImportRow(g[k - 1], rows[k])
      BY <2>2
    <2>4. g = [k \in 0..(m + 1) |-> g[k]]
      OBVIOUS
    <2> HIDE DEF g
    <2>5. RowByRow(dir, rows, m + 1, g)
      BY <2>3, <2>4 DEF RowByRow
    <2> QED BY <2>5
  <1>3. Nat \subseteq Good
    <2> HIDE DEF Good
    <2> QED BY <1>1, <1>2, FromZero
  <1> QED BY <1>3

LEMMA AllRowsImported ==
  ASSUME NEW dir \in Directories, NoConflict(dir),
         NEW rows \in Seq([fio: Names, dept: Names])
  PROVE  SoFar(dir, ImportDirectory(dir, rows), rows, Len(rows))
  <1>1. Len(rows) \in Nat /\ \A k \in 1..Len(rows) : rows[k] \in [fio: Names, dept: Names]
    BY LenProperties, ElementOfSeq
  <1> DEFINE f == CHOOSE f : RowByRow(dir, rows, Len(rows), f)
  <1>2. RowByRow(dir, rows, Len(rows), f)
    <2>1. \E g : RowByRow(dir, rows, Len(rows), g)
      BY <1>1, RowsFollow
    <2> QED BY <2>1
  <1>3. ImportDirectory(dir, rows) = f[Len(rows)]
    BY DEF ImportDirectory, RowByRow
  <1> HIDE DEF f
  <1> DEFINE Good == {k \in Nat : k <= Len(rows) => SoFar(dir, f[k], rows, k)}
  <1>4. 0 \in Good
    <2>1. f[0] = dir
      BY <1>1, <1>2 DEF RowByRow
    <2>2. New(dir, dir) = {}
      BY Tables DEF New
    <2>3. SoFar(dir, dir, rows, 0)
      BY <2>2, Tables DEF SoFar
    <2> QED BY <2>1, <2>3
  <1>5. ASSUME NEW k \in Nat, k \in Good PROVE k + 1 \in Good
    <2>1. SUFFICES ASSUME k + 1 <= Len(rows) PROVE SoFar(dir, f[k + 1], rows, k + 1)
      OBVIOUS
    <2>2. SoFar(dir, f[k], rows, k)
      BY <1>1, <1>5, <2>1
    <2>3. k + 1 \in 0..Len(rows) /\ k + 1 \in 1..Len(rows) /\ k + 1 # 0 /\ (k + 1) - 1 = k
      BY <1>1, <2>1
    <2>4. f[k + 1] = ImportRow(f[k], rows[k + 1])
      BY <1>2, <2>3 DEF RowByRow
    <2>5. rows[k + 1] \in [fio: Names, dept: Names]
      BY <1>1, <2>3
    <2>6. SoFar(dir, ImportRow(f[k], rows[k + 1]), rows, k + 1)
      BY <2>2, <2>5, RowImported
    <2> QED BY <2>4, <2>6
  <1>6. Nat \subseteq Good
    <2> HIDE DEF Good
    <2> QED BY <1>4, <1>5, FromZero
  <1> QED BY <1>1, <1>3, <1>6

----------------------------------------------------------------------------
ImportInv == directory \in Directories /\ NoConflict(directory) /\ ImportSound

(* What SoFar says of the whole sheet is what the properties ask.          *)
LEMMA SheetImported ==
  ASSUME ImportInv, NEW sheet \in Sheets, Import(sheet)
  PROVE  ImportInv'
  <1> DEFINE after == ImportDirectory(directory, sheet.rows)
             rows == sheet.rows
  <1>1. rows \in Seq([fio: Names, dept: Names])
    BY ImportAssumption
  <1>2. SoFar(directory, after, rows, Len(rows))
    <2> HIDE DEF rows
    <2> QED BY <1>1, AllRowsImported DEF ImportInv, rows
  <1>3. directory' = IF sheet.header THEN Committed(after) ELSE directory
    BY DEF Import
  <1>4. imported' = IF ~sheet.header THEN Blank
                    ELSE IF ~NoConflict(after) THEN [how |-> "conflict"]
                    ELSE [how |-> "done", first |-> Len(directory.employees) + 1,
                          last |-> Len(after.employees), rows |-> sheet.rows,
                          warned |-> Warned(directory, after)]
    BY DEF Import
  <1> HIDE DEF after
  <1>5. NoConflict(after) /\ after \in Directories
    BY <1>2 DEF SoFar
  <1>6. CASE ~sheet.header
    <2>1. directory' = directory /\ imported' = Blank
      BY <1>3, <1>4, <1>6
    <2> QED BY <2>1 DEF ImportInv, ImportSound, NeverAConflict, NobodyTwice, PlacedWhereTold, Made, Ended
  <1>7. CASE sheet.header
    <2>1. /\ directory' = after
          /\ imported' = [how |-> "done", first |-> Len(directory.employees) + 1,
                          last |-> Len(after.employees), rows |-> rows,
                          warned |-> Warned(directory, after)]
      BY <1>3, <1>4, <1>5, <1>7 DEF Committed
    <2>2. Made' \subseteq New(directory, after)
      BY <2>1 DEF Made, Ended, New
    <2>3. NeverAConflict'
      BY <2>1 DEF NeverAConflict
    <2>4. NobodyTwice'
      BY <1>2, <2>1, <2>2 DEF NobodyTwice, SoFar
    <2>5. PlacedWhereTold'
      <3>1. ASSUME NEW i \in Made'
            PROVE  LET e == after.employees[i]
                       d == after.departments[e.dept]
                   IN  /\ \E r \in DOMAIN rows : rows[r].fio = e.fio /\ rows[r].dept.key = d.name.key
                       /\ d.enabled \/ (/\ e.dept \in Warned(directory, after)
                                        /\ \A j \in DOMAIN after.departments :
                                               after.departments[j].name.key = d.name.key
                                               => ~after.departments[j].enabled)
        <4> DEFINE e == after.employees[i]
                   d == after.departments[e.dept]
        <4>1. i \in New(directory, after) /\ Placed(after, rows, Len(rows), e)
          BY <1>2, <2>2 DEF SoFar
        <4>2. DOMAIN rows = 1..Len(rows)
          BY <1>1, LenProperties
        <4>3. ~d.enabled => e.dept \in Warned(directory, after)
          BY <4>1 DEF Warned, Placed, New
        <4> QED BY <4>1, <4>2, <4>3 DEF Placed
      <3> QED BY <2>1, <3>1 DEF PlacedWhereTold
    <2> QED BY <1>5, <2>1, <2>3, <2>4, <2>5 DEF ImportInv, ImportSound
  <1> QED BY <1>6, <1>7

(* The routes and the import, one by one.                                  *)
LEMMA AdminsChange ==
  ASSUME ImportInv, NEW dir, dir \in Directories, AdminChanges(dir)
  PROVE  ImportInv'
  <1>1. directory' = dir /\ NoConflict(dir) /\ imported' = Blank
    BY DEF AdminChanges
  <1> QED BY <1>1 DEF ImportInv, ImportSound, NeverAConflict, NobodyTwice, PlacedWhereTold, Made, Ended

LEMMA ImportStep == ImportInv /\ [ImportNext]_importVars => ImportInv'
  <1> SUFFICES ASSUME ImportInv, [ImportNext]_importVars PROVE ImportInv'
    OBVIOUS
  <1> USE DEF ImportInv, ImportSound, NeverAConflict, NobodyTwice, PlacedWhereTold, Made, Ended
  <1>0. directory \in Directories
    OBVIOUS
  <1>1. CASE StartImport
    BY <1>1 DEF StartImport
  <1>2. CASE ParseFails
    BY <1>2 DEF ParseFails
  <1>3. ASSUME NEW sheet \in Sheets, Import(sheet) PROVE ImportInv'
    BY <1>3, SheetImported
  <1>4. ASSUME NEW d \in AdminDepartments, CreateDepartment(d.slug, d.name) PROVE ImportInv'
    <2>1. d.slug \in Ids /\ d.name \in Names
      BY ImportAssumption
    <2>2. NewDepartment(directory, d.slug, d.name) \in Directories
      BY <1>0, <2>1, DepartmentAdded
    <2>3. AdminChanges(NewDepartment(directory, d.slug, d.name))
      BY <1>4 DEF CreateDepartment
    <2> QED BY <2>2, <2>3, AdminsChange
  <1>5. ASSUME NEW i \in DOMAIN directory.departments, NEW d \in AdminDepartments,
               NEW enabled \in BOOLEAN, PatchDepartment(i, d.name, enabled)
        PROVE  ImportInv'
    <2> DEFINE dir == [directory EXCEPT !.departments[i].name = d.name,
                                        !.departments[i].enabled = enabled]
    <2>1. d.name \in Names
      BY ImportAssumption
    <2>2. dir \in Directories
      <3> DEFINE Rows == [slug: Ids, name: Names, enabled: BOOLEAN]
                 row == [directory.departments[i] EXCEPT !.name = d.name, !.enabled = enabled]
                 rows == [directory.departments EXCEPT ![i] = row]
      <3>1. directory.departments \in Seq(Rows) /\ directory.departments[i] \in Rows
            /\ i \in 1..Len(directory.departments)
        BY <1>0, Tables DEF Directories
      <3>2. row \in Rows
        BY <2>1, <3>1
      <3>3. rows \in Seq(Rows)
        <4> HIDE DEF row, Rows
        <4> QED BY <3>1, <3>2, ExceptSeq
      <3>4. dir = [directory EXCEPT !.departments = rows]
        BY <1>0, <3>1 DEF Directories
      <3> HIDE DEF rows, dir
      <3> QED BY <1>0, <3>3, <3>4 DEF Directories
    <2>3. AdminChanges(dir)
      BY <1>5 DEF PatchDepartment
    <2> HIDE DEF dir
    <2> QED BY <2>2, <2>3, AdminsChange
  <1>6. ASSUME NEW e \in AdminEmployees, NEW i \in DOMAIN directory.departments,
               CreateEmployee(e.login, e.fio, i)
        PROVE  ImportInv'
    <2>1. e.login \in Ids /\ e.fio \in Names /\ i \in Nat
      <3>1. i \in 1..Len(directory.departments) /\ Len(directory.departments) \in Nat
        BY <1>0, Tables
      <3> QED BY <3>1, ImportAssumption
    <2>2. NewEmployee(directory, e.login, e.fio, i) \in Directories
      BY <1>0, <2>1, EmployeeAdded
    <2>3. AdminChanges(NewEmployee(directory, e.login, e.fio, i))
      BY <1>6 DEF CreateEmployee
    <2> QED BY <2>2, <2>3, AdminsChange
  <1>7. ASSUME NEW i \in DOMAIN directory.employees, NEW e \in AdminEmployees,
               NEW d \in DOMAIN directory.departments, PatchEmployee(i, e.fio, d)
        PROVE  ImportInv'
    <2> DEFINE dir == [directory EXCEPT !.employees[i].fio = e.fio, !.employees[i].dept = d]
    <2>1. e.fio \in Names /\ d \in Nat
      <3>1. d \in 1..Len(directory.departments) /\ Len(directory.departments) \in Nat
        BY <1>0, Tables
      <3> QED BY <3>1, ImportAssumption
    <2>2. dir \in Directories
      <3> DEFINE Rows == [login: Ids, fio: Names, dept: Nat]
                 row == [directory.employees[i] EXCEPT !.fio = e.fio, !.dept = d]
                 rows == [directory.employees EXCEPT ![i] = row]
      <3>1. directory.employees \in Seq(Rows) /\ directory.employees[i] \in Rows
            /\ i \in 1..Len(directory.employees)
        BY <1>0, Tables DEF Directories
      <3>2. row \in Rows
        BY <2>1, <3>1
      <3>3. rows \in Seq(Rows)
        <4> HIDE DEF row, Rows
        <4> QED BY <3>1, <3>2, ExceptSeq
      <3>4. dir = [directory EXCEPT !.employees = rows]
        BY <1>0, <3>1 DEF Directories
      <3> HIDE DEF rows, dir
      <3> QED BY <1>0, <3>3, <3>4 DEF Directories
    <2>3. AdminChanges(dir)
      BY <1>7 DEF PatchEmployee
    <2> HIDE DEF dir
    <2> QED BY <2>2, <2>3, AdminsChange
  <1>8. CASE UNCHANGED importVars
    BY <1>8 DEF importVars
  <1> QED BY <1>1, <1>2, <1>3, <1>4, <1>5, <1>6, <1>7, <1>8 DEF ImportNext

(* An import adds each person of the sheet once, in the department the     *)
(* sheet names, and no id that it makes up is taken, whatever is in the    *)
(* tables and the sheet, and whatever admins change between.               *)
THEOREM ImportsKept == ImportSpec => []ImportSound
  <1>1. ImportInit => ImportInv
    <2> SUFFICES ASSUME ImportInit PROVE ImportInv
      OBVIOUS
    <2> DEFINE none == [departments |-> <<>>, employees |-> <<>>]
    <2>1. directory = none /\ imported = Blank
      BY DEF ImportInit
    <2>2. none \in Directories
      BY EmptySeq DEF Directories
    <2>3. NoConflict(none)
      BY EmptySeq DEF NoConflict
    <2> QED BY <2>1, <2>2, <2>3
      DEF ImportInv, ImportSound, NeverAConflict, NobodyTwice, PlacedWhereTold, Made, Ended
  <1>2. ImportInv /\ [ImportNext]_importVars => ImportInv'
    BY ImportStep
  <1>3. ImportInv => ImportSound
    BY DEF ImportInv
  <1> QED BY <1>1, <1>2, <1>3, PTL DEF ImportSpec

----------------------------------------------------------------------------
(* The events of a stream.                                                 *)

(* A recursive function over 0..n exists; two agree that start and go on   *)
(* alike.                                                                  *)
Recursive(n, D, base, step) == base \in D /\ \A d \in D, k \in 1..n : step[<<d, k>>] \in D

Follows(n, base, step, f) == f[0] = base /\ \A k \in 1..n : f[k] = step[<<f[k - 1], k>>]

Alike(n, f, g) == f[0] = g[0] /\ \A k \in 1..n : f[k - 1] = g[k - 1] => f[k] = g[k]

LEMMA Recursion ==
  ASSUME NEW n \in Nat, NEW D, NEW base, NEW step, Recursive(n, D, base, step)
  PROVE  \E f \in [0..n -> D] : Follows(n, base, step, f)
  <1> USE DEF Recursive
  <1> DEFINE Fun(m, f) == /\ f \in [0..m -> D] /\ f[0] = base
                          /\ \A k \in 1..m : f[k] = step[<<f[k - 1], k>>]
             Good == {m \in Nat : m <= n => \E f : Fun(m, f)}
  <1>1. 0 \in Good
    <2>1. Fun(0, [k \in 0..0 |-> base])
      OBVIOUS
    <2> HIDE DEF Fun
    <2> QED BY <2>1
  <1>2. ASSUME NEW m \in Nat, m \in Good PROVE m + 1 \in Good
    <2>1. SUFFICES ASSUME m + 1 <= n PROVE \E f : Fun(m + 1, f)
      OBVIOUS
    <2>2. PICK f : Fun(m, f)
      <3> HIDE DEF Fun
      <3> QED BY <1>2, <2>1
    <2> DEFINE g == [k \in 0..(m + 1) |-> IF k = m + 1 THEN step[<<f[m], m + 1>>] ELSE f[k]]
    <2>3. f[m] \in D /\ m + 1 \in 1..n
      BY <2>1, <2>2
    <2>4. step[<<f[m], m + 1>>] \in D
      BY <2>3
    <2>5. ASSUME NEW k \in 0..(m + 1) PROVE g[k] \in D
      <3>1. k = m + 1 \/ k \in 0..m
        OBVIOUS
      <3> QED BY <2>2, <2>4, <3>1
    <2>6. ASSUME NEW k \in 1..(m + 1) PROVE g[k] = step[<<g[k - 1], k>>]
      <3>1. CASE k = m + 1
        <4>1. k - 1 = m /\ g[m] = f[m] /\ g[m + 1] = step[<<f[m], m + 1>>]
          BY <3>1
        <4> HIDE DEF g
        <4> QED BY <3>1, <4>1
      <3>2. CASE k # m + 1
        <4>1. k \in 1..m /\ k - 1 \in 0..m /\ k - 1 # m + 1
          BY <3>2
        <4>2. g[k] = f[k] /\ g[k - 1] = f[k - 1]
          BY <3>2, <4>1
        <4> HIDE DEF g
        <4> QED BY <2>2, <4>1, <4>2
      <3> QED BY <3>1, <3>2
    <2>7. g[0] = base
      BY <2>2
    <2>8. g \in [0..(m + 1) -> D]
      BY <2>5
    <2> HIDE DEF g
    <2>9. Fun(m + 1, g)
      BY <2>6, <2>7, <2>8
    <2> QED BY <2>9
  <1>3. Nat \subseteq Good
    <2> HIDE DEF Good
    <2> QED BY <1>1, <1>2, FromZero
  <1> HIDE DEF Fun
  <1>4. PICK f : Fun(n, f)
    BY <1>3
  <1> QED BY <1>4 DEF Fun, Follows

LEMMA Agreement ==
  ASSUME NEW n \in Nat, NEW f, NEW g, Alike(n, f, g)
  PROVE  \A k \in 0..n : f[k] = g[k]
  <1> USE DEF Alike
  <1> DEFINE Good == {m \in Nat : m <= n => f[m] = g[m]}
  <1>1. 0 \in Good
    OBVIOUS
  <1>2. ASSUME NEW m \in Nat, m \in Good PROVE m + 1 \in Good
    <2>1. SUFFICES ASSUME m + 1 <= n PROVE f[m + 1] = g[m + 1]
      OBVIOUS
    <2>2. f[m] = g[m] /\ m + 1 \in 1..n /\ (m + 1) - 1 = m
      BY <1>2, <2>1
    <2> QED BY <2>2
  <1>3. Nat \subseteq Good
    <2> HIDE DEF Good
    <2> QED BY <1>1, <1>2, FromZero
  <1> QED BY <1>3

(* What is read, by its types.                                             *)
Strings == Seq(Letters)
FullLines == Strings \ {<<>>}
Events == [data: Seq(Strings), event: Seq(Strings)]
Readings == [line: Strings, lines: Seq(FullLines), events: Seq(Events)]

(* The values of one line more.                                            *)
LEMMA FullLine ==
  ASSUME NEW l \in FullLines
  PROVE  /\ l \in Strings /\ Len(l) \in Nat /\ Len(l) >= 1
         /\ Tail(l) \in Strings /\ Len(Tail(l)) = Len(l) - 1
  <1>1. l \in Seq(Letters) /\ l # <<>>
    BY DEF FullLines, Strings
  <1> QED BY <1>1, HeadTailProperties, LenProperties, EmptySeq DEF Strings

Gathers(ls, field, n, f) ==
    f = [k \in 0..n |->
            IF k = 0 THEN <<>>
            ELSE IF Head(ls[k]) = field THEN Append(f[k - 1], Tail(ls[k]))
            ELSE f[k - 1]]

LEMMA GatheredExist ==
  ASSUME NEW ls \in Seq(FullLines), NEW field
  PROVE  LET f == CHOOSE f : Gathers(ls, field, Len(ls), f)
         IN  /\ Gathers(ls, field, Len(ls), f)
             /\ Values(ls, field) = f[Len(ls)] /\ Values(ls, field) \in Seq(Strings)
  <1> DEFINE n == Len(ls)
             step == [x \in Seq(Strings) \X (1..n) |->
                         IF Head(ls[x[2]]) = field THEN Append(x[1], Tail(ls[x[2]])) ELSE x[1]]
  <1>1. n \in Nat /\ \A k \in 1..n : ls[k] \in FullLines
    BY LenProperties, ElementOfSeq
  <1> HIDE DEF n
  <1>2. ASSUME NEW d \in Seq(Strings), NEW k \in 1..n
        PROVE  /\ step[<<d, k>>] = IF Head(ls[k]) = field THEN Append(d, Tail(ls[k])) ELSE d
               /\ step[<<d, k>>] \in Seq(Strings)
    <2>1. Tail(ls[k]) \in Strings
      BY <1>1, FullLine
    <2>2. Append(d, Tail(ls[k])) \in Seq(Strings)
      BY <2>1, AppendProperties
    <2> QED BY <2>2
  <1>3. <<>> \in Seq(Strings)
    BY EmptySeq
  <1>4. PICK f \in [0..n -> Seq(Strings)] : f[0] = <<>> /\ \A k \in 1..n : f[k] = step[<<f[k - 1], k>>]
    <2> HIDE DEF step
    <2>1. \A d \in Seq(Strings), k \in 1..n : step[<<d, k>>] \in Seq(Strings)
      BY <1>2
    <2>2. Recursive(n, Seq(Strings), <<>>, step)
      BY <1>3, <2>1 DEF Recursive
    <2>3. PICK f \in [0..n -> Seq(Strings)] : Follows(n, <<>>, step, f)
      BY <1>1, <2>2, Recursion
    <2> QED BY <2>3 DEF Follows
  <1> HIDE DEF step
  <1>5. Gathers(ls, field, n, f)
    <2>1. ASSUME NEW k \in 0..n
          PROVE  f[k] = IF k = 0 THEN <<>>
                        ELSE IF Head(ls[k]) = field THEN Append(f[k - 1], Tail(ls[k]))
                        ELSE f[k - 1]
      <3>1. CASE k # 0
        <4>1. k \in 1..n /\ k - 1 \in 0..n
          BY <1>1, <3>1
        <4> QED BY <1>2, <1>4, <3>1, <4>1
      <3> QED BY <1>4, <3>1
    <2> QED BY <2>1 DEF Gathers
  <1> DEFINE h == CHOOSE g : Gathers(ls, field, n, g)
  <1>6. Gathers(ls, field, n, h)
    BY <1>5
  <1>7. Values(ls, field) = h[n]
    BY DEF Values, Gathers, n
  <1> HIDE DEF h
  <1>8. \A k \in 0..n : h[k] = f[k]
    <2>1. h[0] = f[0]
      BY <1>1, <1>5, <1>6 DEF Gathers
    <2>2. ASSUME NEW k \in 1..n, h[k - 1] = f[k - 1] PROVE h[k] = f[k]
      <3>1. k \in 0..n /\ k # 0
        BY <1>1
      <3> QED BY <1>5, <1>6, <2>2, <3>1 DEF Gathers
    <2>3. \A k \in 1..n : h[k - 1] = f[k - 1] => h[k] = f[k]
      BY <2>2
    <2>4. Alike(n, h, f)
      BY <2>1, <2>3 DEF Alike
    <2> QED BY <1>1, <2>4, Agreement
  <1>9. h[n] \in Seq(Strings)
    BY <1>1, <1>4, <1>8
  <1> QED BY <1>6, <1>7, <1>9 DEF h, n

LEMMA ValuesOfNone == ASSUME NEW field PROVE Values(<<>>, field) = <<>>
  <1> DEFINE f == CHOOSE f : Gathers(<<>>, field, Len(<<>>), f)
  <1>1. <<>> \in Seq(FullLines) /\ Len(<<>>) = 0
    BY EmptySeq
  <1>2. Gathers(<<>>, field, 0, f) /\ Values(<<>>, field) = f[0]
    BY <1>1, GatheredExist
  <1> HIDE DEF f
  <1> QED BY <1>2 DEF Gathers

LEMMA ValuesOfMore ==
  ASSUME NEW ls \in Seq(FullLines), NEW l \in FullLines, NEW field
  PROVE  Values(Append(ls, l), field)
         = IF Head(l) = field THEN Append(Values(ls, field), Tail(l)) ELSE Values(ls, field)
  <1> DEFINE n == Len(ls)
             more == Append(ls, l)
             f == CHOOSE f : Gathers(ls, field, n, f)
             g == CHOOSE h : Gathers(more, field, Len(more), h)
  <1>1. /\ n \in Nat /\ more \in Seq(FullLines) /\ Len(more) = n + 1
        /\ \A k \in 1..n : more[k] = ls[k]
        /\ more[n + 1] = l
    BY AppendProperties, LenProperties
  <1>2. Gathers(ls, field, n, f) /\ Values(ls, field) = f[n]
    BY GatheredExist
  <1>3. Gathers(more, field, n + 1, g) /\ Values(more, field) = g[n + 1]
    <2> HIDE DEF more
    <2>1. Gathers(more, field, Len(more), g) /\ Values(more, field) = g[Len(more)]
      BY <1>1, GatheredExist
    <2> HIDE DEF g
    <2> QED BY <1>1, <2>1
  <1> HIDE DEF f, g, n, more
  <1>4. f[0] = g[0]
    BY <1>1, <1>2, <1>3 DEF Gathers
  <1>5. ASSUME NEW k \in 1..n, f[k - 1] = g[k - 1] PROVE f[k] = g[k]
    <2>1. k \in 0..n /\ k \in 0..(n + 1) /\ k # 0
      BY <1>1
    <2>2. f[k] = IF Head(ls[k]) = field THEN Append(f[k - 1], Tail(ls[k])) ELSE f[k - 1]
      BY <1>2, <2>1 DEF Gathers
    <2>3. g[k] = IF Head(more[k]) = field THEN Append(g[k - 1], Tail(more[k])) ELSE g[k - 1]
      BY <1>3, <2>1 DEF Gathers
    <2>4. ls[k] = more[k]
      BY <1>1
    <2> QED BY <1>5, <2>2, <2>3, <2>4
  <1>6. \A k \in 0..n : f[k] = g[k]
    <2>1. \A k \in 1..n : f[k - 1] = g[k - 1] => f[k] = g[k]
      BY <1>5
    <2>2. Alike(n, f, g)
      BY <1>4, <2>1 DEF Alike
    <2> QED BY <1>1, <2>2, Agreement
  <1>7. g[n] = f[n]
    BY <1>1, <1>6
  <1>8. n + 1 \in 0..(n + 1) /\ n + 1 # 0 /\ (n + 1) - 1 = n
    BY <1>1
  <1>9. g[n + 1] = IF Head(l) = field THEN Append(g[n], Tail(l)) ELSE g[n]
    BY <1>1, <1>3, <1>8 DEF Gathers
  <1>10. Values(more, field) = IF Head(l) = field THEN Append(Values(ls, field), Tail(l))
                               ELSE Values(ls, field)
    BY <1>2, <1>3, <1>7, <1>9
  <1> QED BY <1>10 DEF more

(* The bytes of one value more.                                            *)
Counts(d, n, f) == f = [k \in 0..n |-> IF k = 0 THEN 0 ELSE f[k - 1] + Len(d[k]) + 1]

LEMMA CountedExist ==
  ASSUME NEW p, p.dataLines \in Seq(Strings)
  PROVE  LET d == p.dataLines
             f == CHOOSE f : Counts(d, Len(d), f)
         IN  Counts(d, Len(d), f) /\ DataBytes(p) = f[Len(d)] /\ DataBytes(p) \in Nat
  <1> DEFINE d == p.dataLines
             n == Len(d)
             step == [x \in Nat \X (1..n) |-> x[1] + Len(d[x[2]]) + 1]
  <1>1. n \in Nat /\ \A k \in 1..n : Len(d[k]) \in Nat
    <2>1. \A k \in 1..n : d[k] \in Strings
      BY ElementOfSeq
    <2> HIDE DEF d
    <2> QED BY <2>1, LenProperties DEF Strings, d
  <1> DEFINE h == CHOOSE g : Counts(d, n, g)
  <1>2. DataBytes(p) = h[n]
    BY DEF DataBytes, Counts
  <1> HIDE DEF n, d
  <1>3. ASSUME NEW m \in Nat, NEW k \in 1..n
        PROVE  step[<<m, k>>] = m + Len(d[k]) + 1 /\ step[<<m, k>>] \in Nat
    BY <1>1
  <1>4. PICK f \in [0..n -> Nat] : f[0] = 0 /\ \A k \in 1..n : f[k] = step[<<f[k - 1], k>>]
    <2>1. 0 \in Nat
      OBVIOUS
    <2> HIDE DEF step
    <2>2. \A m \in Nat, k \in 1..n : step[<<m, k>>] \in Nat
      BY <1>3
    <2>3. Recursive(n, Nat, 0, step)
      BY <2>1, <2>2 DEF Recursive
    <2>4. PICK f \in [0..n -> Nat] : Follows(n, 0, step, f)
      BY <1>1, <2>3, Recursion
    <2> QED BY <2>4 DEF Follows
  <1> HIDE DEF step
  <1>5. Counts(d, n, f)
    <2>1. ASSUME NEW k \in 0..n PROVE f[k] = IF k = 0 THEN 0 ELSE f[k - 1] + Len(d[k]) + 1
      <3>1. CASE k # 0
        <4>1. k \in 1..n /\ k - 1 \in 0..n
          BY <1>1, <3>1
        <4>2. f[k - 1] \in Nat
          BY <4>1
        <4> QED BY <1>3, <1>4, <3>1, <4>1, <4>2
      <3> QED BY <1>4, <3>1
    <2> QED BY <2>1 DEF Counts
  <1>6. Counts(d, n, h)
    BY <1>5
  <1> HIDE DEF h
  <1>7. \A k \in 0..n : h[k] = f[k]
    <2>1. h[0] = f[0]
      BY <1>1, <1>5, <1>6 DEF Counts
    <2>2. ASSUME NEW k \in 1..n, h[k - 1] = f[k - 1] PROVE h[k] = f[k]
      <3>1. k \in 0..n /\ k # 0
        BY <1>1
      <3> QED BY <1>5, <1>6, <2>2, <3>1 DEF Counts
    <2>3. \A k \in 1..n : h[k - 1] = f[k - 1] => h[k] = f[k]
      BY <2>2
    <2>4. Alike(n, h, f)
      BY <2>1, <2>3 DEF Alike
    <2> QED BY <1>1, <2>4, Agreement
  <1>8. h[n] \in Nat
    BY <1>1, <1>4, <1>7
  <1> QED BY <1>2, <1>6, <1>8 DEF h, n, d

LEMMA BytesOfNone == ASSUME NEW p, p.dataLines = <<>> PROVE DataBytes(p) = 0
  <1> DEFINE f == CHOOSE f : Counts(p.dataLines, Len(p.dataLines), f)
  <1>1. p.dataLines \in Seq(Strings) /\ Len(p.dataLines) = 0
    BY EmptySeq
  <1>2. Counts(p.dataLines, 0, f) /\ DataBytes(p) = f[0]
    BY <1>1, CountedExist
  <1> HIDE DEF f
  <1> QED BY <1>2 DEF Counts

LEMMA BytesOfMore ==
  ASSUME NEW p, NEW q, p.dataLines \in Seq(Strings), NEW v \in Strings,
         q.dataLines = Append(p.dataLines, v)
  PROVE  DataBytes(q) = DataBytes(p) + Len(v) + 1
  <1> DEFINE d == p.dataLines
             e == q.dataLines
             n == Len(d)
             f == CHOOSE f : Counts(d, n, f)
             g == CHOOSE h : Counts(e, Len(e), h)
  <1>1. /\ n \in Nat /\ e \in Seq(Strings) /\ Len(e) = n + 1
        /\ \A k \in 1..n : e[k] = d[k]
        /\ e[n + 1] = v
    BY AppendProperties, LenProperties
  <1>2. Counts(d, n, f) /\ DataBytes(p) = f[n]
    BY CountedExist
  <1>3. Counts(e, n + 1, g) /\ DataBytes(q) = g[n + 1]
    <2>1. Counts(e, Len(e), g) /\ DataBytes(q) = g[Len(e)]
      BY <1>1, CountedExist
    <2> HIDE DEF g, e
    <2> QED BY <1>1, <2>1
  <1> HIDE DEF f, g, n, d, e
  <1>4. f[0] = g[0]
    BY <1>1, <1>2, <1>3 DEF Counts
  <1>5. ASSUME NEW k \in 1..n, f[k - 1] = g[k - 1] PROVE f[k] = g[k]
    <2>1. k \in 0..n /\ k \in 0..(n + 1) /\ k # 0
      BY <1>1
    <2>2. f[k] = f[k - 1] + Len(d[k]) + 1
      BY <1>2, <2>1 DEF Counts
    <2>3. g[k] = g[k - 1] + Len(e[k]) + 1
      BY <1>3, <2>1 DEF Counts
    <2>4. d[k] = e[k]
      BY <1>1
    <2> QED BY <1>5, <2>2, <2>3, <2>4
  <1>6. \A k \in 0..n : f[k] = g[k]
    <2>1. \A k \in 1..n : f[k - 1] = g[k - 1] => f[k] = g[k]
      BY <1>5
    <2>2. Alike(n, f, g)
      BY <1>4, <2>1 DEF Alike
    <2> QED BY <1>1, <2>2, Agreement
  <1>7. g[n] = f[n]
    BY <1>1, <1>6
  <1>8. n + 1 \in 0..(n + 1) /\ n + 1 # 0 /\ (n + 1) - 1 = n
    BY <1>1
  <1> QED BY <1>1, <1>2, <1>3, <1>7, <1>8 DEF Counts

(* The parser's fields for the lines of the event under way.               *)
Pend(ls) == [dataLines |-> Values(ls, "data"), eventName |-> EventOf(ls).event]

Pendings == [dataLines: Seq(Strings), eventName: Seq(Strings)]

LEMMA EventTyped ==
  ASSUME NEW ls \in Seq(FullLines)
  PROVE  /\ EventOf(ls) \in Events /\ EventOf(ls).data = Values(ls, "data")
         /\ Pend(ls) \in Pendings
  <1>1. Values(ls, "data") \in Seq(Strings) /\ Values(ls, "event") \in Seq(Strings)
    BY GatheredExist
  <1> DEFINE names == Values(ls, "event")
             last == IF names = <<>> THEN <<>> ELSE <<Last(names)>>
  <1>2. last \in Seq(Strings)
    <2>1. CASE names = <<>>
      BY <2>1, EmptySeq
    <2>2. CASE names # <<>>
      <3>1. Len(names) \in 1..Len(names)
        BY <1>1, <2>2, EmptySeq
      <3>2. Last(names) \in Strings
        <4> HIDE DEF names
        <4> QED BY <1>1, <3>1, ElementOfSeq DEF Last, names
      <3> HIDE DEF names
      <3> QED BY <2>2, <3>2
    <2> QED BY <2>1, <2>2
  <1>3. EventOf(ls) = [data |-> Values(ls, "data"), event |-> last]
    BY DEF EventOf
  <1> HIDE DEF last
  <1> QED BY <1>1, <1>2, <1>3 DEF Events, Pend, Pendings

LEMMA PendOfNone == Pend(<<>>) = NoEvent /\ EventOf(<<>>).data = <<>>
  BY ValuesOfNone DEF Pend, EventOf, NoEvent

(* A line more, in the fields and in the reading.                          *)
LEMMA PendOfMore ==
  ASSUME NEW ls \in Seq(FullLines), NEW l \in FullLines
  PROVE  Pend(Append(ls, l)) = ParseField(Pend(ls), l)
  <1> DEFINE more == Append(ls, l)
  <1>1. Values(more, "data") = IF Head(l) = "data" THEN Append(Values(ls, "data"), Tail(l))
                               ELSE Values(ls, "data")
    BY ValuesOfMore
  <1>2. Values(more, "event") = IF Head(l) = "event" THEN Append(Values(ls, "event"), Tail(l))
                                ELSE Values(ls, "event")
    BY ValuesOfMore
  <1>3. /\ Append(Values(ls, "event"), Tail(l)) # <<>>
        /\ Last(Append(Values(ls, "event"), Tail(l))) = Tail(l)
    <2> DEFINE names == Values(ls, "event")
    <2>1. names \in Seq(Strings) /\ Tail(l) \in Strings
      BY GatheredExist, FullLine
    <2> HIDE DEF names
    <2>2. /\ Append(names, Tail(l)) # <<>> /\ Len(Append(names, Tail(l))) = Len(names) + 1
          /\ Append(names, Tail(l))[Len(names) + 1] = Tail(l)
      BY <2>1, AppendProperties
    <2>3. Append(names, Tail(l)) # <<>> /\ Last(Append(names, Tail(l))) = Tail(l)
      BY <2>2 DEF Last
    <2> QED BY <2>3 DEF names
  <1>4. EventOf(more).event = IF Head(l) = "event" THEN <<Tail(l)>> ELSE EventOf(ls).event
    <2> HIDE DEF more
    <2>1. CASE Head(l) = "event"
      BY <1>2, <1>3, <2>1 DEF EventOf
    <2>2. CASE Head(l) # "event"
      BY <1>2, <2>2 DEF EventOf
    <2> QED BY <2>1, <2>2
  <1> HIDE DEF more
  <1>5. Pend(more) = ParseField(Pend(ls), l)
    BY <1>1, <1>4 DEF Pend, ParseField
  <1> QED BY <1>5 DEF more

(* What there is of the event under way, of a reading.                     *)
Weight(r) == DataBytes(Pend(r.lines)) + Len(r.line)

LEMMA LineWeighs ==
  ASSUME NEW ls \in Seq(FullLines), NEW line \in FullLines
  PROVE  /\ DataBytes(Pend(ls)) \in Nat /\ DataBytes(Pend(Append(ls, line))) \in Nat
         /\ DataBytes(Pend(Append(ls, line))) <= DataBytes(Pend(ls)) + Len(line)
  <1> DEFINE p == Pend(ls)
             q == Pend(Append(ls, line))
  <1>0. Append(ls, line) \in Seq(FullLines)
    BY AppendProperties
  <1>1. p.dataLines \in Seq(Strings) /\ q.dataLines \in Seq(Strings)
    BY <1>0, EventTyped DEF Pendings
  <1>2. q = ParseField(p, line)
    BY PendOfMore
  <1>3. DataBytes(p) \in Nat /\ DataBytes(q) \in Nat
    BY <1>1, CountedExist
  <1>4. Tail(line) \in Strings /\ Len(Tail(line)) = Len(line) - 1 /\ Len(line) \in Nat
    BY FullLine
  <1> HIDE DEF p, q
  <1>5. CASE Head(line) = "data"
    <2>1. q.dataLines = Append(p.dataLines, Tail(line))
      BY <1>2, <1>5 DEF ParseField
    <2>2. DataBytes(q) = DataBytes(p) + Len(Tail(line)) + 1
      BY <1>1, <1>4, <2>1, BytesOfMore
    <2>3. DataBytes(q) <= DataBytes(p) + Len(line)
      <3> DEFINE less == Len(Tail(line))
                 long == Len(line)
      <3>1. /\ less = long - 1 /\ long \in Nat /\ DataBytes(p) \in Nat
            /\ DataBytes(q) = DataBytes(p) + less + 1
        BY <1>3, <1>4, <2>2
      <3> HIDE DEF less, long
      <3>2. DataBytes(q) = DataBytes(p) + long
        BY <3>1
      <3> QED BY <1>3, <3>1, <3>2 DEF long
    <2> QED BY <1>3, <2>3 DEF p, q
  <1>6. CASE Head(line) # "data"
    <2>1. q.dataLines = p.dataLines
      BY <1>2, <1>6 DEF ParseField
    <2>2. DataBytes(q) = DataBytes(p)
      BY <2>1 DEF DataBytes
    <2> QED BY <1>3, <1>4, <2>2 DEF p, q
  <1> QED BY <1>5, <1>6

LEMMA LineKeeps ==
  ASSUME NEW r \in Readings
  PROVE  /\ LineRead(r) \in Readings /\ LineRead(r).line = <<>>
         /\ r.line # <<>> => /\ LineRead(r).lines = Append(r.lines, r.line)
                             /\ LineRead(r).events = r.events
         /\ r.line = <<>> => /\ LineRead(r).lines = <<>>
                             /\ LineRead(r).events = IF EventOf(r.lines).data = <<>> THEN r.events
                                                     ELSE Append(r.events, EventOf(r.lines))
  <1>0. r.line \in Strings /\ r.lines \in Seq(FullLines) /\ r.events \in Seq(Events)
    BY DEF Readings
  <1>1. CASE r.line # <<>>
    <2>1. r.line \in FullLines
      BY <1>0, <1>1 DEF FullLines
    <2>2. Append(r.lines, r.line) \in Seq(FullLines)
      BY <1>0, <2>1, AppendProperties
    <2>3. LineRead(r) = [r EXCEPT !.line = <<>>, !.lines = Append(@, r.line)]
      BY <1>1 DEF LineRead
    <2>4. /\ LineRead(r).line = <<>> /\ LineRead(r).lines = Append(r.lines, r.line)
          /\ LineRead(r).events = r.events /\ LineRead(r) \in Readings
      <3>1. <<>> \in Strings
        BY EmptySeq DEF Strings
      <3> QED BY <2>2, <2>3, <3>1 DEF Readings
    <2> QED BY <1>1, <2>4
  <1>2. CASE r.line = <<>>
    <2> DEFINE es == IF EventOf(r.lines).data = <<>> THEN r.events
                         ELSE Append(r.events, EventOf(r.lines))
    <2>1. es \in Seq(Events)
      <3>1. EventOf(r.lines) \in Events
        BY <1>0, EventTyped
      <3> QED BY <1>0, <3>1, AppendProperties
    <2>2. LineRead(r) = [Unread EXCEPT !.events = es]
      BY <1>2 DEF LineRead
    <2> HIDE DEF es
    <2>3. /\ LineRead(r).line = <<>> /\ LineRead(r).lines = <<>>
          /\ LineRead(r).events = es /\ LineRead(r) \in Readings
      <3>1. <<>> \in Strings /\ <<>> \in Seq(FullLines)
        BY EmptySeq DEF Strings
      <3>2. LineRead(r) = [line |-> <<>>, lines |-> <<>>, events |-> es]
        BY <2>2 DEF Unread
      <3> QED BY <2>1, <3>1, <3>2 DEF Readings
    <2> QED BY <1>2, <2>3 DEF es
  <1> QED BY <1>1, <1>2

(* A letter more.                                                          *)
LEMMA LetterKeeps ==
  ASSUME NEW s \in Strings, NEW i \in 1..Len(s), NEW r \in Readings
  PROVE  LetterRead(s, i, r) \in Readings
  <1>1. CASE LetterRead(s, i, r) = r
    BY <1>1
  <1>2. CASE LetterRead(s, i, r) = LineRead(r)
    BY <1>2, LineKeeps
  <1>3. CASE LetterRead(s, i, r) = [r EXCEPT !.line = Append(@, s[i])]
    <2>1. s[i] \in Letters /\ r.line \in Strings
      BY ElementOfSeq DEF Strings, Readings
    <2>2. Append(r.line, s[i]) \in Strings
      BY <2>1, AppendProperties DEF Strings
    <2> QED BY <1>3, <2>2 DEF Readings
  <1> QED BY <1>1, <1>2, <1>3 DEF LetterRead

(* The reading of a sequence exists, letter by letter.                     *)
Reads(s, n, f) ==
    f = [i \in 0..n |->
            IF i = 0 THEN Unread ELSE LetterRead(s, i, f[i - 1])]

ReadAt(s) == CHOOSE f : Reads(s, Len(s), f)

LEMMA ReadExists ==
  ASSUME NEW s \in Strings
  PROVE  /\ Len(s) \in Nat /\ Read(s) = ReadAt(s)[Len(s)] /\ ReadAt(s)[0] = Unread
         /\ \A i \in 0..Len(s) : ReadAt(s)[i] \in Readings
         /\ \A i \in 1..Len(s) : ReadAt(s)[i] = LetterRead(s, i, ReadAt(s)[i - 1])
  <1> DEFINE n == Len(s)
             step == [x \in Readings \X (1..n) |-> LetterRead(s, x[2], x[1])]
  <1>1. n \in Nat
    BY LenProperties DEF Strings
  <1>2. ASSUME NEW r \in Readings, NEW i \in 1..n
        PROVE  step[<<r, i>>] = LetterRead(s, i, r) /\ step[<<r, i>>] \in Readings
    <2>1. LetterRead(s, i, r) \in Readings
      BY LetterKeeps
    <2> HIDE DEF n
    <2> QED BY <2>1
  <1>3. Unread \in Readings
    <2>1. <<>> \in Strings /\ <<>> \in Seq(FullLines) /\ <<>> \in Seq(Events)
      BY EmptySeq DEF Strings
    <2> QED BY <2>1 DEF Readings, Unread
  <1> HIDE DEF n
  <1>4. PICK f \in [0..n -> Readings] : Follows(n, Unread, step, f)
    <2> HIDE DEF step
    <2>1. \A r \in Readings, i \in 1..n : step[<<r, i>>] \in Readings
      BY <1>2
    <2>2. Recursive(n, Readings, Unread, step)
      BY <1>3, <2>1 DEF Recursive
    <2> QED BY <1>1, <2>2, Recursion
  <1> HIDE DEF step
  <1>5. f[0] = Unread /\ \A i \in 1..n : f[i] = LetterRead(s, i, f[i - 1])
    <2>1. \A i \in 1..n : i - 1 \in 0..n
      BY <1>1
    <2> QED BY <1>2, <1>4, <2>1 DEF Follows
  <1>6. Reads(s, n, f)
    <2>1. ASSUME NEW i \in 0..n
          PROVE  f[i] = IF i = 0 THEN Unread ELSE LetterRead(s, i, f[i - 1])
      <3>1. i = 0 \/ i \in 1..n
        BY <1>1
      <3> QED BY <1>5, <3>1
    <2> QED BY <2>1 DEF Reads
  <1> DEFINE h == ReadAt(s)
  <1>7. Reads(s, n, h)
    BY <1>6 DEF ReadAt, n
  <1>8. Read(s) = h[n]
    BY DEF Read, ReadAt, Reads, n
  <1> HIDE DEF h
  <1>9. h[0] = Unread /\ \A i \in 1..n : h[i] = LetterRead(s, i, h[i - 1])
    <2>1. ASSUME NEW i \in 0..n
          PROVE  h[i] = IF i = 0 THEN Unread ELSE LetterRead(s, i, h[i - 1])
      BY <1>7 DEF Reads
    <2>2. 0 \in 0..n /\ \A i \in 1..n : i \in 0..n /\ i # 0
      BY <1>1
    <2> QED BY <2>1, <2>2
  <1>10. \A i \in 0..n : h[i] = f[i]
    <2>1. Alike(n, h, f)
      BY <1>5, <1>9 DEF Alike
    <2> QED BY <1>1, <2>1, Agreement
  <1>11. \A i \in 0..n : h[i] \in Readings
    BY <1>4, <1>10
  <1> QED BY <1>1, <1>8, <1>9, <1>11 DEF h, n

(* Sequences that begin alike are read alike.                              *)
Begins(s, t) == Len(s) <= Len(t) /\ \A i \in 1..Len(s) : s[i] = t[i]

LEMMA ReadOfMore ==
  ASSUME NEW s \in Strings, NEW t \in Strings, Begins(s, t)
  PROVE  \A i \in 0..Len(s) : ReadAt(s)[i] = ReadAt(t)[i]
  <1> USE DEF Begins
  <1> DEFINE n == Len(s)
             f == ReadAt(s)
             g == ReadAt(t)
  <1>1. /\ n \in Nat /\ Len(t) \in Nat /\ f[0] = Unread /\ g[0] = Unread
        /\ \A i \in 1..n : f[i] = LetterRead(s, i, f[i - 1])
        /\ \A i \in 1..Len(t) : g[i] = LetterRead(t, i, g[i - 1])
    BY ReadExists
  <1> HIDE DEF f, g
  <1>2. ASSUME NEW i \in 1..n, f[i - 1] = g[i - 1] PROVE f[i] = g[i]
    <2>1. i \in 1..Len(t) /\ s[i] = t[i] /\ (i > 1 => s[i - 1] = t[i - 1])
      <3>1. i > 1 => i - 1 \in 1..n
        BY <1>1
      <3> QED BY <1>1, <3>1
    <2>2. LetterRead(s, i, g[i - 1]) = LetterRead(t, i, g[i - 1])
      BY <2>1 DEF LetterRead
    <2> QED BY <1>1, <1>2, <2>1, <2>2
  <1>3. Alike(n, f, g)
    BY <1>1, <1>2 DEF Alike
  <1>4. \A i \in 0..n : f[i] = g[i]
    BY <1>1, <1>3, Agreement
  <1> QED BY <1>4 DEF f, g

(* The loop of drainLines over a buffer that is the end of what has come:  *)
(* b letters came before it, and `out' was given out before.               *)
Loops == [pos: Nat, next: Nat, held: BOOLEAN, pending: Pendings, events: Seq(Events)]

EndOf(t, buf, b) ==
    /\ t \in Strings /\ buf \in Strings /\ b \in Nat /\ Len(t) = b + Len(buf)
    /\ \A j \in 1..Len(buf) : buf[j] = t[b + j]

(* The loop has read the letters up to the i-th of the buffer.             *)
HasRead(t, buf, b, out, i, loop) ==
    LET r == ReadAt(t)[b + i]
    IN  /\ 1 <= loop.pos /\ loop.pos <= loop.next /\ loop.next <= i + 2
        /\ r.line = SubSeq(buf, loop.pos, i)
        /\ loop.pending = Pend(r.lines)
        /\ out \o loop.events = r.events
        /\ loop.pos <= i => buf[i] \notin {LF, CR}

(* A CR that has been taken for a line end, with the LF after it or before *)
(* that one has come: in that case its line was empty.                     *)
PassesOver(buf, i, loop) ==
    loop.next = i + 2 =>
        loop.pos = i + 2 /\ i >= 1 /\ i < Len(buf) /\ buf[i] = CR /\ buf[i + 1] = LF

EmptyBefore(t, buf, b, eof, i, loop) ==
    (/\ b + i >= 1 /\ t[b + i] = CR /\ loop.next <= i + 1
     /\ i < Len(buf) => buf[i + 1] = LF
     /\ i = Len(buf) => ~eof)
    => ReadAt(t)[b + i].lines = <<>> /\ ReadAt(t)[b + i].line = <<>>

Holds(t, buf, b, eof, out, i, loop) ==
    /\ i = Len(buf) /\ i > 1 /\ ~eof /\ buf[i] = CR /\ loop.pos < i /\ loop.next <= i
    /\ HasRead(t, buf, b, out, i - 1, loop)

LoopInv(t, buf, b, eof, out, i, loop) ==
    /\ loop \in Loops
    /\ loop.held => Holds(t, buf, b, eof, out, i, loop)
    /\ ~loop.held => /\ HasRead(t, buf, b, out, i, loop) /\ PassesOver(buf, i, loop)
                     /\ EmptyBefore(t, buf, b, eof, i, loop)

(* A line that ends, for the parser and for the reading.                   *)
LEMMA LineProcessed ==
  ASSUME NEW r \in Readings, NEW loop \in Loops, NEW out \in Seq(Events), NEW next \in Nat,
         loop.pending = Pend(r.lines), out \o loop.events = r.events
  PROVE  LET new == ProcessLine(loop, r.line, next)
         IN  /\ new \in Loops /\ new.pos = next /\ new.next = next /\ new.held = loop.held
             /\ new.pending = Pend(LineRead(r).lines)
             /\ out \o new.events = LineRead(r).events
  <1> DEFINE d == Dispatch(loop.pending)
             new == ProcessLine(loop, r.line, next)
  <1>0. /\ r.line \in Strings /\ r.lines \in Seq(FullLines) /\ r.events \in Seq(Events)
        /\ loop.events \in Seq(Events)
    BY DEF Readings, Loops
  <1>1. CASE r.line # <<>>
    <2>1. r.line \in FullLines
      BY <1>0, <1>1 DEF FullLines
    <2>2. Append(r.lines, r.line) \in Seq(FullLines)
      BY <1>0, <2>1, AppendProperties
    <2>3. LineRead(r).lines = Append(r.lines, r.line) /\ LineRead(r).events = r.events
      BY <1>1, LineKeeps
    <2>4. ParseField(loop.pending, r.line) = Pend(Append(r.lines, r.line))
      BY <1>0, <2>1, PendOfMore
    <2>5. Pend(Append(r.lines, r.line)) \in Pendings
      BY <2>2, EventTyped
    <2>6. new = [loop EXCEPT !.pos = next, !.next = next,
                             !.pending = ParseField(loop.pending, r.line), !.events = loop.events]
      BY <1>1 DEF ProcessLine
    <2> HIDE DEF new
    <2>7. /\ new.pos = next /\ new.next = next /\ new.held = loop.held
          /\ new.pending = Pend(Append(r.lines, r.line)) /\ new.events = loop.events
          /\ new \in Loops
      BY <1>0, <2>4, <2>5, <2>6 DEF Loops
    <2> QED BY <2>3, <2>7 DEF new
  <1>2. CASE r.line = <<>>
    <2> DEFINE e == EventOf(r.lines)
    <2>1. /\ LineRead(r).lines = <<>>
          /\ LineRead(r).events = IF e.data = <<>> THEN r.events ELSE Append(r.events, e)
      BY <1>2, LineKeeps
    <2>2. e \in Events /\ e = [data |-> Pend(r.lines).dataLines, event |-> Pend(r.lines).eventName]
      BY <1>0, EventTyped DEF Pend, EventOf
    <2>3. d.pending = NoEvent /\ d.event = IF e.data = <<>> THEN <<>> ELSE <<e>>
      BY <2>2 DEF Dispatch
    <2>4. d.event \in Seq(Events)
      BY <2>2, <2>3, EmptySeq
    <2>5. loop.events \o d.event \in Seq(Events)
      <3> HIDE DEF d
      <3> QED BY <1>0, <2>4, ConcatProperties
    <2>6. NoEvent = Pend(<<>>) /\ NoEvent \in Pendings
      <3>1. <<>> \in Seq(Strings)
        BY EmptySeq
      <3> QED BY <3>1, PendOfNone DEF NoEvent, Pendings
    <2>7. new = [loop EXCEPT !.pos = next, !.next = next, !.pending = d.pending,
                             !.events = loop.events \o d.event]
      BY <1>2 DEF ProcessLine
    <2> HIDE DEF new, d
    <2>8. /\ new.pos = next /\ new.next = next /\ new.held = loop.held
          /\ new.pending = Pend(<<>>) /\ new.events = loop.events \o d.event
          /\ new \in Loops
      BY <1>0, <2>3, <2>5, <2>6, <2>7 DEF Loops
    <2>9. out \o new.events = r.events \o d.event
      <3>1. \A x, y, z \in Seq(Events) : (x \o y) \o z = x \o (y \o z)
        BY ConcatAssociative
      <3>2. (out \o loop.events) \o d.event = out \o (loop.events \o d.event)
        BY <1>0, <2>4, <3>1
      <3> QED BY <2>8, <3>2
    <2>10. r.events \o d.event = LineRead(r).events
      <3> HIDE DEF e
      <3>1. CASE e.data = <<>>
        BY <1>0, <2>1, <2>3, <3>1, ConcatEmptySeq
      <3>2. CASE e.data # <<>>
        BY <1>0, <2>1, <2>2, <2>3, <3>2, AppendIsConcat
      <3> QED BY <3>1, <3>2
    <2> QED BY <2>1, <2>8, <2>9, <2>10 DEF new
  <1> QED BY <1>1, <1>2

(* A reading of the letters of the buffer.                                 *)
LEMMA PieceRead ==
  ASSUME NEW t, NEW buf, NEW b, EndOf(t, buf, b), NEW i \in 1..Len(buf)
  PROVE  /\ Len(buf) \in Nat /\ b + i \in 1..Len(t) /\ (b + i) - 1 = b + (i - 1)
         /\ ReadAt(t)[b + (i - 1)] \in Readings
         /\ ReadAt(t)[b + i] = LetterRead(t, b + i, ReadAt(t)[b + (i - 1)])
         /\ t[b + i] = buf[i] /\ buf[i] \in Letters
  <1>1. /\ t \in Strings /\ buf \in Strings /\ b \in Nat /\ Len(t) = b + Len(buf)
        /\ t[b + i] = buf[i]
    BY DEF EndOf
  <1>2. Len(buf) \in Nat /\ Len(t) \in Nat
    BY <1>1, LenProperties DEF Strings
  <1>3. b + i \in 1..Len(t) /\ (b + i) - 1 = b + (i - 1) /\ b + (i - 1) \in 0..Len(t)
    BY <1>1, <1>2
  <1> DEFINE r == ReadAt(t)[b + (i - 1)]
  <1>4. r \in Readings /\ ReadAt(t)[b + i] = LetterRead(t, b + i, r)
    <2>1. ReadAt(t)[b + i] = LetterRead(t, b + i, ReadAt(t)[(b + i) - 1])
      BY <1>1, <1>3, ReadExists
    <2>2. r \in Readings
      BY <1>1, <1>3, ReadExists
    <2> QED BY <1>3, <2>1, <2>2
  <1> HIDE DEF r
  <1>5. buf[i] \in Letters
    BY <1>1, ElementOfSeq DEF Strings
  <1> QED BY <1>1, <1>2, <1>3, <1>4, <1>5 DEF r

(* The line under way, a letter on.                                        *)
LEMMA LineGrows ==
  ASSUME NEW buf \in Strings, NEW pos \in Nat, pos >= 1, NEW i \in 1..Len(buf)
  PROVE  /\ pos <= i => SubSeq(buf, pos, i) = Append(SubSeq(buf, pos, i - 1), buf[i])
         /\ pos > i => SubSeq(buf, pos, i) = <<>>
         /\ pos >= i => SubSeq(buf, pos, i - 1) = <<>>
         /\ pos < i => SubSeq(buf, pos, i - 1) # <<>>
         /\ SubSeq(buf, pos, i - 1) \in Strings
  <1>1. buf \in Seq(Letters) /\ Len(buf) \in Nat /\ i \in Nat /\ buf[i] \in Letters
    BY LenProperties, ElementOfSeq DEF Strings
  <1>2. \A j \in pos..(i - 1) : buf[j] \in Letters
    <2>1. \A j \in pos..(i - 1) : j \in 1..Len(buf)
      BY <1>1
    <2> QED BY <1>1, <2>1, ElementOfSeq
  <1>3. /\ SubSeq(buf, pos, i - 1) \in Seq(Letters)
        /\ Len(SubSeq(buf, pos, i - 1)) = IF pos <= i - 1 THEN (i - 1) - pos + 1 ELSE 0
    <2>1. pos \in Int /\ i - 1 \in Int
      BY <1>1
    <2> QED BY <1>2, <2>1, SubSeqProperties
  <1>4. pos < i => SubSeq(buf, pos, i - 1) # <<>>
    BY <1>1, <1>3, EmptySeq
  <1>5. pos >= i => SubSeq(buf, pos, i - 1) = <<>>
    <2>1. pos >= i => i - 1 < pos /\ pos \in Int /\ i - 1 \in Int
      BY <1>1
    <2> QED BY <2>1, SubSeqEmpty
  <1>6. pos > i => SubSeq(buf, pos, i) = <<>>
    <2>1. pos > i => i < pos /\ pos \in Int /\ i \in Int
      BY <1>1
    <2> QED BY <2>1, SubSeqEmpty
  <1>7. pos <= i => SubSeq(buf, pos, i) = Append(SubSeq(buf, pos, i - 1), buf[i])
    <2>1. SUFFICES ASSUME pos <= i
                   PROVE  SubSeq(buf, pos, i) = Append(SubSeq(buf, pos, i - 1), buf[i])
      OBVIOUS
    <2>2. pos \in 1..Len(buf) /\ i \in pos..Len(buf)
      BY <1>1, <2>1
    <2>3. SubSeq(buf, pos, i) = SubSeq(buf, pos, i - 1) \o <<buf[i]>>
      BY <1>1, <2>2, SubSeqRecursiveSecond
    <2>4. Append(SubSeq(buf, pos, i - 1), buf[i]) = SubSeq(buf, pos, i - 1) \o <<buf[i]>>
      BY <1>1, <1>3, AppendIsConcat
    <2> QED BY <2>3, <2>4
  <1> QED BY <1>3, <1>4, <1>5, <1>6, <1>7 DEF Strings

LEMMA StepDrains ==
  ASSUME NEW t, NEW buf, NEW b, EndOf(t, buf, b), NEW eof \in BOOLEAN, NEW out \in Seq(Events),
         NEW i \in 1..Len(buf), NEW loop, LoopInv(t, buf, b, eof, out, i - 1, loop)
  PROVE  LoopInv(t, buf, b, eof, out, i, DrainStep(buf, eof, loop, i))
  <1> DEFINE r == ReadAt(t)[b + (i - 1)]
             q == ReadAt(t)[b + i]
             new == DrainStep(buf, eof, loop, i)
  <1>0. /\ t \in Strings /\ buf \in Strings /\ b \in Nat /\ Len(t) = b + Len(buf)
        /\ Len(buf) \in Nat /\ i \in Nat /\ i >= 1 /\ i <= Len(buf)
        /\ \A j \in 1..Len(buf) : buf[j] = t[b + j]
    <2>1. /\ t \in Strings /\ buf \in Strings /\ b \in Nat /\ Len(t) = b + Len(buf)
          /\ \A j \in 1..Len(buf) : buf[j] = t[b + j]
      BY DEF EndOf
    <2>2. Len(buf) \in Nat
      BY <2>1, LenProperties DEF Strings
    <2>3. i \in Nat /\ i >= 1 /\ i <= Len(buf)
      BY <2>2
    <2> QED BY <2>1, <2>2, <2>3
  <1>1. /\ loop \in Loops /\ loop.pos \in Nat /\ loop.next \in Nat /\ ~loop.held
    <2>1. loop \in Loops /\ (loop.held => i - 1 = Len(buf))
      BY DEF LoopInv, Holds
    <2> QED BY <1>0, <2>1 DEF Loops
  <1>2. /\ 1 <= loop.pos /\ loop.pos <= loop.next /\ loop.next <= i + 1
        /\ r.line = SubSeq(buf, loop.pos, i - 1)
        /\ loop.pending = Pend(r.lines)
        /\ out \o loop.events = r.events
    BY <1>0, <1>1 DEF LoopInv, HasRead
  <1>3. loop.next = i + 1 => /\ loop.pos = i + 1 /\ i - 1 >= 1 /\ i - 1 < Len(buf)
                             /\ buf[i - 1] = CR /\ buf[i] = LF
    <2>1. PassesOver(buf, i - 1, loop)
      BY <1>1 DEF LoopInv
    <2>2. (i - 1) + 2 = i + 1 /\ (i - 1) + 1 = i
      BY <1>0
    <2> QED BY <2>1, <2>2 DEF PassesOver
  <1>4. (b + (i - 1) >= 1 /\ t[b + (i - 1)] = CR /\ loop.next <= i /\ buf[i] = LF)
        => r.lines = <<>> /\ r.line = <<>>
    <2>1. EmptyBefore(t, buf, b, eof, i - 1, loop)
      BY <1>1 DEF LoopInv
    <2>2. (i - 1) + 1 = i /\ i - 1 < Len(buf) /\ i - 1 # Len(buf)
      BY <1>0
    <2> QED BY <2>1, <2>2 DEF EmptyBefore
  <1>5. /\ b + i \in 1..Len(t) /\ (b + i) - 1 = b + (i - 1)
        /\ r \in Readings
        /\ q = LetterRead(t, b + i, r) /\ t[b + i] = buf[i]
    BY PieceRead
  <1> HIDE DEF r, q
  <1>6. LF # CR
    BY DEF LF, CR
  <1>7. /\ loop.pos <= i => SubSeq(buf, loop.pos, i) = Append(r.line, buf[i])
        /\ loop.pos > i => SubSeq(buf, loop.pos, i) = <<>>
        /\ loop.pos >= i => r.line = <<>>
        /\ loop.pos < i => r.line # <<>>
    <2>1. buf \in Strings /\ loop.pos \in Nat /\ loop.pos >= 1
      BY <1>0, <1>1, <1>2
    <2>2. /\ loop.pos <= i => SubSeq(buf, loop.pos, i) = Append(SubSeq(buf, loop.pos, i - 1), buf[i])
          /\ loop.pos > i => SubSeq(buf, loop.pos, i) = <<>>
          /\ loop.pos >= i => SubSeq(buf, loop.pos, i - 1) = <<>>
          /\ loop.pos < i => SubSeq(buf, loop.pos, i - 1) # <<>>
      BY <2>1, LineGrows
    <2> QED BY <1>2, <2>2
  (* The LF of a CR LF.                                                    *)
  <1>8. CASE i < loop.next
    <2>1. /\ loop.next = i + 1 /\ loop.pos = i + 1 /\ i - 1 >= 1 /\ buf[i - 1] = CR /\ buf[i] = LF
      BY <1>0, <1>1, <1>2, <1>3, <1>8
    <2>2. new = loop
      BY <1>8 DEF DrainStep
    <2>3. t[b + (i - 1)] = CR /\ b + i > 1
      <3>1. i - 1 \in 1..Len(buf)
        BY <1>0, <2>1
      <3> QED BY <1>0, <2>1, <3>1
    <2>4. q = r
      BY <1>5, <2>1, <2>3 DEF LetterRead
    <2>5. q.line = SubSeq(buf, loop.pos, i) /\ q.lines = r.lines /\ q.events = r.events
      <3>1. loop.pos > i /\ loop.pos >= i
        BY <1>0, <2>1
      <3>2. SubSeq(buf, loop.pos, i) = <<>> /\ r.line = <<>>
        BY <1>7, <3>1
      <3> QED BY <1>5, <2>4, <3>2
    <2>6. HasRead(t, buf, b, out, i, loop)
      BY <1>0, <1>1, <1>2, <2>1, <2>5 DEF HasRead, q
    <2>7. PassesOver(buf, i, loop)
      BY <1>0, <2>1 DEF PassesOver
    <2>8. EmptyBefore(t, buf, b, eof, i, loop)
      BY <1>5, <1>6, <2>1 DEF EmptyBefore
    <2> QED BY <1>1, <2>2, <2>6, <2>7, <2>8 DEF LoopInv
  (* Neither LF nor CR.                                                    *)
  <1>9. CASE i >= loop.next /\ buf[i] \notin {LF, CR}
    <2>1. new = loop
      BY <1>0, <1>1, <1>9 DEF DrainStep
    <2>2. q = [r EXCEPT !.line = Append(@, buf[i])]
      BY <1>5, <1>9 DEF LetterRead
    <2>3. q.line = Append(r.line, buf[i]) /\ q.lines = r.lines /\ q.events = r.events
      BY <1>5, <2>2 DEF Readings
    <2>4. q.line = SubSeq(buf, loop.pos, i)
      <3>1. loop.pos <= i
        BY <1>0, <1>1, <1>2, <1>9
      <3> QED BY <1>7, <2>3, <3>1
    <2>5. HasRead(t, buf, b, out, i, loop)
      <3>1. loop.next <= i + 2 /\ buf[i] \notin {LF, CR}
        BY <1>0, <1>1, <1>2, <1>9
      <3>2. loop.pending = Pend(q.lines) /\ out \o loop.events = q.events
        BY <1>2, <2>3
      <3> QED BY <1>2, <2>4, <3>1, <3>2 DEF HasRead, q
    <2>6. PassesOver(buf, i, loop)
      BY <1>0, <1>1, <1>9 DEF PassesOver
    <2>7. EmptyBefore(t, buf, b, eof, i, loop)
      BY <1>5, <1>9 DEF EmptyBefore
    <2> QED BY <1>1, <2>1, <2>5, <2>6, <2>7 DEF LoopInv
  (* A CR that waits.                                                      *)
  <1>10. CASE i >= loop.next /\ Held(buf, loop, i, eof)
    <2>1. buf[i] = CR /\ i = Len(buf) /\ ~eof /\ i > loop.pos
      BY <1>10 DEF Held
    <2>2. new = [loop EXCEPT !.held = TRUE]
      BY <1>0, <1>1, <1>10, <2>1 DEF DrainStep
    <2>3. /\ new.pos = loop.pos /\ new.next = loop.next /\ new.pending = loop.pending
          /\ new.events = loop.events /\ new.held /\ new \in Loops
      BY <1>1, <2>2 DEF Loops
    <2>4. HasRead(t, buf, b, out, i - 1, loop)
      BY <1>1 DEF LoopInv
    <2> HIDE DEF new
    <2>5. HasRead(t, buf, b, out, i - 1, new)
      BY <2>3, <2>4 DEF HasRead
    <2>6. i > 1 /\ new.pos < i /\ new.next <= i
      BY <1>0, <1>1, <1>2, <1>10, <2>1, <2>3
    <2>7. Holds(t, buf, b, eof, out, i, new)
      BY <2>1, <2>5, <2>6 DEF Holds
    <2> QED BY <2>3, <2>7 DEF LoopInv, new
  (* The end of a line.                                                    *)
  <1>11. CASE i >= loop.next /\ buf[i] \in {LF, CR} /\ ~Held(buf, loop, i, eof)
    <2> DEFINE pair == buf[i] = CR /\ i < Len(buf) /\ buf[i + 1] = LF
               next == IF pair THEN i + 2 ELSE i + 1
    <2>1. new = ProcessLine(loop, SubSeq(buf, loop.pos, i - 1), next)
      BY <1>0, <1>1, <1>11 DEF DrainStep
    <2>2. next \in Nat /\ (next = i + 2 <=> pair) /\ (next = i + 1 <=> ~pair)
      BY <1>0
    <2> HIDE DEF pair, next
    <2>3. new = ProcessLine(loop, r.line, next)
      BY <1>2, <2>1
    <2>4. /\ new \in Loops /\ new.pos = next /\ new.next = next /\ ~new.held
          /\ new.pending = Pend(LineRead(r).lines) /\ out \o new.events = LineRead(r).events
      <3> HIDE DEF new
      <3>1. /\ ProcessLine(loop, r.line, next) \in Loops
            /\ ProcessLine(loop, r.line, next).pos = next
            /\ ProcessLine(loop, r.line, next).next = next
            /\ ProcessLine(loop, r.line, next).held = loop.held
            /\ ProcessLine(loop, r.line, next).pending = Pend(LineRead(r).lines)
            /\ out \o ProcessLine(loop, r.line, next).events = LineRead(r).events
        <4>1. /\ r \in Readings /\ loop \in Loops /\ next \in Nat
              /\ loop.pending = Pend(r.lines) /\ out \o loop.events = r.events
          BY <1>1, <1>2, <1>5, <2>2
        <4> QED BY <4>1, LineProcessed
      <3> QED BY <1>1, <2>3, <3>1
    <2>5. LineRead(r).line = <<>>
      BY <1>5, LineKeeps
    <2>6. q.line = <<>> /\ q.lines = LineRead(r).lines /\ q.events = LineRead(r).events
      <3>1. CASE t[b + i] = LF /\ b + i > 1 /\ t[b + (i - 1)] = CR
        <4>1. q = r
          BY <1>5, <3>1 DEF LetterRead
        <4>2. r.lines = <<>> /\ r.line = <<>>
          BY <1>0, <1>1, <1>4, <1>5, <1>11, <3>1
        <4>3. LineRead(r).lines = <<>> /\ LineRead(r).events = r.events
          BY <1>5, <4>2, LineKeeps, PendOfNone
        <4> QED BY <1>5, <4>1, <4>2, <4>3
      <3>2. CASE ~(t[b + i] = LF /\ b + i > 1 /\ t[b + (i - 1)] = CR)
        <4>1. q = LineRead(r)
          BY <1>5, <1>11, <3>2 DEF LetterRead
        <4> QED BY <2>5, <4>1
      <3> QED BY <3>1, <3>2
    <2>7. SubSeq(buf, next, i) = <<>>
      <3>1. next \in Int /\ i \in Int /\ i < next
        BY <1>0, <2>2
      <3> QED BY <3>1, SubSeqEmpty
    <2> HIDE DEF new
    <2>8. HasRead(t, buf, b, out, i, new)
      BY <1>0, <2>2, <2>4, <2>6, <2>7 DEF HasRead, q
    <2>9. PassesOver(buf, i, new)
      BY <1>0, <2>2, <2>4 DEF PassesOver, pair
    <2>10. EmptyBefore(t, buf, b, eof, i, new)
      <3>1. SUFFICES ASSUME t[b + i] = CR, new.next <= i + 1, i < Len(buf) => buf[i + 1] = LF,
                            i = Len(buf) => ~eof
                     PROVE  q.lines = <<>> /\ q.line = <<>>
        BY DEF EmptyBefore, q
      <3>2. ~pair
        BY <1>0, <2>2, <2>4, <3>1
      <3>3. i = Len(buf) /\ buf[i] = CR
        BY <1>0, <1>5, <3>1, <3>2 DEF pair
      <3>4. i <= loop.pos
        BY <1>0, <1>1, <1>11, <3>1, <3>3 DEF Held
      <3>5. r.line = <<>>
        BY <1>0, <1>1, <1>7, <3>4
      <3> QED BY <1>5, <2>6, <3>5, LineKeeps
    <2> QED BY <2>4, <2>8, <2>9, <2>10 DEF LoopInv, new
  <1>12. Held(buf, loop, i, eof) => buf[i] \in {LF, CR}
    BY DEF Held
  <1> QED BY <1>0, <1>1, <1>8, <1>9, <1>10, <1>11, <1>12

(* The whole loop.                                                         *)
LoopStart == [pos |-> 1, next |-> scanFrom + 1, held |-> FALSE, pending |-> pending, events |-> <<>>]

Drains(buf, eof, f) ==
    f = [i \in scanFrom..Len(buf) |->
            IF i = scanFrom
            THEN [pos |-> 1, next |-> scanFrom + 1, held |-> FALSE, pending |-> pending,
                  events |-> <<>>]
            ELSE DrainStep(buf, eof, f[i - 1], i)]

LEMMA DrainsExist ==
  ASSUME NEW buf \in Strings, NEW eof, scanFrom \in 0..Len(buf)
  PROVE  \E f : Drains(buf, eof, f)
  <1> DEFINE Fun(m, f) == f = [i \in scanFrom..(scanFrom + m) |->
                                 IF i = scanFrom THEN LoopStart ELSE DrainStep(buf, eof, f[i - 1], i)]
             Good == {m \in Nat : \E f : Fun(m, f)}
  <1>1. scanFrom \in Nat /\ Len(buf) \in Nat /\ Len(buf) - scanFrom \in Nat
    BY LenProperties DEF Strings
  <1>2. 0 \in Good
    <2>1. Fun(0, [i \in scanFrom..(scanFrom + 0) |-> LoopStart])
      BY <1>1
    <2> HIDE DEF Fun
    <2> QED BY <2>1
  <1>3. ASSUME NEW m \in Nat, m \in Good PROVE m + 1 \in Good
    <2>1. PICK f : Fun(m, f)
      <3> HIDE DEF Fun
      <3> QED BY <1>3
    <2> DEFINE g == [i \in scanFrom..(scanFrom + (m + 1)) |->
                        IF i = scanFrom + (m + 1) THEN DrainStep(buf, eof, f[scanFrom + m], i)
                        ELSE f[i]]
    <2>2. ASSUME NEW i \in scanFrom..(scanFrom + (m + 1))
          PROVE  g[i] = IF i = scanFrom THEN LoopStart ELSE DrainStep(buf, eof, g[i - 1], i)
      <3>1. CASE i = scanFrom + (m + 1)
        <4>1. i # scanFrom /\ i - 1 = scanFrom + m /\ i - 1 # scanFrom + (m + 1)
              /\ i - 1 \in scanFrom..(scanFrom + (m + 1))
          BY <1>1, <3>1
        <4>2. g[i] = DrainStep(buf, eof, f[scanFrom + m], i) /\ g[i - 1] = f[i - 1]
          BY <3>1, <4>1
        <4> HIDE DEF g
        <4> QED BY <4>1, <4>2
      <3>2. CASE i # scanFrom + (m + 1)
        <4>1. i \in scanFrom..(scanFrom + m)
          BY <1>1, <3>2
        <4>2. g[i] = f[i]
          BY <3>2
        <4>3. f[i] = IF i = scanFrom THEN LoopStart ELSE DrainStep(buf, eof, f[i - 1], i)
          BY <2>1, <4>1
        <4>4. i # scanFrom => g[i - 1] = f[i - 1]
          <5>1. i # scanFrom => /\ i - 1 \in scanFrom..(scanFrom + (m + 1))
                                /\ i - 1 # scanFrom + (m + 1)
            BY <1>1, <4>1
          <5> QED BY <5>1
        <4> HIDE DEF g
        <4> QED BY <4>2, <4>3, <4>4
      <3> QED BY <3>1, <3>2
    <2>3. g = [i \in scanFrom..(scanFrom + (m + 1)) |-> g[i]]
      OBVIOUS
    <2> HIDE DEF g
    <2>4. Fun(m + 1, g)
      BY <2>2, <2>3
    <2> HIDE DEF Fun
    <2> QED BY <2>4
  <1>4. Nat \subseteq Good
    <2> HIDE DEF Good
    <2> QED BY <1>2, <1>3, FromZero
  <1>5. PICK f : Fun(Len(buf) - scanFrom, f)
    <2> HIDE DEF Fun
    <2> QED BY <1>1, <1>4
  <1>6. scanFrom + (Len(buf) - scanFrom) = Len(buf)
    BY <1>1
  <1>7. Drains(buf, eof, f)
    BY <1>5, <1>6 DEF Drains, LoopStart
  <1> QED BY <1>7

LEMMA Drained ==
  ASSUME NEW t, NEW buf, NEW b, EndOf(t, buf, b), NEW eof \in BOOLEAN, NEW out \in Seq(Events),
         scanFrom \in 0..Len(buf), LoopInv(t, buf, b, eof, out, scanFrom, LoopStart)
  PROVE  LoopInv(t, buf, b, eof, out, Len(buf), DrainLines(buf, eof))
  <1> DEFINE h == CHOOSE f : Drains(buf, eof, f)
             Good == {m \in Nat : scanFrom + m <= Len(buf) =>
                                      LoopInv(t, buf, b, eof, out, scanFrom + m, h[scanFrom + m])}
  <1>1. /\ buf \in Strings /\ scanFrom \in Nat /\ Len(buf) \in Nat
        /\ Len(buf) - scanFrom \in Nat
    BY LenProperties DEF EndOf, Strings
  <1>2. Drains(buf, eof, h)
    BY <1>1, DrainsExist
  <1>3. DrainLines(buf, eof) = h[Len(buf)]
    BY DEF DrainLines, Drains
  <1> HIDE DEF h
  <1>4. h[scanFrom] = LoopStart
    BY <1>1, <1>2 DEF Drains, LoopStart
  <1>5. \A i \in (scanFrom + 1)..Len(buf) : h[i] = DrainStep(buf, eof, h[i - 1], i)
    <2>1. \A i \in (scanFrom + 1)..Len(buf) : i \in scanFrom..Len(buf) /\ i # scanFrom
      BY <1>1
    <2> QED BY <1>2, <2>1 DEF Drains
  <1>6. 0 \in Good
    BY <1>1, <1>4
  <1>7. ASSUME NEW m \in Nat, m \in Good PROVE m + 1 \in Good
    <2>1. SUFFICES ASSUME scanFrom + (m + 1) <= Len(buf)
                   PROVE  LoopInv(t, buf, b, eof, out, scanFrom + (m + 1), h[scanFrom + (m + 1)])
      OBVIOUS
    <2>2. PICK i : i = scanFrom + (m + 1)
      OBVIOUS
    <2>3. /\ i \in 1..Len(buf) /\ i \in (scanFrom + 1)..Len(buf) /\ i - 1 = scanFrom + m
          /\ scanFrom + m <= Len(buf)
      BY <1>1, <2>1, <2>2
    <2>4. LoopInv(t, buf, b, eof, out, i - 1, h[i - 1])
      BY <1>7, <2>3
    <2>5. LoopInv(t, buf, b, eof, out, i, DrainStep(buf, eof, h[i - 1], i))
      BY <2>3, <2>4, StepDrains
    <2> QED BY <1>5, <2>2, <2>3, <2>5
  <1>8. Nat \subseteq Good
    <2> HIDE DEF Good
    <2> QED BY <1>6, <1>7, FromZero
  <1>9. PICK m \in Nat : scanFrom + m = Len(buf)
    <2>1. scanFrom + (Len(buf) - scanFrom) = Len(buf)
      BY <1>1
    <2> QED BY <1>1, <2>1
  <1>10. LoopInv(t, buf, b, eof, out, scanFrom + m, h[scanFrom + m])
    <2>1. m \in Good
      <3> HIDE DEF Good
      <3> QED BY <1>8
    <2>2. scanFrom + m <= Len(buf)
      BY <1>1, <1>9
    <2> QED BY <2>1, <2>2
  <1> QED BY <1>3, <1>9, <1>10

(* What the limit is compared with, and what there is of the event under   *)
(* way: a CR that waits is a byte more, of a line that is not yet read.    *)
Weighed(t, kept) ==
    /\ UnderWay(t) <= kept
    /\ UnderWay(t) = kept \/ (Last(t) = CR /\ UnderWay(Front(t)) + 1 = kept)

LEMMA Weighs ==
  ASSUME NEW s \in Strings
  PROVE  UnderWay(s) = Weight(Read(s)) /\ UnderWay(s) \in Nat
  <1> DEFINE r == Read(s)
             p == [NoEvent EXCEPT !.dataLines = Values(r.lines, "data")]
  <1>1. r \in Readings
    <2>1. Len(s) \in 0..Len(s)
      BY ReadExists
    <2> QED BY <2>1, ReadExists
  <1>2. r.lines \in Seq(FullLines) /\ r.line \in Strings
    BY <1>1 DEF Readings
  <1>3. UnderWay(s) = DataBytes(p) + Len(r.line)
    BY DEF UnderWay
  <1> HIDE DEF r
  <1>4. p.dataLines = Pend(r.lines).dataLines
    BY DEF NoEvent, Pend
  <1>5. DataBytes(p) = DataBytes(Pend(r.lines))
    <2> HIDE DEF p
    <2> QED BY <1>4 DEF DataBytes
  <1>6. DataBytes(Pend(r.lines)) \in Nat /\ Len(r.line) \in Nat
    BY <1>2, EventTyped, CountedExist, LenProperties DEF Pendings, Strings
  <1> HIDE DEF p
  <1> QED BY <1>3, <1>5, <1>6 DEF Weight, r

LEMMA FrontRead ==
  ASSUME NEW t \in Strings, Len(t) >= 1
  PROVE  Front(t) \in Strings /\ Read(Front(t)) = ReadAt(t)[Len(t) - 1]
  <1> DEFINE s == Front(t)
             n == Len(t)
  <1>1. t \in Seq(Letters) /\ n \in Nat
    BY LenProperties DEF Strings
  <1>2. /\ SubSeq(t, 1, n - 1) \in Seq(Letters) /\ Len(SubSeq(t, 1, n - 1)) = n - 1
        /\ \A j \in 1..(n - 1) : SubSeq(t, 1, n - 1)[j] = t[j]
    <2>1. \A j \in 1..(n - 1) : j \in 1..n
      BY <1>1
    <2>2. \A j \in 1..(n - 1) : t[j] \in Letters
      BY <1>1, <2>1, ElementOfSeq
    <2>3. 1 \in Int /\ n - 1 \in Int /\ n - 1 \in Nat
      BY <1>1
    <2> HIDE DEF n
    <2>4. /\ SubSeq(t, 1, n - 1) \in Seq(Letters)
          /\ Len(SubSeq(t, 1, n - 1)) = IF 1 <= n - 1 THEN (n - 1) - 1 + 1 ELSE 0
          /\ \A j \in 1..((n - 1) - 1 + 1) : SubSeq(t, 1, n - 1)[j] = t[1 + j - 1]
      BY <2>2, <2>3, SubSeqProperties
    <2>5. (n - 1) - 1 + 1 = n - 1 /\ \A j \in 1..(n - 1) : 1 + j - 1 = j
      BY <2>3
    <2>6. Len(SubSeq(t, 1, n - 1)) = n - 1
      BY <2>3, <2>4
    <2> QED BY <2>4, <2>5, <2>6
  <1>3. s = SubSeq(t, 1, n - 1)
    BY DEF Front
  <1> HIDE DEF s, n
  <1>4. s \in Strings /\ Len(s) = n - 1 /\ \A j \in 1..Len(s) : s[j] = t[j]
    BY <1>2, <1>3 DEF Strings
  <1>5. Begins(s, t)
    BY <1>1, <1>4 DEF Begins, n
  <1>6. Read(s) = ReadAt(s)[n - 1] /\ n - 1 \in 0..Len(s)
    <2>1. n - 1 \in Nat
      BY <1>1 DEF n
    <2> QED BY <1>4, <2>1, ReadExists
  <1>7. ReadAt(s)[n - 1] = ReadAt(t)[n - 1]
    BY <1>4, <1>5, <1>6, ReadOfMore
  <1> QED BY <1>4, <1>6, <1>7 DEF s, n

(* Where the loop ends, the reading is.                                    *)
LoopDone(t, buf, out, loop) ==
    LET rest == SubSeq(buf, loop.pos, Len(buf))
    IN  /\ rest \in Strings /\ loop.events \in Seq(Events)
        /\ out \o loop.events = Read(t).events
        /\ Weighed(t, DataBytes(loop.pending) + Len(rest))
        /\ DataBytes(loop.pending) \in Nat
        /\ loop.pos >= 1 /\ loop.pos \in Nat /\ Read(t) \in Readings
        /\ ~loop.held => rest = Read(t).line /\ loop.pending = Pend(Read(t).lines)

LEMMA LoopEnds ==
  ASSUME NEW t, NEW buf, NEW b, EndOf(t, buf, b), NEW eof \in BOOLEAN, NEW out \in Seq(Events),
         NEW loop, LoopInv(t, buf, b, eof, out, Len(buf), loop)
  PROVE  LoopDone(t, buf, out, loop)
  <1> DEFINE rest == SubSeq(buf, loop.pos, Len(buf))
             k == Len(buf)
             R == Read(t)
  <1>1. /\ t \in Strings /\ buf \in Strings /\ b \in Nat /\ k \in Nat /\ Len(t) = b + k
        /\ R = ReadAt(t)[b + k] /\ b + k \in 0..Len(t) /\ R \in Readings
    <2>1. t \in Strings /\ buf \in Strings /\ b \in Nat /\ Len(t) = b + Len(buf)
      BY DEF EndOf
    <2>2. k \in Nat
      BY <2>1, LenProperties DEF Strings
    <2>3. b + k \in 0..Len(t) /\ R = ReadAt(t)[b + k]
      <3>1. Read(t) = ReadAt(t)[Len(t)]
        BY <2>1, ReadExists
      <3>2. Len(t) = b + k /\ b + k \in 0..(b + k)
        BY <2>1, <2>2
      <3> QED BY <3>1, <3>2
    <2>4. ReadAt(t)[b + k] \in Readings
      BY <2>1, <2>3, ReadExists
    <2> QED BY <2>1, <2>2, <2>3, <2>4
  <1>2. loop \in Loops /\ loop.pos \in Nat /\ loop.events \in Seq(Events)
    BY DEF LoopInv, Loops
  <1>3. R.lines \in Seq(FullLines) /\ R.line \in Strings
    BY <1>1 DEF Readings
  <1>4. UnderWay(t) = Weight(R)
    BY <1>1, Weighs
  <1> HIDE DEF R
  <1>5. CASE ~loop.held
    <2>1. /\ loop.pos >= 1 /\ R.line = rest /\ loop.pending = Pend(R.lines)
          /\ out \o loop.events = R.events
      BY <1>1, <1>5 DEF LoopInv, HasRead
    <2>2. DataBytes(loop.pending) \in Nat /\ Len(rest) \in Nat
      BY <1>3, <2>1, EventTyped, CountedExist, LenProperties DEF Pendings, Strings
    <2>3. UnderWay(t) = DataBytes(loop.pending) + Len(rest)
      BY <1>4, <2>1 DEF Weight
    <2> HIDE DEF rest
    <2>4. Weighed(t, DataBytes(loop.pending) + Len(rest))
      BY <2>2, <2>3 DEF Weighed
    <2> QED BY <1>1, <1>2, <1>3, <1>5, <2>1, <2>2, <2>4 DEF LoopDone, R, rest
  <1>6. CASE loop.held
    <2> DEFINE r == ReadAt(t)[b + (k - 1)]
    <2>1. Holds(t, buf, b, eof, out, k, loop)
      BY <1>6 DEF LoopInv
    <2>2. k > 1 /\ buf[k] = CR /\ loop.pos < k /\ HasRead(t, buf, b, out, k - 1, loop)
      BY <2>1 DEF Holds
    <2>3. /\ loop.pos >= 1 /\ r.line = SubSeq(buf, loop.pos, k - 1)
          /\ loop.pending = Pend(r.lines) /\ out \o loop.events = r.events
      BY <2>2 DEF HasRead
    <2>4. k \in 1..Len(buf)
      BY <1>1, <2>2
    <2>5. r \in Readings /\ ReadAt(t)[b + k] = LetterRead(t, b + k, r) /\ t[b + k] = CR
      BY <2>2, <2>4, PieceRead
    <2>6. r.line \in Strings /\ r.lines \in Seq(FullLines)
      BY <2>5 DEF Readings
    <2>7. UnderWay(Front(t)) = Weight(r) /\ Last(t) = CR
      <3>1. Len(t) >= 1 /\ Len(t) - 1 = b + (k - 1)
        BY <1>1, <2>2
      <3>2. Front(t) \in Strings /\ Read(Front(t)) = r
        BY <1>1, <3>1, FrontRead
      <3> HIDE DEF r
      <3> QED BY <1>1, <2>5, <3>2, Weighs DEF Last
    <2> HIDE DEF r
    <2>8. R = LineRead(r)
      <3>1. CR # LF
        BY DEF LF, CR
      <3> QED BY <1>1, <2>5, <3>1 DEF LetterRead
    <2>9. rest = Append(r.line, CR) /\ r.line # <<>>
      <3>1. buf \in Strings /\ loop.pos \in Nat /\ loop.pos >= 1 /\ loop.pos <= k /\ loop.pos < k
        BY <1>1, <1>2, <2>2, <2>3
      <3> QED BY <2>2, <2>3, <2>4, <3>1, LineGrows
    <2>10. R.events = r.events /\ R.lines = Append(r.lines, r.line) /\ R.line = <<>>
      BY <2>5, <2>8, <2>9, LineKeeps
    <2>11. rest \in Strings /\ Len(rest) = Len(r.line) + 1 /\ Len(r.line) \in Nat
      <3>1. CR \in Letters
        BY DEF Letters
      <3> HIDE DEF rest
      <3> QED BY <2>6, <2>9, <3>1, AppendProperties, LenProperties DEF Strings
    <2>12. /\ DataBytes(Pend(r.lines)) \in Nat /\ DataBytes(Pend(R.lines)) \in Nat
           /\ DataBytes(Pend(R.lines)) <= DataBytes(Pend(r.lines)) + Len(r.line)
      <3>1. r.line \in FullLines
        BY <2>6, <2>9 DEF FullLines
      <3> QED BY <2>6, <2>10, <3>1, LineWeighs
    <2> HIDE DEF rest
    <2>13. Weighed(t, DataBytes(loop.pending) + Len(rest))
      <3>1. UnderWay(t) = DataBytes(Pend(R.lines))
        <4>1. Len(R.line) = 0
          BY <2>10, EmptySeq
        <4> QED BY <1>4, <2>12, <4>1 DEF Weight
      <3>2. UnderWay(Front(t)) = DataBytes(Pend(r.lines)) + Len(r.line)
        BY <2>7 DEF Weight
      <3> DEFINE had == DataBytes(Pend(r.lines))
                 has == DataBytes(Pend(R.lines))
                 long == Len(r.line)
                 kept == Len(rest)
      <3>3. /\ UnderWay(t) = has /\ UnderWay(Front(t)) = had + long /\ DataBytes(loop.pending) = had
            /\ kept = long + 1 /\ had \in Nat /\ has \in Nat /\ long \in Nat /\ has <= had + long
        BY <2>3, <2>11, <2>12, <3>1, <3>2
      <3> HIDE DEF had, has, long, kept
      <3>4. has <= had + kept /\ (had + long) + 1 = had + kept
        BY <3>3
      <3>5. UnderWay(t) <= DataBytes(loop.pending) + kept
        BY <3>3, <3>4
      <3>6. UnderWay(Front(t)) + 1 = DataBytes(loop.pending) + kept
        BY <3>3, <3>4
      <3> QED BY <2>7, <3>5, <3>6 DEF Weighed, kept
    <2>14. out \o loop.events = R.events /\ DataBytes(loop.pending) \in Nat
      BY <2>3, <2>10, <2>12
    <2> QED BY <1>1, <1>2, <1>3, <1>6, <2>3, <2>11, <2>13, <2>14 DEF LoopDone, R, rest
  <1> QED BY <1>5, <1>6

(* Between the calls: the letters up to scanFrom have been read, the rest  *)
(* of the buffer is the line under way, and a CR that waits ends it.       *)
Unfinished(t, b, r) ==
    /\ EndOf(t, tail, b) /\ scanFrom \in 0..Len(tail)
    /\ r.line = SubSeq(tail, 1, scanFrom)
    /\ pending = Pend(r.lines)
    /\ returned = r.events
    /\ scanFrom >= 1 => tail[scanFrom] \notin {LF, CR}
    /\ scanFrom = Len(tail) \/ (scanFrom + 1 = Len(tail) /\ scanFrom >= 1 /\ tail[Len(tail)] = CR)
    /\ (tail = <<>> /\ b >= 1 /\ t[b] = CR) => r.lines = <<>>

Cut(t, b) == Unfinished(t, b, ReadAt(t)[b + scanFrom])

SseInv ==
    /\ received \in Strings /\ returned \in Seq(Events)
    /\ stream = "open" => \E b \in Nat : Cut(received, b)
    /\ EventsSound

(* The reading of what has come, of the buffer and of more than has come.  *)
LEMMA CutReads ==
  ASSUME NEW b \in Nat, Cut(received, b), received \in Strings
  PROVE  /\ tail \in Strings /\ Len(received) = b + Len(tail) /\ b + scanFrom \in 0..Len(received)
         /\ ReadAt(received)[b + scanFrom] \in Readings
         /\ Len(tail) \in Nat /\ scanFrom \in Nat /\ Len(received) \in Nat
  <1>1. EndOf(received, tail, b) /\ scanFrom \in 0..Len(tail)
    BY DEF Cut, Unfinished
  <1>2. tail \in Strings /\ Len(received) = b + Len(tail)
    BY <1>1 DEF EndOf
  <1>3. Len(tail) \in Nat /\ Len(received) \in Nat
    BY <1>2, LenProperties DEF Strings
  <1>4. scanFrom \in Nat /\ b + scanFrom \in 0..Len(received)
    BY <1>1, <1>2, <1>3
  <1> QED BY <1>2, <1>3, <1>4, ReadExists

(* The loop starts right on a buffer that continues what had come.         *)
LEMMA LoopStarts ==
  ASSUME NEW b \in Nat, Cut(received, b), received \in Strings, returned \in Seq(Events),
         NEW t, NEW buf, EndOf(t, buf, b), Begins(received, t), Begins(tail, buf), NEW eof \in BOOLEAN,
         eof => buf = tail
  PROVE  /\ LoopInv(t, buf, b, eof, returned, scanFrom, LoopStart)
         /\ scanFrom \in 0..Len(buf)
  <1> DEFINE r == ReadAt(t)[b + scanFrom]
  <1>1. /\ tail \in Strings /\ Len(received) = b + Len(tail) /\ b + scanFrom \in 0..Len(received)
        /\ ReadAt(received)[b + scanFrom] \in Readings
        /\ Len(tail) \in Nat /\ scanFrom \in Nat /\ Len(received) \in Nat
    BY CutReads
  <1>2. /\ t \in Strings /\ buf \in Strings /\ Len(t) = b + Len(buf)
        /\ \A j \in 1..Len(buf) : buf[j] = t[b + j]
    BY DEF EndOf
  <1>3. Len(buf) \in Nat /\ Len(t) \in Nat
    BY <1>2, LenProperties DEF Strings
  <1>4. ReadAt(received)[b + scanFrom] = r
    BY <1>1, <1>2, ReadOfMore
  <1>5. Unfinished(received, b, r) /\ r \in Readings
    BY <1>1, <1>4 DEF Cut
  <1> HIDE DEF r
  <1>6. scanFrom \in 0..Len(tail) /\ Len(tail) <= Len(buf) /\ scanFrom \in 0..Len(buf)
    BY <1>1, <1>3, <1>5 DEF Unfinished, Begins
  <1>7. \A j \in 1..scanFrom : tail[j] = buf[j]
    BY <1>1, <1>6 DEF Begins
  <1>8. SubSeq(buf, 1, scanFrom) = SubSeq(tail, 1, scanFrom)
    BY <1>1, <1>2, <1>6, <1>7
  <1>9. /\ LoopStart.pos = 1 /\ LoopStart.next = scanFrom + 1 /\ ~LoopStart.held /\ LoopStart.pending = pending
        /\ LoopStart.events = <<>>
    BY DEF LoopStart
  <1>10. LoopStart \in Loops
    <2>1. pending \in Pendings
      <3>1. r.lines \in Seq(FullLines) /\ pending = Pend(r.lines)
        BY <1>5 DEF Readings, Unfinished
      <3> QED BY <3>1, EventTyped
    <2>2. <<>> \in Seq(Events)
      BY EmptySeq
    <2> QED BY <1>1, <2>1, <2>2 DEF LoopStart, Loops
  <1>11. returned \o <<>> = returned
    BY ConcatEmptySeq
  <1>12. scanFrom >= 1 => buf[scanFrom] \notin {LF, CR} /\ t[b + scanFrom] \notin {LF, CR}
    <2>1. scanFrom >= 1 => /\ scanFrom \in 1..scanFrom /\ scanFrom \in 1..Len(buf)
                           /\ tail[scanFrom] \notin {LF, CR}
      BY <1>1, <1>5, <1>6 DEF Unfinished
    <2> QED BY <1>2, <1>7, <2>1
  <1> HIDE DEF LoopStart
  <1>13. HasRead(t, buf, b, returned, scanFrom, LoopStart)
    <2>1. r.line = SubSeq(buf, 1, scanFrom) /\ pending = Pend(r.lines) /\ returned = r.events
      BY <1>5, <1>8 DEF Unfinished
    <2>2. 1 <= LoopStart.next /\ LoopStart.next <= scanFrom + 2 /\ 1 <= LoopStart.pos /\ LoopStart.pos <= LoopStart.next
      BY <1>1, <1>9
    <2> QED BY <1>9, <1>11, <1>12, <2>1, <2>2 DEF HasRead, r
  <1>14. PassesOver(buf, scanFrom, LoopStart)
    BY <1>1, <1>9 DEF PassesOver
  <1>15. EmptyBefore(t, buf, b, eof, scanFrom, LoopStart)
    <2>1. SUFFICES ASSUME b + scanFrom >= 1, t[b + scanFrom] = CR, scanFrom = Len(buf) => ~eof
                   PROVE  r.lines = <<>> /\ r.line = <<>>
      BY DEF EmptyBefore, r
    <2>2. scanFrom = 0
      BY <1>1, <1>12, <2>1
    <2>3. Len(tail) = 0 /\ tail = <<>>
      <3>1. scanFrom = Len(tail)
        BY <1>5, <2>2 DEF Unfinished
      <3> QED BY <1>1, <2>2, <3>1, EmptySeq DEF Strings
    <2>4. b >= 1 /\ t[b] = CR /\ b \in 1..Len(received)
      BY <1>1, <2>1, <2>2, <2>3
    <2>5. received[b] = CR
      BY <2>4 DEF Begins
    <2>6. r.lines = <<>>
      BY <1>5, <2>3, <2>4, <2>5 DEF Unfinished
    <2>7. r.line = <<>>
      <3>1. SubSeq(tail, 1, 0) = <<>>
        BY SubSeqEmpty
      <3> QED BY <1>5, <2>2, <3>1 DEF Unfinished
    <2> QED BY <2>6, <2>7
  <1> QED BY <1>6, <1>9, <1>10, <1>13, <1>14, <1>15 DEF LoopInv

(* What is left of the buffer is what a next call goes on with.            *)
GoesOn(t, buf, out, loop) ==
    /\ received' = t /\ tail' = SubSeq(buf, loop.pos, Len(buf))
    /\ scanFrom' = Len(tail') - (IF loop.held THEN 1 ELSE 0)
    /\ pending' = loop.pending /\ returned' = out \o loop.events

LEMMA RestIsCut ==
  ASSUME NEW t, NEW buf, NEW b, EndOf(t, buf, b), NEW out \in Seq(Events),
         NEW loop, LoopInv(t, buf, b, FALSE, out, Len(buf), loop), GoesOn(t, buf, out, loop)
  PROVE  \E c \in Nat : Cut(received, c)'
  <1>1. /\ t \in Strings /\ buf \in Strings /\ b \in Nat /\ Len(t) = b + Len(buf) /\ Len(buf) \in Nat
        /\ \A j \in 1..Len(buf) : buf[j] = t[b + j]
    BY LenProperties DEF EndOf, Strings
  <1>2. /\ loop \in Loops /\ loop.pos \in Nat /\ loop.pos >= 1 /\ loop.pos <= Len(buf) + 1
    <2>1. loop \in Loops /\ loop.pos \in Nat /\ loop.next \in Nat
      BY DEF LoopInv, Loops
    <2>2. CASE ~loop.held
      <3>1. /\ 1 <= loop.pos /\ loop.pos <= loop.next /\ loop.next <= Len(buf) + 2
            /\ loop.next = Len(buf) + 2 => Len(buf) < Len(buf)
        BY <2>2 DEF LoopInv, HasRead, PassesOver
      <3> QED BY <1>1, <2>1, <3>1
    <2>3. CASE loop.held
      <3>1. Holds(t, buf, b, FALSE, out, Len(buf), loop)
        BY <2>3 DEF LoopInv
      <3>2. loop.pos < Len(buf) /\ 1 <= loop.pos
        BY <3>1 DEF Holds, HasRead
      <3> QED BY <1>1, <2>1, <3>2
    <2> QED BY <2>2, <2>3
  <1> DEFINE k == Len(buf)
             pos == loop.pos
             c == b + pos - 1
             n == k - pos + 1
             rest == SubSeq(buf, pos, k)
  <1>3. /\ b \in Nat /\ k \in Nat /\ pos \in Nat /\ pos >= 1 /\ pos <= k + 1
        /\ k = Len(buf) /\ pos = loop.pos /\ rest = SubSeq(buf, pos, k)
    BY <1>1, <1>2
  <1>18. /\ received' = t /\ tail' = rest /\ scanFrom' = Len(tail') - (IF loop.held THEN 1 ELSE 0)
         /\ pending' = loop.pending /\ returned' = out \o loop.events
    BY <1>3 DEF GoesOn
  <1> HIDE DEF k, pos, rest
  <1>16. /\ c \in Nat /\ n \in Nat /\ c = b + pos - 1 /\ n = k - pos + 1
    BY <1>3
  <1> HIDE DEF c, n
  <1>19. /\ b \in Nat /\ k \in Nat /\ pos \in Nat /\ pos >= 1 /\ pos <= k + 1
    BY <1>3
  <1>17. c + n = b + k /\ \A j \in 1..n : pos + j - 1 \in 1..k /\ b + (pos + j - 1) = c + j
    BY <1>16, <1>19
  <1>4. /\ rest \in Strings /\ Len(rest) = n
        /\ \A j \in 1..n : rest[j] = buf[pos + j - 1]
    <2>1. \A j \in pos..k : buf[j] \in Letters
      <3>1. \A j \in pos..k : j \in 1..Len(buf)
        BY <1>3
      <3> QED BY <1>1, <3>1, ElementOfSeq DEF Strings
    <2>2. /\ rest \in Seq(Letters) /\ Len(rest) = IF pos <= k THEN k - pos + 1 ELSE 0
          /\ \A j \in 1..(k - pos + 1) : rest[j] = buf[pos + j - 1]
      <3>1. pos \in Int /\ k \in Int
        BY <1>3
      <3>2. /\ SubSeq(buf, pos, k) \in Seq(Letters)
            /\ Len(SubSeq(buf, pos, k)) = IF pos <= k THEN k - pos + 1 ELSE 0
            /\ \A j \in 1..(k - pos + 1) : SubSeq(buf, pos, k)[j] = buf[pos + j - 1]
        BY <2>1, <3>1, SubSeqProperties
      <3> QED BY <1>3, <3>2
    <2>3. n = IF pos <= k THEN k - pos + 1 ELSE 0
      BY <1>16, <1>19
    <2> QED BY <1>16, <2>2, <2>3 DEF Strings
  <1>5. tail' = rest
    BY <1>18
  <1>6. n \in Nat
    BY <1>16
  <1>7. EndOf(t, rest, c)
    <2>1. ASSUME NEW j \in 1..Len(rest) PROVE rest[j] = t[c + j]
      <3>1. pos + j - 1 \in 1..Len(buf) /\ b + (pos + j - 1) = c + j /\ j \in 1..n
        BY <1>3, <1>4, <1>17
      <3>2. rest[j] = buf[pos + j - 1] /\ buf[pos + j - 1] = t[b + (pos + j - 1)]
        BY <1>1, <1>4, <3>1
      <3> QED BY <3>1, <3>2
    <2>2. Len(t) = c + Len(rest)
      BY <1>1, <1>3, <1>4, <1>17
    <2> QED BY <1>1, <1>4, <1>16, <2>1, <2>2 DEF EndOf
  <1>8. CASE ~loop.held
    <2> DEFINE r == ReadAt(t)[b + k]
    <2>1. /\ r.line = rest /\ loop.pending = Pend(r.lines) /\ out \o loop.events = r.events
          /\ pos <= k => buf[k] \notin {LF, CR}
          /\ EmptyBefore(t, buf, b, FALSE, k, loop)
      BY <1>3, <1>8 DEF LoopInv, HasRead
    <2>2. scanFrom' = Len(rest) /\ scanFrom' \in Nat /\ scanFrom' = n
      BY <1>4, <1>5, <1>6, <1>8, <1>18
    <2>3. c + scanFrom' = b + k
      BY <1>17, <2>2
    <2>4. n >= 1 => rest[n] \notin {LF, CR}
      <3>1. n >= 1 => pos <= k /\ n \in 1..n /\ pos + n - 1 = k
        BY <1>16, <1>19
      <3> QED BY <1>4, <2>1, <3>1
    <2>5. (rest = <<>> /\ c >= 1 /\ t[c] = CR) => r.lines = <<>>
      <3>1. SUFFICES ASSUME rest = <<>>, c >= 1, t[c] = CR PROVE r.lines = <<>>
        OBVIOUS
      <3>2. Len(rest) = 0
        BY <3>1
      <3>3. pos = k + 1 /\ c = b + k
        BY <1>4, <1>16, <1>19, <3>2
      <3>4. loop.next <= k + 1
        <4>1. loop.next \in Nat /\ PassesOver(buf, k, loop) /\ HasRead(t, buf, b, out, k, loop)
          BY <1>3, <1>8 DEF LoopInv, Loops
        <4>2. loop.next <= k + 2 /\ (loop.next = k + 2 => k < Len(buf))
          BY <4>1 DEF PassesOver, HasRead
        <4> QED BY <1>3, <4>1, <4>2
      <3> QED BY <1>3, <2>1, <3>1, <3>3, <3>4 DEF EmptyBefore
    <2>6. SubSeq(rest, 1, n) = rest
      <3>1. rest \in Seq(Letters) /\ Len(rest) = n
        BY <1>4 DEF Strings
      <3> QED BY <1>6, <3>1
    <2> HIDE DEF r
    <2>7. Unfinished(t, c, r)'
      <3>1. EndOf(t, tail', c) /\ scanFrom' \in 0..Len(tail') /\ r.line = SubSeq(tail', 1, scanFrom')
        BY <1>4, <1>5, <1>7, <2>1, <2>2, <2>6
      <3>2. (scanFrom' >= 1 => tail'[scanFrom'] \notin {LF, CR}) /\ scanFrom' = Len(tail')
        BY <1>5, <2>2, <2>4
      <3>3. (tail' = <<>> /\ c >= 1 /\ t[c] = CR) => r.lines = <<>>
        BY <1>5, <2>5
      <3>4. pending' = Pend(r.lines) /\ returned' = r.events
        BY <1>18, <2>1
      <3> QED BY <3>1, <3>2, <3>3, <3>4 DEF Unfinished
    <2>8. Cut(received, c)'
      BY <1>18, <2>3, <2>7 DEF Cut, r
    <2> QED BY <1>16, <2>8
  <1>9. CASE loop.held
    <2> DEFINE r == ReadAt(t)[b + (k - 1)]
    <2>1. /\ k > 1 /\ buf[k] = CR /\ pos < k /\ HasRead(t, buf, b, out, k - 1, loop)
      <3>1. Holds(t, buf, b, FALSE, out, Len(buf), loop)
        BY <1>9 DEF LoopInv
      <3> QED BY <1>3, <3>1 DEF Holds
    <2>2. /\ r.line = SubSeq(buf, pos, k - 1) /\ loop.pending = Pend(r.lines)
          /\ out \o loop.events = r.events
          /\ pos <= k - 1 => buf[k - 1] \notin {LF, CR}
      BY <1>3, <2>1 DEF HasRead
    <2>3. scanFrom' = n - 1 /\ n >= 2 /\ Len(rest) = n
      BY <1>3, <1>4, <1>5, <1>9, <1>16, <1>18, <2>1
    <2>4. c + scanFrom' = b + (k - 1)
      BY <1>16, <1>17, <1>19, <2>3
    <2>5. rest[n] = CR /\ rest[n - 1] \notin {LF, CR}
      <3>1. n \in 1..n /\ n - 1 \in 1..n /\ pos + n - 1 = k /\ pos + (n - 1) - 1 = k - 1
            /\ pos <= k - 1
        BY <1>16, <1>19, <2>1, <2>3
      <3> QED BY <1>4, <2>1, <2>2, <3>1
    <2>6. rest = Append(SubSeq(buf, pos, k - 1), CR) /\ SubSeq(buf, pos, k - 1) \in Strings
      <3>1. buf \in Strings /\ pos \in Nat /\ pos >= 1 /\ k \in 1..Len(buf) /\ pos <= k
        BY <1>1, <1>3, <2>1
      <3> QED BY <1>3, <2>1, <3>1, LineGrows
    <2>7. SubSeq(rest, 1, n - 1) = r.line
      <3> DEFINE line == SubSeq(buf, pos, k - 1)
      <3>1. line \in Seq(Letters) /\ rest = Append(line, CR) /\ r.line = line
        BY <2>2, <2>6 DEF Strings
      <3> HIDE DEF line
      <3>2. Len(line) \in Nat /\ Len(rest) = Len(line) + 1 /\ \A j \in 1..Len(line) : rest[j] = line[j]
        BY <3>1, AppendProperties, LenProperties
      <3>3. Len(line) = n - 1
        BY <1>6, <2>3, <3>2
      <3>4. rest \in Seq(Letters)
        BY <1>4 DEF Strings
      <3> QED BY <1>6, <2>3, <3>1, <3>2, <3>3, <3>4
    <2> HIDE DEF r
    <2>8. Unfinished(t, c, r)'
      <3>1. EndOf(t, tail', c) /\ scanFrom' \in 0..Len(tail') /\ r.line = SubSeq(tail', 1, scanFrom')
        BY <1>5, <1>6, <1>7, <2>3, <2>7
      <3>2. /\ scanFrom' >= 1 /\ tail'[scanFrom'] \notin {LF, CR} /\ scanFrom' + 1 = Len(tail')
            /\ tail'[Len(tail')] = CR
        BY <1>5, <1>6, <2>3, <2>5
      <3>3. tail' # <<>>
        BY <1>5, <1>6, <2>3
      <3>4. pending' = Pend(r.lines) /\ returned' = r.events
        BY <1>18, <2>2
      <3> QED BY <3>1, <3>2, <3>3, <3>4 DEF Unfinished
    <2>9. Cut(received, c)'
      BY <1>18, <2>4, <2>8 DEF Cut, r
    <2> QED BY <1>16, <2>9
  <1> QED BY <1>8, <1>9

LEMMA PrefixOfMore ==
  ASSUME NEW x \in Seq(Events), NEW y \in Seq(Events)
  PROVE  IsPrefix(x, x \o y)
  <1> DEFINE z == x \o y
             n == Len(x)
  <1>1. /\ z \in Seq(Events) /\ n \in Nat /\ Len(y) \in Nat /\ Len(z) = n + Len(y)
        /\ \A j \in 1..n : z[j] = x[j]
    BY ConcatProperties, LenProperties
  <1> HIDE DEF z
  <1>2. SubSeq(x, 1, n) = SubSeq(z, 1, n)
    BY <1>1
  <1> QED BY <1>1, <1>2 DEF IsPrefix, z

LEMMA PushKeeps ==
  ASSUME SseInv, NEW chunk \in Strings, Push(chunk)
  PROVE  SseInv'
  <1> DEFINE buf == tail \o chunk
             t == received \o chunk
             loop == DrainLines(buf, FALSE)
             rest == SubSeq(buf, loop.pos, Len(buf))
             over == Overflow(loop.pending, rest)
  <1>1. PICK b \in Nat : Cut(received, b)
    BY DEF SseInv, Push
  <1>2. /\ received \in Strings /\ returned \in Seq(Events)
    BY DEF SseInv
  <1>3. /\ tail \in Strings /\ Len(received) = b + Len(tail) /\ Len(tail) \in Nat /\ Len(received) \in Nat
        /\ EndOf(received, tail, b)
    BY <1>1, <1>2, CutReads DEF Cut, Unfinished
  <1>4. Len(chunk) \in Nat
    BY LenProperties DEF Strings
  <1>5. /\ buf \in Strings /\ Len(buf) = Len(tail) + Len(chunk)
        /\ \A j \in 1..Len(tail) : buf[j] = tail[j]
        /\ \A j \in 1..Len(chunk) : buf[Len(tail) + j] = chunk[j]
    BY <1>3, ConcatProperties DEF Strings
  <1>6. /\ t \in Strings /\ Len(t) = Len(received) + Len(chunk)
        /\ \A j \in 1..Len(received) : t[j] = received[j]
        /\ \A j \in 1..Len(chunk) : t[Len(received) + j] = chunk[j]
    BY <1>2, ConcatProperties DEF Strings
  <1>7. /\ received' = t /\ tail' = rest /\ scanFrom' = Len(rest) - (IF loop.held THEN 1 ELSE 0)
        /\ pending' = loop.pending
        /\ returned' = IF over THEN returned ELSE returned \o loop.events
        /\ stream' = IF over THEN "overflow" ELSE "open"
    BY DEF Push
  <1> HIDE DEF buf, t
  <1>8. Begins(tail, buf) /\ Begins(received, t)
    BY <1>3, <1>4, <1>5, <1>6 DEF Begins
  <1>9. EndOf(t, buf, b)
    <2>1. ASSUME NEW j \in 1..Len(buf) PROVE buf[j] = t[b + j]
      <3>1. CASE j <= Len(tail)
        <4>1. j \in 1..Len(tail) /\ b + j \in 1..Len(received)
          BY <1>3, <1>4, <1>5, <3>1
        <4>2. tail[j] = received[b + j]
          BY <1>3, <4>1 DEF EndOf
        <4> QED BY <1>5, <1>6, <4>1, <4>2
      <3>2. CASE j > Len(tail)
        <4>1. PICK i \in 1..Len(chunk) : j = Len(tail) + i
          <5>1. j - Len(tail) \in 1..Len(chunk) /\ j = Len(tail) + (j - Len(tail))
            BY <1>3, <1>4, <1>5, <3>2
          <5> QED BY <5>1
        <4>2. b + j = Len(received) + i
          BY <1>3, <1>4, <4>1
        <4> QED BY <1>5, <1>6, <4>1, <4>2
      <3> QED BY <1>3, <1>4, <1>5, <3>1, <3>2
    <2>2. Len(t) = b + Len(buf)
      BY <1>3, <1>4, <1>5, <1>6
    <2> QED BY <1>5, <1>6, <2>1, <2>2 DEF EndOf
  <1>10. LoopInv(t, buf, b, FALSE, returned, Len(buf), loop)
    <2>1. FALSE \in BOOLEAN
      OBVIOUS
    <2>2. LoopInv(t, buf, b, FALSE, returned, scanFrom, LoopStart) /\ scanFrom \in 0..Len(buf)
      BY <1>1, <1>2, <1>8, <1>9, <2>1, LoopStarts
    <2> QED BY <1>2, <1>9, <2>1, <2>2, Drained
  <1> HIDE DEF loop
  <1>11. LoopDone(t, buf, returned, loop)
    BY <1>2, <1>9, <1>10, LoopEnds
  <1>12. /\ loop.events \in Seq(Events) /\ returned \o loop.events = Read(t).events
         /\ Weighed(t, DataBytes(loop.pending) + Len(rest))
         /\ DataBytes(loop.pending) \in Nat /\ Len(rest) \in Nat
    <2>1. rest \in Strings
      BY <1>11 DEF LoopDone
    <2> QED BY <1>11, <2>1, LenProperties DEF LoopDone, Strings
  <1>13. returned' \in Seq(Events)
    <2>1. returned \o loop.events \in Seq(Events)
      BY <1>2, <1>12, ConcatProperties
    <2> QED BY <1>2, <1>7, <2>1
  <1> HIDE DEF rest
  <1>14. CASE over
    <2>1. DataBytes(loop.pending) + Len(rest) > MaxBufferedBytes
      BY <1>14 DEF Overflow
    <2>2. UnderWay(t) > MaxBufferedBytes \/ (Last(t) = CR /\ UnderWay(Front(t)) + 1 > MaxBufferedBytes)
      BY <1>12, <2>1 DEF Weighed
    <2>3. IsPrefix(returned, Read(t).events)
      BY <1>2, <1>12, PrefixOfMore
    <2>4. returned' = returned /\ stream' = "overflow" /\ received' = t
      BY <1>7, <1>14
    <2>5. EventsOfAnyCut'
      BY <2>3, <2>4 DEF EventsOfAnyCut
    <2>6. LimitIsExact'
      BY <2>2, <2>4 DEF LimitIsExact, UnderWay
    <2>7. EventsSound'
      BY <2>5, <2>6 DEF EventsSound
    <2> QED BY <1>6, <1>7, <1>13, <1>14, <2>7 DEF SseInv
  <1>15. CASE ~over
    <2>1. returned' = returned \o loop.events /\ stream' = "open"
      BY <1>7, <1>15
    <2>2. EventsSound'
      <3>1. UnderWay(t) <= MaxBufferedBytes
        <4>1. DataBytes(loop.pending) + Len(rest) <= MaxBufferedBytes
          BY <1>12, <1>15, SseAssumption DEF Overflow
        <4>2. UnderWay(t) \in Nat /\ UnderWay(t) <= DataBytes(loop.pending) + Len(rest)
          BY <1>6, <1>12, Weighs DEF Weighed
        <4> QED BY <1>12, <4>1, <4>2, SseAssumption
      <3>2. EventsOfAnyCut'
        BY <1>7, <1>12, <2>1 DEF EventsOfAnyCut
      <3>3. LimitIsExact'
        BY <1>7, <2>1, <3>1 DEF LimitIsExact, UnderWay
      <3> QED BY <3>2, <3>3 DEF EventsSound
    <2>3. \E c \in Nat : Cut(received, c)'
      <3>1. GoesOn(t, buf, returned, loop)
        BY <1>7, <2>1 DEF rest, GoesOn
      <3> QED BY <1>2, <1>9, <1>10, <3>1, RestIsCut
    <2> QED BY <1>6, <1>7, <1>13, <2>1, <2>2, <2>3 DEF SseInv
  <1> QED BY <1>14, <1>15

(* flush: the rest is a line, and the lines under way an event.            *)
LEMMA FlushKeeps ==
  ASSUME SseInv, Flush
  PROVE  SseInv'
  <1> DEFINE loop == DrainLines(tail, TRUE)
             rest == SubSeq(tail, loop.pos, Len(tail))
             p == IF rest = <<>> THEN loop.pending ELSE ParseField(loop.pending, rest)
             R == Read(received)
             q == IF R.line = <<>> THEN R ELSE LineRead(R)
  <1>1. PICK b \in Nat : Cut(received, b)
    BY DEF SseInv, Flush
  <1>2. /\ received \in Strings /\ returned \in Seq(Events)
    BY DEF SseInv
  <1>3. tail \in Strings /\ EndOf(received, tail, b)
    BY <1>1, <1>2, CutReads DEF Cut, Unfinished
  <1>4. /\ stream' = "flushed" /\ received' = received
        /\ returned' = (returned \o loop.events) \o Dispatch(p).event
    BY DEF Flush
  <1>5. LoopInv(received, tail, b, TRUE, returned, Len(tail), loop)
    <2>1. TRUE \in BOOLEAN
      OBVIOUS
    <2>2. Begins(received, received) /\ Begins(tail, tail)
      <3>1. Len(received) \in Nat /\ Len(tail) \in Nat
        BY <1>2, <1>3, LenProperties DEF Strings
      <3> QED BY <3>1 DEF Begins
    <2>3. LoopInv(received, tail, b, TRUE, returned, scanFrom, LoopStart) /\ scanFrom \in 0..Len(tail)
      BY <1>1, <1>2, <1>3, <2>1, <2>2, LoopStarts
    <2> QED BY <1>2, <1>3, <2>1, <2>3, Drained
  <1> HIDE DEF loop
  <1>6. LoopDone(received, tail, returned, loop)
    BY <1>2, <1>3, <1>5, LoopEnds
  <1>7. loop \in Loops /\ ~loop.held
    BY <1>5 DEF LoopInv, Holds
  <1>8. /\ R \in Readings /\ rest = R.line /\ loop.pending = Pend(R.lines)
        /\ returned \o loop.events = R.events /\ loop.events \in Seq(Events)
    BY <1>6, <1>7 DEF LoopDone
  <1> HIDE DEF rest, R
  <1>9. q \in Readings /\ q.line = <<>> /\ q.events = R.events /\ p = Pend(q.lines)
    <2>1. CASE R.line = <<>>
      BY <1>8, <2>1
    <2>2. CASE R.line # <<>>
      <3>1. q = LineRead(R) /\ p = ParseField(loop.pending, R.line)
        BY <1>8, <2>2
      <3>2. /\ LineRead(R) \in Readings /\ LineRead(R).line = <<>>
            /\ LineRead(R).lines = Append(R.lines, R.line) /\ LineRead(R).events = R.events
        BY <1>8, <2>2, LineKeeps
      <3>3. R.line \in FullLines /\ R.lines \in Seq(FullLines)
        BY <1>8, <2>2 DEF Readings, FullLines
      <3>4. p = Pend(Append(R.lines, R.line))
        BY <1>8, <3>1, <3>3, PendOfMore
      <3> HIDE DEF q, p
      <3> QED BY <3>1, <3>2, <3>4
    <2> QED BY <2>1, <2>2
  <1>10. ReadToEnd(received) = LineRead(q)
    BY DEF ReadToEnd, R
  <1> HIDE DEF p, q
  <1>11. /\ returned \o (loop.events \o Dispatch(p).event) = LineRead(q).events
         /\ loop.events \o Dispatch(p).event \in Seq(Events)
    <2> DEFINE turn == [loop EXCEPT !.pending = p]
               new == ProcessLine(turn, q.line, 0)
    <2>1. q.lines \in Seq(FullLines)
      BY <1>9 DEF Readings
    <2>2. p \in Pendings
      BY <1>9, <2>1, EventTyped
    <2>3. turn \in Loops /\ turn.pending = p /\ turn.events = loop.events
      BY <1>7, <2>2 DEF Loops
    <2> HIDE DEF turn
    <2>4. new \in Loops /\ returned \o new.events = LineRead(q).events
      <3>1. turn.pending = Pend(q.lines) /\ returned \o turn.events = q.events /\ 0 \in Nat
        BY <1>8, <1>9, <2>3
      <3> QED BY <1>2, <1>9, <2>3, <3>1, LineProcessed
    <2>5. new.events = loop.events \o Dispatch(p).event
      BY <1>9, <2>3 DEF ProcessLine, Loops
    <2>6. new.events \in Seq(Events)
      BY <2>4 DEF Loops
    <2> QED BY <2>4, <2>5, <2>6
  <1>12. Dispatch(p).event \in Seq(Events)
    <2>1. p.dataLines \in Seq(Strings) /\ p.eventName \in Seq(Strings)
      <3>1. q.lines \in Seq(FullLines)
        BY <1>9 DEF Readings
      <3> QED BY <1>9, <3>1, EventTyped DEF Pendings
    <2> DEFINE e == [data |-> p.dataLines, event |-> p.eventName]
    <2>2. e \in Events
      BY <2>1 DEF Events
    <2> HIDE DEF e
    <2>3. <<>> \in Seq(Events) /\ <<e>> \in Seq(Events)
      BY <2>2, EmptySeq
    <2> QED BY <2>3 DEF Dispatch, e
  <1>13. (returned \o loop.events) \o Dispatch(p).event = returned \o (loop.events \o Dispatch(p).event)
    <2>1. \A x, y, z \in Seq(Events) : (x \o y) \o z = x \o (y \o z)
      BY ConcatAssociative
    <2> QED BY <1>2, <1>8, <1>12, <2>1
  <1>14. returned' = LineRead(q).events /\ returned' \in Seq(Events)
    <2>1. returned' = LineRead(q).events
      BY <1>4, <1>11, <1>13
    <2>2. LineRead(q).events \in Seq(Events)
      <3>1. LineRead(q) \in Readings
        BY <1>9, LineKeeps
      <3> QED BY <3>1 DEF Readings
    <2> QED BY <2>1, <2>2
  <1>15. EventsSound'
    BY <1>4, <1>10, <1>14 DEF EventsSound, EventsOfAnyCut, LimitIsExact
  <1> QED BY <1>2, <1>4, <1>14, <1>15 DEF SseInv

(* The events are those of the letters, however they are cut into chunks,  *)
(* and between the chunks the event under way is within the limit exactly  *)
(* when the stream goes on (upstream/sse-parser.ts).                       *)
THEOREM EventsKept == SseSpec => []EventsSound
  <1>1. SseInit => SseInv
    <2>1. SUFFICES ASSUME SseInit PROVE SseInv
      OBVIOUS
    <2>2. /\ <<>> \in Strings /\ Len(<<>>) = 0 /\ <<>> \in Seq(Events)
      BY EmptySeq DEF Strings
    <2>3. Read(<<>>) = Unread /\ ReadAt(<<>>)[0] = Unread
      BY <2>2, ReadExists
    <2>4. EndOf(<<>>, <<>>, 0)
      BY <2>2 DEF EndOf
    <2>5. SubSeq(<<>>, 1, 0) = <<>>
      BY SubSeqEmpty
    <2>6. Unfinished(<<>>, 0, Unread)
      BY <2>1, <2>2, <2>4, <2>5, PendOfNone DEF SseInit, Unfinished, Unread
    <2>7. Cut(received, 0)
      BY <2>1, <2>3, <2>6 DEF Cut, SseInit
    <2>8. EventsSound
      <3>1. UnderWay(<<>>) = 0
        <4>1. Weight(Unread) = 0
          BY <2>2, PendOfNone, BytesOfNone DEF Weight, Unread, NoEvent
        <4> QED BY <2>2, <2>3, <4>1, Weighs
      <3> QED BY <2>1, <2>3, <3>1, SseAssumption
                 DEF EventsSound, EventsOfAnyCut, LimitIsExact, SseInit, Unread
    <2> QED BY <2>1, <2>2, <2>7, <2>8 DEF SseInv, SseInit
  <1>2. SseInv /\ [SseNext]_sseVars => SseInv'
    <2>1. SUFFICES ASSUME SseInv, [SseNext]_sseVars PROVE SseInv'
      OBVIOUS
    <2>2. CASE Flush
      BY <2>1, <2>2, FlushKeeps
    <2>3. ASSUME NEW chunk \in Chunks(MaxChunk), Push(chunk) PROVE SseInv'
      <3>1. PICK k \in 1..MaxChunk : chunk \in [1..k -> Letters]
        BY <2>3 DEF Chunks
      <3>2. chunk \in Strings
        BY <3>1, SseAssumption DEF Strings
      <3> QED BY <2>1, <2>3, <3>2, PushKeeps
    <2>4. CASE UNCHANGED sseVars
      BY <2>1, <2>4 DEF sseVars, SseInv, Cut, Unfinished, EventsSound, EventsOfAnyCut, LimitIsExact,
                        UnderWay
    <2> QED BY <2>1, <2>2, <2>3, <2>4 DEF SseNext
  <1>3. SseInv => EventsSound
    BY DEF SseInv
  <1> QED BY <1>1, <1>2, <1>3, PTL DEF SseSpec
=============================================================================
