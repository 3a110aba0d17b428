---------------------------- MODULE BillingProofs ----------------------------
(***************************************************************************)
(* What is paid, for any constants: the ledger, what is read back of it,   *)
(* and the attempts that are written to it.                                *)
(*                                                                         *)
(* Sums over finite sets come first: the fold of the library takes the     *)
(* element that CHOOSE gives, and the value depends on neither the order   *)
(* nor the names (SumWith, SumByKind, SumRenamed).                         *)
(*                                                                         *)
(* The ledger.  LedgerInv adds to the types that a row is under its own    *)
(* execution and number, that the rows of an execution are of one caller,  *)
(* and that an estimate is, by what the row and the price table say now,   *)
(* the one in force (EstimateFits); hence the estimates, and the reports   *)
(* that are sums over the same rows.                                       *)
(*                                                                         *)
(* The reports.  TablesInv: the rows of the two tables, and one row at     *)
(* most that owns an execution.                                            *)
(*                                                                         *)
(* The attempts, for every policy, deadline and lateness of timers.  The   *)
(* invariant has three parts beside the types: Clock (the timer that       *)
(* bounds each phase is armed and due in time), Booking (rows and          *)
(* attempts) and Answering (what the client has been sent).                *)
(***************************************************************************)
EXTENDS AgentStream, Ledger, Reports, FiniteSetTheorems, SequenceTheorems,
        WellFoundedInduction, TLAPS

----------------------------------------------------------------------------
(* Sums over finite sets.  The fold of the library takes an element that   *)
(* CHOOSE gives; the value does not depend on which.                       *)

(* Induction over the numbers, for a set of numbers.                       *)
LEMMA FromZero ==
  ASSUME NEW Good, 0 \in Good, \A n \in Nat : n \in Good => n + 1 \in Good
  PROVE  Nat \subseteq Good
<1> DEFINE Less == OpToRel(<, Nat)
           Bad == {n \in Nat : n \notin Good}
<1>1. SUFFICES ASSUME Bad # {} PROVE FALSE
  OBVIOUS
<1>2. IsWellFoundedOn(Less, Nat)
  BY NatLessThanWellFounded
<1>3. PICK m \in Bad : \A k \in Bad : ~(<<k, m>> \in Less)
  <2> HIDE DEF Bad, Less
  <2>1. Bad \subseteq Nat
    BY DEF Bad
  <2> QED BY <1>1, <1>2, <2>1, WFMin
<1>4. m \in Nat /\ m \notin Good /\ m # 0 /\ m - 1 \in Nat
  OBVIOUS
<1>5. <<m - 1, m>> \in Less
  BY <1>4 DEF OpToRel
<1>6. m - 1 \in Good
  <2>1. m - 1 \notin Bad
    <3> HIDE DEF Bad, Less
    <3> QED BY <1>3, <1>5
  <2> QED BY <1>4, <2>1
<1>7. (m - 1) + 1 \in Good
  <2> HIDE DEF Bad, Less
  <2> QED BY <1>4, <1>6
<1>8. (m - 1) + 1 = m
  BY <1>4
<1> QED BY <1>4, <1>7, <1>8

(* A finite set without one of its elements.                               *)
LEMMA TakenOut ==
  ASSUME NEW S, NEW n \in Nat, IsFiniteSet(S), Cardinality(S) = n + 1, NEW x \in S
  PROVE  IsFiniteSet(S \ {x}) /\ Cardinality(S \ {x}) = n
<1>1. IsFiniteSet(S \ {x}) /\ Cardinality(S \ {x}) = Cardinality(S) - 1
  BY FS_RemoveElement
<1> QED BY <1>1

(* Induction over the subsets of a finite set, for a set of them.          *)
LEMMA FromEmpty ==
  ASSUME NEW S, IsFiniteSet(S), NEW Good, {} \in Good,
         \A T \in SUBSET S : T \in Good => \A x \in S \ T : T \cup {x} \in Good
  PROVE  \A T \in SUBSET S : T \in Good
<1> DEFINE Upto == {n \in Nat : \A T \in SUBSET S : Cardinality(T) = n => T \in Good}
<1>1. 0 \in Upto
  <2>1. ASSUME NEW T \in SUBSET S, Cardinality(T) = 0 PROVE T = {}
    BY <2>1, FS_Subset, FS_EmptySet
  <2> QED BY <2>1
<1>2. ASSUME NEW n \in Nat, n \in Upto PROVE n + 1 \in Upto
  <2>1. ASSUME NEW T \in SUBSET S, Cardinality(T) = n + 1 PROVE T \in Good
    <3>1. IsFiniteSet(T)
      BY FS_Subset
    <3>2. PICK x \in T : TRUE
      BY <2>1, <3>1, FS_EmptySet
    <3>3. Cardinality(T \ {x}) = n
      BY <2>1, <3>1, <3>2, TakenOut
    <3>4. T \ {x} \in SUBSET S /\ x \in S \ (T \ {x}) /\ (T \ {x}) \cup {x} = T
      BY <3>2
    <3>5. T \ {x} \in Good
      BY <1>2, <3>3, <3>4
    <3> QED BY <3>4, <3>5
  <2> QED BY <2>1
<1>3. Nat \subseteq Upto
  <2> HIDE DEF Upto
  <2> QED BY <1>1, <1>2, FromZero
<1>4. ASSUME NEW T \in SUBSET S PROVE T \in Good
  <2>1. Cardinality(T) \in Nat
    BY FS_Subset, FS_CardinalityType
  <2> QED BY <1>3, <2>1
<1> QED BY <1>4

(* The sums over the subsets of S, as the fold defines them.               *)
First(s) == CHOOSE x \in s : TRUE

Iterated(f, D, G) == G = [s \in D |-> IF s = {} THEN 0 ELSE f[First(s)] + G[s \ {First(s)}]]

(* A fold that takes the elements of a finite set one by one exists.       *)
LEMMA IteratedExists ==
  ASSUME NEW f, NEW S, IsFiniteSet(S)
  PROVE  \E G : Iterated(f, SUBSET S, G)
<1> DEFINE Small(n) == {s \in SUBSET S : Cardinality(s) <= n}
           Upto == {n \in Nat : \E G : Iterated(f, Small(n), G)}
<1>0. ASSUME NEW s \in SUBSET S
      PROVE  /\ IsFiniteSet(s) /\ Cardinality(s) \in Nat /\ Cardinality(s) <= Cardinality(S)
             /\ Cardinality(s) = 0 <=> s = {}
             /\ s # {} => /\ First(s) \in s /\ s \ {First(s)} \in SUBSET S
                          /\ Cardinality(s \ {First(s)}) = Cardinality(s) - 1
  <2>1. IsFiniteSet(s) /\ Cardinality(s) <= Cardinality(S)
    BY FS_Subset
  <2>2. Cardinality(s) \in Nat /\ (Cardinality(s) = 0 <=> s = {})
    BY <2>1, FS_CardinalityType, FS_EmptySet
  <2>3. s # {} => First(s) \in s
    BY DEF First
  <2>4. s # {} => Cardinality(s \ {First(s)}) = Cardinality(s) - 1
    BY <2>1, <2>3, FS_RemoveElement
  <2> QED BY <2>1, <2>2, <2>3, <2>4
<1>1. 0 \in Upto
  <2>1. ASSUME NEW s \in Small(0) PROVE s = {}
    <3>1. s \in SUBSET S /\ Cardinality(s) <= 0
      OBVIOUS
    <3> HIDE DEF Small
    <3>2. Cardinality(s) \in Nat /\ (Cardinality(s) = 0 <=> s = {})
      BY <1>0, <3>1
    <3> QED BY <3>1, <3>2
  <2>2. Iterated(f, Small(0), [s \in Small(0) |-> 0])
    BY <2>1 DEF Iterated
  <2> QED BY <2>2
<1>2. ASSUME NEW n \in Nat, n \in Upto PROVE n + 1 \in Upto
  <2>1. PICK G : Iterated(f, Small(n), G)
    BY <1>2
  <2> DEFINE H == [s \in Small(n + 1) |->
                     IF s = {} THEN 0 ELSE f[First(s)] + G[s \ {First(s)}]]
  <2>2. ASSUME NEW s \in Small(n + 1), s # {}
        PROVE  /\ s \ {First(s)} \in Small(n) /\ s \ {First(s)} \in Small(n + 1)
               /\ H[s \ {First(s)}] = G[s \ {First(s)}]
    <3>1. s \ {First(s)} \in Small(n) /\ s \ {First(s)} \in Small(n + 1)
      BY <1>0, <2>2
    <3>2. H[s \ {First(s)}] = G[s \ {First(s)}]
      <4> DEFINE t == s \ {First(s)}
      <4>1. H[t] = IF t = {} THEN 0 ELSE f[First(t)] + G[t \ {First(t)}]
        BY <3>1
      <4>2. G[t] = IF t = {} THEN 0 ELSE f[First(t)] + G[t \ {First(t)}]
        <5> HIDE DEF t
        <5>1. t \in Small(n)
          BY <3>1 DEF t
        <5> HIDE DEF Small
        <5> QED BY <2>1, <5>1 DEF Iterated
      <4> QED BY <4>1, <4>2
    <3> QED BY <3>1, <3>2
  <2>3. Iterated(f, Small(n + 1), H)
    <3>1. \A s \in Small(n + 1) :
             H[s] = IF s = {} THEN 0 ELSE f[First(s)] + H[s \ {First(s)}]
      <4> HIDE DEF Small
      <4> QED BY <2>2
    <3>2. H = [s \in Small(n + 1) |-> H[s]]
      <4> HIDE DEF Small
      <4> QED OBVIOUS
    <3> HIDE DEF H, Small
    <3> QED BY <3>1, <3>2 DEF Iterated
  <2>4. n + 1 \in Nat
    OBVIOUS
  <2> HIDE DEF H, Small
  <2> QED BY <2>3, <2>4
<1>3. Nat \subseteq Upto
  <2> HIDE DEF Upto
  <2> QED BY <1>1, <1>2, FromZero
<1>4. Cardinality(S) \in Upto /\ Small(Cardinality(S)) = SUBSET S
  BY <1>0, <1>3, FS_CardinalityType
<1>5. PICK G : Iterated(f, Small(Cardinality(S)), G)
  BY <1>4
<1> QED BY <1>4, <1>5

(* Two of them agree where both are defined.                               *)
LEMMA IteratedAgree ==
  ASSUME NEW f, NEW g, NEW S, NEW T, NEW G, NEW H, NEW U \in SUBSET (S \cap T), IsFiniteSet(U),
         Iterated(f, SUBSET S, G), Iterated(g, SUBSET T, H), \A x \in U : f[x] = g[x]
  PROVE  G[U] = H[U]
<1> DEFINE Upto == {n \in Nat : \A V \in SUBSET U : Cardinality(V) = n => G[V] = H[V]}
<1>0. ASSUME NEW V \in SUBSET U
      PROVE  /\ G[V] = IF V = {} THEN 0 ELSE f[First(V)] + G[V \ {First(V)}]
             /\ H[V] = IF V = {} THEN 0 ELSE g[First(V)] + H[V \ {First(V)}]
             /\ V # {} => First(V) \in U
  <2>1. V \in SUBSET S /\ V \in SUBSET T
    OBVIOUS
  <2>2. V # {} => First(V) \in V
    BY DEF First
  <2> QED BY <2>1, <2>2 DEF Iterated
<1>1. 0 \in Upto
  <2>1. ASSUME NEW V \in SUBSET U, Cardinality(V) = 0 PROVE G[V] = H[V]
    <3>1. V = {}
      BY <2>1, FS_Subset, FS_EmptySet
    <3> QED BY <1>0, <3>1
  <2> QED BY <2>1
<1>2. ASSUME NEW n \in Nat, n \in Upto PROVE n + 1 \in Upto
  <2>1. ASSUME NEW V \in SUBSET U, Cardinality(V) = n + 1 PROVE G[V] = H[V]
    <3>1. IsFiniteSet(V) /\ V # {}
      BY <2>1, FS_Subset, FS_EmptySet
    <3>2. First(V) \in V
      BY <3>1 DEF First
    <3>3. Cardinality(V \ {First(V)}) = n
      BY <2>1, <3>1, <3>2, TakenOut
    <3>4. G[V \ {First(V)}] = H[V \ {First(V)}]
      BY <1>2, <3>3
    <3> HIDE DEF Upto
    <3> QED BY <1>0, <3>1, <3>4
  <2> QED BY <2>1
<1>3. Nat \subseteq Upto
  <2> HIDE DEF Upto
  <2> QED BY <1>1, <1>2, FromZero
<1>4. Cardinality(U) \in Nat
  BY FS_CardinalityType
<1> QED BY <1>3, <1>4

(* The sum of the library is such a fold.                                  *)
LEMMA SumIterates ==
  ASSUME NEW f, NEW S, IsFiniteSet(S)
  PROVE  \E G : Iterated(f, SUBSET S, G) /\ SumFunctionOnSet(f, S) = G[S]
<1>1. PICK G : Iterated(f, SUBSET S, G)
  BY IteratedExists
<1> QED
  BY <1>1 DEF SumFunctionOnSet, FoldFunctionOnSet, MapThenFoldSet, Iterated, First

(* A sum depends on the values that are added alone.                       *)
LEMMA SumOfSame ==
  ASSUME NEW f, NEW g, NEW S, IsFiniteSet(S), \A x \in S : f[x] = g[x]
  PROVE  SumFunctionOnSet(f, S) = SumFunctionOnSet(g, S)
<1>1. PICK G : Iterated(f, SUBSET S, G) /\ SumFunctionOnSet(f, S) = G[S]
  BY SumIterates
<1>2. PICK H : Iterated(g, SUBSET S, H) /\ SumFunctionOnSet(g, S) = H[S]
  BY SumIterates
<1>3. G[S] = H[S]
  BY <1>1, <1>2, IteratedAgree
<1> QED BY <1>1, <1>2, <1>3

(* The sum of nothing.                                                     *)
LEMMA SumOfNone == ASSUME NEW f PROVE SumFunctionOnSet(f, {}) = 0
<1>1. IsFiniteSet({})
  BY FS_EmptySet
<1>2. PICK G : Iterated(f, SUBSET {}, G) /\ SumFunctionOnSet(f, {}) = G[{}]
  BY <1>1, SumIterates
<1> QED BY <1>2 DEF Iterated

(* A sum is one value and the sum of the others.                           *)
LEMMA SumOfFirst ==
  ASSUME NEW f, NEW S, IsFiniteSet(S), S # {}
  PROVE  /\ First(S) \in S
         /\ SumFunctionOnSet(f, S) = f[First(S)] + SumFunctionOnSet(f, S \ {First(S)})
<1> DEFINE T == S \ {First(S)}
<1>0. First(S) \in S
  BY DEF First
<1>1. IsFiniteSet(T)
  BY FS_RemoveElement
<1>2. PICK G : Iterated(f, SUBSET S, G) /\ SumFunctionOnSet(f, S) = G[S]
  BY SumIterates
<1>3. PICK H : Iterated(f, SUBSET T, H) /\ SumFunctionOnSet(f, T) = H[T]
  <2> HIDE DEF T
  <2> QED BY <1>1, SumIterates
<1>4. G[T] = H[T]
  <2>1. T \in SUBSET (S \cap T) /\ \A x \in T : f[x] = f[x]
    OBVIOUS
  <2> HIDE DEF T
  <2> QED BY <1>1, <1>2, <1>3, <2>1, IteratedAgree
<1>5. G[S] = f[First(S)] + G[T]
  BY <1>2 DEF Iterated
<1> QED BY <1>0, <1>2, <1>3, <1>4, <1>5

(* Any element may be taken out.                                           *)
Numbers(f, S) == \A x \in S : f[x] \in Int

(* A sum of numbers is a number.                                           *)
LEMMA SumIsNumber ==
  ASSUME NEW f, NEW S, IsFiniteSet(S), Numbers(f, S)
  PROVE  SumFunctionOnSet(f, S) \in Int
<1> DEFINE Upto == {n \in Nat : \A T \in SUBSET S :
                        Cardinality(T) = n => SumFunctionOnSet(f, T) \in Int}
<1>1. 0 \in Upto
  <2>1. ASSUME NEW T \in SUBSET S, Cardinality(T) = 0 PROVE SumFunctionOnSet(f, T) \in Int
    <3>1. T = {}
      BY <2>1, FS_Subset, FS_EmptySet
    <3> QED BY <3>1, SumOfNone
  <2> QED BY <2>1
<1>2. ASSUME NEW n \in Nat, n \in Upto PROVE n + 1 \in Upto
  <2>1. ASSUME NEW T \in SUBSET S, Cardinality(T) = n + 1 PROVE SumFunctionOnSet(f, T) \in Int
    <3>1. IsFiniteSet(T) /\ T # {}
      BY <2>1, FS_Subset, FS_EmptySet
    <3>2. First(T) \in T /\ SumFunctionOnSet(f, T) = f[First(T)] + SumFunctionOnSet(f, T \ {First(T)})
      BY <3>1, SumOfFirst
    <3>3. T \ {First(T)} \in SUBSET S /\ Cardinality(T \ {First(T)}) = n
      BY <2>1, <3>1, <3>2, TakenOut
    <3>4. SumFunctionOnSet(f, T \ {First(T)}) \in Int
      BY <1>2, <3>3
    <3> HIDE DEF Upto
    <3> QED BY <3>2, <3>4 DEF Numbers
  <2> QED BY <2>1
<1>3. Nat \subseteq Upto
  <2> HIDE DEF Upto
  <2> QED BY <1>1, <1>2, FromZero
<1>4. Cardinality(S) \in Nat
  BY FS_CardinalityType
<1> QED BY <1>3, <1>4

Splits(f, S) ==
    /\ SumFunctionOnSet(f, S) \in Int
    /\ \A x \in S : SumFunctionOnSet(f, S) = f[x] + SumFunctionOnSet(f, S \ {x})

(* Any element may be taken out of a sum.                                  *)
LEMMA SumSplits ==
  ASSUME NEW f, NEW S, IsFiniteSet(S), Numbers(f, S)
  PROVE  Splits(f, S)
<1> DEFINE Upto == {n \in Nat : \A T \in SUBSET S : Cardinality(T) = n => Splits(f, T)}
<1>1. 0 \in Upto
  <2>1. ASSUME NEW T \in SUBSET S, Cardinality(T) = 0 PROVE Splits(f, T)
    <3>1. T = {}
      BY <2>1, FS_Subset, FS_EmptySet
    <3> QED BY <3>1, SumOfNone DEF Splits
  <2> QED BY <2>1
<1>2. ASSUME NEW n \in Nat, n \in Upto PROVE n + 1 \in Upto
  <2>1. ASSUME NEW T \in SUBSET S, Cardinality(T) = n + 1 PROVE Splits(f, T)
    <3> DEFINE c == First(T)
    <3>1. IsFiniteSet(T) /\ T # {}
      BY <2>1, FS_Subset, FS_EmptySet
    <3>2. c \in T /\ SumFunctionOnSet(f, T) = f[c] + SumFunctionOnSet(f, T \ {c})
      BY <3>1, SumOfFirst
    <3> HIDE DEF c
    <3>3. ASSUME NEW x \in T PROVE T \ {x} \in SUBSET S /\ Splits(f, T \ {x})
      <4>1. Cardinality(T \ {x}) = n
        BY <2>1, <3>1, TakenOut
      <4> QED BY <1>2, <4>1
    <3>4. \A x \in T : f[x] \in Int
      BY DEF Numbers
    <3> HIDE DEF Upto
    <3>5. SumFunctionOnSet(f, T \ {c}) \in Int
      BY <3>2, <3>3 DEF Splits
    <3>6. ASSUME NEW x \in T, x # c
          PROVE  SumFunctionOnSet(f, T) = f[x] + SumFunctionOnSet(f, T \ {x})
      <4>1. SumFunctionOnSet(f, T \ {c}) = f[x] + SumFunctionOnSet(f, (T \ {c}) \ {x})
        BY <3>2, <3>3, <3>6 DEF Splits
      <4>2. (T \ {x}) \ {c} = (T \ {c}) \ {x}
        OBVIOUS
      <4>3. SumFunctionOnSet(f, T \ {x}) = f[c] + SumFunctionOnSet(f, (T \ {c}) \ {x})
        <5>1. SumFunctionOnSet(f, T \ {x}) = f[c] + SumFunctionOnSet(f, (T \ {x}) \ {c})
          BY <3>2, <3>3, <3>6 DEF Splits
        <5> QED BY <4>2, <5>1
      <4>4. SumFunctionOnSet(f, (T \ {c}) \ {x}) \in Int
        <5>1. IsFiniteSet((T \ {c}) \ {x})
          BY <3>1, FS_RemoveElement
        <5>2. Numbers(f, (T \ {c}) \ {x})
          BY DEF Numbers
        <5> QED BY <5>1, <5>2, SumIsNumber
      <4> QED BY <3>2, <3>4, <4>1, <4>3, <4>4
    <3>7. SumFunctionOnSet(f, T) \in Int
      BY <3>2, <3>4, <3>5
    <3> QED BY <3>2, <3>6, <3>7 DEF Splits
  <2> QED BY <2>1
<1>3. Nat \subseteq Upto
  <2> HIDE DEF Upto
  <2> QED BY <1>1, <1>2, FromZero
<1>4. Cardinality(S) \in Nat
  BY FS_CardinalityType
<1> QED BY <1>3, <1>4

(* A sum with one element more.                                            *)
LEMMA SumWith ==
  ASSUME NEW f, NEW S, IsFiniteSet(S), NEW x, x \notin S, Numbers(f, S \cup {x})
  PROVE  SumFunctionOnSet(f, S \cup {x}) = f[x] + SumFunctionOnSet(f, S)
<1>1. IsFiniteSet(S \cup {x})
  BY FS_AddElement
<1>2. (S \cup {x}) \ {x} = S
  OBVIOUS
<1>3. SumFunctionOnSet(f, S \cup {x}) = f[x] + SumFunctionOnSet(f, (S \cup {x}) \ {x})
  BY <1>1, SumSplits DEF Splits
<1> QED BY <1>2, <1>3

(* The sum over two sets without a common element.                         *)
LEMMA SumOfTwo ==
  ASSUME NEW f, NEW S, NEW T, IsFiniteSet(S), IsFiniteSet(T), S \cap T = {},
         Numbers(f, S \cup T)
  PROVE  SumFunctionOnSet(f, S \cup T) = SumFunctionOnSet(f, S) + SumFunctionOnSet(f, T)
<1> DEFINE Sum(U) == SumFunctionOnSet(f, U)
           Good == {U \in SUBSET T : Sum(S \cup U) = Sum(S) + Sum(U)}
<1>0. Sum(S) \in Int
  BY SumIsNumber DEF Numbers
<1>1. {} \in Good
  BY <1>0, SumOfNone
<1>2. ASSUME NEW U \in SUBSET T, U \in Good, NEW x \in T \ U PROVE U \cup {x} \in Good
  <2>1. IsFiniteSet(U) /\ IsFiniteSet(S \cup U)
    BY FS_Subset, FS_Union
  <2>2. S \cup (U \cup {x}) = (S \cup U) \cup {x} /\ x \notin S \cup U
    OBVIOUS
  <2>3. Numbers(f, (S \cup U) \cup {x}) /\ Numbers(f, U \cup {x}) /\ Numbers(f, U)
    BY DEF Numbers
  <2>4. Sum((S \cup U) \cup {x}) = f[x] + Sum(S \cup U)
    BY <2>1, <2>2, <2>3, SumWith
  <2>5. Sum(U \cup {x}) = f[x] + Sum(U)
    BY <2>1, <2>3, SumWith
  <2>6. Sum(U) \in Int /\ f[x] \in Int
    BY <2>1, <2>3, SumIsNumber DEF Numbers
  <2>7. Sum(S \cup U) = Sum(S) + Sum(U)
    BY <1>2
  <2> HIDE DEF Sum
  <2>8. Sum(S \cup (U \cup {x})) = Sum((S \cup U) \cup {x})
    BY <2>2, Zenon
  <2>9. Sum(S \cup (U \cup {x})) = Sum(S) + Sum(U \cup {x})
    BY <1>0, <2>4, <2>5, <2>6, <2>7, <2>8
  <2> QED BY <2>9
<1>3. T \in Good
  <2> HIDE DEF Good
  <2> QED BY <1>1, <1>2, FromEmpty
<1> QED BY <1>3

(* A cardinality is a sum of ones.                                         *)
LEMMA SumOfOnes ==
  ASSUME NEW f, NEW S, IsFiniteSet(S), \A x \in S : f[x] = 1
  PROVE  SumFunctionOnSet(f, S) = Cardinality(S)
<1> DEFINE Good == {T \in SUBSET S : SumFunctionOnSet(f, T) = Cardinality(T)}
<1>1. {} \in Good
  BY SumOfNone, FS_EmptySet
<1>2. ASSUME NEW T \in SUBSET S, T \in Good, NEW x \in S \ T PROVE T \cup {x} \in Good
  <2>1. IsFiniteSet(T)
    BY FS_Subset
  <2>2. SumFunctionOnSet(f, T \cup {x}) = f[x] + SumFunctionOnSet(f, T)
    BY <2>1, SumWith DEF Numbers
  <2>3. Cardinality(T) \in Nat /\ Cardinality(T \cup {x}) = Cardinality(T) + 1
    BY <2>1, FS_AddElement, FS_CardinalityType
  <2>4. SumFunctionOnSet(f, T) = Cardinality(T) /\ f[x] = 1
    BY <1>2
  <2>5. SumFunctionOnSet(f, T \cup {x}) = Cardinality(T \cup {x})
    BY <2>2, <2>3, <2>4
  <2> QED BY <2>5
<1>3. S \in Good
  <2> HIDE DEF Good
  <2> QED BY <1>1, <1>2, FromEmpty
<1> QED BY <1>3

(* A sum of noughts.                                                       *)
LEMMA SumOfNoughts ==
  ASSUME NEW f, NEW S, IsFiniteSet(S), \A x \in S : f[x] = 0
  PROVE  SumFunctionOnSet(f, S) = 0
<1> DEFINE Good == {T \in SUBSET S : SumFunctionOnSet(f, T) = 0}
<1>1. {} \in Good
  BY SumOfNone
<1>2. ASSUME NEW T \in SUBSET S, T \in Good, NEW x \in S \ T PROVE T \cup {x} \in Good
  <2>1. IsFiniteSet(T)
    BY FS_Subset
  <2>2. SumFunctionOnSet(f, T \cup {x}) = f[x] + SumFunctionOnSet(f, T)
    BY <2>1, SumWith DEF Numbers
  <2>3. SumFunctionOnSet(f, T \cup {x}) = 0
    BY <1>2, <2>2
  <2> QED BY <2>3
<1>3. S \in Good
  <2> HIDE DEF Good
  <2> QED BY <1>1, <1>2, FromEmpty
<1> QED BY <1>3

(* A sum of numbers that are not negative is none, and that of a part is   *)
(* not above it.                                                           *)
LEMMA SumIsNatural ==
  ASSUME NEW f, NEW S, IsFiniteSet(S), \A x \in S : f[x] \in Nat
  PROVE  SumFunctionOnSet(f, S) \in Nat
<1> DEFINE Good == {T \in SUBSET S : SumFunctionOnSet(f, T) \in Nat}
<1>1. {} \in Good
  BY SumOfNone
<1>2. ASSUME NEW T \in SUBSET S, T \in Good, NEW x \in S \ T PROVE T \cup {x} \in Good
  <2>1. IsFiniteSet(T)
    BY FS_Subset
  <2>2. SumFunctionOnSet(f, T \cup {x}) = f[x] + SumFunctionOnSet(f, T)
    BY <2>1, SumWith DEF Numbers
  <2>3. SumFunctionOnSet(f, T) \in Nat /\ f[x] \in Nat
    BY <1>2
  <2>4. SumFunctionOnSet(f, T \cup {x}) \in Nat
    BY <2>2, <2>3
  <2> QED BY <2>4
<1>3. S \in Good
  <2> HIDE DEF Good
  <2> QED BY <1>1, <1>2, FromEmpty
<1> QED BY <1>3

(* A part of naturals adds up to no more than all of them.                 *)
LEMMA SumOfPart ==
  ASSUME NEW f, NEW S, NEW T \in SUBSET S, IsFiniteSet(S), \A x \in S : f[x] \in Nat
  PROVE  SumFunctionOnSet(f, T) <= SumFunctionOnSet(f, S)
<1>1. IsFiniteSet(T) /\ IsFiniteSet(S \ T)
  BY FS_Subset
<1>2. T \cup (S \ T) = S /\ T \cap (S \ T) = {}
  OBVIOUS
<1>3. Numbers(f, T \cup (S \ T))
  BY <1>2 DEF Numbers
<1>4. SumFunctionOnSet(f, T \cup (S \ T)) = SumFunctionOnSet(f, T) + SumFunctionOnSet(f, S \ T)
  BY <1>1, <1>2, <1>3, SumOfTwo
<1>5. SumFunctionOnSet(f, T) \in Nat /\ SumFunctionOnSet(f, S \ T) \in Nat
  BY <1>1, SumIsNatural
<1>6. SumFunctionOnSet(f, S) = SumFunctionOnSet(f, T \cup (S \ T))
  BY <1>2, Zenon
<1> QED BY <1>4, <1>5, <1>6

(* Every element of S is of a kind in K; g is the sum over a kind.         *)
SumsByKind(f, S, kind, K, g) ==
    /\ \A x \in S : kind[x] \in K
    /\ \A k \in K : g[k] = SumFunctionOnSet(f, {x \in S : kind[x] = k})

(* Adding up by kinds: a sum is the sum, over the kinds, of the sums of    *)
(* what is of a kind.                                                      *)
LEMMA SumByKind ==
  ASSUME NEW f, NEW S, IsFiniteSet(S), Numbers(f, S),
         NEW K, IsFiniteSet(K), NEW kind, NEW g, SumsByKind(f, S, kind, K, g)
  PROVE  SumFunctionOnSet(g, K) = SumFunctionOnSet(f, S)
<1> DEFINE Of(J) == {x \in S : kind[x] \in J}
           Good == {J \in SUBSET K : SumFunctionOnSet(g, J) = SumFunctionOnSet(f, Of(J))}
<1>9. /\ \A x \in S : kind[x] \in K
      /\ \A k \in K : g[k] = SumFunctionOnSet(f, {x \in S : kind[x] = k})
  BY DEF SumsByKind
<1>0. ASSUME NEW k \in K PROVE g[k] \in Int
  <2>1. IsFiniteSet({x \in S : kind[x] = k}) /\ Numbers(f, {x \in S : kind[x] = k})
    BY FS_Subset DEF Numbers
  <2> QED BY <1>9, <2>1, SumIsNumber
<1>1. {} \in Good
  <2>1. Of({}) = {}
    OBVIOUS
  <2> QED BY <2>1, SumOfNone
<1>2. ASSUME NEW J \in SUBSET K, J \in Good, NEW k \in K \ J PROVE J \cup {k} \in Good
  <2> DEFINE Own == {x \in S : kind[x] = k}
  <2>1. IsFiniteSet(J) /\ IsFiniteSet(Of(J)) /\ IsFiniteSet(Own)
    BY FS_Subset
  <2>2. Of(J \cup {k}) = Of(J) \cup Own /\ Of(J) \cap Own = {}
    OBVIOUS
  <2>3. Numbers(f, Of(J) \cup Own) /\ Numbers(g, J \cup {k}) /\ Numbers(f, Of(J)) /\ Numbers(f, Own)
    BY <1>0 DEF Numbers
  <2>4. g[k] = SumFunctionOnSet(f, Own)
    BY <1>9
  <2>5. SumFunctionOnSet(g, J) = SumFunctionOnSet(f, Of(J))
    BY <1>2
  <2> HIDE DEF Of, Own
  <2>6. SumFunctionOnSet(g, J \cup {k}) = g[k] + SumFunctionOnSet(g, J)
    BY <2>1, <2>3, SumWith
  <2>7. SumFunctionOnSet(f, Of(J) \cup Own) = SumFunctionOnSet(f, Of(J)) + SumFunctionOnSet(f, Own)
    BY <2>1, <2>2, <2>3, SumOfTwo
  <2>8. SumFunctionOnSet(f, Of(J)) \in Int /\ SumFunctionOnSet(f, Own) \in Int
    BY <2>1, <2>3, SumIsNumber
  <2>9. SumFunctionOnSet(f, Of(J \cup {k})) = SumFunctionOnSet(f, Of(J) \cup Own)
    BY <2>2, Zenon
  <2>10. SumFunctionOnSet(g, J \cup {k}) = SumFunctionOnSet(f, Of(J \cup {k}))
    BY <2>4, <2>5, <2>6, <2>7, <2>8, <2>9
  <2> QED BY <2>10
<1>3. K \in Good
  <2> HIDE DEF Good
  <2> QED BY <1>1, <1>2, FromEmpty
<1>4. Of(K) = S
  BY <1>9
<1> QED BY <1>3, <1>4

(* g is f after a renaming of its arguments.                               *)
Renames(f, g, K, name) ==
    /\ \A j, k \in K : name[j] = name[k] => j = k
    /\ \A k \in K : g[k] = f[name[k]] /\ g[k] \in Int

(* The values of another set, one for each.                                *)
LEMMA SumRenamed ==
  ASSUME NEW K, IsFiniteSet(K), NEW name, NEW f, NEW g, Renames(f, g, K, name)
  PROVE  /\ IsFiniteSet({name[k] : k \in K})
         /\ SumFunctionOnSet(f, {name[k] : k \in K}) = SumFunctionOnSet(g, K)
<1> DEFINE Image(J) == {name[k] : k \in J}
           Good == {J \in SUBSET K : /\ IsFiniteSet(Image(J))
                                     /\ SumFunctionOnSet(f, Image(J)) = SumFunctionOnSet(g, J)}
<1>9. /\ \A j, k \in K : name[j] = name[k] => j = k
      /\ \A k \in K : g[k] = f[name[k]] /\ g[k] \in Int
  BY DEF Renames
<1>1. {} \in Good
  <2>1. Image({}) = {}
    OBVIOUS
  <2> QED BY <2>1, SumOfNone, FS_EmptySet
<1>2. ASSUME NEW J \in SUBSET K, J \in Good, NEW k \in K \ J PROVE J \cup {k} \in Good
  <2>1. IsFiniteSet(J) /\ IsFiniteSet(Image(J))
    BY <1>2, FS_Subset
  <2>2. Image(J \cup {k}) = Image(J) \cup {name[k]} /\ name[k] \notin Image(J)
    BY <1>9
  <2>3. Numbers(f, Image(J) \cup {name[k]}) /\ Numbers(g, J \cup {k})
    BY <1>9 DEF Numbers
  <2>4. SumFunctionOnSet(f, Image(J)) = SumFunctionOnSet(g, J)
    BY <1>2
  <2> HIDE DEF Image
  <2>5. SumFunctionOnSet(f, Image(J) \cup {name[k]}) = f[name[k]] + SumFunctionOnSet(f, Image(J))
    BY <2>1, <2>2, <2>3, SumWith
  <2>6. SumFunctionOnSet(g, J \cup {k}) = g[k] + SumFunctionOnSet(g, J)
    BY <2>1, <2>3, SumWith
  <2>7. IsFiniteSet(Image(J) \cup {name[k]})
    BY <2>1, FS_AddElement
  <2>8. /\ IsFiniteSet(Image(J \cup {k}))
        /\ SumFunctionOnSet(f, Image(J \cup {k})) = SumFunctionOnSet(g, J \cup {k})
    BY <1>9, <2>2, <2>4, <2>5, <2>6, <2>7
  <2> QED BY <2>8
<1>3. K \in Good
  <2> HIDE DEF Good
  <2> QED BY <1>1, <1>2, FromEmpty
<1> QED BY <1>3

(* A number of elements is a sum of ones and noughts.                      *)
LEMMA SumOfCounted ==
  ASSUME NEW f, NEW S, IsFiniteSet(S), NEW T \in SUBSET S,
         \A x \in S : f[x] = IF x \in T THEN 1 ELSE 0
  PROVE  SumFunctionOnSet(f, S) = Cardinality(T)
<1>1. IsFiniteSet(T) /\ IsFiniteSet(S \ T)
  BY FS_Subset
<1>2. T \cup (S \ T) = S /\ T \cap (S \ T) = {}
  OBVIOUS
<1>3. Numbers(f, T \cup (S \ T))
  BY DEF Numbers
<1>4. SumFunctionOnSet(f, T \cup (S \ T)) = SumFunctionOnSet(f, T) + SumFunctionOnSet(f, S \ T)
  BY <1>1, <1>2, <1>3, SumOfTwo
<1>5. SumFunctionOnSet(f, T) = Cardinality(T)
  BY <1>1, SumOfOnes
<1>6. SumFunctionOnSet(f, S \ T) = 0
  BY <1>1, SumOfNoughts
<1>7. SumFunctionOnSet(f, S) = SumFunctionOnSet(f, T \cup (S \ T))
  BY <1>2, Zenon
<1>8. Cardinality(T) \in Nat
  BY <1>1, FS_CardinalityType
<1> QED BY <1>4, <1>5, <1>6, <1>7, <1>8

(* The values of a function on a finite set are finitely many.             *)
LEMMA ImageIsFinite ==
  ASSUME NEW S, IsFiniteSet(S), NEW f
  PROVE  IsFiniteSet({f[x] : x \in S})
<1> DEFINE T == {f[x] : x \in S}
           g == [x \in S |-> f[x]]
<1>1. g \in Surjection(S, T)
  BY DEF Surjection
<1> HIDE DEF g, T
<1>2. IsFiniteSet(T)
  BY <1>1, FS_Surjection
<1> QED BY <1>2 DEF T

(* g is the number of elements of a kind.                                  *)
CountsByKind(S, kind, K, g) ==
    /\ \A x \in S : kind[x] \in K
    /\ \A k \in K : g[k] = Cardinality({x \in S : kind[x] = k})

(* Counting by kinds.                                                      *)
LEMMA CountByKind ==
  ASSUME NEW S, IsFiniteSet(S), NEW K, IsFiniteSet(K), NEW kind, NEW g, CountsByKind(S, kind, K, g)
  PROVE  SumFunctionOnSet(g, K) = Cardinality(S)
<1> DEFINE one == [x \in S |-> 1]
<1>1. \A x \in S : one[x] = 1
  OBVIOUS
<1> HIDE DEF one
<1>2. Numbers(one, S)
  BY <1>1 DEF Numbers
<1>3. SumsByKind(one, S, kind, K, g)
  <2>1. ASSUME NEW k \in K PROVE g[k] = SumFunctionOnSet(one, {x \in S : kind[x] = k})
    <3>1. IsFiniteSet({x \in S : kind[x] = k})
      BY FS_Subset
    <3>2. SumFunctionOnSet(one, {x \in S : kind[x] = k}) = Cardinality({x \in S : kind[x] = k})
      BY <1>1, <3>1, SumOfOnes
    <3> QED BY <3>2 DEF CountsByKind
  <2> QED BY <2>1 DEF SumsByKind, CountsByKind
<1>4. SumFunctionOnSet(g, K) = SumFunctionOnSet(one, S)
  BY <1>2, <1>3, SumByKind
<1>5. SumFunctionOnSet(one, S) = Cardinality(S)
  BY <1>1, SumOfOnes
<1> QED BY <1>4, <1>5

(* Elements in disjoint sets.                                              *)
LEMMA CountOfTwo ==
  ASSUME NEW S, IsFiniteSet(S), NEW T, IsFiniteSet(T), S \cap T = {}
  PROVE  /\ IsFiniteSet(S \cup T)
         /\ Cardinality(S \cup T) = Cardinality(S) + Cardinality(T)
         /\ Cardinality(S) \in Nat /\ Cardinality(T) \in Nat
<1>1. Cardinality(S) \in Nat /\ Cardinality(T) \in Nat /\ Cardinality({}) = 0
  BY FS_CardinalityType, FS_EmptySet
<1>2. /\ IsFiniteSet(S \cup T)
      /\ Cardinality(S \cup T) = Cardinality(S) + Cardinality(T) - Cardinality(S \cap T)
  BY FS_Union
<1>3. Cardinality(S \cap T) = 0
  BY <1>1
<1> QED BY <1>1, <1>2, <1>3

(* A largest element.                                                      *)
LEMMA LargestByKey ==
  ASSUME NEW S, IsFiniteSet(S), S # {}, NEW key, Numbers(key, S)
  PROVE  \E x \in S : \A y \in S : key[y] <= key[x]
<1> DEFINE Good == {T \in SUBSET S : T # {} => \E x \in T : \A y \in T : key[y] <= key[x]}
<1>0. \A x \in S : key[x] \in Int
  BY DEF Numbers
<1>1. {} \in Good
  OBVIOUS
<1>2. ASSUME NEW T \in SUBSET S, T \in Good, NEW z \in S \ T PROVE T \cup {z} \in Good
  <2>1. CASE T = {}
    <3>1. \A y \in T \cup {z} : key[y] <= key[z]
      BY <1>0, <2>1
    <3> QED BY <3>1
  <2>2. CASE T # {}
    <3>1. PICK x \in T : \A y \in T : key[y] <= key[x]
      BY <1>2, <2>2
    <3>2. CASE key[z] <= key[x]
      <4>1. \A y \in T \cup {z} : key[y] <= key[x]
        BY <3>1, <3>2
      <4> QED BY <4>1
    <3>3. CASE ~(key[z] <= key[x])
      <4>1. \A y \in T \cup {z} : key[y] <= key[z]
        BY <1>0, <3>1, <3>3
      <4> QED BY <4>1
    <3> QED BY <3>2, <3>3
  <2> QED BY <2>1, <2>2
<1>3. S \in Good
  <2> HIDE DEF Good
  <2> QED BY <1>1, <1>2, FromEmpty
<1> QED BY <1>3

(* The least and the largest of a finite set of numbers.                   *)
LEMMA MinOfTwo ==
  ASSUME NEW a \in Int, NEW b \in Int
  PROVE  Min({a, b}) = IF a <= b THEN a ELSE b
<1> DEFINE m == IF a <= b THEN a ELSE b
<1>1. m \in {a, b} /\ \A y \in {a, b} : m <= y
  OBVIOUS
<1>2. Min({a, b}) \in {a, b} /\ \A y \in {a, b} : Min({a, b}) <= y
  BY <1>1 DEF Min
<1> QED BY <1>1, <1>2

(* The larger of two numbers.                                              *)
LEMMA MaxOfTwo ==
  ASSUME NEW a \in Int, NEW b \in Int
  PROVE  Max({a, b}) = IF a <= b THEN b ELSE a
<1> DEFINE m == IF a <= b THEN b ELSE a
<1>1. m \in {a, b} /\ \A y \in {a, b} : m >= y
  OBVIOUS
<1>2. Max({a, b}) \in {a, b} /\ \A y \in {a, b} : Max({a, b}) >= y
  BY <1>1 DEF Max
<1> QED BY <1>1, <1>2

(* A product of naturals; provers need to be told.                         *)
LEMMA ProductIsNat == ASSUME NEW a \in Nat, NEW b \in Nat PROVE a * b \in Nat
OBVIOUS

(* Whole parts of a quotient.                                              *)
LEMMA DivBounds ==
  ASSUME NEW a \in Nat, NEW b \in Nat \ {0}
  PROVE  /\ a \div b \in Nat
         /\ b * (a \div b) <= a /\ a < b * ((a \div b) + 1)
<1> DEFINE q == a \div b
<1>1. q \in Int /\ a = b * q + (a % b) /\ a % b \in 0..(b - 1)
  BY Z3
<1>2. q \in Nat
  BY <1>1
<1> HIDE DEF q
<1>3. b * (q + 1) = b * q + b
  BY <1>1
<1> QED BY <1>1, <1>2, <1>3 DEF q

(* A proper part p / b of n numbers ends before the last.                  *)
LEMMA PartIsSmaller ==
  ASSUME NEW p \in Nat, NEW b \in Nat \ {0}, p < b, NEW n \in Nat \ {0}, NEW q \in Nat, b * q <= p * n
  PROVE  q < n
<1> SUFFICES ASSUME q >= n PROVE FALSE
  OBVIOUS
<1>1. b * n <= b * q
  OBVIOUS
<1>2. p * n < b * n
  OBVIOUS
<1>3. p * n \in Int /\ b * n \in Int /\ b * q \in Int
  OBVIOUS
<1> QED BY <1>1, <1>2, <1>3

----------------------------------------------------------------------------
(* The ledger.                                                             *)
Estimates ==
    [usd: Nat \cup {None}, quality: {"ok", "partial", "no_price"}, priceId: Nat \cup {None}]

AttemptRows ==
    [contour: {"site", "agent"}, token: Tokens, provider: Providers, model: Models,
     execution: Executions, no: 1..MaxNo, started: Nat, day: Int, usage: Usages,
     source: {"response", "missing"}, est: Estimates]

KnownPrices == Prices \cup Range(BuiltIn)

PriceVersions ==
    [provider: Providers, model: Models, from: 0..MaxHour, price: KnownPrices,
     builtIn: BOOLEAN, live: BOOLEAN]

RunningCalls == [at: {"running"}, no: 1..MaxNo, started: Nat, caller: Callers]

LedgerTypes ==
    /\ hour \in 0..MaxHour /\ changes \in 0..MaxChanges
    /\ revoked \subseteq Tokens /\ marked \subseteq Providers /\ known \subseteq Providers
    /\ prices \in Seq(PriceVersions)
    /\ calls \in [Executions -> RunningCalls \cup {[at |-> "idle"], [at |-> "over"]}]
    /\ ledger \in [Keys -> AttemptRows \cup {<<>>}]

SeedsMarked == given \subseteq marked \X Models

RowKeys == {k \in Keys : ledger[k] # <<>>}

RowsFit ==
    /\ IsFiniteSet(RowKeys)
    /\ \A k \in RowKeys :
          /\ <<ledger[k].execution, ledger[k].no>> = k
          /\ ledger[k].source = IF ledger[k].usage.cost = None THEN "missing" ELSE "response"

CallersFit ==
    /\ \A k \in RowKeys :
          /\ calls[k[1]].at # "idle"
          /\ calls[k[1]].at = "running" => /\ ledger[k].token = calls[k[1]].caller.token
                                           /\ ledger[k].provider = calls[k[1]].caller.provider
    /\ \A j, k \in RowKeys :
          j[1] = k[1] => ledger[j].token = ledger[k].token /\ ledger[j].provider = ledger[k].provider

ByProvider(row) == row.contour = "agent" /\ row.provider # OpenRouter /\ row.source # "response"

EstimateFits(row, table) ==
    /\ row.est.priceId # None =>
          /\ row.est.priceId \in DOMAIN table
          /\ [usd |-> row.est.usd, quality |-> row.est.quality] =
                EstimateProviderCost(table[row.est.priceId].price, row.usage, row.started)
          /\ row.est.usd # None
    /\ ByProvider(row) =>
          row.est = ProviderEstimate(table, row.provider, row.model, row.started, row.usage)

EstimatesFit == \A k \in RowKeys : EstimateFits(ledger[k], prices)

LedgerInv == LedgerTypes /\ SeedsMarked /\ RowsFit /\ CallersFit /\ EstimatesFit

----------------------------------------------------------------------------
(* The library gives a finite set as a sequence of its length.             *)
LEMMA SetAsSeq ==
  ASSUME NEW S, IsFiniteSet(S)
  PROVE  SetToSeq(S) \in [1..Cardinality(S) -> S] /\ Cardinality(S) \in Nat
<1>1. Cardinality(S) \in Nat /\ ExistsBijection(1..Cardinality(S), S)
  BY FS_CardinalityType
<1>2. PICK f : f \in [1..Cardinality(S) -> S] /\ IsInjective(f)
  BY <1>1 DEF ExistsBijection, Bijection, Injection
<1> QED BY <1>1, <1>2 DEF SetToSeq

(* The tariff of a price is one, at peak and off it.                       *)
LEMMA TariffForm ==
  ASSUME NEW price \in KnownPrices, NEW t
  PROVE  TariffAt(price, t) \in Tariffs
BY LedgerAssumption DEF KnownPrices, TariffAt, IsPeak

(* What an estimate by a price is: a number of units, by parts of the       *)
(* prompt.                                                                 *)
LEMMA EstimateForm ==
  ASSUME NEW price \in KnownPrices, NEW usage \in Usages, NEW t
  PROVE  EstimateProviderCost(price, usage, t) \in
             [usd: Nat \cup {None}, quality: {"ok", "partial", "no_price"}]
<1> DEFINE tariff == TariffAt(price, t)
           cached == Min({usage.cached, usage.prompt})
           cacheWrite == Min({usage.cacheWrite, usage.prompt - cached})
           uncached == usage.prompt - cached - cacheWrite
           cacheRead == IF tariff.cacheRead = None THEN tariff.input ELSE tariff.cacheRead
<1>1. usage \in [prompt: Nat, cached: Nat, cacheWrite: Nat, completion: Nat, cost: Nat \cup {None}]
  BY LedgerAssumption
<1>2. tariff \in Tariffs
  BY TariffForm
<1>3. cached \in Nat /\ usage.prompt - cached \in Nat
  BY <1>1, MinOfTwo
<1>4. cacheWrite \in Nat /\ uncached \in Nat
  <2> HIDE DEF cached
  <2> QED BY <1>1, <1>3, MinOfTwo
<1>5. tariff.input \in Nat /\ cacheRead \in Nat /\ tariff.output \in Nat
  <2> HIDE DEF tariff
  <2> QED BY <1>2 DEF Tariffs
<1>6. (uncached + cacheWrite) * tariff.input \in Nat /\ cached * cacheRead \in Nat
      /\ usage.completion * tariff.output \in Nat
  <2> HIDE DEF uncached, cacheWrite, cached, cacheRead, tariff
  <2>1. uncached + cacheWrite \in Nat /\ usage.completion \in Nat
    BY <1>1, <1>4
  <2> QED BY <1>3, <1>5, <2>1, ProductIsNat
<1>7. EstimateProviderCost(price, usage, t) =
          IF usage.prompt = 0 /\ usage.completion = 0 THEN NoEstimate
          ELSE [usd |-> (uncached + cacheWrite) * tariff.input + cached * cacheRead
                         + usage.completion * tariff.output,
                quality |-> IF cached > 0 /\ tariff.cacheRead = None THEN "partial" ELSE "ok"]
  BY DEF EstimateProviderCost
<1> HIDE DEF uncached, cacheWrite, cached, cacheRead, tariff
<1> QED BY <1>6, <1>7 DEF NoEstimate, None

----------------------------------------------------------------------------
(* The price in force.                                                     *)

Past(table, p, m, t) == {i \in Versions(table, p, m) : table[i].from <= t}

InForce(table, p, m, t, i) ==
    /\ i \in Past(table, p, m, t)
    /\ \A j \in Past(table, p, m, t) :
          table[j].from < table[i].from \/ (table[j].from = table[i].from /\ j <= i)

(* Of some versions one is the last by its start and then by its number.   *)
LEMMA PriceInForce ==
  ASSUME NEW table \in Seq(PriceVersions), NEW p, NEW m, NEW t
  PROVE  /\ PriceAt(table, p, m, t) = None <=> Past(table, p, m, t) = {}
         /\ PriceAt(table, p, m, t) # None =>
               /\ PriceAt(table, p, m, t) \in DOMAIN table
               /\ InForce(table, p, m, t, PriceAt(table, p, m, t))
<1> DEFINE past == Past(table, p, m, t)
           Best(S) == \E i \in S : \A j \in S :
                         table[j].from < table[i].from \/ (table[j].from = table[i].from /\ j <= i)
           Good == {S \in SUBSET (DOMAIN table) : S = {} \/ Best(S)}
<1>1. DOMAIN table = 1..Len(table) /\ Len(table) \in Nat
      /\ \A i \in DOMAIN table : table[i].from \in Nat
  <2>1. DOMAIN table = 1..Len(table) /\ Len(table) \in Nat
    OBVIOUS
  <2>2. ASSUME NEW i \in DOMAIN table PROVE table[i].from \in Nat
    <3>1. table[i] \in PriceVersions
      BY <2>1
    <3> QED BY <3>1, LedgerAssumption DEF PriceVersions
  <2> QED BY <2>1, <2>2
<1>2. IsFiniteSet(DOMAIN table)
  BY <1>1, FS_Interval
<1>3. ASSUME NEW S \in SUBSET (DOMAIN table), S \in Good, NEW x \in DOMAIN table \ S
      PROVE  S \cup {x} \in Good
  <2>1. CASE S = {}
    <3>1. \A j \in S \cup {x} : table[j].from < table[x].from \/ (table[j].from = table[x].from /\ j <= x)
      BY <1>1, <2>1
    <3> QED BY <3>1
  <2>2. CASE S # {}
    <3>1. PICK i \in S : \A j \in S :
             table[j].from < table[i].from \/ (table[j].from = table[i].from /\ j <= i)
      BY <1>3, <2>2
    <3>2. CASE table[x].from < table[i].from \/ (table[x].from = table[i].from /\ x <= i)
      <4>1. \A j \in S \cup {x} :
             table[j].from < table[i].from \/ (table[j].from = table[i].from /\ j <= i)
        BY <3>1, <3>2
      <4> QED BY <4>1
    <3>3. CASE ~(table[x].from < table[i].from \/ (table[x].from = table[i].from /\ x <= i))
      <4>1. \A j \in S \cup {x} :
             table[j].from < table[x].from \/ (table[j].from = table[x].from /\ j <= x)
        BY <1>1, <3>1, <3>3
      <4> QED BY <4>1
    <3> QED BY <3>2, <3>3
  <2> QED BY <2>1, <2>2
<1>4. past \in SUBSET (DOMAIN table)
  BY DEF Past, Versions
<1>5. past \in Good
  <2>1. {} \in Good
    OBVIOUS
  <2> HIDE DEF Good, past
  <2> QED BY <1>2, <1>3, <1>4, <2>1, FromEmpty
<1>6. PriceAt(table, p, m, t) = IF past = {} THEN None
         ELSE CHOOSE i \in past : \A j \in past :
                 table[j].from < table[i].from \/ (table[j].from = table[i].from /\ j <= i)
  BY DEF PriceAt, Past
<1>7. ASSUME past # {}
      PROVE  PriceAt(table, p, m, t) \in past /\ \A j \in past :
                 \/ table[j].from < table[PriceAt(table, p, m, t)].from
                 \/ /\ table[j].from = table[PriceAt(table, p, m, t)].from
                    /\ j <= PriceAt(table, p, m, t)
  <2>1. Best(past)
    BY <1>5, <1>7
  <2> HIDE DEF past
  <2> QED BY <1>6, <1>7, <2>1
<1>8. past # {} => PriceAt(table, p, m, t) \in DOMAIN table /\ PriceAt(table, p, m, t) # None
  BY <1>1, <1>4, <1>7 DEF None
<1> QED BY <1>6, <1>7, <1>8 DEF InForce

(* The version in force is one of its own provider and model.              *)
LEMMA OneInForce ==
  ASSUME NEW table \in Seq(PriceVersions), NEW p, NEW m, NEW t, NEW i, NEW j,
         InForce(table, p, m, t, i), InForce(table, p, m, t, j)
  PROVE  i = j
<1>1. i \in DOMAIN table /\ j \in DOMAIN table
  BY DEF InForce, Past, Versions
<1>2. table[i].from \in Nat /\ table[j].from \in Nat /\ i \in Nat /\ j \in Nat
  <2>1. table[i] \in PriceVersions /\ table[j] \in PriceVersions
    BY <1>1
  <2> QED BY <1>1, <2>1, LedgerAssumption DEF PriceVersions
<1> QED BY <1>2 DEF InForce

(* What an estimate by the prices of a provider is.                        *)
LEMMA EstimateByProvider ==
  ASSUME NEW table \in Seq(PriceVersions), NEW p, NEW m, NEW t, NEW usage \in Usages
  PROVE  /\ ProviderEstimate(table, p, m, t, usage) \in Estimates
         /\ LET e == ProviderEstimate(table, p, m, t, usage)
            IN  e.priceId # None =>
                    /\ e.priceId \in DOMAIN table /\ e.usd # None
                    /\ [usd |-> e.usd, quality |-> e.quality] =
                          EstimateProviderCost(table[e.priceId].price, usage, t)
<1> DEFINE id == PriceAt(table, p, m, t)
           c == EstimateProviderCost(table[id].price, usage, t)
           e == ProviderEstimate(table, p, m, t, usage)
<1>1. id # None => id \in DOMAIN table
  BY PriceInForce
<1>2. ASSUME id \in DOMAIN table PROVE table[id].price \in KnownPrices /\ id \in Nat
  <2> HIDE DEF id
  <2>1. table[id] \in PriceVersions /\ id \in Nat
    BY <1>2
  <2> QED BY <2>1 DEF PriceVersions
<1>3. CASE id = None
  <2>1. e = [usd |-> None, quality |-> "no_price", priceId |-> None]
    BY <1>3 DEF ProviderEstimate, Estimated, NoEstimate
  <2> QED BY <2>1 DEF Estimates
<1>4. CASE id # None
  <2>1. c \in [usd: Nat \cup {None}, quality: {"ok", "partial", "no_price"}]
    <3> HIDE DEF id
    <3> QED BY <1>1, <1>2, <1>4, EstimateForm
  <2>2. e = [usd |-> c.usd, quality |-> c.quality,
             priceId |-> IF c.usd = None THEN None ELSE id]
    BY <1>4 DEF ProviderEstimate, Estimated
  <2>3. id \in Nat
    BY <1>1, <1>2, <1>4
  <2>4. e.priceId # None => e.priceId = id /\ e.usd # None /\ e.usd = c.usd /\ e.quality = c.quality
    <3> HIDE DEF c, id, e
    <3> QED BY <2>2
  <2>5. e \in Estimates
    <3> HIDE DEF c, id, e
    <3> QED BY <2>1, <2>2, <2>3 DEF Estimates
  <2>6. c = [usd |-> c.usd, quality |-> c.quality]
    <3> HIDE DEF c
    <3> QED BY <2>1
  <2>7. e.priceId # None => /\ e.priceId \in DOMAIN table /\ e.usd # None
                            /\ [usd |-> e.usd, quality |-> e.quality] =
                                 EstimateProviderCost(table[e.priceId].price, usage, t)
    BY <1>1, <1>4, <2>4, <2>6
  <2> QED BY <2>5, <2>7
<1> QED BY <1>3, <1>4

----------------------------------------------------------------------------
(* Changes of the table of prices.                                         *)

(* What a table has more than another are versions of the pairs, from some *)
(* hour on.                                                                *)
Extended(old, new, pairs, from) ==
    /\ DOMAIN old \subseteq DOMAIN new /\ \A i \in DOMAIN old : new[i] = old[i]
    /\ \A i \in DOMAIN new \ DOMAIN old :
          <<new[i].provider, new[i].model>> \in pairs /\ from <= new[i].from

(* An estimate is decided by the versions that start before the attempt.   *)
LEMMA SamePast ==
  ASSUME NEW old \in Seq(PriceVersions), NEW new \in Seq(PriceVersions), NEW p, NEW m, NEW t,
         Past(new, p, m, t) = Past(old, p, m, t),
         \A i \in Past(old, p, m, t) : new[i].from = old[i].from /\ new[i].price = old[i].price,
         NEW usage
  PROVE  ProviderEstimate(new, p, m, t, usage) = ProviderEstimate(old, p, m, t, usage)
<1>1. PriceAt(new, p, m, t) = None <=> PriceAt(old, p, m, t) = None
  BY PriceInForce
<1>2. ASSUME PriceAt(old, p, m, t) # None
      PROVE  InForce(old, p, m, t, PriceAt(new, p, m, t))
  <2>1. InForce(new, p, m, t, PriceAt(new, p, m, t))
    BY <1>1, <1>2, PriceInForce
  <2> QED BY <2>1 DEF InForce
<1>3. PriceAt(new, p, m, t) = PriceAt(old, p, m, t)
  BY <1>1, <1>2, PriceInForce, OneInForce
<1>4. PriceAt(old, p, m, t) # None =>
         new[PriceAt(old, p, m, t)].price = old[PriceAt(old, p, m, t)].price
  BY PriceInForce DEF InForce
<1> QED BY <1>3, <1>4 DEF ProviderEstimate

(* The rest of the estimates does not see them.                            *)
LEMMA SameInForce ==
  ASSUME NEW old \in Seq(PriceVersions), NEW new \in Seq(PriceVersions), NEW pairs,
         NEW from \in Nat, Extended(old, new, pairs, from),
         NEW p, NEW m, NEW t \in Nat, <<p, m>> \notin pairs \/ t < from, NEW usage
  PROVE  ProviderEstimate(new, p, m, t, usage) = ProviderEstimate(old, p, m, t, usage)
<1>1. ASSUME NEW i \in DOMAIN new, i \in Past(new, p, m, t) PROVE i \in DOMAIN old
  <2>1. new[i].provider = p /\ new[i].model = m /\ new[i].from <= t /\ new[i].from \in Nat
    <3>1. new[i] \in PriceVersions
      OBVIOUS
    <3>2. new[i].from \in Nat
      BY <3>1, LedgerAssumption DEF PriceVersions
    <3> QED BY <1>1, <3>2 DEF Past, Versions
  <2> QED BY <2>1 DEF Extended
<1>2. Past(new, p, m, t) = Past(old, p, m, t)
  BY <1>1 DEF Past, Versions, Extended
<1>3. \A i \in Past(old, p, m, t) : i \in DOMAIN old /\ new[i] = old[i]
  BY DEF Past, Versions, Extended
<1> QED BY <1>2, <1>3, SamePast

(* The rows that stay, but for their estimates.                            *)
RowsKept(old, new) ==
    /\ new \in [Keys -> AttemptRows \cup {<<>>}]
    /\ \A k \in Keys :
          /\ (new[k] = <<>>) <=> (old[k] = <<>>)
          /\ old[k] # <<>> =>
                /\ new[k].execution = old[k].execution /\ new[k].no = old[k].no
                /\ new[k].usage = old[k].usage /\ new[k].source = old[k].source
                /\ new[k].token = old[k].token /\ new[k].provider = old[k].provider
                /\ new[k].contour = old[k].contour /\ new[k].model = old[k].model
                /\ new[k].started = old[k].started

(* A row is told from an empty place of the table.                         *)
LEMMA RowIsNotEmpty == ASSUME NEW row \in AttemptRows PROVE row # <<>>
<1>1. "no" \in DOMAIN row
  BY DEF AttemptRows
<1> QED BY <1>1

(* A row with another estimate is a row.                                   *)
LEMMA NewEstimate ==
  ASSUME NEW row \in AttemptRows, NEW e \in Estimates
  PROVE  /\ [row EXCEPT !.est = e] \in AttemptRows
         /\ [row EXCEPT !.est = e].est = e
         /\ \A field \in {"execution", "no", "usage", "source", "token", "provider", "contour",
                          "model", "started", "day"} : [row EXCEPT !.est = e][field] = row[field]
BY DEF AttemptRows

(* Estimates that are made anew where the prices are new.                  *)
LEMMA RepricedRows ==
  ASSUME NEW old \in Seq(PriceVersions), NEW new \in Seq(PriceVersions), NEW pairs,
         NEW from \in Nat, Extended(old, new, pairs, from),
         NEW table \in [Keys -> AttemptRows \cup {<<>>}],
         \A k \in Keys : table[k] # <<>> => EstimateFits(table[k], old)
  PROVE  /\ RowsKept(table, Repriced(table, new, pairs, from))
         /\ \A k \in Keys : table[k] # <<>> =>
               EstimateFits(Repriced(table, new, pairs, from)[k], new)
<1> DEFINE after == Repriced(table, new, pairs, from)
           E(k) == ProviderEstimate(new, table[k].provider, table[k].model, table[k].started, table[k].usage)
<1>1. after = [k \in Keys |-> IF ToReprice(table[k], pairs, from)
                              THEN [table[k] EXCEPT !.est = E(k)] ELSE table[k]]
  BY DEF Repriced
<1>2. ASSUME NEW k \in Keys, table[k] = <<>> PROVE after[k] = <<>>
  BY <1>1, <1>2 DEF ToReprice
<1>3. ASSUME NEW k \in Keys, table[k] # <<>>
      PROVE  /\ after[k] \in AttemptRows
             /\ \A field \in {"execution", "no", "usage", "source", "token", "provider", "contour",
                          "model", "started", "day"} : after[k][field] = table[k][field]
             /\ EstimateFits(after[k], new)
  <2>1. table[k] \in AttemptRows /\ EstimateFits(table[k], old)
    BY <1>3
  <2>2. table[k].usage \in Usages /\ table[k].started \in Nat
    BY <2>1 DEF AttemptRows
  <2>3. CASE ToReprice(table[k], pairs, from)
    <3>1. after[k] = [table[k] EXCEPT !.est = E(k)]
      BY <1>1, <2>3
    <3>2. /\ E(k) \in Estimates
          /\ E(k).priceId # None =>
                    /\ E(k).priceId \in DOMAIN new /\ E(k).usd # None
                    /\ [usd |-> E(k).usd, quality |-> E(k).quality] =
                          EstimateProviderCost(new[E(k).priceId].price, table[k].usage, table[k].started)
      BY <2>2, EstimateByProvider
    <3> HIDE DEF after
    <3>3. /\ after[k] \in AttemptRows /\ after[k].est = E(k)
          /\ \A field \in {"execution", "no", "usage", "source", "token", "provider", "contour",
                          "model", "started", "day"} : after[k][field] = table[k][field]
      <4> HIDE DEF E
      <4> QED BY <2>1, <3>1, <3>2, NewEstimate
    <3>4. /\ after[k].usage = table[k].usage /\ after[k].started = table[k].started
          /\ after[k].provider = table[k].provider /\ after[k].model = table[k].model
      BY <3>3
    <3>5. after[k].est.priceId # None =>
             /\ after[k].est.priceId \in DOMAIN new /\ after[k].est.usd # None
             /\ [usd |-> after[k].est.usd, quality |-> after[k].est.quality] =
                   EstimateProviderCost(new[after[k].est.priceId].price, after[k].usage, after[k].started)
      <4>1. after[k].est = E(k)
        BY <3>3
      <4> HIDE DEF E
      <4> QED BY <3>2, <3>4, <4>1
    <3>6. after[k].est = ProviderEstimate(new, after[k].provider, after[k].model,
                                          after[k].started, after[k].usage)
      BY <3>3, <3>4
    <3> QED BY <3>3, <3>5, <3>6 DEF EstimateFits
  <2>4. CASE ~ToReprice(table[k], pairs, from)
    <3>1. after[k] = table[k]
      BY <1>1, <2>4
    <3> HIDE DEF after
    <3>2. table[k].est.priceId # None =>
             /\ table[k].est.priceId \in DOMAIN new
             /\ new[table[k].est.priceId] = old[table[k].est.priceId]
      BY <2>1 DEF EstimateFits, Extended
    <3>3. ASSUME ByProvider(table[k])
          PROVE  table[k].est = E(k)
      <4>1. <<table[k].provider, table[k].model>> \notin pairs \/ table[k].started < from
        BY <1>3, <2>2, <2>4, <3>3 DEF ToReprice, ByProvider
      <4>2. E(k) = ProviderEstimate(old, table[k].provider, table[k].model, table[k].started, table[k].usage)
        BY <2>2, <4>1, SameInForce
      <4> QED BY <2>1, <3>3, <4>2 DEF EstimateFits
    <3>4. EstimateFits(table[k], new)
      BY <2>1, <3>2, <3>3 DEF EstimateFits
    <3> QED BY <2>1, <3>1, <3>4
  <2> QED BY <2>3, <2>4
<1>4. DOMAIN after = Keys
  BY <1>1
<1>5. after \in [Keys -> AttemptRows \cup {<<>>}]
  <2>1. \A k \in Keys : after[k] \in AttemptRows \cup {<<>>}
    BY <1>2, <1>3
  <2>2. after = [k \in Keys |-> after[k]]
    BY <1>1
  <2> HIDE DEF after
  <2> QED BY <2>1, <2>2
<1>6. RowsKept(table, after)
  <2>1. ASSUME NEW k \in Keys, table[k] # <<>> PROVE after[k] # <<>>
    BY <1>3, <2>1, RowIsNotEmpty
  <2> HIDE DEF after
  <2> QED BY <1>2, <1>3, <1>5, <2>1 DEF RowsKept
<1> QED BY <1>3, <1>6

(* A table without the versions of a pair, which keep their numbers.       *)
Without(old, new, p, m) ==
    /\ DOMAIN new = DOMAIN old
    /\ \A i \in DOMAIN old :
            /\ new[i].provider = old[i].provider /\ new[i].model = old[i].model
            /\ new[i].from = old[i].from /\ new[i].price = old[i].price
            /\ new[i].live <=> (old[i].live /\ ~(old[i].provider = p /\ old[i].model = m))

(* Estimates that are cleared where the prices are deleted.                *)
LEMMA ClearedRows ==
  ASSUME NEW p, NEW m, NEW old \in Seq(PriceVersions), NEW new \in Seq(PriceVersions),
         Without(old, new, p, m),
         NEW table \in [Keys -> AttemptRows \cup {<<>>}],
         \A k \in Keys : table[k] # <<>> => EstimateFits(table[k], old)
  PROVE  /\ RowsKept(table, Cleared(table, p, m))
         /\ \A k \in Keys : table[k] # <<>> => EstimateFits(Cleared(table, p, m)[k], new)
<1> DEFINE after == Cleared(table, p, m)
           e == Estimated(NoEstimate, None)
<1>0. e = [usd |-> None, quality |-> "no_price", priceId |-> None] /\ e \in Estimates
  BY DEF Estimated, NoEstimate, Estimates
<1>1. after = [k \in Keys |-> IF ToReprice(table[k], {<<p, m>>}, 0)
                              THEN [table[k] EXCEPT !.est = e] ELSE table[k]]
  BY DEF Cleared
<1>2. ASSUME NEW k \in Keys, table[k] = <<>> PROVE after[k] = <<>>
  BY <1>1, <1>2 DEF ToReprice
<1>3. ASSUME NEW k \in Keys, table[k] # <<>>
      PROVE  /\ after[k] \in AttemptRows
             /\ \A field \in {"execution", "no", "usage", "source", "token", "provider", "contour",
                          "model", "started", "day"} : after[k][field] = table[k][field]
             /\ EstimateFits(after[k], new)
  <2>1. table[k] \in AttemptRows /\ EstimateFits(table[k], old)
    BY <1>3
  <2>2. table[k].usage \in Usages /\ table[k].started \in Nat
    BY <2>1 DEF AttemptRows
  <2>3. CASE ToReprice(table[k], {<<p, m>>}, 0)
    <3>1. after[k] = [table[k] EXCEPT !.est = e]
      BY <1>1, <2>3
    <3> HIDE DEF after
    <3>2. /\ after[k] \in AttemptRows /\ after[k].est = e
          /\ \A field \in {"execution", "no", "usage", "source", "token", "provider", "contour",
                          "model", "started", "day"} : after[k][field] = table[k][field]
      <4> HIDE DEF e
      <4> QED BY <1>0, <2>1, <3>1, NewEstimate
    <3>3. after[k].provider = p /\ after[k].model = m
      BY <2>3, <3>2 DEF ToReprice
    <3>4. ProviderEstimate(new, p, m, after[k].started, after[k].usage) = e
      <4>1. Past(new, p, m, after[k].started) = {}
        BY DEF Past, Versions, Without
      <4>2. PriceAt(new, p, m, after[k].started) = None
        BY <4>1, PriceInForce
      <4> QED BY <4>2 DEF ProviderEstimate
    <3>5. after[k].est.priceId = None
      BY <1>0, <3>2
    <3> QED BY <3>2, <3>3, <3>4, <3>5 DEF EstimateFits
  <2>4. CASE ~ToReprice(table[k], {<<p, m>>}, 0)
    <3>1. after[k] = table[k]
      BY <1>1, <2>4
    <3> HIDE DEF after
    <3>3. ASSUME ByProvider(table[k])
          PROVE  table[k].est =
                    ProviderEstimate(new, table[k].provider, table[k].model, table[k].started, table[k].usage)
      <4> DEFINE q == table[k].provider
                 n == table[k].model
                 t == table[k].started
      <4>1. ~(q = p /\ n = m)
        BY <1>3, <2>2, <2>4, <3>3 DEF ToReprice, ByProvider
      <4>2. table[k].est = ProviderEstimate(old, q, n, t, table[k].usage)
        BY <2>1, <3>3 DEF EstimateFits
      <4> HIDE DEF q, n, t
      <4>3. Past(new, q, n, t) = Past(old, q, n, t)
        BY <4>1 DEF Past, Versions, Without
      <4>4. \A i \in Past(old, q, n, t) : new[i].from = old[i].from /\ new[i].price = old[i].price
        BY DEF Past, Versions, Without
      <4>5. ProviderEstimate(new, q, n, t, table[k].usage) = ProviderEstimate(old, q, n, t, table[k].usage)
        BY <4>3, <4>4, SamePast
      <4> QED BY <4>2, <4>5 DEF q, n, t
    <3>4. EstimateFits(table[k], new)
      BY <2>1, <3>3 DEF EstimateFits, Without
    <3> QED BY <2>1, <3>1, <3>4
  <2> QED BY <2>3, <2>4
<1>5. after \in [Keys -> AttemptRows \cup {<<>>}]
  <2>1. \A k \in Keys : after[k] \in AttemptRows \cup {<<>>}
    BY <1>2, <1>3
  <2>2. after = [k \in Keys |-> after[k]]
    BY <1>1
  <2> HIDE DEF after
  <2> QED BY <2>1, <2>2
<1>6. RowsKept(table, after)
  <2>1. ASSUME NEW k \in Keys, table[k] # <<>> PROVE after[k] # <<>>
    BY <1>3, <2>1, RowIsNotEmpty
  <2> HIDE DEF after
  <2> QED BY <1>2, <1>3, <1>5, <2>1 DEF RowsKept
<1> QED BY <1>3, <1>6

(* What the rows are otherwise does not change with their estimates.       *)
LEMMA KeptRowsFit ==
  ASSUME LedgerTypes, RowsFit, CallersFit, RowsKept(ledger, ledger'),
         \A x \in Executions : \/ calls'[x] = calls[x]
                               \/ calls[x].at = "running" /\ calls'[x] = [at |-> "over"]
  PROVE  RowsFit' /\ CallersFit' /\ RowKeys' = RowKeys
<1>1. RowKeys' = RowKeys
  BY DEF RowKeys, RowsKept
<1>2. RowsFit'
  <2>1. IsFiniteSet(RowKeys')
    BY <1>1 DEF RowsFit
  <2>2. ASSUME NEW k \in RowKeys'
        PROVE  /\ <<ledger'[k].execution, ledger'[k].no>> = k
               /\ ledger'[k].source = IF ledger'[k].usage.cost = None THEN "missing" ELSE "response"
    <3>1. k \in Keys /\ ledger[k] # <<>>
      BY <1>1 DEF RowKeys
    <3>2. /\ ledger'[k].execution = ledger[k].execution /\ ledger'[k].no = ledger[k].no
          /\ ledger'[k].usage = ledger[k].usage /\ ledger'[k].source = ledger[k].source
      BY <3>1 DEF RowsKept
    <3> QED BY <1>1, <3>2 DEF RowsFit
  <2> QED BY <2>1, <2>2 DEF RowsFit
<1>3. ASSUME NEW k \in RowKeys
      PROVE  /\ ledger'[k].token = ledger[k].token /\ ledger'[k].provider = ledger[k].provider
             /\ k[1] \in Executions
  BY DEF RowKeys, RowsKept, Keys
<1>4. ASSUME NEW k \in RowKeys
      PROVE  /\ calls'[k[1]].at # "idle"
             /\ calls'[k[1]].at = "running" =>
                   /\ ledger'[k].token = calls'[k[1]].caller.token
                   /\ ledger'[k].provider = calls'[k[1]].caller.provider
  BY <1>3 DEF CallersFit
<1> QED BY <1>1, <1>2, <1>3, <1>4 DEF CallersFit

----------------------------------------------------------------------------
(* The steps.                                                              *)

(* The invariant holds of an empty ledger.                                 *)
LEMMA LedgerStart == LedgerInit => LedgerInv
<1> SUFFICES ASSUME LedgerInit PROVE LedgerInv
  OBVIOUS
<1>1. LedgerTypes
  BY LedgerAssumption DEF LedgerInit, LedgerTypes
<1>2. RowKeys = {}
  BY DEF LedgerInit, RowKeys
<1>3. RowsFit /\ CallersFit /\ EstimatesFit
  BY <1>2, FS_EmptySet DEF RowsFit, CallersFit, EstimatesFit
<1>4. SeedsMarked
  BY DEF LedgerInit, SeedsMarked
<1> QED BY <1>1, <1>3, <1>4 DEF LedgerInv

(* A version that is set or seeded is one.                                 *)
LEMMA VersionForm ==
  ASSUME NEW p \in Providers, NEW m \in Models, NEW from \in 0..MaxHour,
         NEW price \in KnownPrices, NEW builtIn \in BOOLEAN
  PROVE  NewVersion(p, m, from, price, builtIn) \in PriceVersions
BY DEF NewVersion, PriceVersions

(* A price that is set, be it for the past, leaves every estimate in       *)
(* force.                                                                  *)
LEMMA SetPriceKeeps ==
  ASSUME LedgerInv, NEW p \in Providers, NEW m \in Models, NEW from \in 0..MaxHour,
         NEW price \in Prices, SetPrice(p, m, from, price)
  PROVE  LedgerInv'
<1> DEFINE v == NewVersion(p, m, from, price, FALSE)
<1>1. prices' = Append(prices, v) /\ ledger' = Repriced(ledger, prices', {<<p, m>>}, from)
  BY DEF SetPrice
<1>2. v \in PriceVersions /\ v.provider = p /\ v.model = m /\ v.from = from
  <2>1. price \in KnownPrices
    BY DEF KnownPrices
  <2> QED BY <2>1, VersionForm DEF NewVersion
<1>3. prices \in Seq(PriceVersions) /\ ledger \in [Keys -> AttemptRows \cup {<<>>}]
  BY DEF LedgerInv, LedgerTypes
<1> HIDE DEF v
<1>4. prices' \in Seq(PriceVersions) /\ Extended(prices, prices', {<<p, m>>}, from)
  <2>1. prices' \in Seq(PriceVersions) /\ Len(prices') = Len(prices) + 1
    BY <1>1, <1>2, <1>3
  <2>2. \A i \in DOMAIN prices : i \in DOMAIN prices' /\ prices'[i] = prices[i]
    BY <1>1, <1>2, <1>3
  <2>3. \A i \in DOMAIN prices' \ DOMAIN prices : prices'[i] = v
    BY <1>1, <1>2, <1>3
  <2>4. from \in Nat
    BY LedgerAssumption
  <2> QED BY <1>2, <2>1, <2>2, <2>3, <2>4 DEF Extended
<1>5. \A k \in Keys : ledger[k] # <<>> => EstimateFits(ledger[k], prices)
  BY DEF LedgerInv, EstimatesFit, RowKeys
<1>6. /\ RowsKept(ledger, ledger')
      /\ \A k \in Keys : ledger[k] # <<>> => EstimateFits(ledger'[k], prices')
  <2>1. from \in Nat
    BY LedgerAssumption
  <2> QED BY <1>1, <1>3, <1>4, <1>5, <2>1, RepricedRows
<1>7. RowsFit' /\ CallersFit' /\ RowKeys' = RowKeys
  BY <1>6, KeptRowsFit DEF LedgerInv, SetPrice
<1>8. EstimatesFit'
  BY <1>6, <1>7 DEF EstimatesFit, RowKeys
<1>9. LedgerTypes'
  <2>1. changes' \in 0..MaxChanges
    BY LedgerAssumption DEF LedgerInv, LedgerTypes, SetPrice
  <2> QED BY <1>4, <1>6, <2>1 DEF LedgerInv, LedgerTypes, SetPrice, RowsKept
<1>10. SeedsMarked'
  BY DEF LedgerInv, SeedsMarked, SetPrice
<1> QED BY <1>7, <1>8, <1>9, <1>10 DEF LedgerInv

(* So does the deletion of all prices of a model.                          *)
LEMMA DeletePriceKeeps ==
  ASSUME LedgerInv, NEW p \in Providers, NEW m \in Models, DeletePrice(p, m)
  PROVE  LedgerInv'
<1>1. prices \in Seq(PriceVersions) /\ ledger \in [Keys -> AttemptRows \cup {<<>>}]
  BY DEF LedgerInv, LedgerTypes
<1>2. /\ prices' = [i \in DOMAIN prices |-> IF i \in Versions(prices, p, m)
                          THEN [prices[i] EXCEPT !.live = FALSE] ELSE prices[i]]
      /\ ledger' = Cleared(ledger, p, m)
  BY DEF DeletePrice
<1>3. ASSUME NEW i \in DOMAIN prices
      PROVE  /\ prices'[i] \in PriceVersions
             /\ prices'[i].provider = prices[i].provider /\ prices'[i].model = prices[i].model
             /\ prices'[i].from = prices[i].from /\ prices'[i].price = prices[i].price
             /\ prices'[i].live <=> (prices[i].live /\ ~(prices[i].provider = p /\ prices[i].model = m))
  <2>1. prices[i] \in PriceVersions
    BY <1>1
  <2>2. CASE i \in Versions(prices, p, m)
    <3>1. prices'[i] = [prices[i] EXCEPT !.live = FALSE]
      BY <1>2, <2>2
    <3>2. prices[i].provider = p /\ prices[i].model = m
      BY <2>2 DEF Versions
    <3> QED BY <2>1, <3>1, <3>2 DEF PriceVersions
  <2>3. CASE i \notin Versions(prices, p, m)
    <3>1. prices'[i] = prices[i]
      BY <1>2, <2>3
    <3>2. ~(prices[i].live /\ prices[i].provider = p /\ prices[i].model = m)
      BY <2>3 DEF Versions
    <3>3. prices[i].live \in BOOLEAN
      BY <2>1 DEF PriceVersions
    <3> QED BY <2>1, <3>1, <3>2, <3>3
  <2> QED BY <2>2, <2>3
<1>4. prices' \in Seq(PriceVersions) /\ DOMAIN prices' = DOMAIN prices
  <2>1. DOMAIN prices' = 1..Len(prices) /\ Len(prices) \in Nat
    BY <1>1, <1>2
  <2>2. prices' = [i \in 1..Len(prices) |-> prices'[i]]
    BY <1>1, <1>2
  <2>3. \A i \in 1..Len(prices) : prices'[i] \in PriceVersions
    BY <1>1, <1>3
  <2> QED BY <1>1, <2>1, <2>2, <2>3
<1>5. \A k \in Keys : ledger[k] # <<>> => EstimateFits(ledger[k], prices)
  BY DEF LedgerInv, EstimatesFit, RowKeys
<1>6. /\ RowsKept(ledger, ledger')
      /\ \A k \in Keys : ledger[k] # <<>> => EstimateFits(ledger'[k], prices')
  <2> DEFINE new == prices'
  <2>1. Without(prices, new, p, m)
    BY <1>3, <1>4 DEF Without
  <2>2. new \in Seq(PriceVersions)
    BY <1>4
  <2> HIDE DEF new
  <2>3. /\ RowsKept(ledger, Cleared(ledger, p, m))
        /\ \A k \in Keys : ledger[k] # <<>> => EstimateFits(Cleared(ledger, p, m)[k], new)
    BY <1>1, <1>5, <2>1, <2>2, ClearedRows
  <2> QED BY <1>2, <2>3 DEF new
<1>7. RowsFit' /\ CallersFit' /\ RowKeys' = RowKeys
  BY <1>6, KeptRowsFit DEF LedgerInv, DeletePrice
<1>8. EstimatesFit'
  BY <1>6, <1>7 DEF EstimatesFit, RowKeys
<1>9. LedgerTypes'
  BY <1>4, <1>6 DEF LedgerInv, LedgerTypes, DeletePrice, RowsKept
<1>10. SeedsMarked'
  BY DEF LedgerInv, SeedsMarked, DeletePrice
<1> QED BY <1>7, <1>8, <1>9, <1>10 DEF LedgerInv

(* What the built-in list adds.                                            *)
LEMMA SeedAdds ==
  ASSUME LedgerInv, NEW ps \in SUBSET Providers, SeedKnownProviderPrices(ps)
  PROVE  /\ prices' \in Seq(PriceVersions) /\ Extended(prices, prices', Unpriced(ps), 0)
         /\ \A i \in DOMAIN prices' \ DOMAIN prices :
               <<prices'[i].provider, prices'[i].model>> \in ps \X Models
<1> DEFINE S == Unpriced(ps)
           added == SetToSeq(S)
           new == [i \in DOMAIN added |->
                     NewVersion(added[i][1], added[i][2], 0, BuiltIn[added[i][2]], TRUE)]
<1>1. prices \in Seq(PriceVersions)
  BY DEF LedgerInv, LedgerTypes
<1>2. S \subseteq ps \X DOMAIN BuiltIn /\ IsFiniteSet(S)
  <2>1. IsFiniteSet(ps \X DOMAIN BuiltIn)
    BY LedgerAssumption, FS_Subset, FS_Product
  <2>2. S \subseteq ps \X DOMAIN BuiltIn
    BY DEF Unpriced
  <2> QED BY <2>1, <2>2, FS_Subset
<1>3. added \in [1..Cardinality(S) -> S] /\ Cardinality(S) \in Nat
  <2> HIDE DEF S
  <2> QED BY <1>2, SetAsSeq
<1>4. prices' = prices \o new
  BY DEF SeedKnownProviderPrices
<1>5. ASSUME NEW i \in DOMAIN added
      PROVE  /\ new[i] \in PriceVersions /\ new[i].from = 0
             /\ <<new[i].provider, new[i].model>> \in S
             /\ <<new[i].provider, new[i].model>> \in ps \X Models
  <2>1. added[i] \in S
    BY <1>3
  <2>2. added[i] = <<added[i][1], added[i][2]>> /\ added[i][1] \in ps /\ added[i][2] \in DOMAIN BuiltIn
    BY <1>2, <2>1
  <2>3. BuiltIn[added[i][2]] \in KnownPrices /\ added[i][2] \in Models
    BY <2>2, LedgerAssumption DEF KnownPrices, Range
  <2>4. 0 \in 0..MaxHour
    BY LedgerAssumption
  <2>5. new[i] = NewVersion(added[i][1], added[i][2], 0, BuiltIn[added[i][2]], TRUE)
    OBVIOUS
  <2> HIDE DEF new, added, S
  <2>6. new[i] \in PriceVersions
    BY <2>2, <2>3, <2>4, <2>5, VersionForm
  <2>7. new[i].provider = added[i][1] /\ new[i].model = added[i][2] /\ new[i].from = 0
    BY <2>5 DEF NewVersion
  <2> QED BY <2>1, <2>2, <2>3, <2>6, <2>7
<1>6. new \in Seq(PriceVersions) /\ DOMAIN new = DOMAIN added
  <2>1. DOMAIN new = 1..Cardinality(S) /\ DOMAIN new = DOMAIN added
    BY <1>3
  <2>2. new = [i \in 1..Cardinality(S) |-> new[i]]
    BY <2>1
  <2> HIDE DEF new, added
  <2>3. \A i \in 1..Cardinality(S) : new[i] \in PriceVersions
    BY <1>5, <2>1
  <2> HIDE DEF S
  <2> QED BY <1>3, <2>1, <2>2, <2>3
<1> HIDE DEF new, added
<1>7. prices' \in Seq(PriceVersions) /\ DOMAIN prices \subseteq DOMAIN prices'
      /\ \A i \in DOMAIN prices : prices'[i] = prices[i]
  BY <1>1, <1>4, <1>6
<1>8. ASSUME NEW i \in DOMAIN prices' \ DOMAIN prices
      PROVE  i - Len(prices) \in DOMAIN added /\ prices'[i] = new[i - Len(prices)]
  BY <1>1, <1>4, <1>6
<1>9. \A i \in DOMAIN prices' \ DOMAIN prices :
         /\ <<prices'[i].provider, prices'[i].model>> \in S /\ 0 <= prices'[i].from
         /\ <<prices'[i].provider, prices'[i].model>> \in ps \X Models
  <2> HIDE DEF S
  <2>1. ASSUME NEW i \in DOMAIN prices' \ DOMAIN prices
        PROVE  /\ <<prices'[i].provider, prices'[i].model>> \in S /\ 0 <= prices'[i].from
               /\ <<prices'[i].provider, prices'[i].model>> \in ps \X Models
    <3> DEFINE j == i - Len(prices)
    <3>1. j \in DOMAIN added /\ prices'[i] = new[j]
      BY <1>8
    <3>2. /\ new[j].from = 0 /\ <<new[j].provider, new[j].model>> \in S
          /\ <<new[j].provider, new[j].model>> \in ps \X Models
      BY <1>5, <3>1
    <3> HIDE DEF j
    <3> QED BY <3>1, <3>2
  <2> QED BY <2>1
<1> QED BY <1>7, <1>9 DEF Extended

(* So does a restart, with the built-in prices it gives.                   *)
LEMMA RestartKeeps ==
  ASSUME LedgerInv, Restart
  PROVE  LedgerInv'
<1>1. PICK ps \in SUBSET {p \in Providers : Unseeded(p)} : SeedKnownProviderPrices(ps)
  BY DEF Restart
<1>2. ps \in SUBSET Providers
  OBVIOUS
<1>3. prices \in Seq(PriceVersions) /\ ledger \in [Keys -> AttemptRows \cup {<<>>}]
  BY DEF LedgerInv, LedgerTypes
<1>4. prices' \in Seq(PriceVersions) /\ Extended(prices, prices', Unpriced(ps), 0)
  BY <1>1, <1>2, SeedAdds
<1>5. ledger' = Repriced(ledger, prices', Unpriced(ps), 0)
  BY <1>1 DEF SeedKnownProviderPrices
<1>6. /\ RowsKept(ledger, ledger')
      /\ \A k \in Keys : ledger[k] # <<>> => EstimateFits(ledger'[k], prices')
  <2>1. \A k \in Keys : ledger[k] # <<>> => EstimateFits(ledger[k], prices)
    BY DEF LedgerInv, EstimatesFit, RowKeys
  <2> QED BY <1>3, <1>4, <1>5, <2>1, RepricedRows
<1>7. RowsFit' /\ CallersFit' /\ RowKeys' = RowKeys
  <2>1. \A x \in Executions : \/ calls'[x] = calls[x]
                              \/ calls[x].at = "running" /\ calls'[x] = [at |-> "over"]
    BY DEF Restart
  <2> QED BY <1>6, <2>1, KeptRowsFit DEF LedgerInv
<1>8. EstimatesFit'
  BY <1>6, <1>7 DEF EstimatesFit, RowKeys
<1>9. LedgerTypes'
  <2>1. marked' \subseteq Providers
    BY <1>1 DEF LedgerInv, LedgerTypes, SeedKnownProviderPrices
  <2>2. calls' \in [Executions -> RunningCalls \cup {[at |-> "idle"], [at |-> "over"]}]
    BY DEF LedgerInv, LedgerTypes, Restart
  <2>3. changes' \in 0..MaxChanges /\ hour' \in 0..MaxHour
    BY LedgerAssumption DEF LedgerInv, LedgerTypes, Restart
  <2> QED BY <1>4, <1>6, <2>1, <2>2, <2>3 DEF LedgerInv, LedgerTypes, Restart, RowsKept
<1>10. SeedsMarked'
  <2>1. given' = given \cup Unpriced(ps) /\ marked' = marked \cup ps
    BY <1>1 DEF SeedKnownProviderPrices
  <2>2. Unpriced(ps) \subseteq ps \X Models
    BY LedgerAssumption DEF Unpriced
  <2> QED BY <2>1, <2>2 DEF LedgerInv, SeedsMarked
<1> QED BY <1>7, <1>8, <1>9, <1>10 DEF LedgerInv

(* An execution begins with one caller.                                    *)
LEMMA BeginKeeps ==
  ASSUME LedgerInv, NEW x \in Executions, NEW caller \in Callers, Begin(x, caller)
  PROVE  LedgerInv'
<1> DEFINE c == [at |-> "running", no |-> 1, started |-> hour, caller |-> caller]
<1>1. calls' = [calls EXCEPT ![x] = c] /\ calls[x].at = "idle"
      /\ UNCHANGED <<hour, ledger, prices, marked, known, given, revoked, changes>>
  BY DEF Begin
<1>2. ASSUME NEW k \in RowKeys PROVE k[1] \in Executions /\ k[1] # x
  BY <1>1 DEF LedgerInv, CallersFit, RowKeys, Keys
<1>3. RowKeys' = RowKeys
  BY <1>1 DEF RowKeys, Keys
<1>4. calls \in [Executions -> RunningCalls \cup {[at |-> "idle"], [at |-> "over"]}]
  BY DEF LedgerInv, LedgerTypes
<1>5. LedgerTypes'
  <2>1. 1 \in 1..MaxNo => c \in RunningCalls
    BY LedgerAssumption DEF RunningCalls, LedgerInv, LedgerTypes
  <2>2. 1 \in 1..MaxNo
    BY LedgerAssumption
  <2> HIDE DEF c
  <2>3. calls' \in [Executions -> RunningCalls \cup {[at |-> "idle"], [at |-> "over"]}]
    BY <1>1, <1>4, <2>1, <2>2
  <2> QED BY <1>1, <2>3 DEF LedgerInv, LedgerTypes, Keys
<1>6. CallersFit'
  <2>1. \A k \in RowKeys : calls'[k[1]] = calls[k[1]]
    <3> HIDE DEF c
    <3> QED BY <1>1, <1>2, <1>4
  <2> QED BY <1>1, <1>3, <2>1 DEF LedgerInv, CallersFit
<1>7. RowsFit' /\ EstimatesFit' /\ SeedsMarked'
  BY <1>1, <1>3 DEF LedgerInv, RowsFit, EstimatesFit, SeedsMarked, EstimateFits, ByProvider
<1> QED BY <1>5, <1>6, <1>7 DEF LedgerInv

(* The row of an attempt that is over.                                     *)
LEMMA RowForm ==
  ASSUME LedgerInv, NEW x \in Executions, calls[x].at = "running", NEW usage \in Usages
  PROVE  LET row == AttemptRow(x, usage)
         IN  /\ row \in AttemptRows
             /\ row.execution = x /\ row.no = calls[x].no
             /\ row.token = calls[x].caller.token /\ row.provider = calls[x].caller.provider
             /\ row.source = IF row.usage.cost = None THEN "missing" ELSE "response"
             /\ EstimateFits(row, prices)
<1> DEFINE row == AttemptRow(x, usage)
           c == calls[x]
           est == EstimateOf(c.caller, c.started, usage)
<1>1. c \in RunningCalls
  BY DEF LedgerInv, LedgerTypes
<1>2. /\ c.no \in 1..MaxNo /\ c.started \in Nat
      /\ c.caller \in [contour: {"site", "agent"}, token: Tokens, provider: Providers, model: Models]
  BY <1>1, LedgerAssumption DEF RunningCalls
<1>3. prices \in Seq(PriceVersions)
  BY DEF LedgerInv, LedgerTypes
<1>4. BillingDay(c.started) \in Int
  <2> DEFINE t == c.started
  <2>1. t \in Nat
    BY <1>2
  <2>2. DayHours \in Nat \ {0} /\ Offset \in Nat
    BY LedgerAssumption
  <2> HIDE DEF t
  <2>3. BillingDay(t) \in Int
    BY <2>1, <2>2 DEF BillingDay
  <2> QED BY <2>3 DEF t
<1>5. /\ est \in Estimates
      /\ est.priceId # None =>
            /\ est.priceId \in DOMAIN prices /\ est.usd # None
            /\ [usd |-> est.usd, quality |-> est.quality] =
                  EstimateProviderCost(prices[est.priceId].price, usage, c.started)
      /\ c.caller.contour # "site" /\ c.caller.provider # OpenRouter =>
            est = ProviderEstimate(prices, c.caller.provider, c.caller.model, c.started, usage)
  <2>1. CASE c.caller.contour = "site" \/ c.caller.provider = OpenRouter
    <3>1. est = [usd |-> CatalogueCost, quality |-> "ok", priceId |-> None]
      BY <2>1 DEF EstimateOf
    <3>2. CatalogueCost \in Nat
      BY LedgerAssumption
    <3> HIDE DEF est
    <3> QED BY <2>1, <3>1, <3>2 DEF Estimates
  <2>2. CASE ~(c.caller.contour = "site" \/ c.caller.provider = OpenRouter)
    <3>1. est = ProviderEstimate(prices, c.caller.provider, c.caller.model, c.started, usage)
      BY <2>2 DEF EstimateOf
    <3> HIDE DEF est, c
    <3> QED BY <1>3, <3>1, EstimateByProvider
  <2> QED BY <2>1, <2>2
<1>6. row = [contour |-> c.caller.contour, token |-> c.caller.token,
             provider |-> c.caller.provider, model |-> c.caller.model,
             execution |-> x, no |-> c.no, started |-> c.started, day |-> BillingDay(c.started),
             usage |-> usage, source |-> IF usage.cost = None THEN "missing" ELSE "response",
             est |-> est]
  BY DEF AttemptRow
<1> HIDE DEF row, c, est
<1>7. row \in AttemptRows
  BY <1>2, <1>4, <1>5, <1>6 DEF AttemptRows
<1>8. /\ row.execution = x /\ row.no = c.no /\ row.usage = usage /\ row.started = c.started
      /\ row.token = c.caller.token /\ row.provider = c.caller.provider
      /\ row.contour = c.caller.contour /\ row.model = c.caller.model /\ row.est = est
      /\ row.source = IF usage.cost = None THEN "missing" ELSE "response"
  BY <1>6
<1>9. EstimateFits(row, prices)
  BY <1>5, <1>8 DEF EstimateFits, ByProvider
<1> QED BY <1>7, <1>8, <1>9 DEF c, row

(* The row of an attempt is estimated by the prices at its writing, for    *)
(* the time of its start.                                                  *)
LEMMA AttemptKeeps ==
  ASSUME LedgerInv, NEW x \in Executions, NEW usage \in Usages, NEW again \in BOOLEAN,
         Attempt(x, usage, again)
  PROVE  LedgerInv'
<1> DEFINE row == AttemptRow(x, usage)
           c == calls[x]
           key == <<x, c.no>>
<1>1. /\ c.at = "running" /\ (again => c.no < MaxNo)
      /\ ledger' = [ledger EXCEPT ![<<row.execution, row.no>>] = IF @ = <<>> THEN row ELSE @]
      /\ calls' = [calls EXCEPT ![x] = IF again THEN [c EXCEPT !.no = c.no + 1, !.started = hour]
                                       ELSE [at |-> "over"]]
      /\ UNCHANGED <<hour, prices, marked, known, given, revoked, changes>>
  BY DEF Attempt, InsertAttempt
<1>2. /\ row \in AttemptRows /\ row.execution = x /\ row.no = c.no
      /\ row.token = c.caller.token /\ row.provider = c.caller.provider
      /\ row.source = IF row.usage.cost = None THEN "missing" ELSE "response"
      /\ EstimateFits(row, prices)
  BY <1>1, RowForm
<1>3. c \in RunningCalls
  BY <1>1 DEF LedgerInv, LedgerTypes
<1>4. key \in Keys /\ key[1] = x /\ hour \in Nat
  BY <1>3, LedgerAssumption DEF Keys, RunningCalls, LedgerInv, LedgerTypes
<1>5. /\ ledger \in [Keys -> AttemptRows \cup {<<>>}]
      /\ calls \in [Executions -> RunningCalls \cup {[at |-> "idle"], [at |-> "over"]}]
  BY DEF LedgerInv, LedgerTypes
<1>6. ledger' = [ledger EXCEPT ![key] = IF ledger[key] = <<>> THEN row ELSE ledger[key]]
  <2> HIDE DEF row
  <2> QED BY <1>1, <1>2
<1>7. row # <<>>
  BY <1>2, RowIsNotEmpty
<1>8. IF again THEN calls'[x].at = "running" /\ calls'[x].caller = c.caller /\ calls'[x] \in RunningCalls
      ELSE calls'[x] = [at |-> "over"]
  <2>1. CASE again
    <3>1. calls'[x] = [c EXCEPT !.no = c.no + 1, !.started = hour]
      BY <1>1, <1>5, <2>1
    <3>2. c.no \in 1..MaxNo /\ c.no < MaxNo /\ MaxNo \in Nat
      BY <1>1, <1>3, <2>1, LedgerAssumption DEF RunningCalls
    <3> HIDE DEF c
    <3>3. c.no + 1 \in 1..MaxNo
      BY <3>2
    <3> QED BY <1>3, <1>4, <2>1, <3>1, <3>3 DEF RunningCalls
  <2>2. CASE ~again
    BY <1>1, <1>5, <2>2
  <2> QED BY <2>1, <2>2
<1>9. \A y \in Executions \ {x} : calls'[y] = calls[y]
  BY <1>1, <1>5
<1>10. calls' \in [Executions -> RunningCalls \cup {[at |-> "idle"], [at |-> "over"]}]
  <2>1. DOMAIN calls' = Executions
    BY <1>1, <1>5
  <2>2. ASSUME NEW y \in Executions
        PROVE  calls'[y] \in RunningCalls \cup {[at |-> "idle"], [at |-> "over"]}
    BY <1>5, <1>8, <1>9
  <2>3. calls' = [y \in Executions |-> calls'[y]]
    BY <1>1, <1>5
  <2> HIDE DEF c
  <2> QED BY <2>2, <2>3
<1> HIDE DEF row, c, key
<1>11. RowKeys' = RowKeys \cup {key}
  BY <1>4, <1>5, <1>6, <1>7 DEF RowKeys
<1>12. \A k \in RowKeys : ledger'[k] = ledger[k]
  BY <1>4, <1>5, <1>6 DEF RowKeys
<1>13. key \notin RowKeys => ledger'[key] = row
  BY <1>4, <1>5, <1>6 DEF RowKeys
<1>14. LedgerTypes'
  <2>1. ledger' \in [Keys -> AttemptRows \cup {<<>>}]
    BY <1>2, <1>4, <1>5, <1>6
  <2> QED BY <1>1, <1>10, <2>1 DEF LedgerInv, LedgerTypes
<1>15. RowsFit'
  <2>1. IsFiniteSet(RowKeys')
    BY <1>11, FS_AddElement DEF LedgerInv, RowsFit
  <2>2. <<row.execution, row.no>> = key
    BY <1>2 DEF key
  <2>3. ASSUME NEW k \in RowKeys'
        PROVE  /\ <<ledger'[k].execution, ledger'[k].no>> = k
               /\ ledger'[k].source = IF ledger'[k].usage.cost = None THEN "missing" ELSE "response"
    <3>1. CASE k \in RowKeys
      BY <1>12, <3>1 DEF LedgerInv, RowsFit
    <3>2. CASE k \notin RowKeys
      BY <1>2, <1>11, <1>13, <2>2, <3>2
    <3> QED BY <3>1, <3>2
  <2> QED BY <2>1, <2>3 DEF RowsFit
<1>16. CallersFit'
  <2>1. ASSUME NEW k \in RowKeys', k[1] = x
        PROVE  ledger'[k].token = c.caller.token /\ ledger'[k].provider = c.caller.provider
    <3>1. CASE k \in RowKeys
      <4>1. /\ ledger[k].token = calls[k[1]].caller.token
            /\ ledger[k].provider = calls[k[1]].caller.provider
        BY <1>1, <2>1, <3>1 DEF LedgerInv, CallersFit, c
      <4> QED BY <1>12, <2>1, <3>1, <4>1 DEF c
    <3>2. CASE k \notin RowKeys
      BY <1>2, <1>11, <1>13, <3>2
    <3> QED BY <3>1, <3>2
  <2>2. ASSUME NEW k \in RowKeys', k[1] # x
        PROVE  k \in RowKeys /\ k[1] \in Executions \ {x} /\ ledger'[k] = ledger[k]
    <3>1. k \in RowKeys
      BY <1>4, <1>11, <2>2
    <3> QED BY <1>12, <2>2, <3>1 DEF RowKeys, Keys
  <2>3. ASSUME NEW k \in RowKeys'
        PROVE  /\ calls'[k[1]].at # "idle"
               /\ calls'[k[1]].at = "running" => /\ ledger'[k].token = calls'[k[1]].caller.token
                                                 /\ ledger'[k].provider = calls'[k[1]].caller.provider
    <3>1. CASE k[1] = x
      BY <1>8, <2>1, <3>1
    <3>2. CASE k[1] # x
      BY <1>9, <2>2, <3>2 DEF LedgerInv, CallersFit
    <3> QED BY <3>1, <3>2
  <2>4. ASSUME NEW j \in RowKeys', NEW k \in RowKeys', j[1] = k[1]
        PROVE  ledger'[j].token = ledger'[k].token /\ ledger'[j].provider = ledger'[k].provider
    <3>1. CASE k[1] = x
      BY <2>1, <2>4, <3>1
    <3>2. CASE k[1] # x
      BY <2>2, <2>4, <3>2 DEF LedgerInv, CallersFit
    <3> QED BY <3>1, <3>2
  <2> QED BY <2>3, <2>4 DEF CallersFit
<1>17. EstimatesFit'
  <2>1. prices' = prices
    BY <1>1
  <2>2. ASSUME NEW k \in RowKeys' PROVE EstimateFits(ledger'[k], prices)
    <3>1. CASE k \in RowKeys
      BY <1>12, <3>1 DEF LedgerInv, EstimatesFit
    <3>2. CASE k \notin RowKeys
      BY <1>2, <1>11, <1>13, <3>2
    <3> QED BY <3>1, <3>2
  <2> QED BY <2>1, <2>2 DEF EstimatesFit
<1>18. SeedsMarked'
  BY <1>1 DEF LedgerInv, SeedsMarked
<1> QED BY <1>14, <1>15, <1>16, <1>17, <1>18 DEF LedgerInv

(* The steps that touch neither prices nor rows.                           *)
LEMMA OtherLedgerSteps ==
  ASSUME LedgerInv,
         \/ \E p \in Providers : MoveProvider(p)
         \/ \E k \in Tokens : RevokeToken(k)
         \/ Pass \/ UNCHANGED ledgerVars
  PROVE  LedgerInv'
<1>1. UNCHANGED <<calls, ledger, prices, marked, given>>
  BY DEF MoveProvider, RevokeToken, Pass, ledgerVars
<1>2. RowKeys' = RowKeys
  BY <1>1 DEF RowKeys
<1>3. changes' \in 0..MaxChanges /\ hour' \in 0..MaxHour
      /\ revoked' \subseteq Tokens /\ known' \subseteq Providers
  BY LedgerAssumption DEF LedgerInv, LedgerTypes, MoveProvider, RevokeToken, Pass, ledgerVars
<1>4. LedgerTypes'
  BY <1>1, <1>3 DEF LedgerInv, LedgerTypes
<1>5. RowsFit' /\ CallersFit' /\ EstimatesFit' /\ SeedsMarked'
  BY <1>1, <1>2 DEF LedgerInv, RowsFit, CallersFit, EstimatesFit, SeedsMarked
<1> QED BY <1>4, <1>5 DEF LedgerInv

(* Every step keeps the invariant.                                         *)
LEMMA LedgerStep == LedgerInv /\ [LedgerNext]_ledgerVars => LedgerInv'
BY SetPriceKeeps, DeletePriceKeeps, RestartKeeps, BeginKeeps, AttemptKeeps, OtherLedgerSteps
   DEF LedgerNext, Change, Work

(* The invariant of the ledger holds for any constants.                    *)
LEMMA LedgerInvariance == LedgerSpec => []LedgerInv
<1>1. LedgerInit => LedgerInv
  BY LedgerStart
<1>2. LedgerInv /\ [LedgerNext]_ledgerVars => LedgerInv'
  BY LedgerStep
<1> QED BY <1>1, <1>2, PTL DEF LedgerSpec

----------------------------------------------------------------------------
(* The promises.                                                           *)

(* The invariant implies the types the runs check.                         *)
LEMMA LedgerTyped == LedgerInv => LedgerTypeOK
<1> SUFFICES ASSUME LedgerInv PROVE LedgerTypeOK
  OBVIOUS
<1>1. \A i \in DOMAIN prices : prices[i].provider \in Providers /\ prices[i].from \in 0..MaxHour
  <2>1. \A i \in DOMAIN prices : prices[i] \in PriceVersions
    BY DEF LedgerInv, LedgerTypes
  <2> QED BY <2>1 DEF PriceVersions
<1>2. ASSUME NEW k \in Keys, ledger[k] # <<>>
      PROVE  /\ <<ledger[k].execution, ledger[k].no>> = k
             /\ ledger[k].source \in {"response", "missing"}
             /\ ledger[k].est.usd \in Nat \cup {None}
  <2>1. ledger[k] \in AttemptRows
    BY <1>2 DEF LedgerInv, LedgerTypes
  <2>2. ledger[k].source \in {"response", "missing"} /\ ledger[k].est \in Estimates
    BY <2>1 DEF AttemptRows
  <2> QED BY <1>2, <2>2 DEF LedgerInv, RowsFit, RowKeys, Estimates
<1>3. given \subseteq Providers \X Models
  BY DEF LedgerInv, LedgerTypes, SeedsMarked
<1> QED BY <1>1, <1>2, <1>3 DEF LedgerInv, LedgerTypes, LedgerTypeOK

(* A row of the table is one of a key.                                     *)
LEMMA RowOfKey ==
  ASSUME LedgerInv, NEW r \in Rows
  PROVE  \E k \in RowKeys : r = ledger[k] /\ r \in AttemptRows /\ EstimateFits(r, prices)
<1>1. PICK k \in RowKeys : r = ledger[k]
  BY DEF Rows, RowKeys
<1>2. r \in AttemptRows
  BY <1>1 DEF LedgerInv, LedgerTypes, RowKeys
<1> QED BY <1>1, <1>2 DEF LedgerInv, EstimatesFit

(* Every estimate is of the version in force at the start of its attempt.  *)
LEMMA ForceKept == LedgerInv => EstimatesInForce
<1> SUFFICES ASSUME LedgerInv, NEW r \in Rows, ByProvider(r)
             PROVE  LET past == {i \in Versions(prices, r.provider, r.model) : prices[i].from <= r.started}
                        last == {i \in past : \A j \in past : prices[j].from <= prices[i].from}
                    IN  IF last = {} THEN r.est.usd = None
                        ELSE LET e == EstimateProviderCost(prices[Max(last)].price, r.usage, r.started)
                             IN  r.est.usd = e.usd /\ r.est.quality = e.quality
                                 /\ r.est.priceId \in {None, Max(last)}
  BY DEF EstimatesInForce, ByProvider
<1> DEFINE past == Past(prices, r.provider, r.model, r.started)
           last == {i \in past : \A j \in past : prices[j].from <= prices[i].from}
           id == PriceAt(prices, r.provider, r.model, r.started)
           e == EstimateProviderCost(prices[id].price, r.usage, r.started)
<1>1. prices \in Seq(PriceVersions)
  BY DEF LedgerInv, LedgerTypes
<1>2. r.est = ProviderEstimate(prices, r.provider, r.model, r.started, r.usage)
  BY RowOfKey DEF EstimateFits
<1>3. /\ id = None <=> past = {}
      /\ id # None => id \in DOMAIN prices /\ InForce(prices, r.provider, r.model, r.started, id)
  BY <1>1, PriceInForce
<1>4. CASE past = {}
  <2>1. last = {} /\ r.est.usd = None
    BY <1>2, <1>3, <1>4 DEF ProviderEstimate, Estimated, NoEstimate
  <2> QED BY <2>1 DEF Past
<1>5. CASE past # {}
  <2>1. id \in past /\ \A j \in past :
           prices[j].from < prices[id].from \/ (prices[j].from = prices[id].from /\ j <= id)
    BY <1>3, <1>5 DEF InForce
  <2>2. \A j \in past : j \in DOMAIN prices /\ prices[j].from \in Nat /\ j \in Nat
    <3>1. \A j \in past : j \in DOMAIN prices /\ j \in Nat /\ prices[j] \in PriceVersions
      BY <1>1 DEF Past, Versions
    <3> QED BY <3>1, LedgerAssumption DEF PriceVersions
  <2> HIDE DEF past, id
  <2>3. id \in last
    BY <2>1, <2>2
  <2>4. \A j \in last : j \in Nat /\ id >= j
    BY <2>1, <2>2
  <2>5. Max(last) = id
    <3> HIDE DEF last
    <3>1. Max(last) \in last /\ \A j \in last : Max(last) >= j
      BY <2>3, <2>4 DEF Max
    <3> QED BY <2>3, <2>4, <3>1
  <2>6. r.est = Estimated(e, id)
    BY <1>2, <1>3, <1>5 DEF ProviderEstimate, id, past
  <2>7. r.est.usd = e.usd /\ r.est.quality = e.quality /\ r.est.priceId \in {None, id}
    <3> HIDE DEF e
    <3> QED BY <2>6 DEF Estimated
  <2> QED BY <2>3, <2>5, <2>7 DEF Past, past
<1> QED BY <1>4, <1>5

(* Products grow with their factors.                                       *)
LEMMA ProductGrows ==
  ASSUME NEW a \in Nat, NEW b \in Nat, NEW c \in Nat, b <= c
  PROVE  a * b <= a * c
<1>1. c - b \in Nat
  OBVIOUS
<1>2. a * (c - b) \in Nat
  BY <1>1, ProductIsNat
<1>3. a * (c - b) = a * c - a * b
  OBVIOUS
<1>4. a * b \in Nat /\ a * c \in Nat
  BY ProductIsNat
<1> QED BY <1>2, <1>3, <1>4

(* A mix of two prices is between the cheaper and the dearer.              *)
LEMMA MixIsBetween ==
  ASSUME NEW a \in Nat, NEW b \in Nat, NEW x \in Nat, NEW y \in Nat, NEW lo \in Nat, NEW hi \in Nat,
         lo <= x, lo <= y, x <= hi, y <= hi
  PROVE  (a + b) * lo <= a * x + b * y /\ a * x + b * y <= (a + b) * hi
<1>1. a * lo <= a * x /\ b * lo <= b * y /\ a * x <= a * hi /\ b * y <= b * hi
  BY ProductGrows
<1>2. (a + b) * lo = a * lo + b * lo /\ (a + b) * hi = a * hi + b * hi
  OBVIOUS
<1>3. {a * lo, b * lo, a * x, b * y, a * hi, b * hi} \subseteq Nat
  BY ProductIsNat
<1> QED BY <1>1, <1>2, <1>3

(* Every token of an estimate is paid once.                                *)
LEMMA BoundsKept == LedgerInv => EstimateInBounds
<1> SUFFICES ASSUME LedgerInv, NEW r \in Rows, r.est.priceId # None
             PROVE  LET tariff == TariffAt(prices[r.est.priceId].price, r.started)
                        input == {tariff.input} \cup ({tariff.cacheRead} \ {None})
                    IN  r.est.usd - r.usage.completion * tariff.output
                            \in (r.usage.prompt * Min(input))..(r.usage.prompt * Max(input))
  BY DEF EstimateInBounds
<1> DEFINE price == prices[r.est.priceId].price
           usage == r.usage
           t == r.started
           tariff == TariffAt(price, t)
           input == {tariff.input} \cup ({tariff.cacheRead} \ {None})
           cached == Min({usage.cached, usage.prompt})
           cacheWrite == Min({usage.cacheWrite, usage.prompt - cached})
           uncached == usage.prompt - cached - cacheWrite
           cacheRead == IF tariff.cacheRead = None THEN tariff.input ELSE tariff.cacheRead
<1>1. /\ r.est.priceId \in DOMAIN prices /\ r.est.usd # None
      /\ [usd |-> r.est.usd, quality |-> r.est.quality] = EstimateProviderCost(price, usage, t)
      /\ usage \in Usages
  BY RowOfKey DEF EstimateFits, AttemptRows
<1>2. price \in KnownPrices
  <2>1. prices[r.est.priceId] \in PriceVersions
    BY <1>1 DEF LedgerInv, LedgerTypes
  <2> QED BY <2>1 DEF PriceVersions
<1>3. usage \in [prompt: Nat, cached: Nat, cacheWrite: Nat, completion: Nat, cost: Nat \cup {None}]
  BY <1>1, LedgerAssumption
<1> HIDE DEF price, usage, t
<1>4. tariff \in Tariffs
  BY <1>2, TariffForm
<1>5. cached \in Nat /\ usage.prompt - cached \in Nat
  BY <1>3, MinOfTwo
<1>6. cacheWrite \in Nat /\ uncached \in Nat
  <2> HIDE DEF cached
  <2> QED BY <1>3, <1>5, MinOfTwo
<1>7. EstimateProviderCost(price, usage, t) =
          IF usage.prompt = 0 /\ usage.completion = 0 THEN NoEstimate
          ELSE [usd |-> (uncached + cacheWrite) * tariff.input + cached * cacheRead
                         + usage.completion * tariff.output,
                quality |-> IF cached > 0 /\ tariff.cacheRead = None THEN "partial" ELSE "ok"]
  BY DEF EstimateProviderCost
<1>8. r.est.usd = (uncached + cacheWrite) * tariff.input + cached * cacheRead
                         + usage.completion * tariff.output
  <2> HIDE DEF uncached, cacheWrite, cached, cacheRead, tariff
  <2> QED BY <1>1, <1>7 DEF NoEstimate
<1>9. /\ tariff.input \in Nat /\ cacheRead \in Nat /\ tariff.output \in Nat
      /\ tariff.cacheRead \in Nat \cup {None}
  <2> HIDE DEF tariff
  <2> QED BY <1>4 DEF Tariffs
<1>10. /\ Min(input) \in Nat /\ Max(input) \in Nat
       /\ Min(input) <= tariff.input /\ tariff.input <= Max(input)
       /\ Min(input) <= cacheRead /\ cacheRead <= Max(input)
  <2> DEFINE a == tariff.input
             b == cacheRead
  <2>1. input = {a, b}
    BY <1>9 DEF None
  <2> HIDE DEF tariff, input, a, b
  <2>2. a \in Nat /\ b \in Nat
    BY <1>9 DEF a, b
  <2>3. Min({a, b}) = (IF a <= b THEN a ELSE b) /\ Max({a, b}) = (IF a <= b THEN b ELSE a)
    BY <2>2, MinOfTwo, MaxOfTwo
  <2>4. /\ Min({a, b}) \in Nat /\ Max({a, b}) \in Nat
        /\ Min({a, b}) <= a /\ a <= Max({a, b}) /\ Min({a, b}) <= b /\ b <= Max({a, b})
    BY <2>2, <2>3
  <2>5. Min(input) = Min({a, b}) /\ Max(input) = Max({a, b})
    BY <2>1, Zenon
  <2> QED BY <2>4, <2>5 DEF a, b
<1> DEFINE rest == uncached + cacheWrite
           spent == usage.completion * tariff.output
<1>11. rest \in Nat /\ rest + cached = usage.prompt
  <2> HIDE DEF cached, cacheWrite
  <2> QED BY <1>3, <1>5, <1>6
<1>12. spent \in Nat
  <2> HIDE DEF tariff
  <2> QED BY <1>3, <1>9, ProductIsNat
<1> HIDE DEF tariff, input, cached, cacheWrite, uncached, cacheRead, rest, spent
<1>13. /\ (rest + cached) * Min(input) <= rest * tariff.input + cached * cacheRead
       /\ rest * tariff.input + cached * cacheRead <= (rest + cached) * Max(input)
  BY <1>5, <1>9, <1>10, <1>11, MixIsBetween
<1>14. rest * tariff.input \in Nat /\ cached * cacheRead \in Nat
       /\ usage.prompt * Min(input) \in Nat /\ usage.prompt * Max(input) \in Nat
  BY <1>3, <1>5, <1>9, <1>10, <1>11, ProductIsNat
<1>15. r.est.usd - spent = rest * tariff.input + cached * cacheRead
  <2>1. r.est.usd = rest * tariff.input + cached * cacheRead + spent
    BY <1>8 DEF rest, spent
  <2> QED BY <1>12, <1>14, <2>1
<1>16. r.est.usd - spent \in (usage.prompt * Min(input))..(usage.prompt * Max(input))
  BY <1>11, <1>13, <1>14, <1>15
<1> QED BY <1>16 DEF spent, input, tariff, usage, price, t

(* An estimate on a row is of the version in force at the start of the     *)
(* attempt, and pays each token once.                                      *)
THEOREM EstimatesAreSound == LedgerSpec => []EstimatesSound
<1>1. LedgerInv => EstimatesSound
  BY LedgerTyped, ForceKept, BoundsKept DEF EstimatesSound
<1> QED BY <1>1, LedgerInvariance, PTL

(* A built-in price is given once.                                         *)
LEMMA SeedsOnceStep ==
  ASSUME LedgerInv, [LedgerNext]_ledgerVars, NEW i \in DOMAIN prices' \ DOMAIN prices, prices'[i].builtIn
  PROVE  <<prices'[i].provider, prices'[i].model>> \notin given
<1>1. prices \in Seq(PriceVersions)
  BY DEF LedgerInv, LedgerTypes
<1>2. ASSUME NEW p \in Providers, NEW m \in Models, NEW from \in 0..MaxHour, NEW price \in Prices,
             SetPrice(p, m, from, price)
      PROVE  FALSE
  <2> DEFINE v == NewVersion(p, m, from, price, FALSE)
  <2>1. prices' = Append(prices, v) /\ v.builtIn = FALSE
    BY <1>2 DEF SetPrice, NewVersion
  <2> HIDE DEF v
  <2>2. prices'[i] = v
    BY <1>1, <2>1
  <2> QED BY <2>1, <2>2
<1>3. CASE \E p \in Providers, m \in Models : DeletePrice(p, m)
  BY <1>3 DEF DeletePrice
<1>4. CASE Restart
  <2>1. PICK ps \in SUBSET {p \in Providers : Unseeded(p)} : SeedKnownProviderPrices(ps)
    BY <1>4 DEF Restart
  <2>2. ps \in SUBSET Providers /\ \A p \in ps : p \notin marked
    BY DEF Unseeded
  <2>3. <<prices'[i].provider, prices'[i].model>> \in ps \X Models
    BY <2>1, <2>2, SeedAdds
  <2> QED BY <2>2, <2>3 DEF LedgerInv, SeedsMarked
<1>5. CASE prices' = prices
  BY <1>5
<1> QED
  BY <1>2, <1>3, <1>4, <1>5
  DEF LedgerNext, Change, Work, MoveProvider, RevokeToken, Begin, Attempt, Pass, ledgerVars

(* A built-in price that was deleted never comes back.                     *)
THEOREM SeedsComeOnce == LedgerSpec => SeedsOnce
<1>1. LedgerInv /\ [LedgerNext]_ledgerVars =>
         [\A i \in DOMAIN prices' \ DOMAIN prices :
             prices'[i].builtIn => <<prices'[i].provider, prices'[i].model>> \notin given]_ledgerVars
  BY SeedsOnceStep
<1> QED BY <1>1, LedgerInvariance, PTL DEF LedgerSpec, SeedsOnce

----------------------------------------------------------------------------
(* Reports.                                                                *)

(* Rows a report may be made of.                                           *)
Reportable(R) ==
    /\ IsFiniteSet(R) /\ R \subseteq AttemptRows
    /\ \A r \in R : r.source = IF r.usage.cost = None THEN "missing" ELSE "response"

Added == {"upstream_attempts", "input_tokens", "output_tokens", "cost_actual_usd",
          "cost_approx_usd", "missing_rows", "approx_rows"}

Columns == Added \cup {"executions"}

(* What a row adds to a column.                                            *)
Weight(column, r) ==
    CASE column = "upstream_attempts" -> 1
      [] column = "input_tokens" -> r.usage.prompt
      [] column = "output_tokens" -> r.usage.completion
      [] column = "cost_actual_usd" -> Amount(r)
      [] column = "cost_approx_usd" -> Approx(r)
      [] column = "missing_rows" -> IF r.source # "response" /\ r.est.usd = None THEN 1 ELSE 0
      [] column = "approx_rows" -> IF r.source # "response" /\ r.est.usd # None THEN 1 ELSE 0

Weights(column) == [r \in AttemptRows |-> Weight(column, r)]

(* What a row adds to a column is a natural number.                        *)
LEMMA WeightsAreNatural ==
  ASSUME NEW R, Reportable(R), NEW column \in Added
  PROVE  \A r \in R : Weights(column)[r] \in Nat /\ Weights(column)[r] = Weight(column, r)
<1> SUFFICES ASSUME NEW r \in R PROVE Weight(column, r) \in Nat /\ r \in AttemptRows
  BY DEF Weights, Reportable
<1>1. r \in AttemptRows /\ r.source = IF r.usage.cost = None THEN "missing" ELSE "response"
  BY DEF Reportable
<1>2. r.usage \in Usages /\ r.est \in Estimates
  BY <1>1 DEF AttemptRows
<1>3. /\ r.usage.prompt \in Nat /\ r.usage.completion \in Nat
      /\ r.usage.cost \in Nat \cup {None} /\ r.est.usd \in Nat \cup {None}
  BY <1>2, LedgerAssumption DEF Estimates
<1>4. Amount(r) \in Nat /\ Approx(r) \in Nat
  BY <1>1, <1>3 DEF Amount, Approx
<1> QED BY <1>1, <1>3, <1>4 DEF Weight, Added

(* Every column but the executions is a sum over the rows.                 *)
LEMMA SpendIsSum ==
  ASSUME NEW R, Reportable(R), NEW column \in Added
  PROVE  Spend(R)[column] = SumFunctionOnSet(Weights(column), R)
<1>0. IsFiniteSet(R) /\ \A r \in R : Weights(column)[r] = Weight(column, r)
  BY WeightsAreNatural DEF Reportable
<1>1. CASE column = "upstream_attempts"
  <2>1. \A r \in R : Weights(column)[r] = 1
    BY <1>0, <1>1 DEF Weight
  <2>2. SumFunctionOnSet(Weights(column), R) = Cardinality(R)
    BY <1>0, <2>1, SumOfOnes
  <2> QED BY <1>1, <2>2 DEF Spend
<1>2. CASE column = "input_tokens"
  <2> DEFINE f == [r \in R |-> r.usage.prompt]
  <2>1. \A r \in R : f[r] = Weights(column)[r]
    BY <1>0, <1>2 DEF Weight
  <2>2. Spend(R)[column] = SumFunction(f) /\ DOMAIN f = R
    BY <1>2 DEF Spend
  <2> HIDE DEF f
  <2> QED BY <1>0, <2>1, <2>2, SumOfSame DEF SumFunction
<1>3. CASE column = "output_tokens"
  <2> DEFINE f == [r \in R |-> r.usage.completion]
  <2>1. \A r \in R : f[r] = Weights(column)[r]
    BY <1>0, <1>3 DEF Weight
  <2>2. Spend(R)[column] = SumFunction(f) /\ DOMAIN f = R
    BY <1>3 DEF Spend
  <2> HIDE DEF f
  <2> QED BY <1>0, <2>1, <2>2, SumOfSame DEF SumFunction
<1>4. CASE column = "cost_actual_usd"
  <2> DEFINE f == [r \in R |-> Amount(r)]
  <2>1. \A r \in R : f[r] = Weights(column)[r]
    BY <1>0, <1>4 DEF Weight
  <2>2. Spend(R)[column] = SumFunction(f) /\ DOMAIN f = R
    BY <1>4 DEF Spend
  <2> HIDE DEF f
  <2> QED BY <1>0, <2>1, <2>2, SumOfSame DEF SumFunction
<1>5. CASE column = "cost_approx_usd"
  <2> DEFINE f == [r \in R |-> Approx(r)]
  <2>1. \A r \in R : f[r] = Weights(column)[r]
    BY <1>0, <1>5 DEF Weight
  <2>2. Spend(R)[column] = SumFunction(f) /\ DOMAIN f = R
    BY <1>5 DEF Spend
  <2> HIDE DEF f
  <2> QED BY <1>0, <2>1, <2>2, SumOfSame DEF SumFunction
<1>6. CASE column = "missing_rows"
  <2> DEFINE T == {r \in R : r.source # "response" /\ r.est.usd = None}
  <2>1. \A r \in R : Weights(column)[r] = IF r \in T THEN 1 ELSE 0
    BY <1>0, <1>6 DEF Weight
  <2>2. Spend(R)[column] = Cardinality(T)
    BY <1>6 DEF Spend
  <2>3. T \in SUBSET R
    OBVIOUS
  <2> HIDE DEF T
  <2> QED BY <1>0, <2>1, <2>2, <2>3, SumOfCounted
<1>7. CASE column = "approx_rows"
  <2> DEFINE T == {r \in R : r.source # "response" /\ r.est.usd # None}
  <2>1. \A r \in R : Weights(column)[r] = IF r \in T THEN 1 ELSE 0
    BY <1>0, <1>7 DEF Weight
  <2>2. Spend(R)[column] = Cardinality(T)
    BY <1>7 DEF Spend
  <2>3. T \in SUBSET R
    OBVIOUS
  <2> HIDE DEF T
  <2> QED BY <1>0, <2>1, <2>2, <2>3, SumOfCounted
<1> QED BY <1>1, <1>2, <1>3, <1>4, <1>5, <1>6, <1>7 DEF Added

(* A report has a row for each key: by a function of the rows, or by one   *)
(* of their columns.                                                       *)
ByKind(R, kind, K) == {ReportRow(k, {r \in R : kind[r] = k}) : k \in K}
ByColumn(R, column, K) == {ReportRow(k, {r \in R : r[column] = k}) : k \in K}

AllOfKind(R, kind, K) == \A r \in R : kind[r] \in K
AllInColumn(R, column, K) == \A r \in R : r[column] \in K

(* The attempts of an execution are of one kind.                           *)
KindsTogether(R, kind) == \A r, s \in R : r.execution = s.execution => kind[r] = kind[s]
ColumnTogether(R, column) == \A r, s \in R : r.execution = s.execution => r[column] = s[column]

(* The columns of a report add up to the total's.                          *)
LEMMA ColumnAddsUp ==
  ASSUME NEW R, Reportable(R), NEW K, IsFiniteSet(K),
         NEW kind, AllOfKind(R, kind, K), NEW column \in Added
  PROVE  SumOf(ByKind(R, kind, K))[column] = Spend(R)[column]
<1> DEFINE Of(k) == {r \in R : kind[r] = k}
           name == [k \in K |-> ReportRow(k, Of(k))]
           report == {ReportRow(k, Of(k)) : k \in K}
           f == [row \in report |-> row.spend[column]]
           g == [k \in K |-> SumFunctionOnSet(Weights(column), Of(k))]
<1>1. ASSUME NEW k \in K PROVE Reportable(Of(k))
  BY FS_Subset DEF Reportable
<1>2. ASSUME NEW k \in K PROVE g[k] = f[name[k]] /\ g[k] \in Int
  <2>1. name[k] \in report /\ name[k].spend = Spend(Of(k))
    BY DEF ReportRow
  <2>2. f[name[k]] = Spend(Of(k))[column]
    BY <2>1
  <2>3. Spend(Of(k))[column] = g[k]
    <3> HIDE DEF Of
    <3> QED BY <1>1, SpendIsSum
  <2>4. g[k] \in Int
    <3>1. IsFiniteSet(Of(k)) /\ Numbers(Weights(column), Of(k))
      <4> HIDE DEF Of
      <4>1. \A r \in Of(k) : Weights(column)[r] \in Nat
        BY <1>1, WeightsAreNatural
      <4> QED BY <1>1, <4>1 DEF Numbers, Reportable
    <3> HIDE DEF Of
    <3> QED BY <3>1, SumIsNumber
  <2> QED BY <2>2, <2>3, <2>4
<1>3. \A j, k \in K : name[j] = name[k] => j = k
  <2>1. \A k \in K : name[k].key = k
    BY DEF ReportRow
  <2> HIDE DEF name
  <2> QED BY <2>1
<1>4. report = {name[k] : k \in K}
  OBVIOUS
<1>5. SumFunctionOnSet(f, {name[k] : k \in K}) = SumFunctionOnSet(g, K)
  <2> HIDE DEF f, g, name, report
  <2>1. Renames(f, g, K, name)
    BY <1>2, <1>3 DEF Renames
  <2> QED BY <2>1, SumRenamed
<1>6. SumFunctionOnSet(g, K) = SumFunctionOnSet(Weights(column), R)
  <2>1. IsFiniteSet(R) /\ Numbers(Weights(column), R)
    BY WeightsAreNatural DEF Reportable, Numbers
  <2>2. \A k \in K : g[k] = SumFunctionOnSet(Weights(column), {r \in R : kind[r] = k})
    OBVIOUS
  <2> DEFINE weights == Weights(column)
  <2> HIDE DEF g, weights
  <2>5. \A r \in R : kind[r] \in K
    BY DEF AllOfKind
  <2>3. SumsByKind(weights, R, kind, K, g)
    BY <2>2, <2>5 DEF SumsByKind, weights
  <2>4. SumFunctionOnSet(g, K) = SumFunctionOnSet(weights, R)
    BY <2>1, <2>3, SumByKind DEF weights
  <2> QED BY <2>4 DEF weights
<1>7. SumOf(report)[column] = SumFunctionOnSet(f, report)
  <2>1. column \in DOMAIN Spend({})
    BY DEF Spend, Added
  <2>2. SumOf(report)[column] = SumFunction(f) /\ DOMAIN f = report
    BY <2>1 DEF SumOf
  <2> QED BY <2>2 DEF SumFunction
<1>8. SumFunctionOnSet(f, report) = SumFunctionOnSet(f, {name[k] : k \in K})
  BY <1>4, Zenon
<1> QED BY <1>5, <1>6, <1>7, <1>8, SpendIsSum DEF ByKind

(* So does the number of executions, if the attempts of one are of one key. *)
LEMMA ExecutionsAddUp ==
  ASSUME NEW R, Reportable(R), NEW K, IsFiniteSet(K),
         NEW kind, AllOfKind(R, kind, K), KindsTogether(R, kind)
  PROVE  SumOf(ByKind(R, kind, K)).executions = Spend(R).executions
<1> DEFINE Of(k) == {r \in R : kind[r] = k}
           name == [k \in K |-> ReportRow(k, Of(k))]
           report == {ReportRow(k, Of(k)) : k \in K}
           f == [row \in report |-> row.spend["executions"]]
           E == {r.execution : r \in R}
           kinds == [x \in E |-> kind[CHOOSE r \in R : r.execution = x]]
           one == [x \in E |-> 1]
           g == [k \in K |-> Cardinality({r.execution : r \in Of(k)})]
<1>1. ASSUME NEW S \in SUBSET R PROVE IsFiniteSet({r.execution : r \in S})
  <2> DEFINE h == [r \in S |-> r.execution]
  <2>1. IsFiniteSet(S)
    BY FS_Subset DEF Reportable
  <2>2. IsFiniteSet({h[r] : r \in S})
    <3> HIDE DEF h
    <3> QED BY <2>1, ImageIsFinite
  <2>3. {h[r] : r \in S} = {r.execution : r \in S}
    OBVIOUS
  <2> QED BY <2>2, <2>3, Zenon
<1>0. /\ \A r \in R : kind[r] \in K
      /\ \A r, s \in R : r.execution = s.execution => kind[r] = kind[s]
  BY DEF AllOfKind, KindsTogether
<1>2. ASSUME NEW r \in R PROVE r.execution \in E /\ kinds[r.execution] = kind[r]
  <2>1. (CHOOSE s \in R : s.execution = r.execution) \in R
        /\ (CHOOSE s \in R : s.execution = r.execution).execution = r.execution
    OBVIOUS
  <2>2. r.execution \in E
    OBVIOUS
  <2>3. kinds[r.execution] = kind[CHOOSE s \in R : s.execution = r.execution]
    BY <2>2
  <2> HIDE DEF E, kinds
  <2> QED BY <1>0, <2>1, <2>2, <2>3
<1>3. ASSUME NEW x \in E PROVE \E r \in R : r.execution = x
  OBVIOUS
<1>4. ASSUME NEW k \in K PROVE {x \in E : kinds[x] = k} = {r.execution : r \in Of(k)}
  <2>1. ASSUME NEW x \in E, kinds[x] = k PROVE \E r \in Of(k) : x = r.execution
    <3>1. PICK r \in R : r.execution = x
      BY <1>3
    <3> HIDE DEF kinds, E
    <3> QED BY <1>2, <2>1, <3>1
  <2>2. ASSUME NEW r \in Of(k) PROVE r.execution \in E /\ kinds[r.execution] = k
    <3> HIDE DEF kinds, E
    <3> QED BY <1>2
  <2> HIDE DEF kinds, E, Of
  <2> QED BY <2>1, <2>2
<1>5. ASSUME NEW k \in K
      PROVE  /\ g[k] = f[name[k]] /\ g[k] \in Int
             /\ g[k] = SumFunctionOnSet(one, {x \in E : kinds[x] = k})
  <2>0. IsFiniteSet({r.execution : r \in Of(k)})
    BY <1>1
  <2>1. name[k] \in report /\ name[k].spend = Spend(Of(k))
    BY DEF ReportRow
  <2>2. f[name[k]] = Spend(Of(k))["executions"]
    BY <2>1
  <2>3. Spend(Of(k))["executions"] = Cardinality({r.execution : r \in Of(k)})
    BY DEF Spend
  <2>4. g[k] = Cardinality({r.execution : r \in Of(k)})
    OBVIOUS
  <2>5. g[k] \in Int
    BY <2>0, <2>4, FS_CardinalityType
  <2>6. SumFunctionOnSet(one, {r.execution : r \in Of(k)}) = Cardinality({r.execution : r \in Of(k)})
    <3>1. \A x \in {r.execution : r \in Of(k)} : one[x] = 1
      OBVIOUS
    <3> HIDE DEF one
    <3> QED BY <2>0, <3>1, SumOfOnes
  <2>7. SumFunctionOnSet(one, {x \in E : kinds[x] = k}) = SumFunctionOnSet(one, {r.execution : r \in Of(k)})
    <3> HIDE DEF one, E, kinds, Of
    <3> QED BY <1>4, Zenon
  <2> QED BY <2>2, <2>3, <2>4, <2>5, <2>6, <2>7
<1>6. \A j, k \in K : name[j] = name[k] => j = k
  <2>1. \A k \in K : name[k].key = k
    BY DEF ReportRow
  <2> HIDE DEF name
  <2> QED BY <2>1
<1>7. report = {name[k] : k \in K}
  OBVIOUS
<1>8. SumFunctionOnSet(f, {name[k] : k \in K}) = SumFunctionOnSet(g, K)
  <2> HIDE DEF f, g, name, report
  <2>1. Renames(f, g, K, name)
    BY <1>5, <1>6 DEF Renames
  <2> QED BY <2>1, SumRenamed
<1>9. SumFunctionOnSet(g, K) = SumFunctionOnSet(one, E)
  <2>1. IsFiniteSet(E)
    <3>1. R \in SUBSET R
      OBVIOUS
    <3> QED BY <1>1, <3>1
  <2>2. Numbers(one, E)
    BY DEF Numbers
  <2>3. \A x \in E : kinds[x] \in K
    <3>1. ASSUME NEW x \in E PROVE kinds[x] \in K
      <4>1. PICK r \in R : r.execution = x
        BY <1>3
      <4> HIDE DEF kinds, E
      <4> QED BY <1>0, <1>2, <4>1
    <3> QED BY <3>1
  <2> HIDE DEF g, E, kinds, one
  <2>4. SumsByKind(one, E, kinds, K, g)
    BY <1>5, <2>3 DEF SumsByKind
  <2> QED BY <2>1, <2>2, <2>4, SumByKind
<1>10. SumFunctionOnSet(one, E) = Cardinality(E)
  <2>1. IsFiniteSet(E)
    <3>1. R \in SUBSET R
      OBVIOUS
    <3> QED BY <1>1, <3>1
  <2>2. \A x \in E : one[x] = 1
    OBVIOUS
  <2> HIDE DEF one, E
  <2> QED BY <2>1, <2>2, SumOfOnes
<1>11. SumOf(report)["executions"] = SumFunctionOnSet(f, report)
  <2>1. "executions" \in DOMAIN Spend({})
    BY DEF Spend
  <2>2. SumOf(report)["executions"] = SumFunction(f) /\ DOMAIN f = report
    BY <2>1 DEF SumOf
  <2> QED BY <2>2 DEF SumFunction
<1>12. SumFunctionOnSet(f, report) = SumFunctionOnSet(f, {name[k] : k \in K})
  BY <1>7, Zenon
<1>13. Spend(R)["executions"] = Cardinality(E)
  BY DEF Spend
<1> QED BY <1>8, <1>9, <1>10, <1>11, <1>12, <1>13 DEF ByKind

(* A report's sum has the columns of a total.                              *)
LEMMA ColumnsOfSpend == ASSUME NEW R PROVE DOMAIN Spend(R) = Columns
BY DEF Spend, Columns, Added

(* A report whose columns add up to those of a total is the total.         *)
LEMMA SameColumns ==
  ASSUME NEW report, NEW R, \A c \in Columns : SumOf(report)[c] = Spend(R)[c]
  PROVE  SumOf(report) = Spend(R)
<1>1. DOMAIN Spend({}) = Columns /\ DOMAIN Spend(R) = Columns
  BY ColumnsOfSpend
<1>2. SumOf(report) = [c \in Columns |-> SumOf(report)[c]]
  BY <1>1 DEF SumOf
<1>3. Spend(R) = [c \in Columns |-> Spend(R)[c]]
  BY DEF Spend, Columns, Added
<1> QED BY <1>2, <1>3

(* Rows the period and the contours pick are fit to report.                *)
LEMMA RowsAreReportable ==
  ASSUME LedgerInv, NEW from, NEW to, NEW contours
  PROVE  /\ Reportable(InRange(from, to, contours))
         /\ IsFiniteSet(Rows) /\ Rows \subseteq AttemptRows
         /\ \A r, s \in InRange(from, to, contours) :
               r.execution = s.execution => r.token = s.token /\ r.provider = s.provider
<1>1. Rows = {ledger[k] : k \in RowKeys}
  BY DEF Rows, RowKeys
<1>2. IsFiniteSet(Rows)
  <2>1. IsFiniteSet({ledger[k] : k \in RowKeys})
    BY ImageIsFinite DEF LedgerInv, RowsFit
  <2> QED BY <1>1, <2>1, Zenon
<1>3. InRange(from, to, contours) \subseteq Rows
  BY DEF InRange
<1>4. Rows \subseteq AttemptRows
  BY <1>1 DEF LedgerInv, LedgerTypes, RowKeys
<1>5. \A r \in Rows : r.source = IF r.usage.cost = None THEN "missing" ELSE "response"
  BY <1>1 DEF LedgerInv, RowsFit
<1>6. ASSUME NEW r \in Rows, NEW s \in Rows, r.execution = s.execution
      PROVE  r.token = s.token /\ r.provider = s.provider
  <2>1. PICK j \in RowKeys : r = ledger[j]
    BY <1>1
  <2>2. PICK k \in RowKeys : s = ledger[k]
    BY <1>1
  <2>3. <<r.execution, r.no>> = j /\ <<s.execution, s.no>> = k
    BY <2>1, <2>2 DEF LedgerInv, RowsFit
  <2>4. j[1] = k[1]
    BY <1>6, <2>3
  <2> QED BY <2>1, <2>2, <2>4 DEF LedgerInv, CallersFit
<1>7. IsFiniteSet(InRange(from, to, contours))
  BY <1>2, <1>3, FS_Subset
<1> QED BY <1>2, <1>3, <1>4, <1>5, <1>6, <1>7 DEF Reportable

(* A report by a column of the rows adds up to their total, save for the   *)
(* executions when those of one key do not keep together.                  *)
LEMMA ReportByColumn ==
  ASSUME NEW R, Reportable(R), NEW K, IsFiniteSet(K), NEW column, AllInColumn(R, column, K)
  PROVE  /\ \A c \in Added : SumOf(ByColumn(R, column, K))[c] = Spend(R)[c]
         /\ ColumnTogether(R, column) => SumOf(ByColumn(R, column, K)) = Spend(R)
<1> DEFINE kind == [r \in R |-> r[column]]
<1>1. ByColumn(R, column, K) = ByKind(R, kind, K)
  <2>1. ASSUME NEW k \in K
        PROVE  ReportRow(k, {r \in R : r[column] = k}) = ReportRow(k, {r \in R : kind[r] = k})
    <3>1. {r \in R : r[column] = k} = {r \in R : kind[r] = k}
      OBVIOUS
    <3> HIDE DEF kind
    <3> QED BY <3>1, Zenon
  <2> HIDE DEF kind
  <2> QED BY <2>1 DEF ByColumn, ByKind
<1>2. \A r \in R : kind[r] = r[column]
  OBVIOUS
<1> HIDE DEF kind
<1>3. AllOfKind(R, kind, K)
  BY <1>2 DEF AllOfKind, AllInColumn
<1>4. ASSUME NEW c \in Added PROVE SumOf(ByColumn(R, column, K))[c] = Spend(R)[c]
  <2>1. SumOf(ByKind(R, kind, K))[c] = Spend(R)[c]
    BY <1>3, ColumnAddsUp
  <2> QED BY <1>1, <2>1
<1>5. ASSUME ColumnTogether(R, column) PROVE SumOf(ByColumn(R, column, K)) = Spend(R)
  <2>1. KindsTogether(R, kind)
    BY <1>2, <1>5 DEF KindsTogether, ColumnTogether
  <2>2. SumOf(ByKind(R, kind, K)).executions = Spend(R).executions
    BY <1>3, <2>1, ExecutionsAddUp
  <2>3. \A c \in Columns : SumOf(ByColumn(R, column, K))[c] = Spend(R)[c]
    BY <1>1, <1>4, <2>2 DEF Columns
  <2> QED BY <2>3, SameColumns
<1> QED BY <1>4, <1>5

(* An attempt's cost is a fact, an estimate or missing.                    *)
LEMMA RowsAreOfThreeSorts ==
  ASSUME NEW R, Reportable(R)
  PROVE  Spend(R).upstream_attempts =
            Spend(R).missing_rows + Spend(R).approx_rows + Cardinality({r \in R : r.usage.cost # None})
<1> DEFINE fact == {r \in R : r.usage.cost # None}
           approx == {r \in R : r.source # "response" /\ r.est.usd # None}
           missing == {r \in R : r.source # "response" /\ r.est.usd = None}
<1>1. \A r \in R : r.source # "response" <=> r.usage.cost = None
  BY DEF Reportable
<1>2. R = (missing \cup approx) \cup fact /\ missing \cap approx = {} /\ (missing \cup approx) \cap fact = {}
  BY <1>1
<1>3. IsFiniteSet(R) /\ IsFiniteSet(fact) /\ IsFiniteSet(approx) /\ IsFiniteSet(missing)
  BY FS_Subset DEF Reportable
<1>4. /\ Spend(R).upstream_attempts = Cardinality(R)
      /\ Spend(R).missing_rows = Cardinality(missing) /\ Spend(R).approx_rows = Cardinality(approx)
  BY DEF Spend
<1> HIDE DEF fact, approx, missing
<1>5. IsFiniteSet(missing \cup approx) /\ Cardinality(missing \cup approx) = Cardinality(missing) + Cardinality(approx)
  <2>1. Cardinality(missing) \in Nat /\ Cardinality(approx) \in Nat /\ Cardinality({}) = 0
    BY <1>3, FS_CardinalityType, FS_EmptySet
  <2>2. /\ IsFiniteSet(missing \cup approx)
        /\ Cardinality(missing \cup approx)
             = Cardinality(missing) + Cardinality(approx) - Cardinality(missing \cap approx)
    BY <1>3, FS_Union
  <2>3. Cardinality(missing \cap approx) = 0
    BY <1>2, <2>1
  <2> QED BY <2>1, <2>2, <2>3
<1>6. Cardinality((missing \cup approx) \cup fact) = Cardinality(missing \cup approx) + Cardinality(fact)
  <2>1. Cardinality(missing \cup approx) \in Nat /\ Cardinality(fact) \in Nat /\ Cardinality({}) = 0
    BY <1>3, <1>5, FS_CardinalityType, FS_EmptySet
  <2>2. Cardinality((missing \cup approx) \cup fact)
           = Cardinality(missing \cup approx) + Cardinality(fact) - Cardinality((missing \cup approx) \cap fact)
    BY <1>3, <1>5, FS_Union
  <2>3. Cardinality((missing \cup approx) \cap fact) = 0
    BY <1>2, <2>1
  <2> QED BY <2>1, <2>2, <2>3
<1>7. Cardinality(R) = Cardinality((missing \cup approx) \cup fact)
  BY <1>2, Zenon
<1>8. Spend(R).upstream_attempts = Spend(R).missing_rows + Spend(R).approx_rows + Cardinality(fact)
  BY <1>4, <1>5, <1>6, <1>7
<1> QED BY <1>8 DEF fact

(* What was wasted is a part of what was paid.                             *)
LEMMA WasteWasPaid ==
  ASSUME LedgerInv, NEW from, NEW to, NEW contours
  PROVE  RetryWaste(from, to, contours) <= SpendTotals(from, to, contours).cost_actual_usd
<1> DEFINE R == InRange(from, to, contours)
           W == Retried(from, to, contours)
           weights == Weights("cost_actual_usd")
           f == [r \in W |-> Amount(r)]
<1>1. Reportable(R) /\ IsFiniteSet(R)
  BY RowsAreReportable DEF Reportable
<1>2. W \in SUBSET R
  BY DEF Retried
<1>3. \A r \in R : weights[r] \in Nat /\ weights[r] = Amount(r)
  <2>1. "cost_actual_usd" \in Added /\ \A r : Weight("cost_actual_usd", r) = Amount(r)
    BY DEF Added, Weight
  <2> HIDE DEF R
  <2> QED BY <1>1, <2>1, WeightsAreNatural
<1>4. RetryWaste(from, to, contours) = SumFunctionOnSet(f, W)
  <2>1. RetryWaste(from, to, contours) = SumFunction(f) /\ DOMAIN f = W
    BY DEF RetryWaste
  <2> QED BY <2>1 DEF SumFunction
<1>5. \A r \in W : f[r] = weights[r]
  BY <1>2, <1>3
<1>6. SpendTotals(from, to, contours).cost_actual_usd = SumFunctionOnSet(weights, R)
  <2>1. "cost_actual_usd" \in Added
    BY DEF Added
  <2>2. Spend(R)["cost_actual_usd"] = SumFunctionOnSet(weights, R)
    <3> HIDE DEF R
    <3> QED BY <1>1, <2>1, SpendIsSum
  <2> QED BY <2>2 DEF SpendTotals
<1> HIDE DEF f, weights, R, W
<1>7. SumFunctionOnSet(f, W) = SumFunctionOnSet(weights, W)
  <2>1. IsFiniteSet(W)
    BY <1>1, <1>2, FS_Subset
  <2> QED BY <1>5, <2>1, SumOfSame
<1>8. SumFunctionOnSet(weights, W) <= SumFunctionOnSet(weights, R)
  BY <1>1, <1>2, <1>3, SumOfPart
<1> QED BY <1>4, <1>6, <1>7, <1>8

(* The reports of a period agree with its total.                           *)
LEMMA ReportsInv == LedgerInv => ReportsAddUp
<1> SUFFICES ASSUME LedgerInv, NEW from \in Days, NEW to \in {day \in Days : from <= day}
             PROVE  LET total == SpendTotals(from, to, {"agent"})
                        all == SpendTotals(from, to, {"site", "agent"})
                        byToken == SpendByAgentToken(from, to)
                        byProvider == SpendBy("provider", from, to, {"agent"})
                        byDay == SpendBy("day", from, to, {"site", "agent"})
                    IN  /\ SumOf(byToken) = total /\ SumOf(byProvider) = total
                        /\ [SumOf(byDay) EXCEPT !.executions = all.executions] = all
                        /\ all.upstream_attempts = all.missing_rows + all.approx_rows
                              + Cardinality({r \in InRange(from, to, {"site", "agent"}) : r.usage.cost # None})
                        /\ RetryWaste(from, to, {"site", "agent"}) <= all.cost_actual_usd
  BY DEF ReportsAddUp
<1> DEFINE R == InRange(from, to, {"agent"})
           A == InRange(from, to, {"site", "agent"})
           byToken == SpendByAgentToken(from, to)
           byProvider == SpendBy("provider", from, to, {"agent"})
           byDay == SpendBy("day", from, to, {"site", "agent"})
<1>1. /\ Reportable(R) /\ IsFiniteSet(R)
      /\ ColumnTogether(R, "token") /\ ColumnTogether(R, "provider")
  BY RowsAreReportable DEF Reportable, ColumnTogether
<1>2. Reportable(A) /\ IsFiniteSet(A)
  BY RowsAreReportable DEF Reportable
<1>3. SumOf(byToken) = Spend(R)
  <2> DEFINE K == {k \in Tokens : k \notin revoked \/ \E r \in R : r.token = k}
             report == ByColumn(R, "token", K)
  <2>1. byToken = report
    BY DEF SpendByAgentToken, ByColumn
  <2>2. IsFiniteSet(K)
    BY LedgerAssumption, FS_Subset
  <2>3. AllInColumn(R, "token", K)
    BY <1>1 DEF AllInColumn, Reportable, AttemptRows
  <2> HIDE DEF K, R, byToken
  <2>4. SumOf(report) = Spend(R)
    BY <1>1, <2>2, <2>3, ReportByColumn
  <2> HIDE DEF report
  <2> QED BY <2>1, <2>4
<1>4. SumOf(byProvider) = Spend(R)
  <2> DEFINE h == [r \in R |-> r["provider"]]
             K == {h[r] : r \in R}
             report == ByColumn(R, "provider", K)
  <2>1. byProvider = report
    BY DEF SpendBy, ByColumn
  <2>2. IsFiniteSet(K)
    <3> HIDE DEF h, R
    <3> QED BY <1>1, ImageIsFinite
  <2>3. AllInColumn(R, "provider", K)
    BY DEF AllInColumn
  <2> HIDE DEF K, R, byProvider
  <2>4. SumOf(report) = Spend(R)
    BY <1>1, <2>2, <2>3, ReportByColumn
  <2> HIDE DEF report
  <2> QED BY <2>1, <2>4
<1>5. [SumOf(byDay) EXCEPT !.executions = Spend(A).executions] = Spend(A)
  <2> DEFINE h == [r \in A |-> r["day"]]
             K == {h[r] : r \in A}
             report == ByColumn(A, "day", K)
             sum == [SumOf(byDay) EXCEPT !.executions = Spend(A).executions]
  <2>1. byDay = report
    BY DEF SpendBy, ByColumn
  <2>2. IsFiniteSet(K)
    <3> HIDE DEF h, A
    <3> QED BY <1>2, ImageIsFinite
  <2>3. AllInColumn(A, "day", K)
    BY DEF AllInColumn
  <2> HIDE DEF K, A, byDay
  <2>4. \A c \in Added : SumOf(report)[c] = Spend(A)[c]
    BY <1>2, <2>2, <2>3, ReportByColumn
  <2>5. DOMAIN SumOf(byDay) = Columns /\ DOMAIN Spend(A) = Columns
        /\ SumOf(byDay) = [c \in Columns |-> SumOf(byDay)[c]]
    BY ColumnsOfSpend DEF SumOf
  <2> HIDE DEF report
  <2>6. \A c \in Columns : sum[c] = Spend(A)[c]
    <3>1. CASE "executions" \in Columns
      BY <2>1, <2>4, <2>5 DEF Columns
    <3> QED BY <3>1 DEF Columns
  <2>7. sum = [c \in Columns |-> sum[c]]
    BY <2>5
  <2>8. Spend(A) = [c \in Columns |-> Spend(A)[c]]
    BY DEF Spend, Columns, Added
  <2> QED BY <2>6, <2>7, <2>8
<1>6. Spend(A).upstream_attempts = Spend(A).missing_rows + Spend(A).approx_rows
                                      + Cardinality({r \in A : r.usage.cost # None})
  <2> HIDE DEF A
  <2> QED BY <1>2, RowsAreOfThreeSorts
<1>7. RetryWaste(from, to, {"site", "agent"}) <= Spend(A).cost_actual_usd
  BY WasteWasPaid DEF SpendTotals
<1> QED BY <1>3, <1>4, <1>5, <1>6, <1>7 DEF SpendTotals

(* The reports of a period agree with its total, to the attempt.           *)
THEOREM ReportsBalance == LedgerSpec => []ReportsAddUp
BY ReportsInv, LedgerInvariance, PTL

----------------------------------------------------------------------------
(* The reports.                                                            *)
(* What the tables hold.                                                   *)
RequestRows == {Reported(o, c, j) : o \in Outcomes, c \in Calls, j \in BOOLEAN}

OwnersOnce ==
    \A i, j \in DOMAIN requests :
        /\ ~requests[i].dedupJoin /\ ~requests[j].dedupJoin
        /\ requests[i].execution = requests[j].execution
        => i = j

TablesInv ==
    /\ requests \in Seq(RequestRows)
    /\ charged \in [Calls -> Seq(Charges)]
    /\ OwnersOnce

(* The tables are empty at first.                                          *)
LEMMA TablesStart == ReportsInit => TablesInv
BY DEF ReportsInit, TablesInv, OwnersOnce

(* Every request and every attempt keeps them in order.                    *)
LEMMA TablesStep == TablesInv /\ [ReportsNext \/ LogNext]_reportVars => TablesInv'
<1> SUFFICES ASSUME TablesInv, [ReportsNext \/ LogNext]_reportVars PROVE TablesInv'
  OBVIOUS
<1>1. ASSUME NEW o \in Outcomes, NEW c \in Calls, NEW joined \in BOOLEAN, RequestEnds(o, c, joined)
      PROVE  TablesInv'
  <2> DEFINE row == Reported(o, c, joined)
  <2>1. row \in RequestRows
    BY DEF RequestRows
  <2>2. row.execution = c /\ row.dedupJoin = joined
    BY DEF Reported
  <2>3. /\ requests' = Append(requests, row) /\ charged' = charged
        /\ joined \/ \A i \in DOMAIN requests : requests[i].execution # c \/ requests[i].dedupJoin
    BY <1>1 DEF RequestEnds, HasOwnersRow
  <2> HIDE DEF row
  <2>4. requests' \in Seq(RequestRows) /\ charged' \in [Calls -> Seq(Charges)]
    BY <2>1, <2>3 DEF TablesInv
  <2>5. OwnersOnce'
    <3> SUFFICES ASSUME NEW i \in DOMAIN requests', NEW j \in DOMAIN requests',
                        ~requests'[i].dedupJoin, ~requests'[j].dedupJoin,
                        requests'[i].execution = requests'[j].execution
                 PROVE  i = j
      BY DEF OwnersOnce
    <3>1. /\ DOMAIN requests' = 1..(Len(requests) + 1) /\ DOMAIN requests = 1..Len(requests)
          /\ requests'[Len(requests) + 1] = row
          /\ \A k \in DOMAIN requests : requests'[k] = requests[k]
      BY <2>1, <2>3 DEF TablesInv
    <3>2. Len(requests) \in Nat
      BY DEF TablesInv
    <3>3. CASE i \in DOMAIN requests /\ j \in DOMAIN requests
      BY <3>1, <3>3 DEF TablesInv, OwnersOnce
    <3>4. CASE i \notin DOMAIN requests /\ j \in DOMAIN requests
      BY <2>2, <2>3, <3>1, <3>2, <3>4
    <3>5. CASE j \notin DOMAIN requests /\ i \in DOMAIN requests
      BY <2>2, <2>3, <3>1, <3>2, <3>5
    <3>6. CASE i \notin DOMAIN requests /\ j \notin DOMAIN requests
      BY <3>1, <3>2, <3>6
    <3> QED BY <3>3, <3>4, <3>5, <3>6
  <2> QED BY <2>4, <2>5 DEF TablesInv
<1>2. ASSUME NEW c \in Calls, NEW charge \in Charges, AttemptWritten(c, charge) PROVE TablesInv'
  <2>1. requests' = requests /\ charged' = [charged EXCEPT ![c] = Append(@, charge)]
    BY <1>2 DEF AttemptWritten
  <2>2. charged' \in [Calls -> Seq(Charges)]
    BY <2>1 DEF TablesInv
  <2> QED BY <2>1, <2>2 DEF TablesInv, OwnersOnce
<1>3. CASE UNCHANGED <<requests, charged>>
  BY <1>3 DEF TablesInv, OwnersOnce
<1> QED
  BY <1>1, <1>2, <1>3
  DEF ReportsNext, LogNext, EntryWritten, LoadStarts, LogServed, LoadFails, LoadArrives, reportVars

(* The tables are in order for any constants.                              *)
LEMMA TablesInvariance == ReportsSpec => []TablesInv
BY TablesStart, TablesStep, PTL DEF ReportsSpec

(* The numbers up to n are n.                                              *)
LEMMA UpToNumber == ASSUME NEW n \in Nat PROVE IsFiniteSet(1..n) /\ Cardinality(1..n) = n
BY FS_Interval

----------------------------------------------------------------------------
(* What SortedBy chooses.                                                  *)
Ordered(s, key) == \A i, j \in DOMAIN s : i < j => s[i] # s[j] /\ key[s[i]] <= key[s[j]]

(* A finite set can be put in order of a key.                              *)
LEMMA OrderExists ==
  ASSUME NEW S, IsFiniteSet(S), NEW key, Numbers(key, S)
  PROVE  \E s \in [1..Cardinality(S) -> S] : Ordered(s, key)
<1> DEFINE Good == {n \in Nat : \A T \in SUBSET S :
                       Cardinality(T) = n => \E s \in [1..n -> T] : Ordered(s, key)}
<1>1. 0 \in Good
  <2>1. ASSUME NEW T \in SUBSET S, Cardinality(T) = 0 PROVE \E s \in [1..0 -> T] : Ordered(s, key)
    <3>1. <<>> \in [1..0 -> T] /\ Ordered(<<>>, key)
      BY DEF Ordered
    <3> QED BY <3>1
  <2> QED BY <2>1
<1>2. ASSUME NEW n \in Nat, n \in Good PROVE n + 1 \in Good
  <2>1. ASSUME NEW T \in SUBSET S, Cardinality(T) = n + 1
        PROVE  \E s \in [1..(n + 1) -> T] : Ordered(s, key)
    <3>1. IsFiniteSet(T) /\ T # {} /\ Numbers(key, T)
      BY <2>1, FS_Subset, FS_EmptySet DEF Numbers
    <3>2. PICK x \in T : \A y \in T : key[y] <= key[x]
      BY <3>1, LargestByKey
    <3>3. Cardinality(T \ {x}) = n /\ T \ {x} \in SUBSET S
      BY <2>1, <3>1, TakenOut
    <3>4. PICK s \in [1..n -> T \ {x}] : Ordered(s, key)
      BY <1>2, <3>3
    <3> DEFINE t == [i \in 1..(n + 1) |-> IF i = n + 1 THEN x ELSE s[i]]
    <3>5. t \in [1..(n + 1) -> T]
      OBVIOUS
    <3>6. ASSUME NEW i \in 1..(n + 1), NEW j \in 1..(n + 1), i < j
          PROVE  t[i] # t[j] /\ key[t[i]] <= key[t[j]]
      <4>1. CASE j = n + 1
        BY <3>2, <3>6, <4>1
      <4>2. CASE j # n + 1
        <5>1. i \in DOMAIN s /\ j \in DOMAIN s /\ t[i] = s[i] /\ t[j] = s[j]
          BY <3>6, <4>2
        <5> HIDE DEF t
        <5> QED BY <3>4, <3>6, <5>1 DEF Ordered
      <4> QED BY <4>1, <4>2
    <3>7. DOMAIN t = 1..(n + 1)
      OBVIOUS
    <3> HIDE DEF t
    <3>8. Ordered(t, key)
      BY <3>6, <3>7 DEF Ordered
    <3> QED BY <3>5, <3>8
  <2> QED BY <2>1
<1>3. Cardinality(S) \in Good
  <2>1. Nat \subseteq Good
    <3> HIDE DEF Good
    <3> QED BY <1>1, <1>2, FromZero
  <2> HIDE DEF Good
  <2> QED BY <2>1, FS_CardinalityType
<1> QED BY <1>3

(* Hence SortedBy is an enumeration of the set in that order.              *)
LEMMA SortedIs ==
  ASSUME NEW S, IsFiniteSet(S), NEW key, Numbers(key, S)
  PROVE  /\ SortedBy(S, key) \in [1..Cardinality(S) -> S]
         /\ Ordered(SortedBy(S, key), key)
         /\ \A x \in S : \E i \in 1..Cardinality(S) : SortedBy(S, key)[i] = x
         /\ SortedBy(S, key) \in Seq(S) /\ Len(SortedBy(S, key)) = Cardinality(S)
         /\ Cardinality(S) \in Nat
<1> DEFINE s == SortedBy(S, key)
           n == Cardinality(S)
<1>1. s \in [1..n -> S] /\ Ordered(s, key)
  <2>1. s = CHOOSE t \in [1..n -> S] : Ordered(t, key)
    BY DEF SortedBy, Ordered
  <2> HIDE DEF s
  <2> QED BY <2>1, OrderExists
<1>2. n \in Nat
  BY FS_CardinalityType
<1> HIDE DEF s
<1>3. s \in Injection(1..n, S)
  <2>1. ASSUME NEW i \in 1..n, NEW j \in 1..n, s[i] = s[j] PROVE i = j
    <3>1. i \in DOMAIN s /\ j \in DOMAIN s
      BY <1>1
    <3>2. ~(i < j) /\ ~(j < i)
      BY <1>1, <2>1, <3>1 DEF Ordered
    <3> QED BY <1>2, <3>2
  <2> QED BY <1>1, <2>1 DEF Injection, IsInjective
<1>4. Cardinality(1..n) = n
  BY <1>2, FS_Interval
<1>5. s \in Surjection(1..n, S)
  BY <1>3, <1>4, FS_Injection
<1>6. \A x \in S : \E i \in 1..n : s[i] = x
  BY <1>5 DEF Surjection
<1>7. s \in Seq(S) /\ Len(s) = n
  BY <1>1, <1>2
<1> QED BY <1>1, <1>2, <1>6, <1>7 DEF s

----------------------------------------------------------------------------
(* What is counted.                                                        *)
LEMMA RowOfTable ==
  ASSUME TablesInv, NEW i \in DOMAIN requests
  PROVE  /\ requests[i].contour \in ReportContours
         /\ requests[i].latency \in Nat \cup {NoSum}
         /\ requests[i].execution \in Calls /\ requests[i].dedupJoin \in BOOLEAN
<1>1. requests[i] \in RequestRows
  BY DEF TablesInv
<1> QED BY <1>1, ReportsAssumption DEF RequestRows, Reported

(* The rows a statement looks at are finitely many.                        *)
LEMMA MatchingIsFinite ==
  ASSUME TablesInv, NEW since, NEW client, NEW contour
  PROVE  /\ Matching(since, client, contour) \subseteq DOMAIN requests
         /\ IsFiniteSet(Matching(since, client, contour))
         /\ IsFiniteSet(DOMAIN requests) /\ DOMAIN requests = 1..Len(requests) /\ Len(requests) \in Nat
<1>1. DOMAIN requests = 1..Len(requests) /\ Len(requests) \in Nat
  BY DEF TablesInv
<1>2. IsFiniteSet(DOMAIN requests)
  BY <1>1, FS_Interval
<1>3. Matching(since, client, contour) \in SUBSET DOMAIN requests
  BY DEF Matching
<1> QED BY <1>1, <1>2, <1>3, FS_Subset

(* A column of the clients' lines: rows of a contour, counted by client.   *)
LEMMA ClientsAddUp ==
  ASSUME TablesInv, NEW since, NEW contour,
         NEW column \in {"total", "errors"}
  PROVE  SumFunction([e \in PerClientAggregate(since, contour) |-> e.counts[column]])
            = AggregateSince(since, Anyone, contour)[column]
<1> DEFINE ids == Matching(since, Anyone, contour)
           client == [i \in ids |-> requests[i].client]
           K == {client[i] : i \in ids}
           Of(c) == {i \in ids : requests[i].client = c}
           name == [c \in K |-> [client |-> c, counts |-> Summary(Of(c))]]
           clients == PerClientAggregate(since, contour)
           f == [e \in clients |-> e.counts[column]]
           S == IF column = "total" THEN ids ELSE {i \in ids : IsError(i)}
           g == [c \in K |-> Cardinality({i \in S : client[i] = c})]
<1>1. IsFiniteSet(ids) /\ S \in SUBSET ids
  BY MatchingIsFinite
<1>2. IsFiniteSet(S) /\ IsFiniteSet(K)
  <2>1. IsFiniteSet(K)
    <3> HIDE DEF ids, client
    <3> QED BY <1>1, ImageIsFinite
  <2>2. IsFiniteSet(S)
    <3> HIDE DEF ids, S
    <3> QED BY <1>1, FS_Subset
  <2> QED BY <2>1, <2>2
<1>3. clients = {name[c] : c \in K}
  <2>1. K = {requests[i].client : i \in ids}
    OBVIOUS
  <2>2. clients = {[client |-> c, counts |-> Summary(Of(c))] : c \in K}
    BY <2>1 DEF PerClientAggregate
  <2> HIDE DEF K
  <2> QED BY <2>2
<1>4. ASSUME NEW c \in K PROVE f[name[c]] = Cardinality({i \in S : client[i] = c})
  <2>1. name[c] \in clients /\ name[c].counts = Summary(Of(c))
    <3>1. name[c] \in clients
      BY <1>3
    <3> HIDE DEF K, clients
    <3> QED BY <3>1
  <2>2. f[name[c]] = Summary(Of(c))[column]
    <3> HIDE DEF clients, name
    <3> QED BY <2>1
  <2>3. CASE column = "total"
    <3>1. {i \in S : client[i] = c} = Of(c)
      BY <2>3
    <3>2. Summary(Of(c))[column] = Cardinality(Of(c))
      BY <2>3 DEF Summary
    <3> HIDE DEF Of, S, f, name, client
    <3> QED BY <2>2, <3>1, <3>2, Zenon
  <2>4. CASE column = "errors"
    <3>1. {i \in S : client[i] = c} = {i \in Of(c) : IsError(i)}
      BY <2>4
    <3>2. Summary(Of(c))[column] = Cardinality({i \in Of(c) : IsError(i)})
      BY <2>4 DEF Summary
    <3> HIDE DEF Of, S, f, name, client
    <3> QED BY <2>2, <3>1, <3>2, Zenon
  <2> QED BY <2>3, <2>4
<1>5. Renames(f, g, K, name)
  <2>1. \A c \in K : name[c].client = c
    OBVIOUS
  <2>2. ASSUME NEW c \in K PROVE g[c] = f[name[c]] /\ g[c] \in Int
    <3>1. g[c] = Cardinality({i \in S : client[i] = c})
      OBVIOUS
    <3>2. IsFiniteSet({i \in S : client[i] = c})
      <4> HIDE DEF S
      <4> QED BY <1>2, FS_Subset
    <3> HIDE DEF g, f, name, K, S, client
    <3> QED BY <1>4, <3>1, <3>2, FS_CardinalityType
  <2> HIDE DEF name, f, g, K
  <2> QED BY <2>1, <2>2 DEF Renames
<1>6. CountsByKind(S, client, K, g)
  <2>1. \A i \in S : client[i] \in K
    OBVIOUS
  <2>2. \A c \in K : g[c] = Cardinality({i \in S : client[i] = c})
    OBVIOUS
  <2> HIDE DEF S, client, K, g
  <2> QED BY <2>1, <2>2 DEF CountsByKind
<1>7. AggregateSince(since, Anyone, contour)[column] = Cardinality(S)
  BY DEF AggregateSince, Summary
<1>8. SumFunction(f) = SumFunctionOnSet(f, {name[c] : c \in K})
  <2>1. SumFunction(f) = SumFunctionOnSet(f, clients)
    BY DEF SumFunction
  <2> HIDE DEF f, clients, name, K
  <2> QED BY <1>3, <2>1, Zenon
<1> HIDE DEF f, g, name, K, S, client, clients
<1>9. SumFunctionOnSet(f, {name[c] : c \in K}) = SumFunctionOnSet(g, K)
  BY <1>2, <1>5, SumRenamed
<1>10. SumFunctionOnSet(g, K) = Cardinality(S)
  BY <1>2, <1>6, CountByKind
<1> QED BY <1>7, <1>8, <1>9, <1>10 DEF f, clients

(* The kinds of errors: each once, with its number of rows.                *)
ErrorKind(i) == <<requests[i].status, requests[i].code>>

(* The groups of errors add up to the errors.                              *)
LEMMA GroupsAddUp ==
  ASSUME TablesInv, NEW since, NEW contour
  PROVE  /\ SumFunction([g \in ErrorGroups(since, contour) |-> g.n])
               = AggregateSince(since, Anyone, contour).errors
         /\ IsFiniteSet(ErrorGroups(since, contour))
         /\ \A g \in ErrorGroups(since, contour) : g.n \in Nat
<1> DEFINE ids == Matching(since, Anyone, contour)
           errors == {i \in ids : IsError(i)}
           kind == [i \in errors |-> ErrorKind(i)]
           K == {kind[i] : i \in errors}
           groups == ErrorGroups(since, contour)
           name == [k \in K |-> [kind |-> k, n |-> Cardinality({i \in errors : kind[i] = k})]]
           f == [e \in groups |-> e.n]
           g == [k \in K |-> Cardinality({i \in errors : kind[i] = k})]
<1>1. IsFiniteSet(errors)
  <2>1. IsFiniteSet(ids) /\ errors \in SUBSET ids
    BY MatchingIsFinite
  <2> HIDE DEF ids, errors
  <2> QED BY <2>1, FS_Subset
<1>2. IsFiniteSet(K)
  <2> HIDE DEF errors, kind
  <2> QED BY <1>1, ImageIsFinite
<1>3. groups = {name[k] : k \in K}
  <2>1. ASSUME NEW i \in errors
        PROVE  [kind |-> ErrorKind(i), n |-> Cardinality({j \in errors : ErrorKind(j) = ErrorKind(i)})]
                  = name[kind[i]]
    <3>1. kind[i] = ErrorKind(i) /\ kind[i] \in K
      OBVIOUS
    <3>2. {j \in errors : ErrorKind(j) = ErrorKind(i)} = {j \in errors : kind[j] = kind[i]}
      BY <3>1
    <3>3. Cardinality({j \in errors : ErrorKind(j) = ErrorKind(i)})
             = Cardinality({j \in errors : kind[j] = kind[i]})
      BY <3>2, Zenon
    <3>4. name[kind[i]] = [kind |-> kind[i], n |-> Cardinality({j \in errors : kind[j] = kind[i]})]
      <4> HIDE DEF kind, errors, K
      <4> QED BY <3>1
    <3> HIDE DEF kind, errors, K, name
    <3> QED BY <3>1, <3>3, <3>4
  <2>2. groups = {[kind |-> ErrorKind(i), n |-> Cardinality({j \in errors : ErrorKind(j) = ErrorKind(i)})] : i \in errors}
    BY DEF ErrorGroups, ErrorKind
  <2>3. \A k \in K : \E i \in errors : k = kind[i]
    OBVIOUS
  <2>4. \A i \in errors : kind[i] \in K
    OBVIOUS
  <2> HIDE DEF groups, errors, kind, K, name
  <2>5. groups = {name[kind[i]] : i \in errors}
    BY <2>1, <2>2
  <2>6. {name[kind[i]] : i \in errors} = {name[k] : k \in K}
    BY <2>3, <2>4
  <2> QED BY <2>5, <2>6
<1>4. ASSUME NEW k \in K
      PROVE  name[k].kind = k /\ name[k].n = g[k] /\ g[k] \in Nat
             /\ g[k] = Cardinality({i \in errors : kind[i] = k})
  <2>1. IsFiniteSet({i \in errors : kind[i] = k})
    <3> HIDE DEF errors, kind
    <3> QED BY <1>1, FS_Subset
  <2>2. Cardinality({i \in errors : kind[i] = k}) \in Nat
    BY <2>1, FS_CardinalityType
  <2> HIDE DEF errors, kind, K
  <2> QED BY <2>2
<1>5. \A i \in errors : kind[i] \in K
  OBVIOUS
<1>6. f = [e \in groups |-> e.n] /\ SumFunction(f) = SumFunctionOnSet(f, groups)
  BY DEF SumFunction
<1>7. AggregateSince(since, Anyone, contour).errors = Cardinality(errors)
  BY DEF AggregateSince, Summary
<1> HIDE DEF f, g, name, K, kind, groups, errors
<1>8. \A k \in K : f[name[k]] = g[k]
  BY <1>3, <1>4, <1>6
<1>9. Renames(f, g, K, name)
  <2>1. \A k \in K : name[k].kind = k
    BY <1>4
  <2>2. \A j, k \in K : name[j] = name[k] => j = k
    BY <2>1
  <2>3. ASSUME NEW k \in K PROVE g[k] = f[name[k]] /\ g[k] \in Int
    <3>1. g[k] \in Nat
      BY <1>4
    <3>2. f[name[k]] = g[k]
      BY <1>8
    <3> QED BY <3>1, <3>2
  <2> QED BY <2>2, <2>3 DEF Renames
<1>10. CountsByKind(errors, kind, K, g)
  BY <1>4, <1>5 DEF CountsByKind
<1>11. SumFunctionOnSet(f, groups) = SumFunctionOnSet(f, {name[k] : k \in K})
  BY <1>3, Zenon
<1>12. SumFunctionOnSet(f, {name[k] : k \in K}) = SumFunctionOnSet(g, K) /\ IsFiniteSet({name[k] : k \in K})
  BY <1>2, <1>9, SumRenamed
<1>13. SumFunctionOnSet(g, K) = Cardinality(errors)
  BY <1>1, <1>2, <1>10, CountByKind
<1>14. IsFiniteSet(groups)
  BY <1>3, <1>12, Zenon
<1>15. \A e \in groups : e.n \in Nat
  <2>1. \A k \in K : name[k].n \in Nat
    BY <1>4
  <2> QED BY <1>3, <2>1
<1>16. SumFunction(f) = Cardinality(errors)
  BY <1>6, <1>11, <1>12, <1>13
<1> QED BY <1>6, <1>7, <1>14, <1>15, <1>16 DEF groups

(* What is neither a success nor an error is what clients gave up.         *)
LEMMA AbortedIsTheRest ==
  ASSUME NEW ids, IsFiniteSet(ids)
  PROVE  Summary(ids).total - Summary(ids).success - Summary(ids).errors
            = Cardinality({i \in ids : requests[i].status = "client_aborted"})
<1> DEFINE good == {i \in ids : requests[i].status = "success"}
           bad == {i \in ids : IsError(i)}
           gone == {i \in ids : requests[i].status = "client_aborted"}
<1>1. ids = (good \cup bad) \cup gone /\ good \cap bad = {} /\ (good \cup bad) \cap gone = {}
  BY DEF IsError, NonError
<1>2. IsFiniteSet(good) /\ IsFiniteSet(bad) /\ IsFiniteSet(gone)
  BY FS_Subset
<1>3. /\ Summary(ids).total = Cardinality(ids) /\ Summary(ids).success = Cardinality(good)
      /\ Summary(ids).errors = Cardinality(bad)
  BY DEF Summary
<1> HIDE DEF good, bad, gone
<1>4. /\ IsFiniteSet(good \cup bad) /\ Cardinality(good \cup bad) = Cardinality(good) + Cardinality(bad)
      /\ Cardinality(good) \in Nat /\ Cardinality(bad) \in Nat
  BY <1>1, <1>2, CountOfTwo
<1>5. /\ Cardinality((good \cup bad) \cup gone) = Cardinality(good \cup bad) + Cardinality(gone)
      /\ Cardinality(gone) \in Nat
  BY <1>1, <1>2, <1>4, CountOfTwo
<1>6. Cardinality(ids) = Cardinality((good \cup bad) \cup gone)
  BY <1>1, Zenon
<1>7. Summary(ids).total - Summary(ids).success - Summary(ids).errors = Cardinality(gone)
  BY <1>3, <1>4, <1>5, <1>6
<1> QED BY <1>7 DEF gone

(* The two contours are the whole.                                         *)
LEMMA ContoursAddUp ==
  ASSUME TablesInv, NEW since
  PROVE  AggregateSince(since, Anyone, "site").total + AggregateSince(since, Anyone, "agent").total
            = AggregateSince(since, Anyone, Anyone).total
<1> DEFINE S == Matching(since, Anyone, "site")
           A == Matching(since, Anyone, "agent")
           B == Matching(since, Anyone, Anyone)
<1>1. S \cup A = B /\ S \cap A = {}
  BY RowOfTable DEF Matching, ReportContours, Anyone
<1>2. /\ AggregateSince(since, Anyone, "site").total = Cardinality(S)
      /\ AggregateSince(since, Anyone, "agent").total = Cardinality(A)
      /\ AggregateSince(since, Anyone, Anyone).total = Cardinality(B)
  BY DEF AggregateSince, Summary
<1>3. IsFiniteSet(S) /\ IsFiniteSet(A)
  BY MatchingIsFinite
<1> HIDE DEF S, A, B
<1>4. Cardinality(S \cup A) = Cardinality(S) + Cardinality(A)
  BY <1>1, <1>3, CountOfTwo
<1>5. Cardinality(B) = Cardinality(S \cup A)
  BY <1>1, Zenon
<1> QED BY <1>2, <1>4, <1>5

(* The kinds the digest leaves out are not more frequent than those it     *)
(* names.                                                                  *)
LEMMA ToldAreFrequent ==
  ASSUME TablesInv, NEW since,
         NEW g \in ErrorGroups(since, "site"), g \notin Range(DailyDigest(since).told),
         NEW h \in Range(DailyDigest(since).told)
  PROVE  h.n >= g.n
<1> DEFINE groups == ErrorGroups(since, "site")
           key == [e \in groups |-> -e.n]
           kinds == ErrorBreakdownSince(since, "site")
           m == Min({ErrorsTold, Len(kinds)})
           named == SubSeq(kinds, 1, m)
<1>1. IsFiniteSet(groups) /\ \A e \in groups : e.n \in Nat
  BY GroupsAddUp
<1>2. \A e \in groups : key[e] = -e.n
  OBVIOUS
<1>3. kinds = SortedBy(groups, key)
  BY DEF ErrorBreakdownSince
<1>4. DailyDigest(since).told = named
  BY DEF DailyDigest
<1> HIDE DEF groups, key
<1>5. Numbers(key, groups)
  BY <1>1, <1>2 DEF Numbers
<1>6. /\ kinds \in [1..Len(kinds) -> groups] /\ kinds \in Seq(groups) /\ Len(kinds) \in Nat
      /\ Ordered(kinds, key) /\ \A e \in groups : \E i \in 1..Len(kinds) : kinds[i] = e
  BY <1>1, <1>3, <1>5, SortedIs
<1> HIDE DEF kinds
<1>7. m \in 0..Len(kinds)
  <2>1. ErrorsTold \in Nat
    BY ReportsAssumption
  <2>2. m = IF ErrorsTold <= Len(kinds) THEN ErrorsTold ELSE Len(kinds)
    BY <1>6, <2>1, MinOfTwo
  <2> QED BY <1>6, <2>1, <2>2
<1> HIDE DEF m
<1>8. DOMAIN named = 1..m /\ \A i \in 1..m : named[i] = kinds[i]
  BY <1>6, <1>7
<1>9. Range(named) = {kinds[i] : i \in 1..m}
  BY <1>8 DEF Range
<1>10. PICK i \in 1..m : h = kinds[i]
  BY <1>4, <1>9
<1>11. PICK j \in 1..Len(kinds) : g = kinds[j]
  BY <1>6 DEF groups
<1>12. j \notin 1..m
  BY <1>4, <1>9, <1>11
<1>13. i < j /\ i \in DOMAIN kinds /\ j \in DOMAIN kinds
  BY <1>6, <1>7, <1>10, <1>11, <1>12
<1>14. key[h] <= key[g] /\ h \in groups /\ g \in groups
  BY <1>6, <1>10, <1>11, <1>13 DEF Ordered
<1> QED BY <1>1, <1>2, <1>14

(* The counts of the digest and of the statistics agree.                   *)
LEMMA CountsInv == TablesInv => CountsAgree
<1> SUFFICES ASSUME TablesInv, NEW since \in Times
             PROVE  LET digest == DailyDigest(since)
                    IN  /\ \A c \in ReportContours :
                            LET whole == AggregateSince(since, Anyone, c)
                                clients == PerClientAggregate(since, c)
                                groups == ErrorGroups(since, c)
                            IN  /\ SumFunction([e \in clients |-> e.counts.total]) = whole.total
                                /\ SumFunction([e \in clients |-> e.counts.errors]) = whole.errors
                                /\ SumFunction([g \in groups |-> g.n]) = whole.errors
                        /\ digest.sites.total + digest.agents.total = AggregateSince(since, Anyone, Anyone).total
                        /\ digest.aborted = Cardinality({i \in Matching(since, Anyone, "agent") :
                                                            requests[i].status = "client_aborted"})
                        /\ \A g \in ErrorGroups(since, "site") :
                               g \in Range(digest.told) \/ \A named \in Range(digest.told) : named.n >= g.n
  BY DEF CountsAgree
<1> DEFINE digest == DailyDigest(since)
<1>1. ASSUME NEW c \in ReportContours
      PROVE  /\ SumFunction([e \in PerClientAggregate(since, c) |-> e.counts.total])
                  = AggregateSince(since, Anyone, c).total
             /\ SumFunction([e \in PerClientAggregate(since, c) |-> e.counts.errors])
                  = AggregateSince(since, Anyone, c).errors
             /\ SumFunction([g \in ErrorGroups(since, c) |-> g.n]) = AggregateSince(since, Anyone, c).errors
  <2>1. SumFunction([e \in PerClientAggregate(since, c) |-> e.counts["total"]])
                  = AggregateSince(since, Anyone, c)["total"]
    BY ClientsAddUp
  <2>2. SumFunction([e \in PerClientAggregate(since, c) |-> e.counts["errors"]])
                  = AggregateSince(since, Anyone, c)["errors"]
    BY ClientsAddUp
  <2>3. SumFunction([g \in ErrorGroups(since, c) |-> g.n]) = AggregateSince(since, Anyone, c).errors
    BY GroupsAddUp
  <2> QED BY <2>1, <2>2, <2>3
<1>2. digest.sites = AggregateSince(since, Anyone, "site") /\ digest.agents = AggregateSince(since, Anyone, "agent")
      /\ digest.aborted = digest.agents.total - digest.agents.success - digest.agents.errors
  BY DEF DailyDigest
<1>3. digest.sites.total + digest.agents.total = AggregateSince(since, Anyone, Anyone).total
  BY <1>2, ContoursAddUp
<1>4. digest.aborted = Cardinality({i \in Matching(since, Anyone, "agent") :
                                       requests[i].status = "client_aborted"})
  <2> DEFINE ids == Matching(since, Anyone, "agent")
  <2>1. IsFiniteSet(ids)
    BY MatchingIsFinite
  <2>2. digest.agents = Summary(ids)
    BY <1>2 DEF AggregateSince
  <2> HIDE DEF ids, digest
  <2>3. digest.aborted = Cardinality({i \in ids : requests[i].status = "client_aborted"})
    BY <1>2, <2>1, <2>2, AbortedIsTheRest
  <2> QED BY <2>3 DEF ids
<1>5. \A g \in ErrorGroups(since, "site") :
         g \in Range(digest.told) \/ \A named \in Range(digest.told) : named.n >= g.n
  BY ToldAreFrequent
<1> QED BY <1>1, <1>3, <1>4, <1>5
----------------------------------------------------------------------------
(* The percentile.                                                         *)

NoneTwice(s, n) == \A i, j \in 1..n : s[i] = s[j] => i = j
NaturalKeys(key, S) == \A x \in S : key[x] \in Nat
Firsts(s, k) == {s[i] : i \in 1..k}
UpTo(S, key, v) == {x \in S : key[x] <= v}
Under(S, key, v) == {x \in S : key[x] < v}

(* The first k of a sequence without repetitions are k.                    *)
LEMMA FirstAreSoMany ==
  ASSUME NEW S, NEW n \in Nat, NEW s \in [1..n -> S], NoneTwice(s, n), NEW k \in 0..n
  PROVE  IsFiniteSet(Firsts(s, k)) /\ Cardinality(Firsts(s, k)) = k
<1> DEFINE T == {s[i] : i \in 1..k}
           f == [i \in 1..k |-> s[i]]
<1>1. f \in Bijection(1..k, T)
  <2>1. \A i \in 1..k : f[i] = s[i]
    OBVIOUS
  <2>2. f \in [1..k -> T]
    OBVIOUS
  <2>3. \A i, j \in 1..k : f[i] = f[j] => i = j
    BY <2>1 DEF NoneTwice
  <2>4. \A x \in T : \E i \in 1..k : f[i] = x
    BY <2>1
  <2> HIDE DEF f, T
  <2> QED BY <2>2, <2>3, <2>4 DEF Bijection, Injection, Surjection, IsInjective
<1>2. IsFiniteSet(1..k) /\ Cardinality(1..k) = k
  BY FS_Interval
<1> HIDE DEF f, T
<1>3. ExistsBijection(1..k, T)
  BY <1>1 DEF ExistsBijection
<1>4. IsFiniteSet(T) /\ Cardinality(T) = k
  BY <1>2, <1>3, FS_Bijection
<1> QED BY <1>4 DEF T, Firsts

(* The value at the whole part of p / b of a sorted sequence.              *)
LEMMA IsPercentile ==
  ASSUME NEW S, IsFiniteSet(S), S # {}, NEW key, NaturalKeys(key, S),
         NEW b \in Nat \ {0}, NEW p \in 0..(b - 1)
  PROVE  LET s == SortedBy(S, key)
             n == Cardinality(S)
             index == (p * n) \div b
             value == key[s[index + 1]]
         IN  /\ n \in Nat /\ Len(s) = n /\ index \in 0..(n - 1) /\ s[index + 1] \in S
             /\ b * Cardinality(UpTo(S, key, value)) >= p * n
             /\ b * Cardinality(Under(S, key, value)) <= p * n
<1> DEFINE s == SortedBy(S, key)
           n == Cardinality(S)
           index == (p * n) \div b
           value == key[s[index + 1]]
           low == {x \in S : key[x] <= value}
           lower == {x \in S : key[x] < value}
<1>0. \A x \in S : key[x] \in Nat
  BY DEF NaturalKeys
<1>1. Numbers(key, S)
  BY <1>0 DEF Numbers
<1>2. /\ s \in [1..n -> S] /\ n \in Nat /\ Len(s) = n /\ Ordered(s, key)
      /\ \A x \in S : \E i \in 1..n : s[i] = x
  BY <1>1, SortedIs
<1>3. n # 0
  BY FS_EmptySet
<1> HIDE DEF s, n
<1>4. p * n \in Nat /\ p \in Nat /\ p < b
  BY <1>2
<1>5. /\ index \in Nat /\ b * index <= p * n /\ p * n < b * (index + 1)
  <2> DEFINE a == p * n
  <2>1. a \in Nat
    BY <1>4
  <2> HIDE DEF a
  <2>2. a \div b \in Nat /\ b * (a \div b) <= a /\ a < b * ((a \div b) + 1)
    BY <2>1, DivBounds
  <2> QED BY <2>2 DEF a
<1> HIDE DEF index
<1>6. index < n
  BY <1>2, <1>3, <1>4, <1>5, PartIsSmaller
<1>7. index + 1 \in 1..n /\ s[index + 1] \in S /\ DOMAIN s = 1..n
  BY <1>2, <1>5, <1>6
<1>8. NoneTwice(s, n)
  BY <1>2, <1>7 DEF Ordered, NoneTwice
<1>9. \A i, j \in 1..n : i <= j => key[s[i]] <= key[s[j]]
  <2> SUFFICES ASSUME NEW i \in 1..n, NEW j \in 1..n, i <= j PROVE key[s[i]] <= key[s[j]]
    OBVIOUS
  <2>1. CASE i < j
    BY <1>7, <1>2, <2>1 DEF Ordered
  <2>2. CASE i = j
    <3>1. key[s[i]] \in Nat
      BY <1>0, <1>2
    <3> QED BY <2>2, <3>1
  <2> QED BY <2>1, <2>2
<1>10. /\ value \in Nat /\ \A i \in 1..n : s[i] \in S /\ key[s[i]] \in Nat
       /\ \A i \in 1..n : i <= index + 1 => key[s[i]] <= value
       /\ \A i \in 1..n : i > index => value <= key[s[i]]
  BY <1>0, <1>2, <1>5, <1>7, <1>9
<1> HIDE DEF value
<1>11. IsFiniteSet(low) /\ IsFiniteSet(lower) /\ Cardinality(low) \in Nat /\ Cardinality(lower) \in Nat
  BY FS_Subset, FS_CardinalityType
<1>12. Cardinality(low) >= index + 1
  <2> DEFINE k == index + 1
             T == Firsts(s, k)
  <2>1. k \in 0..n
    BY <1>7, <1>2
  <2>2. T \subseteq low
    BY <1>2, <1>5, <1>6, <1>10 DEF Firsts
  <2> HIDE DEF k, low
  <2>3. Cardinality(T) = k
    BY <1>2, <1>8, <2>1, FirstAreSoMany
  <2> HIDE DEF T
  <2>4. Cardinality(T) <= Cardinality(low)
    BY <1>11, <2>2, FS_Subset
  <2>5. Cardinality(low) >= k
    BY <1>11, <2>1, <2>3, <2>4
  <2> QED BY <2>5 DEF k
<1>13. Cardinality(lower) <= index
  <2> DEFINE T == Firsts(s, index)
  <2>1. lower \subseteq T
    <3> SUFFICES ASSUME NEW x \in lower PROVE x \in T
      OBVIOUS
    <3>1. PICK i \in 1..n : s[i] = x
      BY <1>2
    <3>2. ~(i > index)
      BY <1>10, <3>1
    <3>3. i \in 1..index
      BY <1>2, <1>5, <3>2
    <3> QED BY <3>1, <3>3 DEF Firsts
  <2>2. index \in 0..n
    BY <1>2, <1>5, <1>6
  <2>3. IsFiniteSet(T) /\ Cardinality(T) = index
    <3>1. n \in Nat /\ s \in [1..n -> S]
      BY <1>2
    <3> QED BY <1>8, <2>2, <3>1, FirstAreSoMany
  <2> HIDE DEF T, lower
  <2>4. Cardinality(lower) <= Cardinality(T)
    BY <2>1, <2>3, FS_Subset
  <2> QED BY <2>3, <2>4
<1> DEFINE l == Cardinality(low)
           r == Cardinality(lower)
<1> HIDE DEF l, r
<1>14. b * (index + 1) <= b * l
  <2>1. l \in Nat /\ l >= index + 1
    BY <1>11, <1>12 DEF l
  <2> QED BY <1>5, <2>1
<1>15. b * r <= b * index
  <2>1. r \in Nat /\ r <= index
    BY <1>11, <1>13 DEF r
  <2> QED BY <1>5, <2>1
<1>16. b * l \in Int /\ b * r \in Int /\ b * index \in Int /\ b * (index + 1) \in Int
  BY <1>5, <1>11 DEF l, r
<1>17. b * l >= p * n /\ b * r <= p * n
  BY <1>4, <1>5, <1>14, <1>15, <1>16
<1>18. /\ b * Cardinality(low) >= p * n /\ b * Cardinality(lower) <= p * n
  BY <1>17 DEF l, r
<1>19. index \in 0..(n - 1)
  BY <1>2, <1>5, <1>6
<1> QED BY <1>2, <1>7, <1>18, <1>19 DEF s, n, index, value, UpTo, Under

(* The latency that is called the 95th percentile is one.                  *)
LEMMA PercentileInv == TablesInv => P95IsAPercentile
<1> SUFFICES ASSUME TablesInv, NEW since \in Times, NEW c \in ReportContours
             PROVE  LET value == P95LatencySince(since, c)
                        ids == {i \in Matching(since, Anyone, c) : requests[i].latency # NoSum}
                        sample == {i \in ids : Cardinality({j \in ids : j > i}) < SampleSize}
                    IN  sample # {} =>
                            /\ Portion[2] * Cardinality({i \in sample : requests[i].latency <= value})
                                    >= Portion[1] * Cardinality(sample)
                            /\ Portion[2] * Cardinality({i \in sample : requests[i].latency < value})
                                    <= Portion[1] * Cardinality(sample)
  BY DEF P95IsAPercentile
<1> DEFINE value == P95LatencySince(since, c)
           ids == {i \in Matching(since, Anyone, c) : requests[i].latency # NoSum}
           sample == {i \in ids : Cardinality({j \in ids : j > i}) < SampleSize}
           key == [i \in sample |-> requests[i].latency]
           sorted == SortedBy(sample, key)
           n == Cardinality(sample)
           index == (Portion[1] * n) \div Portion[2]
<1>1. SUFFICES ASSUME sample # {}
               PROVE  /\ Portion[2] * Cardinality({i \in sample : requests[i].latency <= value}) >= Portion[1] * n
                      /\ Portion[2] * Cardinality({i \in sample : requests[i].latency < value}) <= Portion[1] * n
  OBVIOUS
<1>2. IsFiniteSet(sample) /\ sample \subseteq DOMAIN requests /\ \A i \in sample : requests[i].latency # NoSum
  <2>1. sample \in SUBSET Matching(since, Anyone, c)
    OBVIOUS
  <2>2. \A i \in sample : requests[i].latency # NoSum
    OBVIOUS
  <2> HIDE DEF sample
  <2> QED BY <2>1, <2>2, MatchingIsFinite, FS_Subset
<1>3. value = requests[SortedBy(sample, key)[Min({(Portion[1] * Len(sorted)) \div Portion[2], Len(sorted) - 1}) + 1]].latency
  BY <1>1 DEF P95LatencySince
<1>4. \A i \in sample : key[i] = requests[i].latency
  OBVIOUS
<1> HIDE DEF sample, key, value
<1>5. NaturalKeys(key, sample)
  BY <1>2, <1>4, RowOfTable DEF NaturalKeys
<1>6. Portion[2] \in Nat \ {0} /\ Portion[1] \in 0..(Portion[2] - 1)
  BY ReportsAssumption
<1>7. /\ n \in Nat /\ Len(sorted) = n /\ index \in 0..(n - 1) /\ sorted[index + 1] \in sample
      /\ Portion[2] * Cardinality(UpTo(sample, key, key[sorted[index + 1]])) >= Portion[1] * n
      /\ Portion[2] * Cardinality(Under(sample, key, key[sorted[index + 1]])) <= Portion[1] * n
  BY <1>1, <1>2, <1>5, <1>6, IsPercentile
<1>8. value = key[sorted[index + 1]]
  <2>1. value = requests[sorted[Min({index, n - 1}) + 1]].latency
    <3> HIDE DEF sorted, n
    <3>1. Len(sorted) = n
      BY <1>7
    <3> QED BY <1>3, <3>1 DEF sorted
  <2> HIDE DEF sorted, n, index
  <2>2. Min({index, n - 1}) = index
    <3> DEFINE a == n - 1
    <3>1. index \in Int /\ a \in Int /\ index <= a
      BY <1>7
    <3> HIDE DEF a
    <3>2. Min({index, a}) = index
      BY <3>1, MinOfTwo
    <3> QED BY <3>2 DEF a
  <2> QED BY <1>4, <1>7, <2>1, <2>2
<1>9. UpTo(sample, key, key[sorted[index + 1]]) = {i \in sample : requests[i].latency <= value}
  <2> HIDE DEF sorted, index
  <2> QED BY <1>4, <1>8 DEF UpTo
<1>10. Under(sample, key, key[sorted[index + 1]]) = {i \in sample : requests[i].latency < value}
  <2> HIDE DEF sorted, index
  <2> QED BY <1>4, <1>8 DEF Under
<1> HIDE DEF sorted, n, index
<1>11. Cardinality(UpTo(sample, key, key[sorted[index + 1]]))
         = Cardinality({i \in sample : requests[i].latency <= value})
  BY <1>9, Zenon
<1>12. Cardinality(Under(sample, key, key[sorted[index + 1]]))
         = Cardinality({i \in sample : requests[i].latency < value})
  BY <1>10, Zenon
<1> QED BY <1>7, <1>11, <1>12

----------------------------------------------------------------------------
(* The list of requests.                                                   *)
EndedCalls == {c \in Calls : HasOwnersRow(c)}

(* The attempts of the executions that have ended.                         *)
LEMMA EndedIs ==
  ASSUME TablesInv
  PROVE  /\ IsFiniteSet(AttemptsEnded) /\ IsFiniteSet(EndedCalls)
         /\ \A a \in AttemptsEnded : a = <<a[1], a[2]>> /\ a[1] \in EndedCalls /\ a[2] \in DOMAIN charged[a[1]]
         /\ \A c \in EndedCalls : \A k \in DOMAIN charged[c] : <<c, k>> \in AttemptsEnded
<1> DEFINE part == [c \in EndedCalls |-> {c} \X DOMAIN charged[c]]
           parts == {part[c] : c \in EndedCalls}
<1>1. IsFiniteSet(EndedCalls) /\ EndedCalls \subseteq Calls
  BY ReportsAssumption, FS_Subset DEF EndedCalls
<1>2. \A c \in EndedCalls : part[c] = {c} \X DOMAIN charged[c]
  OBVIOUS
<1>3. AttemptsEnded = UNION parts
  <2>1. parts = {{c} \X DOMAIN charged[c] : c \in EndedCalls}
    BY <1>2
  <2> QED BY <2>1 DEF AttemptsEnded, EndedCalls
<1> HIDE DEF part
<1>4. IsFiniteSet(parts)
  BY <1>1, ImageIsFinite
<1>5. \A T \in parts : IsFiniteSet(T)
  <2>1. ASSUME NEW c \in EndedCalls PROVE IsFiniteSet({c} \X DOMAIN charged[c])
    <3>1. charged[c] \in Seq(Charges)
      BY <1>1 DEF TablesInv
    <3>2. DOMAIN charged[c] = 1..Len(charged[c]) /\ Len(charged[c]) \in Nat
      BY <3>1
    <3>3. IsFiniteSet(DOMAIN charged[c])
      <4>1. IsFiniteSet(1..Len(charged[c]))
        BY <3>2, UpToNumber
      <4> QED BY <3>2, <4>1
    <3>4. IsFiniteSet({c})
      BY FS_Singleton, Zenon
    <3> QED BY <3>3, <3>4, FS_Product
  <2> QED BY <1>2, <2>1
<1>6. IsFiniteSet(AttemptsEnded)
  <2> HIDE DEF parts
  <2>1. IsFiniteSet(UNION parts)
    BY <1>4, <1>5, FS_UNION
  <2> QED BY <1>3, <2>1, Zenon
<1>7. ASSUME NEW a \in AttemptsEnded
      PROVE  a = <<a[1], a[2]>> /\ a[1] \in EndedCalls /\ a[2] \in DOMAIN charged[a[1]]
  BY DEF AttemptsEnded, EndedCalls
<1>8. ASSUME NEW c \in EndedCalls, NEW k \in DOMAIN charged[c] PROVE <<c, k>> \in AttemptsEnded
  BY DEF AttemptsEnded, EndedCalls
<1> QED BY <1>1, <1>6, <1>7, <1>8

(* P is a part of the attempts, w what each counts, F what a call counts.  *)
Chosen(P, c) == {k \in DOMAIN charged[c] : <<c, k>> \in P}
OfCall(w, c) == [k \in DOMAIN charged[c] |-> w[<<c, k>>]]
PerCall(P, w, F) == \A c \in EndedCalls : F[c] = SumFunctionOnSet(OfCall(w, c), Chosen(P, c))

(* What the attempts count is what their calls count.                      *)
LEMMA CallsAddUp ==
  ASSUME TablesInv, NEW P \in SUBSET AttemptsEnded, NEW w, Numbers(w, P), NEW F, PerCall(P, w, F)
  PROVE  /\ SumFunctionOnSet(F, EndedCalls) = SumFunctionOnSet(w, P)
         /\ \A c \in EndedCalls : F[c] \in Int
<1> DEFINE kind == [a \in P |-> a[1]]
<1>0. IsFiniteSet(P) /\ IsFiniteSet(EndedCalls)
  BY EndedIs, FS_Subset
<1>1. \A a \in P : kind[a] = a[1]
  OBVIOUS
<1> HIDE DEF kind
<1>2. ASSUME NEW c \in EndedCalls
      PROVE  F[c] = SumFunctionOnSet(w, {a \in P : kind[a] = c}) /\ F[c] \in Int
  <2> DEFINE K == Chosen(P, c)
             u == OfCall(w, c)
             name == [k \in K |-> <<c, k>>]
  <2>1. {a \in P : kind[a] = c} = {name[k] : k \in K}
    <3>1. ASSUME NEW a \in P, kind[a] = c PROVE \E k \in K : a = name[k]
      <4>1. a = <<c, a[2]>> /\ a[2] \in DOMAIN charged[c]
        BY <1>1, <3>1, EndedIs
      <4>2. a[2] \in K
        BY <4>1 DEF Chosen
      <4>3. name[a[2]] = <<c, a[2]>>
        BY <4>2
      <4> HIDE DEF K, name
      <4> QED BY <4>1, <4>2, <4>3
    <3>2. ASSUME NEW k \in K PROVE name[k] \in P /\ kind[name[k]] = c
      <4>1. name[k] = <<c, k>> /\ <<c, k>> \in P
        BY DEF Chosen
      <4> HIDE DEF K, name
      <4> QED BY <1>1, <4>1
    <3> HIDE DEF K, name
    <3> QED BY <3>1, <3>2
  <2>2. IsFiniteSet(K)
    <3>1. charged[c] \in Seq(Charges)
      BY DEF TablesInv, EndedCalls
    <3>2. DOMAIN charged[c] = 1..Len(charged[c]) /\ Len(charged[c]) \in Nat
      BY <3>1
    <3>3. IsFiniteSet(DOMAIN charged[c]) /\ K \in SUBSET DOMAIN charged[c]
      BY <3>2, FS_Interval DEF Chosen
    <3> HIDE DEF K
    <3> QED BY <3>3, FS_Subset
  <2>3. Renames(w, u, K, name)
    <3>1. ASSUME NEW j \in K, NEW k \in K, name[j] = name[k] PROVE j = k
      <4>1. name[j] = <<c, j>> /\ name[k] = <<c, k>>
        OBVIOUS
      <4> HIDE DEF K, name
      <4>2. <<c, j>> = <<c, k>>
        BY <3>1, <4>1, Zenon
      <4> QED BY <4>2
    <3>2. ASSUME NEW k \in K PROVE u[k] = w[name[k]] /\ u[k] \in Int
      <4>1. name[k] = <<c, k>> /\ u[k] = w[<<c, k>>] /\ <<c, k>> \in P
        BY DEF Chosen, OfCall
      <4> HIDE DEF K, name, u
      <4> QED BY <4>1 DEF Numbers
    <3> HIDE DEF K, name, u
    <3> QED BY <3>1, <3>2 DEF Renames
  <2>4. F[c] = SumFunctionOnSet(u, K)
    BY DEF PerCall
  <2>5. Numbers(u, K)
    <3> HIDE DEF u, K, name
    <3> QED BY <2>3 DEF Renames, Numbers
  <2> HIDE DEF K, u, name
  <2>6. SumFunctionOnSet(w, {name[k] : k \in K}) = SumFunctionOnSet(u, K)
    BY <2>2, <2>3, SumRenamed
  <2>7. SumFunctionOnSet(w, {a \in P : kind[a] = c}) = SumFunctionOnSet(w, {name[k] : k \in K})
    BY <2>1, Zenon
  <2>8. SumFunctionOnSet(u, K) \in Int
    BY <2>2, <2>5, SumIsNumber
  <2> QED BY <2>4, <2>6, <2>7, <2>8
<1>3. SumsByKind(w, P, kind, EndedCalls, F)
  <2>1. \A a \in P : kind[a] \in EndedCalls
    BY <1>1, EndedIs
  <2> QED BY <1>2, <2>1 DEF SumsByKind
<1>4. SumFunctionOnSet(F, EndedCalls) = SumFunctionOnSet(w, P)
  BY <1>0, <1>3, SumByKind
<1> QED BY <1>2, <1>4

(* The rows of the list that did not join another: one for each call that  *)
(* has ended.                                                              *)
Newest == SortedBy(Matching(0, Anyone, Anyone), [i \in Matching(0, Anyone, Anyone) |-> -i])
List == ListRecentFiltered(Len(requests), Anyone, Anyone)
Own == {k \in DOMAIN List : ~List[k].dedupJoin}

(* The list has every request once, newest first.                          *)
LEMMA ListIs ==
  ASSUME TablesInv
  PROVE  /\ Newest \in [1..Len(requests) -> 1..Len(requests)] /\ Len(requests) \in Nat
         /\ \A i, j \in 1..Len(requests) : Newest[i] = Newest[j] => i = j
         /\ \A i \in 1..Len(requests) : \E k \in 1..Len(requests) : Newest[k] = i
         /\ DOMAIN List = 1..Len(requests)
         /\ \A k \in 1..Len(requests) : List[k] = Listed(Newest[k])
<1> DEFINE ids == Matching(0, Anyone, Anyone)
           key == [i \in ids |-> -i]
           n == Len(requests)
<1>1. DOMAIN requests = 1..n /\ n \in Nat
  BY MatchingIsFinite
<1>2. ids = 1..n
  <2>1. ASSUME NEW i \in DOMAIN requests PROVE requests[i].at >= 0
    <3>1. requests[i] \in RequestRows
      BY DEF TablesInv
    <3>2. requests[i].at \in Nat
      BY <3>1, ReportsAssumption DEF RequestRows, Reported
    <3> QED BY <3>2
  <2> QED BY <1>1, <2>1 DEF Matching
<1>3. IsFiniteSet(ids) /\ Cardinality(ids) = n
  <2>1. IsFiniteSet(1..n) /\ Cardinality(1..n) = n
    <3> HIDE DEF n
    <3> QED BY <1>1, UpToNumber
  <2> HIDE DEF ids, n
  <2> QED BY <1>2, <2>1
<1>4. Numbers(key, ids)
  BY <1>1, <1>2 DEF Numbers
<1>5. Newest = SortedBy(ids, key)
  BY DEF Newest
<1>6. List = [k \in 1..Min({n, Len(Newest)}) |-> Listed(Newest[k])]
  BY DEF List, Newest, ListRecentFiltered
<1> HIDE DEF ids, key
<1>7. /\ Newest \in [1..n -> ids] /\ Ordered(Newest, key) /\ Len(Newest) = n
      /\ \A x \in ids : \E i \in 1..n : Newest[i] = x
  BY <1>3, <1>4, <1>5, SortedIs
<1> HIDE DEF n
<1>8. Min({n, Len(Newest)}) = n
  BY <1>1, <1>7, MinOfTwo
<1>9. \A i, j \in 1..n : Newest[i] = Newest[j] => i = j
  <2>1. ASSUME NEW i \in 1..n, NEW j \in 1..n, Newest[i] = Newest[j] PROVE i = j
    <3>1. DOMAIN Newest = 1..n
      BY <1>7
    <3>2. ~(i < j) /\ ~(j < i)
      BY <1>7, <2>1, <3>1 DEF Ordered
    <3> QED BY <1>1, <3>2
  <2> QED BY <2>1
<1>10. DOMAIN List = 1..n /\ \A k \in 1..n : List[k] = Listed(Newest[k])
  BY <1>6, <1>8
<1> QED BY <1>1, <1>2, <1>7, <1>9, <1>10 DEF n

(* f lists, for a row, what F is for its call.                             *)
ListsPerCall(f, F) == \A k \in Own : f[k] = F[requests[Newest[k]].execution]

(* What the rows count that own their call is what the calls count.        *)
LEMMA OwnersAddUp ==
  ASSUME TablesInv, NEW f, NEW F, ListsPerCall(f, F), \A c \in EndedCalls : F[c] \in Int
  PROVE  SumFunctionOnSet(f, Own) = SumFunctionOnSet(F, EndedCalls)
<1> DEFINE n == Len(requests)
           call == [k \in Own |-> requests[Newest[k]].execution]
<1>1. /\ Newest \in [1..n -> 1..n] /\ n \in Nat /\ DOMAIN requests = 1..n
      /\ \A i, j \in 1..n : Newest[i] = Newest[j] => i = j
      /\ \A i \in 1..n : \E k \in 1..n : Newest[k] = i
      /\ Own \subseteq 1..n
      /\ \A k \in 1..n : k \in Own <=> ~requests[Newest[k]].dedupJoin
  <2>1. /\ Newest \in [1..n -> 1..n] /\ n \in Nat
        /\ \A i, j \in 1..n : Newest[i] = Newest[j] => i = j
        /\ \A i \in 1..n : \E k \in 1..n : Newest[k] = i
        /\ DOMAIN List = 1..n /\ \A k \in 1..n : List[k] = Listed(Newest[k])
    BY ListIs
  <2>2. \A i : Listed(i).dedupJoin = requests[i].dedupJoin
    BY DEF Listed
  <2>3. DOMAIN requests = 1..n
    BY MatchingIsFinite
  <2> HIDE DEF n
  <2>4. Own \subseteq 1..n
    BY <2>1 DEF Own
  <2>5. \A k \in 1..n : k \in Own <=> ~requests[Newest[k]].dedupJoin
    BY <2>1, <2>2 DEF Own
  <2> QED BY <2>1, <2>3, <2>4, <2>5
<1> HIDE DEF n
<1>2. IsFiniteSet(Own)
  <2>1. IsFiniteSet(1..n)
    BY <1>1, FS_Interval
  <2> QED BY <1>1, <2>1, FS_Subset
<1>3. \A k \in Own : call[k] = requests[Newest[k]].execution
  OBVIOUS
<1> HIDE DEF call
<1>4. ASSUME NEW j \in Own, NEW k \in Own, call[j] = call[k] PROVE j = k
  <2>1. /\ Newest[j] \in DOMAIN requests /\ Newest[k] \in DOMAIN requests
        /\ ~requests[Newest[j]].dedupJoin /\ ~requests[Newest[k]].dedupJoin
        /\ requests[Newest[j]].execution = requests[Newest[k]].execution
    BY <1>1, <1>3, <1>4
  <2>2. Newest[j] = Newest[k]
    BY <2>1 DEF TablesInv, OwnersOnce
  <2> QED BY <1>1, <2>2
<1>5. {call[k] : k \in Own} = EndedCalls
  <2>1. ASSUME NEW k \in Own PROVE call[k] \in EndedCalls
    <3>1. Newest[k] \in DOMAIN requests /\ ~requests[Newest[k]].dedupJoin
      BY <1>1
    <3>2. requests[Newest[k]].execution \in Calls
      BY <3>1, RowOfTable
    <3> QED BY <1>3, <3>1, <3>2 DEF EndedCalls, HasOwnersRow
  <2>2. ASSUME NEW c \in EndedCalls PROVE \E k \in Own : c = call[k]
    <3>1. PICK i \in DOMAIN requests : requests[i].execution = c /\ ~requests[i].dedupJoin
      BY DEF EndedCalls, HasOwnersRow
    <3>2. PICK k \in 1..n : Newest[k] = i
      BY <1>1
    <3>3. k \in Own
      BY <1>1, <3>1, <3>2
    <3> QED BY <1>3, <3>1, <3>2, <3>3
  <2> QED BY <2>1, <2>2
<1>6. ASSUME NEW k \in Own PROVE f[k] = F[call[k]] /\ f[k] \in Int
  <2>1. f[k] = F[call[k]]
    BY <1>3 DEF ListsPerCall
  <2>2. call[k] \in EndedCalls
    BY <1>5
  <2> QED BY <2>1, <2>2
<1>7. Renames(F, f, Own, call)
  BY <1>4, <1>6 DEF Renames
<1>8. SumFunctionOnSet(F, {call[k] : k \in Own}) = SumFunctionOnSet(f, Own)
  BY <1>2, <1>7, SumRenamed
<1>9. SumFunctionOnSet(F, {call[k] : k \in Own}) = SumFunctionOnSet(F, EndedCalls)
  BY <1>5, Zenon
<1> QED BY <1>8, <1>9

(* A sum in which some of the numbers are noughts.                         *)
LEMMA SumWithoutNoughts ==
  ASSUME NEW f, NEW S, IsFiniteSet(S), NEW T \in SUBSET S, Numbers(f, T), \A x \in S \ T : f[x] = 0
  PROVE  SumFunctionOnSet(f, S) = SumFunctionOnSet(f, T) /\ SumFunctionOnSet(f, T) \in Int
<1>1. IsFiniteSet(T) /\ IsFiniteSet(S \ T)
  BY FS_Subset
<1>2. T \cup (S \ T) = S /\ T \cap (S \ T) = {}
  OBVIOUS
<1>3. Numbers(f, T \cup (S \ T))
  BY DEF Numbers
<1>4. SumFunctionOnSet(f, T \cup (S \ T)) = SumFunctionOnSet(f, T) + SumFunctionOnSet(f, S \ T)
  BY <1>1, <1>2, <1>3, SumOfTwo
<1>5. SumFunctionOnSet(f, S \ T) = 0
  BY <1>1, SumOfNoughts
<1>6. SumFunctionOnSet(f, T) \in Int
  BY <1>1, SumIsNumber
<1>7. SumFunctionOnSet(f, S) = SumFunctionOnSet(f, T \cup (S \ T))
  BY <1>2, Zenon
<1> QED BY <1>4, <1>5, <1>6, <1>7

(* What the sum of a column is, for a part with all that is not nought.    *)
Column(values, D, T, u) ==
    /\ T \subseteq D /\ DOMAIN values = D
    /\ \A k \in T : values[k] \in Nat \cup {NoSum} /\ u[k] = Number(values[k])
    /\ \A k \in D \ T : values[k] \in {0, NoSum}

(* The sum of a column is the sum of the part that is not nought.          *)
LEMMA ColumnIs ==
  ASSUME NEW values, NEW D, IsFiniteSet(D), NEW T, NEW u, Column(values, D, T, u)
  PROVE  Number(SumOfSaid(values)) = SumFunctionOnSet(u, T)
<1> DEFINE said == {k \in DOMAIN values : values[k] # NoSum}
           both == said \cap T
<1>0. /\ T \subseteq D /\ DOMAIN values = D /\ NoSum \notin Int
      /\ \A k \in T : values[k] \in Nat \cup {NoSum} /\ u[k] = Number(values[k])
      /\ \A k \in D \ T : values[k] \in {0, NoSum}
  BY ReportsAssumption DEF Column
<1>1. SumOfSaid(values) = IF said = {} THEN NoSum ELSE SumFunctionOnSet(values, said)
  BY DEF SumOfSaid
<1>2. IsFiniteSet(said) /\ IsFiniteSet(T) /\ said \in SUBSET D
  BY <1>0, FS_Subset
<1>3. SumFunctionOnSet(values, said) = SumFunctionOnSet(values, both)
      /\ SumFunctionOnSet(values, both) \in Int
  <2>1. both \in SUBSET said
    OBVIOUS
  <2>2. Numbers(values, both)
    BY <1>0 DEF Numbers
  <2>3. \A k \in said \ both : values[k] = 0
    BY <1>0
  <2> HIDE DEF said, both
  <2> QED BY <1>2, <2>1, <2>2, <2>3, SumWithoutNoughts
<1>4. SumFunctionOnSet(u, T) = SumFunctionOnSet(u, both)
  <2>1. both \in SUBSET T
    OBVIOUS
  <2>2. Numbers(u, both)
    BY <1>0 DEF Numbers, Number
  <2>3. \A k \in T \ both : u[k] = 0
    BY <1>0 DEF Number
  <2> HIDE DEF said, both
  <2> QED BY <1>2, <2>1, <2>2, <2>3, SumWithoutNoughts
<1>5. SumFunctionOnSet(u, both) = SumFunctionOnSet(values, both)
  <2>1. IsFiniteSet(both)
    BY <1>2, FS_Subset
  <2>2. \A k \in both : u[k] = values[k]
    BY <1>0 DEF Number
  <2> HIDE DEF both
  <2> QED BY <2>1, <2>2, SumOfSame
<1>6. CASE said = {}
  <2>1. both = {}
    BY <1>6
  <2>2. SumFunctionOnSet(u, T) = SumFunctionOnSet(u, {})
    BY <1>4, <2>1, Zenon
  <2>3. SumFunctionOnSet(u, {}) = 0
    BY SumOfNone
  <2>4. Number(SumOfSaid(values)) = 0
    BY <1>1, <1>6 DEF Number
  <2> QED BY <2>2, <2>3, <2>4
<1>7. CASE said # {}
  <2> HIDE DEF said, both
  <2>1. SumOfSaid(values) = SumFunctionOnSet(u, T) /\ SumOfSaid(values) \in Int
    BY <1>1, <1>3, <1>4, <1>5, <1>7
  <2> QED BY <1>0, <2>1 DEF Number
<1> QED BY <1>6, <1>7

(* The attempts of an execution, and what the list says of it.             *)
Facts == {a \in AttemptsEnded : IsFact(charged[a[1]][a[2]])}

(* What is known of the attempts of a call.                                *)
LEMMA AttemptOfCall ==
  ASSUME TablesInv, NEW c \in Calls
  PROVE  /\ charged[c] \in Seq(Charges) /\ IsFiniteSet(DOMAIN charged[c])
         /\ \A k \in DOMAIN charged[c] :
               /\ IsFact(charged[c][k]) => charged[c][k].cost \in Nat
               /\ ~IsFact(charged[c][k]) => charged[c][k].est \in Nat \cup {NoSum}
<1>1. charged[c] \in Seq(Charges)
  BY DEF TablesInv
<1>2. DOMAIN charged[c] = 1..Len(charged[c]) /\ Len(charged[c]) \in Nat
      /\ \A k \in DOMAIN charged[c] : charged[c][k] \in Charges
  BY <1>1
<1>3. IsFiniteSet(DOMAIN charged[c])
  <2>1. IsFiniteSet(1..Len(charged[c]))
    BY <1>2, UpToNumber
  <2> QED BY <1>2, <2>1
<1>4. ASSUME NEW k \in DOMAIN charged[c]
      PROVE  /\ IsFact(charged[c][k]) => charged[c][k].cost \in Nat
             /\ ~IsFact(charged[c][k]) => charged[c][k].est \in Nat \cup {NoSum}
  <2>1. charged[c][k] \in Charges
    BY <1>2
  <2> QED BY <2>1, ReportsAssumption DEF IsFact
<1> QED BY <1>1, <1>3, <1>4

(* The facts and the others among the attempts of a call.                  *)
LEMMA ChosenAre ==
  ASSUME TablesInv, NEW c \in EndedCalls
  PROVE  /\ Chosen(Facts, c) = {k \in DOMAIN charged[c] : IsFact(charged[c][k])}
         /\ Chosen(AttemptsEnded \ Facts, c) = {k \in DOMAIN charged[c] : ~IsFact(charged[c][k])}
<1>1. \A k \in DOMAIN charged[c] : <<c, k>> \in AttemptsEnded /\ <<c, k>>[1] = c /\ <<c, k>>[2] = k
  BY EndedIs
<1>2. \A k \in DOMAIN charged[c] : <<c, k>> \in Facts <=> IsFact(charged[c][k])
  BY <1>1 DEF Facts
<1> QED BY <1>1, <1>2 DEF Chosen

(* What a row of the list counts in a column.                              *)
Facted == [a \in Facts |-> charged[a[1]][a[2]].cost]
Guessed == [a \in AttemptsEnded \ Facts |-> Number(charged[a[1]][a[2]].est)]
Unknown == [a \in AttemptsEnded \ Facts |-> 1]

(* The costs that were told, by call.                                      *)
LEMMA FactsPerCall ==
  ASSUME TablesInv, NEW F, \A c \in EndedCalls : F[c] = Number(Sums(charged[c]).actual)
  PROVE  PerCall(Facts, Facted, F) /\ Numbers(Facted, Facts)
<1>1. ASSUME NEW c \in EndedCalls PROVE F[c] = SumFunctionOnSet(OfCall(Facted, c), Chosen(Facts, c))
  <2> DEFINE D == DOMAIN charged[c]
             T == Chosen(Facts, c)
             u == OfCall(Facted, c)
             values == [k \in D |-> IF IsFact(charged[c][k]) THEN charged[c][k].cost ELSE 0]
  <2>1. c \in Calls /\ IsFiniteSet(D)
    BY AttemptOfCall DEF EndedCalls
  <2>2. Sums(charged[c]).actual = SumOfSaid(values)
    <3>1. values = [k \in D |-> IF IsFact(charged[c][k]) THEN [j \in D |-> charged[c][j].cost][k]
                                ELSE [j \in D |-> 0][k]]
      OBVIOUS
    <3> QED BY <3>1 DEF Sums
  <2>3. T = {k \in D : IsFact(charged[c][k])}
    BY ChosenAre
  <2>4. ASSUME NEW k \in T PROVE values[k] \in Nat /\ u[k] = values[k]
    <3>1. k \in D /\ IsFact(charged[c][k]) /\ <<c, k>> \in Facts
      BY <2>3 DEF Chosen
    <3>2. u[k] = charged[c][k].cost
      BY <3>1 DEF OfCall, Facted
    <3>3. values[k] = charged[c][k].cost
      BY <3>1
    <3> HIDE DEF values, u, T, D
    <3> QED BY <2>1, <3>1, <3>2, <3>3, AttemptOfCall DEF D
  <2>5. \A k \in D \ T : values[k] = 0
    BY <2>3
  <2>6. DOMAIN values = D /\ T \subseteq D /\ NoSum \notin Int
    BY <2>3, ReportsAssumption
  <2> HIDE DEF values, u, T, D
  <2>7. Column(values, D, T, u)
    BY <2>4, <2>5, <2>6 DEF Column, Number
  <2>8. Number(SumOfSaid(values)) = SumFunctionOnSet(u, T)
    BY <2>1, <2>7, ColumnIs
  <2> QED BY <2>2, <2>8 DEF u, T
<1>2. ASSUME NEW a \in Facts PROVE Facted[a] \in Int
  <2>1. /\ a[1] \in Calls /\ a[2] \in DOMAIN charged[a[1]] /\ IsFact(charged[a[1]][a[2]])
    BY EndedIs DEF Facts, EndedCalls
  <2>2. charged[a[1]][a[2]].cost \in Nat
    BY <2>1, AttemptOfCall
  <2> QED BY <2>2 DEF Facted
<1> QED BY <1>1, <1>2 DEF PerCall, Numbers

(* The costs that are estimated, by call.                                  *)
LEMMA GuessesPerCall ==
  ASSUME TablesInv, NEW F, \A c \in EndedCalls : F[c] = Number(Sums(charged[c]).approx)
  PROVE  PerCall(AttemptsEnded \ Facts, Guessed, F) /\ Numbers(Guessed, AttemptsEnded \ Facts)
<1> DEFINE P == AttemptsEnded \ Facts
<1>1. ASSUME NEW c \in EndedCalls PROVE F[c] = SumFunctionOnSet(OfCall(Guessed, c), Chosen(P, c))
  <2> DEFINE D == DOMAIN charged[c]
             T == Chosen(P, c)
             u == OfCall(Guessed, c)
             values == [k \in D |-> IF IsFact(charged[c][k]) THEN NoSum ELSE charged[c][k].est]
  <2>1. c \in Calls /\ IsFiniteSet(D)
    BY AttemptOfCall DEF EndedCalls
  <2>2. Sums(charged[c]).approx = SumOfSaid(values)
    <3>1. values = [k \in D |-> IF IsFact(charged[c][k]) THEN [j \in D |-> NoSum][k]
                                ELSE [j \in D |-> charged[c][j].est][k]]
      OBVIOUS
    <3> QED BY <3>1 DEF Sums
  <2>3. T = {k \in D : ~IsFact(charged[c][k])}
    BY ChosenAre
  <2>4. ASSUME NEW k \in T PROVE values[k] \in Nat \cup {NoSum} /\ u[k] = Number(values[k])
    <3>1. k \in D /\ ~IsFact(charged[c][k]) /\ <<c, k>> \in P
      BY <2>3 DEF Chosen
    <3>2. u[k] = Number(charged[c][k].est)
      BY <3>1 DEF OfCall, Guessed
    <3>3. values[k] = charged[c][k].est
      BY <3>1
    <3> HIDE DEF values, u, T, D, P
    <3> QED BY <2>1, <3>1, <3>2, <3>3, AttemptOfCall DEF D
  <2>5. \A k \in D \ T : values[k] = NoSum
    BY <2>3
  <2>6. DOMAIN values = D /\ T \subseteq D
    BY <2>3
  <2> HIDE DEF values, u, T, D, P
  <2>7. Column(values, D, T, u)
    BY <2>4, <2>5, <2>6 DEF Column
  <2>8. Number(SumOfSaid(values)) = SumFunctionOnSet(u, T)
    BY <2>1, <2>7, ColumnIs
  <2> QED BY <2>2, <2>8 DEF u, T
<1>2. ASSUME NEW a \in P PROVE Guessed[a] \in Int
  <2>1. /\ a[1] \in Calls /\ a[2] \in DOMAIN charged[a[1]] /\ ~IsFact(charged[a[1]][a[2]])
    BY EndedIs DEF Facts, EndedCalls
  <2>2. charged[a[1]][a[2]].est \in Nat \cup {NoSum}
    BY <2>1, AttemptOfCall
  <2> QED BY <2>2 DEF Guessed, Number
<1> QED BY <1>1, <1>2 DEF PerCall, Numbers

(* The attempts without a fact, by call.                                   *)
LEMMA UnknownsPerCall ==
  ASSUME TablesInv, NEW F, \A c \in EndedCalls : F[c] = Number(Sums(charged[c]).missing)
  PROVE  PerCall(AttemptsEnded \ Facts, Unknown, F) /\ Numbers(Unknown, AttemptsEnded \ Facts)
<1> DEFINE P == AttemptsEnded \ Facts
<1>1. ASSUME NEW c \in EndedCalls PROVE F[c] = SumFunctionOnSet(OfCall(Unknown, c), Chosen(P, c))
  <2> DEFINE D == DOMAIN charged[c]
             T == Chosen(P, c)
             u == OfCall(Unknown, c)
             values == [k \in D |-> IF IsFact(charged[c][k]) THEN 0 ELSE 1]
  <2>1. c \in Calls /\ IsFiniteSet(D)
    BY AttemptOfCall DEF EndedCalls
  <2>2. Sums(charged[c]).missing = SumOfSaid(values)
    <3>1. values = [k \in D |-> IF IsFact(charged[c][k]) THEN [j \in D |-> 0][k] ELSE [j \in D |-> 1][k]]
      OBVIOUS
    <3> QED BY <3>1 DEF Sums
  <2>3. T = {k \in D : ~IsFact(charged[c][k])}
    BY ChosenAre
  <2>4. ASSUME NEW k \in T PROVE values[k] = 1 /\ u[k] = 1
    <3>1. k \in D /\ ~IsFact(charged[c][k]) /\ <<c, k>> \in P
      BY <2>3 DEF Chosen
    <3> QED BY <3>1 DEF OfCall, Unknown
  <2>5. \A k \in D \ T : values[k] = 0
    BY <2>3
  <2>6. DOMAIN values = D /\ T \subseteq D /\ NoSum \notin Int
    BY <2>3, ReportsAssumption
  <2> HIDE DEF values, u, T, D, P
  <2>7. Column(values, D, T, u)
    BY <2>4, <2>5, <2>6 DEF Column, Number
  <2>8. Number(SumOfSaid(values)) = SumFunctionOnSet(u, T)
    BY <2>1, <2>7, ColumnIs
  <2> QED BY <2>2, <2>8 DEF u, T
<1>2. \A a \in P : Unknown[a] = 1
  BY DEF Unknown
<1> QED BY <1>1, <1>2 DEF PerCall, Numbers

(* A column of the list, added up over the rows that own their execution.  *)
LEMMA ListAddsUp ==
  ASSUME TablesInv, NEW P \in SUBSET AttemptsEnded, NEW w, Numbers(w, P), NEW F, PerCall(P, w, F),
         NEW f, ListsPerCall(f, F)
  PROVE  SumFunctionOnSet(f, Own) = SumFunctionOnSet(w, P)
<1>1. SumFunctionOnSet(F, EndedCalls) = SumFunctionOnSet(w, P) /\ \A c \in EndedCalls : F[c] \in Int
  BY CallsAddUp
<1>2. SumFunctionOnSet(f, Own) = SumFunctionOnSet(F, EndedCalls)
  BY <1>1, OwnersAddUp
<1> QED BY <1>1, <1>2

(* A row that owns its call shows the sums of that call.                   *)
LEMMA RowOfOwner ==
  ASSUME TablesInv, NEW k \in Own
  PROVE  /\ requests[Newest[k]].execution \in EndedCalls
         /\ List[k].costActual = Sums(charged[requests[Newest[k]].execution]).actual
         /\ List[k].costApprox = Sums(charged[requests[Newest[k]].execution]).approx
         /\ List[k].missing = Sums(charged[requests[Newest[k]].execution]).missing
<1>1. k \in 1..Len(requests) /\ List[k] = Listed(Newest[k]) /\ Newest[k] \in 1..Len(requests)
      /\ ~List[k].dedupJoin
  BY ListIs DEF Own
<1>2. Newest[k] \in DOMAIN requests
  BY <1>1, MatchingIsFinite
<1>3. requests[Newest[k]].execution \in Calls
  BY <1>2, RowOfTable
<1> QED BY <1>1, <1>2, <1>3 DEF Listed, EndedCalls, HasOwnersRow

(* Money is on the list once.                                              *)
LEMMA MoneyInv == TablesInv => MoneyIsListedOnce
<1> SUFFICES ASSUME TablesInv PROVE MoneyIsListedOnce
  OBVIOUS
<1>1. SumFunction([k \in Own |-> Number(List[k].costActual)]) = SumFunction(Facted)
  <2> DEFINE f == [k \in Own |-> Number(List[k].costActual)]
             F == [c \in EndedCalls |-> Number(Sums(charged[c]).actual)]
  <2>1. ListsPerCall(f, F)
    BY RowOfOwner DEF ListsPerCall
  <2>2. \A c \in EndedCalls : F[c] = Number(Sums(charged[c]).actual)
    OBVIOUS
  <2>3. SumFunction(f) = SumFunctionOnSet(f, Own) /\ SumFunction(Facted) = SumFunctionOnSet(Facted, Facts)
    BY DEF SumFunction, Facted
  <2>4. Facts \in SUBSET AttemptsEnded
    BY DEF Facts
  <2> HIDE DEF f, F
  <2>5. PerCall(Facts, Facted, F) /\ Numbers(Facted, Facts)
    BY <2>2, FactsPerCall
  <2>6. SumFunctionOnSet(f, Own) = SumFunctionOnSet(Facted, Facts)
    BY <2>1, <2>4, <2>5, ListAddsUp
  <2>7. SumFunction(f) = SumFunction(Facted)
    BY <2>3, <2>6
  <2> QED BY <2>7 DEF f
<1>2. SumFunction([k \in Own |-> Number(List[k].costApprox)]) = SumFunction(Guessed)
  <2> DEFINE f == [k \in Own |-> Number(List[k].costApprox)]
             F == [c \in EndedCalls |-> Number(Sums(charged[c]).approx)]
  <2>1. ListsPerCall(f, F)
    BY RowOfOwner DEF ListsPerCall
  <2>2. \A c \in EndedCalls : F[c] = Number(Sums(charged[c]).approx)
    OBVIOUS
  <2>3. /\ SumFunction(f) = SumFunctionOnSet(f, Own)
        /\ SumFunction(Guessed) = SumFunctionOnSet(Guessed, AttemptsEnded \ Facts)
    BY DEF SumFunction, Guessed
  <2> HIDE DEF f, F
  <2>4. PerCall(AttemptsEnded \ Facts, Guessed, F) /\ Numbers(Guessed, AttemptsEnded \ Facts)
    BY <2>2, GuessesPerCall
  <2>5. SumFunctionOnSet(f, Own) = SumFunctionOnSet(Guessed, AttemptsEnded \ Facts)
    BY <2>1, <2>4, ListAddsUp
  <2>6. SumFunction(f) = SumFunction(Guessed)
    BY <2>3, <2>5
  <2> QED BY <2>6 DEF f
<1>3. SumFunction([k \in Own |-> Number(List[k].missing)]) = Cardinality(AttemptsEnded \ Facts)
  <2> DEFINE f == [k \in Own |-> Number(List[k].missing)]
             F == [c \in EndedCalls |-> Number(Sums(charged[c]).missing)]
             P == AttemptsEnded \ Facts
  <2>1. ListsPerCall(f, F)
    BY RowOfOwner DEF ListsPerCall
  <2>2. \A c \in EndedCalls : F[c] = Number(Sums(charged[c]).missing)
    OBVIOUS
  <2>3. SumFunction(f) = SumFunctionOnSet(f, Own)
    BY DEF SumFunction
  <2>4. IsFiniteSet(P) /\ \A a \in P : Unknown[a] = 1
    BY EndedIs, FS_Subset DEF Unknown
  <2> HIDE DEF f, F
  <2>5. PerCall(P, Unknown, F) /\ Numbers(Unknown, P)
    BY <2>2, UnknownsPerCall
  <2>6. SumFunctionOnSet(f, Own) = SumFunctionOnSet(Unknown, P)
    BY <2>1, <2>5, ListAddsUp
  <2> HIDE DEF P
  <2>7. SumFunctionOnSet(Unknown, P) = Cardinality(P)
    BY <2>4, SumOfOnes
  <2>8. SumFunction(f) = Cardinality(P)
    BY <2>3, <2>6, <2>7
  <2> QED BY <2>8 DEF f, P
<1> QED BY <1>1, <1>2, <1>3 DEF MoneyIsListedOnce, List, Own, Facts, Facted, Guessed

(* What is read of the tables agrees with itself, with the ledger and with *)
(* what it is called.                                                      *)
THEOREM ReportsAgreeAlways == ReportsSpec => []ReportsAgree
<1>1. TablesInv => ReportsAgree
  BY CountsInv, PercentileInv, MoneyInv DEF ReportsAgree
<1> QED BY <1>1, TablesInvariance, PTL

----------------------------------------------------------------------------
(* The attempts of a request.                                              *)
Clock ==
    /\ pc \in Calling /\ ~streaming =>
          pc = "calling" /\ timers["attempt"] # Off /\ timers["attempt"] <= LastTimer
    /\ pc \in Calling \cup Streaming /\ streaming =>
          timers["deadline"] # Off /\ timers["deadline"] <= LastTimer
    /\ pc \in Streaming => streaming
    /\ pc = "sleeping" => timers["sleep"] # Off /\ timers["sleep"] <= LastTimer
    /\ OnTime

Booking ==
    /\ JournalAgreesWithBilling
    /\ pc = "sleeping" => attempt < MaxAttempts
    /\ \A i \in 1..Len(rows) :
          i < Len(rows) \/ pc # "returned" => rows[i].retryable /\ rows[i].sent
    /\ pc = "calling" /\ aborted = "no" => onWire
    /\ pc \in {"reading", "awaitingEvent", "closing"} \cup Streaming => onWire
    /\ committed /\ pc = "returned" => onWire /\ rows # << >> /\ ~rows[Len(rows)].retryable

Answering ==
    /\ committed => pc \in Streaming \cup {"closing", "returned"}
    /\ pc \in Streaming \cup {"closing"} => committed
    /\ pc = "closing" => told /\ outcome \in Kinds
    /\ OneAnswer
    /\ CutsAreTold

IInv == TypeOK /\ Clock /\ Booking /\ Answering

USE PolicyAssumption, JitterAssumption, StreamAssumption

------------------------------------------------------------------------------
(* The policy.                                                              *)

\* A back-off is a number of seconds.
LEMMA BackoffType == ASSUME NEW n \in Nat \ {0} PROVE Backoff(n) \in Nat
<1>1. CASE n = 1 BY <1>1 DEF Backoff
<1>2. CASE n = 2 BY <1>2 DEF Backoff
<1>3. CASE n = 3 BY <1>3 DEF Backoff
<1>4. CASE n > 3 BY <1>4 DEF Backoff
<1> QED BY <1>1, <1>2, <1>3, <1>4

\* classifyHttp gives a kind of the ledger, and the wait is a number of seconds.
LEMMA AnswerType ==
    ASSUME NEW resp \in Responses, NEW n \in Nat \ {0}
    PROVE  /\ Classify(resp).kind \in Kinds
           /\ Classify(resp).retryable \in BOOLEAN
           /\ RetryWait(resp, n) \in Nat
<1>1. Classify(resp).kind \in Kinds
  <2>1. OkKind[resp.body] \in Kinds BY DEF OkKind, Responses, Bodies, Kinds
  <2> QED BY <2>1 DEF Classify, Kinds
<1>2. Classify(resp).retryable \in BOOLEAN
  <2>1. CASE resp.status = "ok" BY <2>1 DEF Classify
  <2>2. CASE resp.status # "ok" BY <2>2 DEF Classify
  <2> QED BY <2>1, <2>2
<1>3. RetryWait(resp, n) \in Nat BY BackoffType DEF RetryWait, Responses
<1> QED BY <1>1, <1>2, <1>3

\* A call with time left, and a wait with time left, end before the deadline.
LEMMA TimersFit ==
    ASSUME NEW t \in Nat, NEW wait \in Nat, HasTimeFor(t, wait)
    PROVE  /\ t + wait <= DeadlineAt
           /\ t + AttemptTimeoutAt(t) \in Nat /\ t + AttemptTimeoutAt(t) <= LastTimer
           /\ t + DeadlineTimeoutAt(t) \in Nat /\ t + DeadlineTimeoutAt(t) <= LastTimer
BY DEF HasTimeFor, AttemptTimeoutAt, DeadlineTimeoutAt, LastTimer

\* A row more.
LEMMA AppendFacts ==
    ASSUME NEW S, NEW s \in Seq(S), NEW e \in S
    PROVE  /\ Append(s, e) \in Seq(S)
           /\ Len(s) \in Nat
           /\ Len(Append(s, e)) = Len(s) + 1
           /\ Append(s, e)[Len(Append(s, e))] = e
           /\ \A i \in 1..Len(s) : Append(s, e)[i] = s[i]
OBVIOUS

------------------------------------------------------------------------------
(* The two ways an attempt ends.                                            *)

\* EndAttempt keeps the invariant when its caller was entitled to retry.
LEMMA EndAttemptStep ==
    ASSUME IInv, pc \in Calling,
           NEW kind \in Kinds, NEW retryable \in BOOLEAN, NEW wait \in Nat,
           NEW retry \in BOOLEAN,
           retry => retryable /\ aborted = "no" /\ attempt < MaxAttempts,
           EndAttempt(kind, retryable, retry, wait),
           UNCHANGED <<streaming, streamVars>>
    PROVE  IInv'
<1> USE DEF Calling, Streaming
<1>1. /\ rows' = Append(rows, Row(kind, retryable))
      /\ UNCHANGED <<now, attempt, aborted, onWire, streaming, committed, closed, seen,
                     told, ended, outcome>>
  BY DEF EndAttempt, streamVars
<1>2. /\ rows \in Seq([kind : Kinds, retryable : BOOLEAN, sent : BOOLEAN])
      /\ Row(kind, retryable) \in [kind : Kinds, retryable : BOOLEAN, sent : BOOLEAN]
      /\ attempt \in 1..MaxAttempts
      /\ now \in Nat
  BY DEF IInv, TypeOK, LoopTypeOK, Row
<1>3. /\ rows' \in Seq([kind : Kinds, retryable : BOOLEAN, sent : BOOLEAN])
      /\ Len(rows) \in Nat
      /\ Len(rows') = Len(rows) + 1
      /\ rows'[Len(rows')] = Row(kind, retryable)
      /\ \A i \in 1..Len(rows) : rows'[i] = rows[i]
  <2> DEFINE S == [kind : Kinds, retryable : BOOLEAN, sent : BOOLEAN]
             row == Row(kind, retryable)
  <2>1. rows \in Seq(S) /\ row \in S BY <1>2
  <2>2. rows' = Append(rows, row) BY <1>1
  <2> HIDE DEF S, row
  <2>3. /\ rows' \in Seq(S)
        /\ Len(rows) \in Nat
        /\ Len(rows') = Len(rows) + 1
        /\ rows'[Len(rows')] = row
        /\ \A i \in 1..Len(rows) : rows'[i] = rows[i]
    BY <2>1, <2>2, AppendFacts
  <2> QED BY <2>3 DEF S, row
<1>4. /\ Len(rows) = attempt - 1
      /\ \A i \in 1..Len(rows) : rows[i].retryable /\ rows[i].sent
      /\ aborted = "no" => onWire
      /\ ~committed /\ ~ended /\ ~told
  BY DEF IInv, Booking, Answering, JournalAgreesWithBilling, OneAnswer
<1>5. CASE retry /\ HasTimeFor(now, wait)
  <2>1. /\ pc' = "sleeping"
        /\ timers' = [AllOff EXCEPT !["sleep"] = now + wait]
        /\ result' = result
    BY <1>5 DEF EndAttempt
  <2>2. /\ timers' \in [TimerNames -> Nat \cup {Off}]
        /\ timers'["sleep"] = now + wait
        /\ now + wait \in Nat
    BY <2>1, <1>2 DEF AllOff, TimerNames
  <2>3. TypeOK' BY <1>1, <1>3, <2>1, <2>2 DEF IInv, TypeOK, LoopTypeOK, Pcs
  <2>4. now + wait <= LastTimer BY <1>2, <1>5, TimersFit DEF LastTimer
  <2>5. Clock' BY <1>1, <1>2, <2>1, <2>2, <2>4 DEF Clock, OnTime, Off, LastTimer
  <2>6. Booking'
    <3>1. \A i \in 1..Len(rows') : rows'[i].retryable /\ rows'[i].sent
      BY <1>3, <1>4, <1>5 DEF Row
    <3>2. JournalAgreesWithBilling'
      BY <1>1, <1>2, <1>3, <1>4, <2>1 DEF JournalAgreesWithBilling
    <3> QED BY <3>1, <3>2, <1>1, <1>4, <1>5, <2>1 DEF Booking
  <2>7. Answering' BY <1>1, <1>4, <2>1 DEF IInv, Answering, OneAnswer, CutsAreTold
  <2> QED BY <2>3, <2>5, <2>6, <2>7 DEF IInv
<1>6. CASE ~(retry /\ HasTimeFor(now, wait))
  <2>1. pc' = "returned" /\ timers' = AllOff /\ result' = Result(kind)
    BY <1>6 DEF EndAttempt
  <2>2. TypeOK'
    BY <1>1, <1>2, <1>3, <2>1 DEF IInv, TypeOK, LoopTypeOK, Pcs, AllOff, Result, TimerNames
  <2>3. Clock' BY <2>1 DEF Clock, OnTime
  <2>4. Booking'
    <3>1. \A i \in 1..Len(rows') :
              i < Len(rows') => rows'[i].retryable /\ rows'[i].sent
      BY <1>3, <1>4, <1>2
    <3>2. JournalAgreesWithBilling'
      BY <1>1, <1>2, <1>3, <1>4, <2>1 DEF JournalAgreesWithBilling, Result, Row
    <3> QED BY <3>1, <3>2, <1>1, <1>4, <2>1 DEF Booking
  <2>5. Answering' BY <1>1, <1>4, <2>1 DEF IInv, Answering, OneAnswer, CutsAreTold
  <2> QED BY <2>2, <2>3, <2>4, <2>5 DEF IInv
<1> QED BY <1>5, <1>6

\* FailAttempt asks shouldRetry itself.
LEMMA FailAttemptStep ==
    ASSUME IInv, pc \in Calling,
           NEW kind \in Kinds, NEW retryable \in BOOLEAN, NEW wait \in Nat,
           FailAttempt(kind, retryable, wait),
           UNCHANGED <<streaming, streamVars>>
    PROVE  IInv'
<1> DEFINE retry == ShouldRetry(retryable, attempt, now, aborted # "no")
<1>1. retry \in BOOLEAN BY DEF ShouldRetry
<1>2. retry => retryable /\ aborted = "no" /\ attempt < MaxAttempts BY DEF ShouldRetry
<1>3. EndAttempt(kind, retryable, retry, wait) BY DEF FailAttempt
<1> HIDE DEF retry
<1> QED BY <1>1, <1>2, <1>3, EndAttemptStep

\* Finish keeps the invariant when a cut was told to a client still there.
LEMMA FinishStep ==
    ASSUME IInv, pc \in Streaming \cup {"closing"}, NEW kind \in Kinds, Finish(kind),
           told' \in BOOLEAN, outcome' \in Kinds \cup {"none"},
           UNCHANGED <<now, attempt, aborted, onWire, streaming, committed, closed, seen>>,
           closed \/ told' \/ kind \in {"success", "stream_upstream_error"}
    PROVE  IInv'
<1> USE DEF Calling, Streaming
<1>1. /\ rows' = Append(rows, Row(kind, FALSE))
      /\ result' = Result(kind)
      /\ pc' = "returned"
      /\ timers' = AllOff
      /\ ended' = ~closed
  BY DEF Finish
<1>2. /\ rows \in Seq([kind : Kinds, retryable : BOOLEAN, sent : BOOLEAN])
      /\ Row(kind, FALSE) \in [kind : Kinds, retryable : BOOLEAN, sent : BOOLEAN]
      /\ attempt \in 1..MaxAttempts
      /\ closed \in BOOLEAN
  BY DEF IInv, TypeOK, LoopTypeOK, Row
<1>3. /\ rows' \in Seq([kind : Kinds, retryable : BOOLEAN, sent : BOOLEAN])
      /\ Len(rows) \in Nat
      /\ Len(rows') = Len(rows) + 1
      /\ rows'[Len(rows')] = Row(kind, FALSE)
      /\ \A i \in 1..Len(rows) : rows'[i] = rows[i]
  <2> DEFINE S == [kind : Kinds, retryable : BOOLEAN, sent : BOOLEAN]
             row == Row(kind, FALSE)
  <2>1. rows \in Seq(S) /\ row \in S BY <1>2
  <2>2. rows' = Append(rows, row) BY <1>1
  <2> HIDE DEF S, row
  <2>3. /\ rows' \in Seq(S)
        /\ Len(rows) \in Nat
        /\ Len(rows') = Len(rows) + 1
        /\ rows'[Len(rows')] = row
        /\ \A i \in 1..Len(rows) : rows'[i] = rows[i]
    BY <2>1, <2>2, AppendFacts
  <2> QED BY <2>3 DEF S, row
<1>4. /\ Len(rows) = attempt - 1
      /\ \A i \in 1..Len(rows) : rows[i].retryable /\ rows[i].sent
      /\ onWire
      /\ committed
  BY DEF IInv, Booking, Answering, JournalAgreesWithBilling
<1>5. TypeOK'
  <2>1. timers' \in [TimerNames -> Nat \cup {Off}] BY <1>1 DEF AllOff
  <2>2. result' \in [kind : Kinds \cup {"none", "deadline_exceeded"}, attempts : 0..MaxAttempts]
    BY <1>1, <1>2 DEF Result
  <2>3. LoopTypeOK' BY <1>1, <1>3, <2>1, <2>2 DEF IInv, TypeOK, LoopTypeOK, Pcs
  <2>4. ended' \in BOOLEAN BY <1>1, <1>2
  <2> QED BY <2>3, <2>4 DEF IInv, TypeOK
<1>6. Clock' BY <1>1 DEF Clock, OnTime
<1>7. Booking'
  <2>1. \A i \in 1..Len(rows') : i < Len(rows') => rows'[i].retryable /\ rows'[i].sent
    BY <1>2, <1>3, <1>4
  <2>2. JournalAgreesWithBilling'
    BY <1>1, <1>2, <1>3, <1>4 DEF JournalAgreesWithBilling, Result, Row
  <2>3. onWire' /\ rows' # << >> /\ ~rows'[Len(rows')].retryable
    BY <1>2, <1>3, <1>4 DEF Row
  <2> QED BY <2>1, <2>2, <2>3, <1>1 DEF Booking
<1>8. Answering'
  BY <1>1, <1>2, <1>4 DEF Answering, OneAnswer, CutsAreTold, Result
<1> QED BY <1>5, <1>6, <1>7, <1>8 DEF IInv

\* tryWrite and what follows keep the invariant.
LEMMA TellStep ==
    ASSUME IInv, pc \in Streaming, NEW kind \in Kinds, TellAndFinish(kind),
           UNCHANGED <<now, attempt, aborted, onWire, streaming, committed, closed, seen>>
    PROVE  IInv'
<1> USE DEF Calling, Streaming
<1>1. CASE closed /\ Finish(kind) /\ UNCHANGED <<told, outcome>>
  BY <1>1, FinishStep DEF IInv, TypeOK
<1>2. CASE told' = TRUE /\ Finish(kind) /\ UNCHANGED outcome
  BY <1>2, FinishStep DEF IInv, TypeOK
<1>3. CASE /\ told' = TRUE
           /\ outcome' = kind
           /\ pc' = "closing"
           /\ timers' = AllOff
           /\ UNCHANGED <<rows, result, ended>>
  <2>1. TypeOK' BY <1>3 DEF IInv, TypeOK, LoopTypeOK, Pcs, AllOff, TimerNames
  <2>2. Clock' BY <1>3 DEF Clock, OnTime
  <2>3. Booking' BY <1>3 DEF IInv, Booking, JournalAgreesWithBilling
  <2>4. Answering' BY <1>3 DEF IInv, Answering, OneAnswer, CutsAreTold
  <2> QED BY <2>1, <2>2, <2>3, <2>4 DEF IInv
<1> QED BY <1>1, <1>2, <1>3 DEF TellAndFinish

------------------------------------------------------------------------------
(* The steps that end nothing.                                              *)

\* Aborts from either side touch no timer and no row.
LEMMA AbortSteps == ASSUME IInv, ClientCloses \/ ProxyAborts PROVE IInv'
<1> USE DEF Calling, Streaming
<1>1. /\ pc # "returned" /\ aborted' \in {"no", "client", "proxy"}
      /\ aborted' # "no" /\ closed' \in BOOLEAN
      /\ UNCHANGED <<now, pc, attempt, timers, onWire, rows, result, streaming,
                     committed, seen, told, ended, outcome>>
  BY DEF IInv, TypeOK, LoopTypeOK, ClientCloses, ProxyAborts, streamVars
<1>2. TypeOK' BY <1>1 DEF IInv, TypeOK, LoopTypeOK
<1>3. Clock' BY <1>1 DEF IInv, Clock, OnTime, LastTimer
<1>4. Booking' BY <1>1 DEF IInv, Booking, JournalAgreesWithBilling
<1>5. Answering' BY <1>1 DEF IInv, Answering, OneAnswer, CutsAreTold
<1> QED BY <1>2, <1>3, <1>4, <1>5 DEF IInv

\* Without time the request ends with the attempts it made.
LEMMA GiveUpStep == ASSUME IInv, GiveUp PROVE IInv'
<1> USE DEF Calling, Streaming
<1>1. /\ pc = "top" /\ pc' = "returned"
      /\ result' = [kind |-> "deadline_exceeded", attempts |-> attempt - 1]
      /\ UNCHANGED <<now, attempt, timers, aborted, onWire, rows, streaming,
                     committed, closed, seen, told, ended, outcome>>
  BY DEF GiveUp, NoTimeLeft, streamVars
<1>2. TypeOK' BY <1>1 DEF IInv, TypeOK, LoopTypeOK, Pcs
<1>3. Clock' BY <1>1 DEF Clock, OnTime
<1>4. Booking' BY <1>1 DEF IInv, Booking, Answering, JournalAgreesWithBilling
<1>5. Answering' BY <1>1 DEF IInv, Answering, OneAnswer, CutsAreTold
<1> QED BY <1>2, <1>3, <1>4, <1>5 DEF IInv

\* After the wait the next attempt has its number and no row yet.
LEMMA WakeStep == ASSUME IInv, Wake PROVE IInv'
<1> USE DEF Calling, Streaming
<1>1. /\ pc = "sleeping" /\ pc' = "top" /\ attempt' = attempt + 1
      /\ timers' = AllOff /\ onWire' = FALSE
      /\ UNCHANGED <<now, aborted, rows, result, streaming,
                     committed, closed, seen, told, ended, outcome>>
  BY DEF Wake, WakeUp, streamVars
<1>2. attempt' \in 1..MaxAttempts BY <1>1 DEF IInv, TypeOK, LoopTypeOK, Booking
<1>3. TypeOK' BY <1>1, <1>2 DEF IInv, TypeOK, LoopTypeOK, Pcs, AllOff
<1>4. Clock' BY <1>1 DEF Clock, OnTime
<1>5. Booking' BY <1>1 DEF IInv, TypeOK, LoopTypeOK, Booking, Answering, JournalAgreesWithBilling
<1>6. Answering' BY <1>1 DEF IInv, Answering, OneAnswer, CutsAreTold
<1> QED BY <1>3, <1>4, <1>5, <1>6 DEF IInv

\* Time stops at the latest moment the timer of the phase may run.
LEMMA TickStep == ASSUME IInv, Tick PROVE IInv'
<1> USE DEF Calling, Streaming
<1>1. /\ pc \notin {"top", "closing", "returned"}
      /\ \A t \in TimerNames : timers[t] = Off \/ now < timers[t] + Jitter
      /\ now' = now + 1
      /\ UNCHANGED <<pc, attempt, timers, aborted, onWire, rows, result, streaming,
                     committed, closed, seen, told, ended, outcome>>
  BY DEF Tick, TimePasses, streamVars
<1>2. TypeOK' BY <1>1 DEF IInv, TypeOK, LoopTypeOK
<1>3. \E t \in TimerNames : timers[t] # Off /\ timers[t] <= LastTimer
  <2>1. pc \in Calling \cup Streaming \cup {"sleeping"}
    BY <1>1 DEF IInv, TypeOK, LoopTypeOK, Pcs
  <2>2. streaming \in BOOLEAN BY DEF IInv, TypeOK
  <2> QED BY <2>1, <2>2 DEF IInv, Clock, TimerNames
<1>4. PICK t \in TimerNames : timers[t] # Off /\ timers[t] <= LastTimer BY <1>3
<1>5. now < timers[t] + Jitter BY <1>1, <1>4
<1>6. timers[t] \in Nat /\ now \in Nat BY <1>4 DEF IInv, TypeOK, LoopTypeOK
<1>7. now' <= LastTimer + Jitter BY <1>1, <1>4, <1>5, <1>6 DEF LastTimer
<1>8. Clock' BY <1>1, <1>7 DEF IInv, Clock, OnTime, LastTimer
<1>9. Booking' BY <1>1 DEF IInv, Booking, JournalAgreesWithBilling
<1>10. Answering' BY <1>1 DEF IInv, Answering, OneAnswer, CutsAreTold
<1> QED BY <1>2, <1>8, <1>9, <1>10 DEF IInv

\* A call begins with time left and the timer that bounds it.
LEMMA CallSteps == ASSUME IInv, Call \/ CallStream PROVE IInv'
<1> USE DEF Calling, Streaming
<1>1. /\ pc = "top" /\ pc' = "calling" /\ HasTimeFor(now, 0)
      /\ onWire' = (aborted = "no")
      /\ UNCHANGED <<now, attempt, aborted, rows, result, streaming,
                     committed, closed, seen, told, ended, outcome>>
  BY DEF Call, CallStream, StartCall, streamVars
<1>2. now \in Nat BY DEF IInv, TypeOK, LoopTypeOK
<1>3. /\ now <= DeadlineAt
      /\ now + AttemptTimeoutAt(now) \in Nat /\ now + AttemptTimeoutAt(now) <= LastTimer
      /\ now + DeadlineTimeoutAt(now) \in Nat /\ now + DeadlineTimeoutAt(now) <= LastTimer
  BY <1>1, <1>2, TimersFit
<1>4. /\ timers' \in [TimerNames -> Nat \cup {Off}]
      /\ ~streaming => timers'["attempt"] # Off /\ timers'["attempt"] <= LastTimer
      /\ streaming => timers'["deadline"] # Off /\ timers'["deadline"] <= LastTimer
  <2>1. CASE Call
    <3>1. ~streaming /\ timers' = [AllOff EXCEPT !["attempt"] = now + AttemptTimeoutAt(now)]
      BY <2>1 DEF Call, StartCall
    <3> QED BY <3>1, <1>3 DEF AllOff, TimerNames, Off
  <2>2. CASE CallStream
    <3>1. /\ streaming
          /\ timers' = [AllOff EXCEPT !["headers"]  = now + HeadersTimeout,
                                      !["deadline"] = now + DeadlineTimeoutAt(now)]
      BY <2>2 DEF CallStream, StartCall, StreamTimers
    <3>2. now + HeadersTimeout \in Nat BY <1>2
    <3> QED BY <3>1, <3>2, <1>3 DEF AllOff, TimerNames, Off
  <2> QED BY <2>1, <2>2
<1>5. TypeOK' BY <1>1, <1>4 DEF IInv, TypeOK, LoopTypeOK, Pcs
<1>6. Clock' BY <1>1, <1>2, <1>3, <1>4 DEF Clock, OnTime, LastTimer
<1>7. Booking' BY <1>1 DEF IInv, Booking, Answering, JournalAgreesWithBilling
<1>8. Answering' BY <1>1 DEF IInv, Answering, OneAnswer, CutsAreTold
<1> QED BY <1>5, <1>6, <1>7, <1>8 DEF IInv

\* Data moves a stream on; its deadline timer stays armed.
LEMMA StreamSteps ==
    ASSUME IInv,
           \/ AnswerBegins \/ DataWithoutEvent \/ Drain
           \/ \E events \in Events : Commit(events) \/ Chunk(events)
    PROVE  IInv'
<1> USE DEF Calling, Streaming
<1> DEFINE Moved ==
             /\ pc \in Calling \cup Streaming /\ streaming /\ onWire
             /\ pc' \in {"reading", "awaitingEvent"} \cup Streaming
             /\ committed' \in BOOLEAN
             /\ committed' <=> pc' \in Streaming
             /\ committed => committed'
             /\ seen' \subseteq {"done", "error"}
             /\ UNCHANGED <<now, attempt, aborted, onWire, rows, result, streaming, closed,
                            told, ended, outcome>>
<1>1. Moved
  <2>1. /\ streaming \in BOOLEAN /\ committed \in BOOLEAN /\ seen \subseteq {"done", "error"}
        /\ pc \in {"reading", "awaitingEvent"} => streaming /\ onWire /\ ~committed
        /\ pc \in Streaming => streaming /\ onWire /\ committed
        /\ pc = "calling" => ~committed
    BY DEF IInv, TypeOK, Clock, Booking, Answering
  <2>2. CASE AnswerBegins BY <2>1, <2>2 DEF AnswerBegins, streamVars
  <2>3. CASE DataWithoutEvent BY <2>1, <2>3 DEF DataWithoutEvent, streamVars
  <2>4. CASE Drain BY <2>1, <2>4 DEF Drain, streamVars
  <2>5. ASSUME NEW events \in Events, Commit(events) PROVE Moved
    BY <2>1, <2>5 DEF Commit, Write, Events
  <2>6. ASSUME NEW events \in Events, Chunk(events) PROVE Moved
    BY <2>1, <2>6 DEF Chunk, Write, Events
  <2> HIDE DEF Moved
  <2> QED BY <2>2, <2>3, <2>4, <2>5, <2>6
<1>2. /\ timers' \in [TimerNames -> Nat \cup {Off}]
      /\ timers'["deadline"] = timers["deadline"]
  <2>1. /\ timers \in [TimerNames -> Nat \cup {Off}]
        /\ now + IdleTimeout \in Nat /\ now + FirstEventTimeout \in Nat
    BY DEF IInv, TypeOK, LoopTypeOK
  <2>2. \/ timers' = [timers EXCEPT !["headers"] = Off,
                                    !["firstEvent"] = now + FirstEventTimeout,
                                    !["idle"] = now + IdleTimeout]
        \/ timers' = [timers EXCEPT !["headers"] = Off, !["idle"] = now + IdleTimeout]
        \/ timers' = [timers EXCEPT !["idle"] = now + IdleTimeout]
        \/ timers' = [timers EXCEPT !["firstEvent"] = Off, !["idle"] = now + IdleTimeout]
        \/ timers' = [timers EXCEPT !["firstEvent"] = Off, !["idle"] = Off]
    BY DEF AnswerBegins, DataWithoutEvent, Drain, Commit, Chunk, Write
  <2> QED BY <2>1, <2>2 DEF TimerNames
<1>3. TypeOK' BY <1>1, <1>2 DEF IInv, TypeOK, LoopTypeOK, Pcs
<1>4. Clock' BY <1>1, <1>2 DEF IInv, Clock, OnTime, LastTimer
<1>5. Booking' BY <1>1 DEF IInv, Booking, JournalAgreesWithBilling
<1>6. Answering' BY <1>1 DEF IInv, Answering, OneAnswer, CutsAreTold
<1> QED BY <1>3, <1>4, <1>5, <1>6 DEF IInv

------------------------------------------------------------------------------
(* The steps that end an attempt or the request.                            *)

\* What may end an attempt before the commit.
LEMMA AttemptEnds ==
    ASSUME IInv,
           \/ NetworkFails \/ TooLarge \/ AttemptTimesOut \/ StreamAttemptTimesOut
           \/ StreamDeadline \/ EmptyStream \/ FirstEventIsError
           \/ \E resp \in Responses : Answer(resp) \/ OtherAnswer(resp)
    PROVE  IInv'
<1>1. attempt \in Nat \ {0} BY DEF IInv, TypeOK, LoopTypeOK
<1>2. Backoff(attempt) \in Nat BY <1>1, BackoffType
<1>3. ASSUME pc \in Calling, UNCHANGED <<streaming, streamVars>>,
             NEW kind \in Kinds, NEW retryable \in BOOLEAN, NEW wait \in Nat,
             FailAttempt(kind, retryable, wait)
      PROVE  IInv'
  BY <1>3, FailAttemptStep
<1>4. ASSUME pc \in Calling, TransportFails, UNCHANGED <<streaming, streamVars>>
      PROVE  IInv'
  BY <1>2, <1>3, <1>4 DEF TransportFails, Kinds
<1>5. ASSUME NEW resp \in Responses, pc \in Calling, ProviderAnswers(resp),
             UNCHANGED <<streaming, streamVars>>
      PROVE  IInv'
  <2>1. /\ Classify(resp).kind \in Kinds
        /\ Classify(resp).retryable \in BOOLEAN
        /\ RetryWait(resp, attempt) \in Nat
    BY <1>1, AnswerType
  <2>2. FailAttempt(Classify(resp).kind, Classify(resp).retryable, RetryWait(resp, attempt))
    BY <1>5 DEF ProviderAnswers
  <2> QED BY <1>3, <1>5, <2>1, <2>2
<1>6. CASE NetworkFails BY <1>4, <1>6 DEF NetworkFails
<1>7. CASE TooLarge BY <1>3, <1>7 DEF TooLarge, Calling, Kinds
<1>8. CASE AttemptTimesOut BY <1>4, <1>8 DEF AttemptTimesOut, Calling
<1>9. CASE StreamAttemptTimesOut BY <1>4, <1>9 DEF StreamAttemptTimesOut
<1>10. CASE StreamDeadline BY <1>3, <1>10 DEF StreamDeadline, Kinds
<1>11. CASE EmptyStream BY <1>2, <1>3, <1>11 DEF EmptyStream, Calling, Kinds
<1>12. CASE FirstEventIsError BY <1>2, <1>3, <1>12 DEF FirstEventIsError, Calling, Kinds
<1>13. ASSUME NEW resp \in Responses, Answer(resp) PROVE IInv'
  BY <1>5, <1>13 DEF Answer, Calling
<1>14. ASSUME NEW resp \in Responses, OtherAnswer(resp) PROVE IInv'
  BY <1>3, <1>5, <1>14 DEF OtherAnswer, Calling, Kinds
<1> QED BY <1>6, <1>7, <1>8, <1>9, <1>10, <1>11, <1>12, <1>13, <1>14

\* What may end a committed stream.
LEMMA StreamStops ==
    ASSUME IInv, StreamEnds \/ StreamBreaks \/ StreamTooLarge \/ LastWriteEnds
    PROVE  IInv'
<1>1. told \in BOOLEAN /\ outcome \in Kinds \cup {"none"} BY DEF IInv, TypeOK
<1>2. ASSUME NEW kind \in Kinds, PumpFails(kind), pc \in Streaming PROVE IInv'
  <2>1. CASE closed
    <3>1. Finish("client_aborted") /\ told' = told /\ outcome' = outcome
      BY <1>2, <2>1 DEF PumpFails
    <3> QED BY <1>1, <1>2, <2>1, <3>1, FinishStep DEF PumpFails, Kinds
  <2>2. CASE ~closed BY <1>2, <2>2, TellStep DEF PumpFails
  <2> QED BY <2>1, <2>2
<1>3. CASE StreamEnds
  <2>1. /\ pc \in Streaming
        /\ UNCHANGED <<now, attempt, aborted, onWire, streaming, committed, closed, seen>>
    BY <1>3 DEF StreamEnds, Streaming
  <2>2. \/ Finish("stream_upstream_error") /\ UNCHANGED <<told, outcome>>
        \/ Finish("success") /\ UNCHANGED <<told, outcome>>
        \/ TellAndFinish("stream_incomplete")
    BY <1>3 DEF StreamEnds
  <2>3. CASE Finish("stream_upstream_error") /\ UNCHANGED <<told, outcome>>
    BY <1>1, <2>1, <2>3, FinishStep DEF Kinds
  <2>4. CASE Finish("success") /\ UNCHANGED <<told, outcome>>
    BY <1>1, <2>1, <2>4, FinishStep DEF Kinds
  <2>5. CASE TellAndFinish("stream_incomplete")
    BY <2>1, <2>5, TellStep DEF Kinds
  <2> QED BY <2>2, <2>3, <2>4, <2>5
<1>4. CASE StreamBreaks BY <1>2, <1>4 DEF StreamBreaks, Kinds
<1>5. CASE StreamTooLarge BY <1>2, <1>5 DEF StreamTooLarge, Streaming, Kinds
<1>6. CASE LastWriteEnds
  <2>1. told /\ outcome \in Kinds BY <1>6 DEF LastWriteEnds, IInv, Answering
  <2> QED BY <1>1, <1>6, <2>1, FinishStep DEF LastWriteEnds
<1> QED BY <1>3, <1>4, <1>5, <1>6

------------------------------------------------------------------------------
(* Invariance.                                                              *)

\* The request starts without timers and rows.
LEMMA InitInv == Init => IInv
<1> SUFFICES ASSUME Init PROVE IInv OBVIOUS
<1> USE DEF Init, LoopInit, Calling, Streaming
<1>1. TypeOK
  <2>1. now \in Nat /\ attempt \in 1..MaxAttempts OBVIOUS
  <2>2. timers \in [TimerNames -> Nat \cup {Off}] BY DEF AllOff
  <2>3. aborted \in {"no", "client", "proxy"} OBVIOUS
  <2>4. result \in [kind : Kinds \cup {"none", "deadline_exceeded"}, attempts : 0..MaxAttempts]
    BY DEF NoResult
  <2>5. rows \in Seq([kind : Kinds, retryable : BOOLEAN, sent : BOOLEAN]) OBVIOUS
  <2>6. LoopTypeOK
    <3> HIDE DEF Init, LoopInit
    <3>1. pc \in Pcs /\ onWire \in BOOLEAN BY DEF Init, LoopInit, Pcs
    <3> QED BY <2>1, <2>2, <2>3, <2>4, <2>5, <3>1 DEF LoopTypeOK
  <2> QED BY <2>6 DEF TypeOK
<1>2. Clock BY DEF Clock, OnTime
<1>3. Booking BY DEF Booking, JournalAgreesWithBilling
<1>4. Answering BY DEF Answering, OneAnswer, CutsAreTold
<1> QED BY <1>1, <1>2, <1>3, <1>4 DEF IInv

\* Every step keeps it.
LEMMA NextInv == IInv /\ [Next]_vars => IInv'
<1> SUFFICES ASSUME IInv, [Next]_vars PROVE IInv' OBVIOUS
<1>1. CASE ClientCloses \/ ProxyAborts BY <1>1, AbortSteps
<1>2. CASE GiveUp BY <1>2, GiveUpStep
<1>3. CASE Wake BY <1>3, WakeStep
<1>4. CASE Tick BY <1>4, TickStep
<1>5. CASE Call \/ CallStream BY <1>5, CallSteps
<1>6. CASE \/ AnswerBegins \/ DataWithoutEvent \/ Drain
           \/ \E events \in Events : Commit(events) \/ Chunk(events)
  BY <1>6, StreamSteps
<1>7. CASE \/ NetworkFails \/ TooLarge \/ AttemptTimesOut \/ StreamAttemptTimesOut
           \/ StreamDeadline \/ EmptyStream \/ FirstEventIsError
           \/ \E resp \in Responses : Answer(resp) \/ OtherAnswer(resp)
  BY <1>7, AttemptEnds
<1>8. CASE StreamEnds \/ StreamBreaks \/ StreamTooLarge \/ LastWriteEnds
  BY <1>8, StreamStops
<1>9. CASE UNCHANGED vars
  <2>1. /\ UNCHANGED <<now, pc, attempt, timers, aborted, onWire, rows, result>>
        /\ UNCHANGED <<streaming, committed, closed, seen, told, ended, outcome>>
    BY <1>9 DEF vars, loopVars, streamVars
  <2> QED BY <2>1 DEF IInv, TypeOK, LoopTypeOK, Clock, OnTime, LastTimer, Booking,
                      JournalAgreesWithBilling, Answering, OneAnswer, CutsAreTold
<1> QED BY <1>1, <1>2, <1>3, <1>4, <1>5, <1>6, <1>7, <1>8, <1>9 DEF Next

\* The invariant holds in every reachable state.
THEOREM Invariance == Spec => []IInv
BY InitInv, NextInv, PTL DEF Spec

\* Types of the upstream request.
THEOREM TypesHold == Spec => []TypeOK
<1>1. IInv => TypeOK BY DEF IInv
<1> QED BY <1>1, Invariance, PTL

\* The deadline bounds attempts, waits and streams for every policy: a clipped
\* attempt, a back-off, a Retry-After and a late timer never add up past it.
THEOREM DeadlineHolds == Spec => []OnTime
<1>1. IInv => OnTime BY DEF IInv, Clock
<1> QED BY <1>1, Invariance, PTL

\* One billing row per attempt, and a result that agrees with them.
THEOREM LedgersAgree == Spec => []JournalAgreesWithBilling
<1>1. IInv => JournalAgreesWithBilling BY DEF IInv, Booking
<1> QED BY <1>1, Invariance, PTL

\* Another attempt only after one that was sent, may be repeated and showed the
\* client nothing.
THEOREM RetriesHold == Spec => []RetriesAreJustified
<1>1. IInv => RetriesAreJustified
  BY DEF IInv, TypeOK, LoopTypeOK, Booking, Answering, RetriesAreJustified, Streaming
<1> QED BY <1>1, Invariance, PTL

\* Exactly one answer, streamed or not.
THEOREM AnsweredOnce == Spec => []OneAnswer
<1>1. IInv => OneAnswer BY DEF IInv, Answering
<1> QED BY <1>1, Invariance, PTL

\* A cut stream says so to a client that is still there.
THEOREM CutsShow == Spec => []CutsAreTold
<1>1. IInv => CutsAreTold BY DEF IInv, Answering
<1> QED BY <1>1, Invariance, PTL
==============================================================================
