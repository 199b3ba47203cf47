----------------------------- MODULE Induction -----------------------------
(***************************************************************************)
(* Induction over the naturals for proofs about recursive functions: the   *)
(* induction theorems of the library take an operator, here the set of the *)
(* numbers that have the property is enough.                               *)
(***************************************************************************)
EXTENDS Integers, FiniteSetTheorems, TLAPS

\* A set of naturals has a least element.
LEMMA SmallestOf ==
  ASSUME NEW T \in SUBSET Nat, T # {}
  PROVE  \E x \in T : \A y \in T : x <= y
<1> DEFINE upTo == {0 .. n : n \in T}
<1>1. upTo \subseteq FiniteSubsetsOf(Nat)
  <2>1. ASSUME NEW n \in T PROVE 0 .. n \in SUBSET Nat /\ IsFiniteSet(0 .. n)
    BY FS_Interval
  <2>2. QED
    BY <2>1 DEF FiniteSubsetsOf
<1>2. IsWellFoundedOn(StrictSubsetOrdering(Nat), FiniteSubsetsOf(Nat))
  BY FS_StrictSubsetOrderingWellFounded
<1>3. upTo # {}
  OBVIOUS
<1> HIDE DEF upTo
<1>4. PICK U \in upTo : \A V \in upTo : ~ (<<V, U>> \in StrictSubsetOrdering(Nat))
  BY <1>1, <1>2, <1>3, WFMin
<1>5. PICK x \in T : U = 0 .. x
  BY <1>4 DEF upTo
<1>6. ASSUME NEW y \in T, ~ (x <= y) PROVE FALSE
  <2>1. 0 .. y \in upTo
    BY DEF upTo
  <2>2. 0 .. y \subseteq 0 .. x /\ 0 .. y # 0 .. x /\ 0 .. y \in SUBSET Nat /\ 0 .. x \in SUBSET Nat
    <3>1. x \in 0 .. x /\ x \notin 0 .. y
      BY <1>6
    <3>2. QED
      BY <1>6, <3>1
  <2>3. <<0 .. y, 0 .. x>> \in StrictSubsetOrdering(Nat)
    BY <2>2 DEF StrictSubsetOrdering
  <2>4. QED
    BY <1>4, <1>5, <2>1, <2>3
<1>7. QED
  BY <1>6

\* A set that holds 0 and with each number the next one holds them all.
LEMMA SetInduction ==
  ASSUME NEW T, 0 \in T, \A n \in Nat : n \in T => n + 1 \in T
  PROVE  Nat \subseteq T
<1>1. SUFFICES ASSUME Nat \ T # {} PROVE FALSE
  OBVIOUS
<1>2. PICK x \in Nat \ T : \A y \in Nat \ T : x <= y
  BY <1>1, SmallestOf
<1>3. x # 0 /\ x - 1 \in Nat /\ x - 1 \in T /\ (x - 1) + 1 = x
  BY <1>2
<1>4. x \in T
  BY <1>3
<1>5. QED
  BY <1>2, <1>4

\* A function on an interval may be defined by recursion.
Iterates(g, S, start, last, step) ==
    /\ g \in [0 .. last -> S]
    /\ g[0] = start /\ \A n \in 1 .. last : g[n] = step[n][g[n - 1]]

LEMMA RecursionOn ==
  ASSUME NEW S, NEW start \in S, NEW last \in Nat, NEW step \in [1 .. last -> [S -> S]]
  PROVE  \E g : Iterates(g, S, start, last, step)
<1> DEFINE Runs(g, m) == g[0] = start /\ \A n \in 1 .. m : g[n] = step[n][g[n - 1]]
           T == {m \in Nat : m <= last => \E g \in [0 .. m -> S] : Runs(g, m)}
<1>1. 0 \in T
  <2>1. [n \in 0 .. 0 |-> start] \in [0 .. 0 -> S] /\ Runs([n \in 0 .. 0 |-> start], 0)
    OBVIOUS
  <2>2. QED
    BY <2>1
<1>2. ASSUME NEW m \in Nat, m \in T PROVE m + 1 \in T
  <2>1. SUFFICES ASSUME m + 1 <= last PROVE \E g \in [0 .. m + 1 -> S] : Runs(g, m + 1)
    OBVIOUS
  <2>2. PICK g \in [0 .. m -> S] : Runs(g, m)
    BY <1>2, <2>1
  <2> DEFINE h == [n \in 0 .. m + 1 |-> IF n = m + 1 THEN step[m + 1][g[m]] ELSE g[n]]
  <2>3. g[m] \in S /\ step[m + 1] \in [S -> S] /\ step[m + 1][g[m]] \in S
    BY <2>1
  <2>4. h \in [0 .. m + 1 -> S]
    BY <2>3
  <2>5. h[m + 1] = step[m + 1][g[m]] /\ \A n \in 0 .. m : h[n] = g[n]
    OBVIOUS
  <2> HIDE DEF h
  <2>6. ASSUME NEW n \in 1 .. m + 1 PROVE h[n] = step[n][h[n - 1]]
    <3>1. CASE n = m + 1
      BY <2>5, <3>1
    <3>2. CASE n \in 1 .. m
      BY <2>2, <2>5, <3>2
    <3>3. QED
      BY <3>1, <3>2
  <2>7. Runs(h, m + 1)
    BY <2>2, <2>5, <2>6
  <2>8. QED
    BY <2>4, <2>7
<1>3. last \in T
  <2> HIDE DEF T
  <2>1. QED
    BY <1>1, <1>2, SetInduction
<1>4. QED
  BY <1>3 DEF Iterates

\* A set of naturals that is bounded has a greatest element.
LEMMA LargestOf ==
  ASSUME NEW n \in Nat, NEW T \in SUBSET (0 .. n), T # {}
  PROVE  \E x \in T : \A y \in T : y <= x
<1> DEFINE bounds == {m \in Nat : \A y \in T : y <= m}
<1>1. n \in bounds
  OBVIOUS
<1>2. PICK x \in bounds : \A m \in bounds : x <= m
  <2>1. bounds \in SUBSET Nat /\ bounds # {}
    BY <1>1
  <2> HIDE DEF bounds
  <2>2. QED
    BY <2>1, SmallestOf
<1>3. x \in T
  <2>1. SUFFICES ASSUME x \notin T PROVE FALSE
    OBVIOUS
  <2>2. PICK y \in T : TRUE
    OBVIOUS
  <2>3. \A z \in T : z \in Nat /\ z <= x /\ z # x
    BY <2>1
  <2>4. x \in Nat /\ x - 1 \in Nat /\ \A z \in T : z <= x - 1
    BY <2>2, <2>3
  <2>5. x - 1 \in bounds
    BY <2>4
  <2>6. x <= x - 1
    BY <1>2, <2>5
  <2>7. QED
    BY <2>4, <2>6
<1>4. QED
  BY <1>3

=============================================================================
