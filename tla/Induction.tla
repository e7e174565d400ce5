----------------------------- MODULE Induction -----------------------------
(***************************************************************************)
(* Induction over the natural numbers, stated with sets: the library's     *)
(* theorem takes a predicate as its parameter, a set of numbers will do.   *)
(* The proofs about sequences and about functions defined by recursion    *)
(* build on it.                                                            *)
(***************************************************************************)
EXTENDS Integers, WellFoundedInduction, TLAPS

Less == {pair \in Nat \X Nat : pair[1] < pair[2]}

LEMMA LessIsWellFounded == IsWellFoundedOn(Less, Nat)
<1>1. Less = OpToRel(<, Nat)
  BY Zenon DEF OpToRel, Less
<1> QED
  BY <1>1, NatLessThanWellFounded, Zenon

\* A set of numbers that is not empty has a least one.
LEMMA LeastNumber ==
    ASSUME NEW T \in SUBSET Nat, T # {}
    PROVE  \E n \in T : \A m \in T : n <= m
<1>1. PICK n \in T : \A m \in T : <<m, n>> \notin Less
  BY LessIsWellFounded, WFMin, Zenon
<1>2. \A m \in T : ~(m < n)
  BY <1>1 DEF Less
<1> QED
  BY <1>2

\* A set that has 0, and with every number the next, has them all.
LEMMA SetInduction ==
    ASSUME NEW T \in SUBSET Nat, 0 \in T, \A n \in T : n + 1 \in T
    PROVE  Nat \subseteq T
<1> SUFFICES ASSUME Nat \ T # {} PROVE FALSE
  OBVIOUS
<1>1. PICK n \in Nat \ T : \A m \in Nat \ T : n <= m
  <2>1. Nat \ T \in SUBSET Nat
    OBVIOUS
  <2> QED
    BY <2>1, LeastNumber
<1>2. n - 1 \in Nat /\ (n - 1) + 1 = n
  BY <1>1
<1> QED
  BY <1>1, <1>2

\* The same up to a bound.
LEMMA BoundedInduction ==
    ASSUME NEW k \in Nat, NEW T, 0 \in T, \A n \in 0..(k - 1) : n \in T => n + 1 \in T
    PROVE  0..k \subseteq T
<1> DEFINE U == {n \in Nat : n <= k => n \in T}
<1>1. U \in SUBSET Nat /\ 0 \in U
  OBVIOUS
<1>2. \A n \in U : n + 1 \in U
  OBVIOUS
<1>3. Nat \subseteq U
  BY <1>1, <1>2, SetInduction, Zenon
<1> QED
  BY <1>3

\* g starts with base and goes on as step says.
Recursion(g, n, base, step) == g[0] = base /\ \A i \in 1..n : g[i] = step[i][g[i - 1]]

\* What a definition by recursion over 0..n needs: there is such a function.
LEMMA RecursiveFunction ==
    ASSUME NEW S, NEW n \in Nat, NEW base \in S, NEW step \in [1..n -> [S -> S]]
    PROVE  \E g \in [0..n -> S] : Recursion(g, n, base, step)
<1> DEFINE T == {k \in Nat : \E g \in [0..k -> S] : Recursion(g, k, base, step)}
<1>1. 0 \in T
  <2>1. [i \in 0..0 |-> base] \in [0..0 -> S] /\ Recursion([i \in 0..0 |-> base], 0, base, step)
    BY DEF Recursion
  <2> QED
    BY <2>1
<1>2. ASSUME NEW k \in 0..(n - 1), k \in T
      PROVE  k + 1 \in T
  <2>1. PICK g \in [0..k -> S] : Recursion(g, k, base, step)
    BY <1>2
  <2> DEFINE h == [i \in 0..(k + 1) |-> IF i = k + 1 THEN step[k + 1][g[k]] ELSE g[i]]
  <2>2. k \in 0..k /\ k + 1 \in 1..n /\ 0 \in 0..(k + 1) /\ k + 1 \in 0..(k + 1) /\ k + 1 # 0
    OBVIOUS
  <2>3. step[k + 1] \in [S -> S] /\ g[k] \in S
    BY <2>2
  <2>4. step[k + 1][g[k]] \in S
    BY <2>3
  <2>5. h \in [0..(k + 1) -> S]
    <3> SUFFICES ASSUME NEW i \in 0..(k + 1)
                 PROVE  (IF i = k + 1 THEN step[k + 1][g[k]] ELSE g[i]) \in S
      OBVIOUS
    <3>1. CASE i = k + 1
      BY <2>4, <3>1
    <3>2. CASE i \in 0..k
      BY <3>2
    <3> QED
      BY <3>1, <3>2
  <2>6. \A i \in 0..k : i \in 0..(k + 1) /\ i # k + 1 /\ h[i] = g[i]
    OBVIOUS
  <2>7. h[k + 1] = step[k + 1][g[k]]
    BY <2>2
  <2>8. (k + 1) - 1 = k /\ \A i \in 1..(k + 1) : i = k + 1 \/ (i \in 1..k /\ i \in 0..k /\ i - 1 \in 0..k)
    OBVIOUS
  <2> HIDE DEF h
  <2>9. Recursion(h, k + 1, base, step)
    <3>1. h[0] = base
      BY <2>1, <2>6 DEF Recursion
    <3>2. ASSUME NEW i \in 1..(k + 1)
          PROVE  h[i] = step[i][h[i - 1]]
      <4>1. CASE i = k + 1
        BY <2>2, <2>6, <2>7, <2>8, <4>1
      <4>2. CASE i \in 1..k
        BY <2>1, <2>6, <2>8, <4>2 DEF Recursion
      <4> QED
        BY <2>8, <4>1, <4>2
    <3> QED
      BY <3>1, <3>2 DEF Recursion
  <2>10. k + 1 \in Nat
    OBVIOUS
  <2> QED
    BY <2>5, <2>9, <2>10
<1>3. n \in T
  <2> HIDE DEF T
  <2>1. 0..n \subseteq T
    BY <1>1, <1>2, BoundedInduction
  <2> QED
    BY <2>1
<1> QED
  BY <1>3
=============================================================================
