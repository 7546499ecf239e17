----------------------------- MODULE Induction -----------------------------
(***************************************************************************)
(* Induction and recursion for the proofs about what a fold, a checksum or *)
(* a count computes.  The provers instantiate no theorem that takes an     *)
(* operator, so an induction hypothesis is a set here.                     *)
(***************************************************************************)
EXTENDS Integers, WellFoundedInduction, TLAPS

(* A set of numbers that is not empty has a least element, and so has what *)
(* is missing in a set that lacks a number.                                *)
Less == {ss \in Nat \X Nat : ss[1] < ss[2]}

LEMMA LessIsWellFounded == IsWellFoundedOn(Less, Nat)
  BY NatLessThanWellFounded DEF OpToRel, Less

LEMMA LeastExists ==
  ASSUME NEW S \in SUBSET Nat, S # {}
  PROVE  \E m \in S : \A k \in S : m <= k
<1>1. PICK m \in S : \A k \in S : <<k, m>> \notin Less
  BY LessIsWellFounded, WFMin
<1>2. ASSUME NEW k \in S PROVE m <= k
  <2>1. <<k, m>> \in Nat \X Nat /\ <<k, m>>[1] = k /\ <<k, m>>[2] = m
    OBVIOUS
  <2>2. ~(k < m)
    BY <1>1, <2>1, Zenon DEF Less
  <2>3. k \in Nat /\ m \in Nat
    OBVIOUS
  <2> QED BY <2>2, <2>3
<1> QED BY <1>2

LEMMA ByInduction ==
  ASSUME NEW S, 0 \in S, \A n \in Nat : n \in S => n + 1 \in S
  PROVE  Nat \subseteq S
<1> SUFFICES ASSUME Nat \ S # {} PROVE FALSE
  OBVIOUS
<1>1. PICK m \in Nat \ S : \A k \in Nat \ S : m <= k
  BY LeastExists
<1>2. m - 1 \in Nat /\ m - 1 \in S
  BY <1>1
<1> QED BY <1>1, <1>2

(* A function that is defined by recursion up to n.                        *)
Recursive(f, n, base, step) ==
  f = [i \in 0..n |-> IF i = 0 THEN base ELSE step[i, f[i - 1]]]

LEMMA RecursionExists ==
  ASSUME NEW T, NEW base \in T, NEW n \in Nat, NEW step \in [(1..n) \X T -> T]
  PROVE  \E f \in [0..n -> T] : Recursive(f, n, base, step)
<1> DEFINE Good(m) == \E f \in [0..m -> T] : Recursive(f, m, base, step)
           S == {m \in Nat : m <= n => Good(m)}
<1>1. 0 \in S
  <2> DEFINE f == [i \in 0..0 |-> base]
  <2>1. f \in [0..0 -> T] /\ f = [i \in 0..0 |-> IF i = 0 THEN base ELSE step[i, f[i - 1]]]
    OBVIOUS
  <2> QED BY <2>1 DEF Recursive
<1>2. ASSUME NEW m \in Nat, m \in S PROVE m + 1 \in S
  <2> SUFFICES ASSUME m + 1 <= n PROVE Good(m + 1)
    OBVIOUS
  <2>1. PICK f \in [0..m -> T] : Recursive(f, m, base, step)
    BY <1>2
  <2> DEFINE v == step[m + 1, f[m]]
             g == [i \in 0..(m + 1) |-> IF i = m + 1 THEN v ELSE f[i]]
  <2>2. v \in T
    <3>1. <<m + 1, f[m]>> \in (1..n) \X T
      OBVIOUS
    <3> QED BY <3>1
  <2> HIDE DEF v
  <2>3. g \in [0..(m + 1) -> T]
    <3>1. \A i \in 0..(m + 1) : i = m + 1 \/ i \in 0..m
      OBVIOUS
    <3>2. \A i \in 0..(m + 1) : (IF i = m + 1 THEN v ELSE f[i]) \in T
      BY <2>2, <3>1
    <3> QED BY <3>2
  <2>4. ASSUME NEW i \in 0..(m + 1)
        PROVE  g[i] = IF i = 0 THEN base ELSE step[i, g[i - 1]]
    <3>1. g[m + 1] = v /\ \A j \in 0..m : g[j] = f[j]
      OBVIOUS
    <3> HIDE DEF g
    <3>2. CASE i = m + 1
      <4>1. i # 0 /\ i - 1 = m /\ m \in 0..m
        BY <3>2
      <4> QED BY <3>1, <3>2, <4>1 DEF v
    <3>3. CASE i = 0
      <4>1. 0 \in 0..m
        OBVIOUS
      <4> QED BY <2>1, <3>1, <3>3, <4>1 DEF Recursive
    <3>4. CASE i # m + 1 /\ i # 0
      <4>1. i \in 0..m /\ i - 1 \in 0..m
        BY <3>4
      <4>2. f[i] = step[i, f[i - 1]]
        BY <2>1, <3>4, <4>1 DEF Recursive
      <4> QED BY <3>1, <3>4, <4>1, <4>2
    <3> QED BY <3>2, <3>3, <3>4
  <2>5. g = [i \in 0..(m + 1) |-> IF i = 0 THEN base ELSE step[i, g[i - 1]]]
    <3> HIDE DEF g
    <3> QED BY <2>3, <2>4
  <2> QED BY <2>3, <2>5 DEF Recursive
<1> HIDE DEF Good
<1>3. Nat \subseteq S
  <2> HIDE DEF S
  <2> QED BY <1>1, <1>2, ByInduction
<1>4. Good(n)
  BY <1>3
<1> QED BY <1>4 DEF Good

(* What holds at 0 and from each place up to n to the next.                *)
LEMMA UpTo ==
  ASSUME NEW n \in Nat, NEW S, 0 \in S,
         \A i \in 1..n : i - 1 \in S => i \in S
  PROVE  \A i \in 0..n : i \in S
<1> DEFINE Q == {i \in Nat : i <= n => i \in S}
<1>1. 0 \in Q
  OBVIOUS
<1>2. ASSUME NEW i \in Nat, i \in Q PROVE i + 1 \in Q
  <2> SUFFICES ASSUME i + 1 <= n PROVE i + 1 \in S
    OBVIOUS
  <2>1. i \in S /\ i + 1 \in 1..n /\ (i + 1) - 1 = i
    BY <1>2
  <2> QED BY <2>1
<1>3. Nat \subseteq Q
  <2> HIDE DEF Q
  <2> QED BY <1>1, <1>2, ByInduction
<1> QED BY <1>3
=============================================================================
