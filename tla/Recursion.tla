----------------------------- MODULE Recursion -----------------------------
(***************************************************************************)
(* Induction over the naturals, and functions defined by recursion: what   *)
(* the proofs about the bytes of an IV and the bytes of a stream need.     *)
(* The theorems of NaturalsInduction are about a predicate or an operator; *)
(* these are about sets and functions, which are values.                   *)
(***************************************************************************)
EXTENDS Integers, WellFoundedInduction, TLAPS

Below == OpToRel(<, Nat)

LEMMA BelowIs ==
  ASSUME NEW m \in Nat, NEW n \in Nat, m < n
  PROVE  <<m, n>> \in Below
BY DEF Below, OpToRel

\* A set that holds 0, and with each number the next one, holds them all.
LEMMA SetInduction ==
  ASSUME NEW S, 0 \in S, \A n \in Nat : n \in S => n + 1 \in S
  PROVE  \A n \in Nat : n \in S
<1> DEFINE T == Nat \ S
<1> SUFFICES ASSUME T # {} PROVE FALSE
  OBVIOUS
<1>1. IsWellFoundedOn(Below, Nat)
  BY NatLessThanWellFounded, Zenon DEF Below
<1>2. T \subseteq Nat
  OBVIOUS
<1> HIDE DEF T
<1>3. PICK x \in T : \A y \in T : ~ (<<y, x>> \in Below)
  BY <1>1, <1>2, WFMin
<1>4. x \in Nat /\ x \notin S /\ x # 0
  BY <1>3 DEF T
<1>5. x - 1 \in Nat /\ (x - 1) + 1 = x /\ x - 1 < x
  BY <1>4
<1>6. x - 1 \notin S
  BY <1>4, <1>5
<1>7. x - 1 \in T /\ <<x - 1, x>> \in Below
  BY <1>4, <1>5, <1>6, BelowIs DEF T
<1> QED
  BY <1>3, <1>7

-----------------------------------------------------------------------------
(* A function that starts with a and goes on with step *)

Follows(g, n, a, step) ==
  g[0] = a /\ \A i \in 1..n : g[i] = step[<<i, g[i - 1]>>]

LEMMA FollowsUnique ==
  ASSUME NEW m \in Nat, NEW n \in Nat, NEW a, NEW step, NEW g, NEW h,
         Follows(g, m, a, step), Follows(h, n, a, step)
  PROVE  \A k \in Nat : k <= m /\ k <= n => g[k] = h[k]
<1> DEFINE S == {k \in Nat : k <= m /\ k <= n => g[k] = h[k]}
<1>1. 0 \in S
  BY DEF Follows
<1>2. ASSUME NEW k \in Nat, k \in S PROVE k + 1 \in S
  <2> SUFFICES ASSUME k + 1 <= m, k + 1 <= n PROVE g[k + 1] = h[k + 1]
    OBVIOUS
  <2>1. k + 1 \in 1..m /\ k + 1 \in 1..n /\ (k + 1) - 1 = k /\ k <= m /\ k <= n
    OBVIOUS
  <2>2. g[k] = h[k]
    BY <1>2, <2>1
  <2>3. g[k + 1] = step[<<k + 1, g[k]>>]
    BY <2>1 DEF Follows
  <2>4. h[k + 1] = step[<<k + 1, h[k]>>]
    BY <2>1 DEF Follows
  <2> QED
    BY <2>2, <2>3, <2>4
<1> HIDE DEF S
<1>3. \A k \in Nat : k \in S
  BY <1>1, <1>2, SetInduction
<1> QED
  BY <1>3 DEF S

LEMMA PrefixExists ==
  ASSUME NEW S, NEW a \in S, NEW step \in [Nat \X S -> S]
  PROVE  \A n \in Nat : \E g \in [0..n -> S] : Follows(g, n, a, step)
<1> DEFINE T == {n \in Nat : \E g \in [0..n -> S] : Follows(g, n, a, step)}
<1>1. 0 \in T
  <2> DEFINE g == [i \in 0..0 |-> a]
  <2>1. g \in [0..0 -> S] /\ g[0] = a
    OBVIOUS
  <2>2. Follows(g, 0, a, step)
    BY <2>1 DEF Follows
  <2> QED
    BY <2>1, <2>2
<1>2. ASSUME NEW n \in Nat, n \in T PROVE n + 1 \in T
  <2>1. PICK g \in [0..n -> S] : Follows(g, n, a, step)
    BY <1>2
  <2> DEFINE x == step[<<n + 1, g[n]>>]
             h == [i \in 0..(n + 1) |-> IF i = n + 1 THEN x ELSE g[i]]
  <2>2. g[n] \in S /\ x \in S
    <3>1. n \in 0..n /\ n + 1 \in Nat
      OBVIOUS
    <3>2. g[n] \in S
      BY <2>1, <3>1
    <3>3. <<n + 1, g[n]>> \in Nat \X S
      BY <3>1, <3>2
    <3> QED
      BY <3>2, <3>3
  <2>3. \A i \in 0..n : i \in 0..(n + 1) /\ i # n + 1 /\ h[i] = g[i] /\ g[i] \in S
    BY <2>1
  <2>4. n + 1 \in 0..(n + 1) /\ h[n + 1] = x
    OBVIOUS
  <2> HIDE DEF x
  <2>5. h \in [0..(n + 1) -> S]
    <3>1. \A i \in 0..(n + 1) : i = n + 1 \/ i \in 0..n
      OBVIOUS
    <3>2. \A i \in 0..(n + 1) : (IF i = n + 1 THEN x ELSE g[i]) \in S
      BY <2>2, <2>3, <3>1
    <3> QED
      BY <3>2
  <2> HIDE DEF h
  <2>6. Follows(h, n + 1, a, step)
    <3>1. h[0] = a
      <4>1. 0 \in 0..n
        OBVIOUS
      <4> QED
        BY <2>1, <2>3, <4>1 DEF Follows
    <3>2. ASSUME NEW i \in 1..(n + 1) PROVE h[i] = step[<<i, h[i - 1]>>]
      <4>1. i - 1 \in 0..n
        OBVIOUS
      <4>2. h[i - 1] = g[i - 1]
        BY <2>3, <4>1
      <4>3. CASE i = n + 1
        <5>1. i - 1 = n
          BY <4>3
        <5> QED
          BY <2>4, <4>2, <4>3, <5>1 DEF x
      <4>4. CASE i # n + 1
        <5>1. i \in 1..n /\ i \in 0..n
          BY <4>4
        <5> QED
          BY <2>1, <2>3, <4>2, <5>1 DEF Follows
      <4> QED
        BY <4>3, <4>4
    <3> QED
      BY <3>1, <3>2 DEF Follows
  <2> QED
    BY <2>5, <2>6
<1> HIDE DEF T
<1>3. \A n \in Nat : n \in T
  BY <1>1, <1>2, SetInduction
<1> QED
  BY <1>3 DEF T

\* f takes values in S, from a on.
Runs(f, S, a, step) ==
  f \in [Nat -> S] /\ f[0] = a /\ \A n \in Nat : f[n + 1] = step[<<n + 1, f[n]>>]

\* The values a recursion goes through exist, for all numbers at once.
LEMMA RecursionExists ==
  ASSUME NEW S, NEW a \in S, NEW step \in [Nat \X S -> S]
  PROVE  \E f : Runs(f, S, a, step)
<1> DEFINE Good(n, g) == g \in [0..n -> S] /\ Follows(g, n, a, step)
           part == [n \in Nat |-> CHOOSE g : Good(n, g)]
           f == [n \in Nat |-> part[n][n]]
<1>1. ASSUME NEW n \in Nat PROVE Good(n, part[n])
  <2>1. \E g : Good(n, g)
    BY PrefixExists
  <2>2. part[n] = CHOOSE g : Good(n, g)
    OBVIOUS
  <2> HIDE DEF Good
  <2> QED
    BY <2>1, <2>2
<1> HIDE DEF part
<1>2. \A n \in Nat : f[n] = part[n][n] /\ n \in 0..n
  OBVIOUS
<1>3. f \in [Nat -> S]
  BY <1>1, <1>2
<1>4. f[0] = a
  BY <1>1, <1>2 DEF Follows
<1>5. ASSUME NEW n \in Nat PROVE f[n + 1] = step[<<n + 1, f[n]>>]
  <2>1. n + 1 \in Nat /\ n + 1 \in 1..(n + 1) /\ (n + 1) - 1 = n /\ n <= n + 1 /\ n <= n
    OBVIOUS
  <2>2. Follows(part[n], n, a, step) /\ Follows(part[n + 1], n + 1, a, step)
    BY <1>1, <2>1
  <2>3. part[n][n] = part[n + 1][n]
    BY <2>1, <2>2, FollowsUnique
  <2>4. part[n + 1][n + 1] = step[<<n + 1, part[n + 1][n]>>]
    BY <2>1, <2>2 DEF Follows
  <2> QED
    BY <1>2, <2>1, <2>3, <2>4
<1> HIDE DEF f
<1>6. Runs(f, S, a, step)
  BY <1>3, <1>4, <1>5 DEF Runs
<1> QED
  BY <1>6
=============================================================================
