----------------------------- MODULE LoopTheorems -----------------------------
(***************************************************************************)
(* Loops as recursive functions: after[k] is the state after k rounds.     *)
(*                                                                         *)
(* As no backend instantiates a theorem that takes an operator, this       *)
(* module derives an induction over sets of naturals from                  *)
(* WellFoundedInduction, and from it that the definition of a loop has a   *)
(* solution, the step being a function.                                    *)
(***************************************************************************)
EXTENDS Integers, TLAPS, WellFoundedInduction

-----------------------------------------------------------------------------
(* Induction and recursion over the naturals, for sets and functions.      *)

(* A set of naturals that is not empty has a least member.                 *)
LEMMA LeastNat ==
  ASSUME NEW T, T \subseteq Nat, T # {}
  PROVE  \E x \in T : \A y \in T : x <= y
<1>1. \E x \in T : \A y \in T : ~ (<<y, x>> \in OpToRel(<, Nat))
  BY WFMin, NatLessThanWellFounded
<1>2. PICK x \in T : \A y \in T : ~ (<<y, x>> \in OpToRel(<, Nat))
  BY <1>1
<1>3. ASSUME NEW y \in T PROVE x <= y
  <2>1. ~ (<<y, x>> \in OpToRel(<, Nat))
    BY <1>2
  <2>2. x \in Nat /\ y \in Nat
    OBVIOUS
  <2>3. ~ (y < x)
    BY <2>1, <2>2 DEF OpToRel
  <2> QED BY <2>2, <2>3
<1> QED BY <1>3

(* Induction: a set that holds 0, and with each natural the next, holds    *)
(* all of them.                                                            *)
LEMMA NatSetInduction ==
  ASSUME NEW I, 0 \in I, \A k \in Nat : k \in I => k + 1 \in I
  PROVE  \A k \in Nat : k \in I
<1> SUFFICES ASSUME NEW j \in Nat, j \notin I PROVE FALSE
  OBVIOUS
<1> DEFINE T == {k \in Nat : k \notin I}
<1>1. PICK x \in T : \A y \in T : x <= y
  <2>1. T \subseteq Nat /\ T # {}
    OBVIOUS
  <2> QED BY <2>1, LeastNat
<1>2. x \in Nat /\ x \notin I
  OBVIOUS
<1>3. x # 0
  BY <1>2
<1>4. x - 1 \in Nat /\ (x - 1) + 1 = x
  BY <1>2, <1>3
<1>5. x - 1 \notin I
  BY <1>2, <1>4
<1>6. x - 1 \in T
  BY <1>4, <1>5
<1>7. x <= x - 1
  BY <1>1, <1>6
<1> QED BY <1>2, <1>7

(* A loop that starts with s0 and of which step gives the next state.      *)
Loops(g, n, s0, step, S) ==
  /\ g \in [0 .. n -> S]
  /\ g[0] = s0
  /\ \A k \in 0 .. n - 1 : g[k + 1] = step[<<k, g[k]>>]

(* Its rounds are determined.                                              *)
LEMMA LoopUnique ==
  ASSUME NEW S, NEW s0, NEW step, NEW m \in Nat, NEW n \in Nat, m <= n, NEW g, NEW h,
         Loops(g, m, s0, step, S), Loops(h, n, s0, step, S)
  PROVE  g[m] = h[m]
<1> DEFINE I == {k \in Nat : k <= m => g[k] = h[k]}
<1>1. 0 \in I
  BY DEF Loops
<1>2. ASSUME NEW k \in Nat, k \in I PROVE k + 1 \in I
  <2> SUFFICES ASSUME k + 1 <= m PROVE g[k + 1] = h[k + 1]
    OBVIOUS
  <2>1. g[k] = h[k]
    BY <1>2
  <2>2. k \in 0 .. m - 1 /\ k \in 0 .. n - 1
    OBVIOUS
  <2> QED BY <2>1, <2>2 DEF Loops
<1>3. \A k \in Nat : k \in I
  <2> HIDE DEF I
  <2> QED BY <1>1, <1>2, NatSetInduction
<1> QED BY <1>3

(* It has every number of rounds.                                          *)
LEMMA LoopFinite ==
  ASSUME NEW S, NEW s0 \in S, NEW step \in [Nat \X S -> S]
  PROVE  \A n \in Nat : \E g : Loops(g, n, s0, step, S)
<1> DEFINE I == {n \in Nat : \E g : Loops(g, n, s0, step, S)}
<1>1. 0 \in I
  <2>1. Loops([k \in 0 .. 0 |-> s0], 0, s0, step, S)
    BY DEF Loops
  <2> QED BY <2>1
<1>2. ASSUME NEW n \in Nat, n \in I PROVE n + 1 \in I
  <2>1. PICK g : Loops(g, n, s0, step, S)
    BY <1>2
  <2> DEFINE h == [k \in 0 .. n + 1 |-> IF k = n + 1 THEN step[<<n, g[n]>>] ELSE g[k]]
  <2>2. \A k \in 0 .. n : h[k] = g[k] /\ g[k] \in S
    BY <2>1 DEF Loops
  <2>3. h[n + 1] = step[<<n, g[n]>>] /\ h[n + 1] \in S
    <3>1. n \in 0 .. n /\ n + 1 \in 0 .. n + 1
      OBVIOUS
    <3>2. g[n] \in S
      BY <2>2, <3>1
    <3>3. h[n + 1] = step[<<n, g[n]>>]
      BY <3>1
    <3>4. <<n, g[n]>> \in Nat \X S
      BY <3>2
    <3> QED BY <3>3, <3>4
  <2>4. \A k \in 0 .. n + 1 : k \in 0 .. n \/ k = n + 1
    OBVIOUS
  <2>5. h \in [0 .. n + 1 -> S]
    <3>1. \A k \in 0 .. n + 1 : h[k] \in S
      BY <2>2, <2>3, <2>4
    <3> HIDE DEF h
    <3>2. h = [k \in 0 .. n + 1 |-> h[k]]
      BY DEF h
    <3> QED BY <3>1, <3>2
  <2>6. h[0] = s0
    BY <2>1, <2>2 DEF Loops
  <2>7. ASSUME NEW k \in 0 .. (n + 1) - 1 PROVE h[k + 1] = step[<<k, h[k]>>]
    <3>1. k \in 0 .. n /\ h[k] = g[k]
      BY <2>2
    <3>2. CASE k = n
      BY <3>1, <3>2, <2>3
    <3>3. CASE k # n
      <4>1. k \in 0 .. n - 1 /\ k + 1 \in 0 .. n
        BY <3>1, <3>3
      <4>2. g[k + 1] = step[<<k, g[k]>>]
        BY <4>1, <2>1 DEF Loops
      <4>3. h[k + 1] = g[k + 1]
        BY <4>1, <2>2
      <4> QED BY <3>1, <4>2, <4>3
    <3> QED BY <3>2, <3>3
  <2>8. Loops(h, n + 1, s0, step, S)
    <3> HIDE DEF h
    <3> QED BY <2>5, <2>6, <2>7 DEF Loops
  <2> QED BY <2>8
<1> HIDE DEF I
<1>3. \A n \in Nat : n \in I
  BY <1>1, <1>2, NatSetInduction
<1> QED BY <1>3 DEF I

(* So there is a function of all its rounds.                               *)
StepOf(s0, step, S) == s0 \in S /\ step \in [Nat \X S -> S]

AllRounds(f, s0, step, S) ==
  /\ f \in [Nat -> S]
  /\ f[0] = s0
  /\ \A k \in Nat : f[k + 1] = step[<<k, f[k]>>]

LEMMA LoopExists ==
  ASSUME NEW S, NEW s0, NEW step, StepOf(s0, step, S)
  PROVE  \E f : AllRounds(f, s0, step, S)
<1> DEFINE run(n) == CHOOSE g : Loops(g, n, s0, step, S)
           f == [n \in Nat |-> run(n)[n]]
<1>0. s0 \in S /\ step \in [Nat \X S -> S]
  BY DEF StepOf
<1>1. ASSUME NEW n \in Nat PROVE Loops(run(n), n, s0, step, S)
  BY <1>0, LoopFinite
<1> HIDE DEF run
<1>2. ASSUME NEW n \in Nat PROVE f[n] = run(n)[n] /\ run(n)[n] \in S
  <2>1. n \in 0 .. n
    OBVIOUS
  <2>2. run(n)[n] \in S
    BY <1>1, <2>1 DEF Loops
  <2> QED BY <2>2
<1>3. f \in [Nat -> S]
  BY <1>2
<1>4. f[0] = s0
  BY <1>1, <1>2 DEF Loops
<1>5. ASSUME NEW k \in Nat, NEW j \in Nat, k <= j PROVE run(j)[k] = run(k)[k]
  <2>1. Loops(run(k), k, s0, step, S) /\ Loops(run(j), j, s0, step, S)
    BY <1>1
  <2> QED BY <1>5, <2>1, LoopUnique
<1>6. ASSUME NEW k \in Nat PROVE f[k + 1] = step[<<k, f[k]>>]
  <2>1. k + 1 \in Nat /\ k <= k + 1 /\ k \in 0 .. (k + 1) - 1
    OBVIOUS
  <2>2. Loops(run(k), k, s0, step, S) /\ Loops(run(k + 1), k + 1, s0, step, S)
    BY <1>1, <2>1
  <2>3. run(k + 1)[k] = run(k)[k]
    BY <2>1, <1>5
  <2>4. run(k + 1)[k + 1] = step[<<k, run(k + 1)[k]>>]
    BY <2>1, <2>2 DEF Loops
  <2>5. f[k + 1] = run(k + 1)[k + 1] /\ f[k] = run(k)[k]
    BY <2>1
  <2> QED BY <2>3, <2>4, <2>5
<1> HIDE DEF f
<1> QED BY <1>3, <1>4, <1>6 DEF AllRounds

(* Which solves a recursive definition, with the step as a function.       *)
LEMMA LoopSolution ==
  ASSUME NEW S, NEW s0, NEW step, StepOf(s0, step, S)
  PROVE  \E f \in [Nat -> S] :
           \A k \in Nat : f[k] = IF k = 0 THEN s0 ELSE step[<<k - 1, f[k - 1]>>]
<1>1. PICK f : AllRounds(f, s0, step, S)
  BY LoopExists
<1>2. f \in [Nat -> S] /\ f[0] = s0 /\ \A k \in Nat : f[k + 1] = step[<<k, f[k]>>]
  BY <1>1 DEF AllRounds
<1>3. ASSUME NEW k \in Nat PROVE f[k] = IF k = 0 THEN s0 ELSE step[<<k - 1, f[k - 1]>>]
  <2>1. CASE k = 0
    BY <2>1, <1>2
  <2>2. CASE k # 0
    <3>1. k - 1 \in Nat /\ (k - 1) + 1 = k
      BY <2>2
    <3> QED BY <3>1, <2>2, <1>2
  <2> QED BY <2>1, <2>2
<1> QED BY <1>2, <1>3

(* What holds of every solution.                                           *)
LEMMA LoopRounds ==
  ASSUME NEW S, NEW s0, NEW step, StepOf(s0, step, S),
         NEW g, g = [k \in Nat |-> g[k]], g[0] = s0,
         \A k \in Nat : g[k] \in S => g[k + 1] = step[<<k, g[k]>>]
  PROVE  AllRounds(g, s0, step, S)
<1> DEFINE I == {k \in Nat : g[k] \in S}
<1>1. 0 \in I
  BY DEF StepOf
<1>2. ASSUME NEW k \in Nat, k \in I PROVE k + 1 \in I
  <2>1. <<k, g[k]>> \in Nat \X S
    BY <1>2
  <2>2. g[k + 1] = step[<<k, g[k]>>]
    BY <1>2
  <2> QED BY <2>1, <2>2 DEF StepOf
<1>3. \A k \in Nat : k \in I
  <2> HIDE DEF I
  <2> QED BY <1>1, <1>2, NatSetInduction
<1>4. \A k \in Nat : g[k] \in S
  BY <1>3
<1>5. g \in [Nat -> S]
  BY <1>4
<1> QED BY <1>4, <1>5 DEF AllRounds


-----------------------------------------------------------------------------
(* Loops of a given number of rounds.                                      *)

StepIn(s0, n, step, S) == s0 \in S /\ n \in Nat /\ step \in [(1 .. n) \X S -> S]

RoundsIn(f, s0, n, step, S) ==
  /\ f \in [0 .. n -> S]
  /\ f[0] = s0
  /\ \A k \in 1 .. n : f[k] = step[<<k, f[k - 1]>>]

(* The definition of such a loop has a solution.                           *)
LEMMA FiniteLoop ==
  ASSUME NEW S, NEW s0, NEW n, NEW step, StepIn(s0, n, step, S)
  PROVE  \E f : RoundsIn(f, s0, n, step, S)
<1>0. s0 \in S /\ n \in Nat /\ step \in [(1 .. n) \X S -> S]
  BY DEF StepIn
<1> DEFINE next == [p \in Nat \X S |-> IF p[1] < n THEN step[<<p[1] + 1, p[2]>>] ELSE p[2]]
<1>1. next \in [Nat \X S -> S]
  <2>1. ASSUME NEW k \in Nat, NEW s \in S
        PROVE  (IF k < n THEN step[<<k + 1, s>>] ELSE s) \in S
    <3>1. CASE k < n
      <4>1. <<k + 1, s>> \in (1 .. n) \X S
        BY <1>0, <3>1
      <4> QED BY <1>0, <3>1, <4>1
    <3> QED BY <3>1
  <2> QED BY <2>1
<1>2. ASSUME NEW k \in 1 .. n, NEW s \in S PROVE next[<<k - 1, s>>] = step[<<k, s>>]
  <2>1. k - 1 \in Nat /\ k - 1 < n /\ (k - 1) + 1 = k
    BY <1>0
  <2>2. <<k - 1, s>> \in Nat \X S
    BY <2>1
  <2> QED BY <2>1, <2>2
<1> HIDE DEF next
<1>3. PICK g : Loops(g, n, s0, next, S)
  BY <1>0, <1>1, LoopFinite
<1>4. g \in [0 .. n -> S] /\ g[0] = s0
  BY <1>3 DEF Loops
<1>5. ASSUME NEW k \in 1 .. n PROVE g[k] = step[<<k, g[k - 1]>>]
  <2>1. PICK j \in 0 .. n - 1 : j = k - 1 /\ j + 1 = k /\ j \in 0 .. n
    BY <1>0
  <2>2. g[j + 1] = next[<<j, g[j]>>]
    BY <1>3 DEF Loops
  <2>3. g[j] \in S
    BY <1>4, <2>1
  <2>4. next[<<j, g[j]>>] = step[<<k, g[j]>>]
    BY <1>2, <2>1, <2>3
  <2> QED BY <2>1, <2>2, <2>4
<1> QED BY <1>4, <1>5 DEF RoundsIn

(* What holds before the first round and is handed on by every round.      *)
LEMMA RoundInduction ==
  ASSUME NEW n \in Nat, NEW P, NEW g, g[0] \in P[0],
         \A k \in 1 .. n : g[k - 1] \in P[k - 1] => g[k] \in P[k]
  PROVE  \A k \in 0 .. n : g[k] \in P[k]
<1> DEFINE I == {k \in Nat : k <= n => g[k] \in P[k]}
<1>1. 0 \in I
  OBVIOUS
<1>2. ASSUME NEW k \in Nat, k \in I PROVE k + 1 \in I
  <2> SUFFICES ASSUME k + 1 <= n PROVE g[k + 1] \in P[k + 1]
    OBVIOUS
  <2>1. g[k] \in P[k]
    BY <1>2
  <2>2. PICK j \in 1 .. n : j = k + 1 /\ j - 1 = k
    OBVIOUS
  <2>3. g[j - 1] \in P[j - 1] => g[j] \in P[j]
    OBVIOUS
  <2> QED BY <2>1, <2>2, <2>3
<1>3. \A k \in Nat : k \in I
  <2> HIDE DEF I
  <2> QED BY <1>1, <1>2, NatSetInduction
<1> QED BY <1>3
=============================================================================
