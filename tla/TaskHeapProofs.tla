---------------------------- MODULE TaskHeapProofs ----------------------------
(***************************************************************************)
(* Proofs about TaskHeap (CTaskHeap, timer.cpp), for any tickets, keys and *)
(* range of marks.                                                         *)
(*                                                                         *)
(* The loops are recursive functions, and what one does is proved by       *)
(* induction on its rounds with the lemmas of LoopTheorems.                *)
(*                                                                         *)
(* The first part is on the array: what SiftUp and SiftDown do to one that *)
(* is a heap but for one record, then Update, Remove, Sort, Remake.  The   *)
(* second has the inductive invariant HeapInv and, by it, the theorems:    *)
(* HeapSound, Visits and the refinement of TaskSet.                        *)
(***************************************************************************)
EXTENDS TaskHeap, LoopTheorems, FiniteSetTheorems

-----------------------------------------------------------------------------
(* The order of the records and the shape of the tree.                     *)

Rec == [ticket : Tickets, key : Keys, m_iVisitedMark : 0 .. MarkMod - 1]

Arrays(N) == [0 .. N - 1 -> Rec]

LEMMA BeforeIrreflexive ==
  ASSUME NEW p \in Rec
  PROVE  ~ Before(p, p)
<1>1. p.key \in Int /\ p.ticket \in Int
  BY HeapAssumption DEF Rec
<1> QED BY <1>1 DEF Before

LEMMA BeforeAsymmetric ==
  ASSUME NEW p \in Rec, NEW q \in Rec, Before(p, q)
  PROVE  ~ Before(q, p)
<1>1. p.key \in Int /\ p.ticket \in Int /\ q.key \in Int /\ q.ticket \in Int
  BY HeapAssumption DEF Rec
<1> QED BY <1>1 DEF Before

(* If q does not come before p, and r not before q, then r not before p.   *)
LEMMA BeforeTransitive ==
  ASSUME NEW p \in Rec, NEW q \in Rec, NEW r \in Rec, ~ Before(q, p), ~ Before(r, q)
  PROVE  ~ Before(r, p)
<1>1. /\ p.key \in Int /\ p.ticket \in Int /\ q.key \in Int /\ q.ticket \in Int
      /\ r.key \in Int /\ r.ticket \in Int
  BY HeapAssumption DEF Rec
<1> QED BY <1>1 DEF Before

LEMMA BeforeTotal ==
  ASSUME NEW p \in Rec, NEW q \in Rec, p.ticket # q.ticket, ~ Before(q, p)
  PROVE  Before(p, q)
<1>1. p.key \in Int /\ p.ticket \in Int /\ q.key \in Int /\ q.ticket \in Int
  BY HeapAssumption DEF Rec
<1> QED BY <1>1 DEF Before

LEMMA ParentFacts ==
  ASSUME NEW x \in Nat, x > 0
  PROVE  /\ Parent(x) \in Nat /\ Parent(x) < x
         /\ x = Left(Parent(x)) \/ x = Right(Parent(x))
BY DEF Parent, Left, Right

LEMMA ChildFacts ==
  ASSUME NEW x \in Nat
  PROVE  /\ Left(x) \in Nat /\ Left(x) > x /\ Parent(Left(x)) = x
         /\ Right(x) \in Nat /\ Right(x) > Left(x) /\ Parent(Right(x)) = x
BY DEF Parent, Left, Right

LEMMA SwapFacts ==
  ASSUME NEW N \in Nat, NEW h \in Arrays(N), NEW x \in 0 .. N - 1, NEW y \in 0 .. N - 1
  PROVE  /\ Swapped(h, x, y) \in Arrays(N)
         /\ Swapped(h, x, y)[x] = h[y]
         /\ Swapped(h, x, y)[y] = h[x]
         /\ \A z \in 0 .. N - 1 : z # x /\ z # y => Swapped(h, x, y)[z] = h[z]
BY DEF Swapped, Arrays

(* An array with the records of another, on its first n places, in some    *)
(* order; beyond these it is the same.                                     *)
Recs(h, n) == {h[y] : y \in 0 .. n - 1}

Distinct(h, n) == \A y, z \in 0 .. n - 1 : h[y].ticket = h[z].ticket => y = z

Rearranged(g, h, n, N) ==
  /\ Recs(h, n) = Recs(g, n)
  /\ Distinct(g, n) => Distinct(h, n)
  /\ \A y \in n .. N - 1 : h[y] = g[y]

LEMMA RearrangedTransitive ==
  ASSUME NEW g, NEW h, NEW i, NEW n, NEW N,
         Rearranged(g, h, n, N), Rearranged(h, i, n, N)
  PROVE  Rearranged(g, i, n, N)
BY DEF Rearranged

LEMMA RearrangedSame ==
  ASSUME NEW g, NEW n, NEW N
  PROVE  Rearranged(g, g, n, N)
BY DEF Rearranged

LEMMA SwapRearranges ==
  ASSUME NEW N \in Nat, NEW n \in 0 .. N, NEW h \in Arrays(N),
         NEW x \in 0 .. n - 1, NEW y \in 0 .. n - 1
  PROVE  Rearranged(h, Swapped(h, x, y), n, N)
<1> DEFINE s == Swapped(h, x, y)
<1>1. /\ s \in Arrays(N) /\ s[x] = h[y] /\ s[y] = h[x]
      /\ \A z \in 0 .. N - 1 : z # x /\ z # y => s[z] = h[z]
  BY SwapFacts
<1> HIDE DEF s
<1>2. Recs(s, n) \subseteq Recs(h, n)
  BY <1>1 DEF Recs
<1>3. Recs(h, n) \subseteq Recs(s, n)
  <2> SUFFICES ASSUME NEW z \in 0 .. n - 1 PROVE \E w \in 0 .. n - 1 : s[w] = h[z]
    BY DEF Recs
  <2>1. CASE z = x
    BY <1>1, <2>1
  <2>2. CASE z = y
    BY <1>1, <2>2
  <2>3. CASE z # x /\ z # y
    BY <1>1, <2>3
  <2> QED BY <2>1, <2>2, <2>3
<1>4. ASSUME Distinct(h, n), NEW u \in 0 .. n - 1, NEW v \in 0 .. n - 1,
             s[u].ticket = s[v].ticket
      PROVE  u = v
  <2> DEFINE from(z) == IF z = x THEN y ELSE IF z = y THEN x ELSE z
  <2>1. \A z \in 0 .. n - 1 : from(z) \in 0 .. n - 1 /\ s[z] = h[from(z)]
    BY <1>1
  <2>2. from(u) = from(v)
    <3> HIDE DEF from
    <3> QED BY <2>1, <1>4 DEF Distinct
  <2> QED BY <2>2
<1>5. \A z \in n .. N - 1 : s[z] = h[z]
  BY <1>1
<1> QED BY <1>2, <1>3, <1>4, <1>5 DEF s, Rearranged, Distinct

-----------------------------------------------------------------------------
(* SiftUp.                                                                 *)

\* The record at y does not come before its parent.
Settled(h, y) == ~ Before(h[y], h[Parent(y)])

HeapTo(h, n) == \A y \in 1 .. n - 1 : Settled(h, y)

(* A heap but for the record at x, which may have to rise.                 *)
Rises(h, n, x) ==
  /\ \A y \in 1 .. n - 1 : y # x => Settled(h, y)
  /\ x > 0 => \A y \in 1 .. n - 1 : Parent(y) = x => ~ Before(h[y], h[Parent(x)])

LEMMA RiseRoundKeeps ==
  ASSUME NEW N \in Nat, NEW n \in 0 .. N, NEW h \in Arrays(N), NEW x \in 0 .. n - 1,
         Rises(h, n, x), x > 0, Before(h[x], h[Parent(x)])
  PROVE  Rises(Swapped(h, x, Parent(x)), n, Parent(x))
<1>1. PICK p \in 0 .. n - 1 : p = Parent(x) /\ p < x
  BY ParentFacts
<1>2. PICK s : s = Swapped(h, x, p)
  OBVIOUS
<1>3. /\ s \in Arrays(N) /\ s[x] = h[p] /\ s[p] = h[x]
      /\ \A z \in 0 .. N - 1 : z # x /\ z # p => s[z] = h[z]
  BY <1>2, SwapFacts
<1>4. \A z \in 0 .. n - 1 : h[z] \in Rec
  BY DEF Arrays
<1>5. ASSUME NEW y \in 1 .. n - 1
      PROVE  Parent(y) \in 0 .. n - 1 /\ Parent(y) < y
  BY ParentFacts
<1>6. ~ Before(h[p], h[x])
  BY <1>1, <1>4, BeforeAsymmetric
<1>7. \A y \in 1 .. n - 1 : y # x => ~ Before(h[y], h[Parent(y)])
  BY DEF Rises, Settled
<1>8. \A y \in 1 .. n - 1 : Parent(y) = x => ~ Before(h[y], h[p])
  BY <1>1 DEF Rises
<1>9. ASSUME NEW y \in 1 .. n - 1, y # p PROVE ~ Before(s[y], s[Parent(y)])
  <2>1. CASE y = x
    BY <1>1, <1>3, <1>6, <2>1
  <2>2. CASE y # x /\ Parent(y) = p
    <3>1. ~ Before(h[y], h[p])
      BY <1>7, <2>2
    <3>2. ~ Before(h[y], h[x])
      BY <3>1, <1>4, <1>6, BeforeTransitive
    <3>3. s[y] = h[y] /\ s[Parent(y)] = h[x]
      BY <1>3, <1>9, <2>2
    <3> QED BY <3>2, <3>3
  <2>3. CASE y # x /\ Parent(y) = x
    <3>1. s[y] = h[y] /\ s[Parent(y)] = h[p]
      BY <1>3, <1>9, <2>3
    <3> QED BY <3>1, <1>8, <2>3
  <2>4. CASE y # x /\ Parent(y) # x /\ Parent(y) # p
    <3>1. s[y] = h[y] /\ s[Parent(y)] = h[Parent(y)]
      BY <1>3, <1>5, <1>9, <2>4
    <3> QED BY <3>1, <1>7, <2>4
  <2> QED BY <2>1, <2>2, <2>3, <2>4
<1>10. ASSUME p > 0, NEW y \in 1 .. n - 1, Parent(y) = p
       PROVE  ~ Before(s[y], s[Parent(p)])
  <2>1. Parent(p) \in 0 .. n - 1 /\ Parent(p) < p
    BY <1>5, <1>10
  <2>2. s[Parent(p)] = h[Parent(p)]
    BY <1>1, <1>3, <2>1
  <2>3. ~ Before(h[p], h[Parent(p)])
    BY <1>1, <1>7, <1>10
  <2>4. CASE y = x
    BY <1>3, <2>2, <2>3, <2>4
  <2>5. CASE y # x
    <3>1. ~ Before(h[y], h[p])
      BY <1>7, <1>10, <2>5
    <3>2. ~ Before(h[y], h[Parent(p)])
      BY <3>1, <2>1, <2>3, <1>4, BeforeTransitive
    <3>3. y # p
      BY <1>5, <1>10
    <3>4. s[y] = h[y]
      BY <1>3, <2>5, <3>3
    <3> QED BY <3>2, <3>4, <2>2
  <2> QED BY <2>4, <2>5
<1>11. Rises(s, n, p)
  BY <1>9, <1>10 DEF Rises, Settled
<1> QED BY <1>11, <1>1, <1>2

-----------------------------------------------------------------------------
(* SiftDown.                                                               *)

(* A heap but for the record at y, which has sunk there from a and may     *)
(* have to sink further; at a it may then have to rise.                    *)
Sinks(h, n, a, y) ==
  /\ \A z \in 1 .. n - 1 : Parent(z) # y /\ (z # y \/ y # a) => Settled(h, z)
  /\ y > 0 => \A z \in 1 .. n - 1 : Parent(z) = y => ~ Before(h[z], h[Parent(y)])
  /\ a > 0 => \A z \in 1 .. n - 1 : Parent(z) = a => ~ Before(h[z], h[Parent(a)])

LEMMA SmallerFacts ==
  ASSUME NEW N \in Nat, NEW n \in 0 .. N, NEW h \in Arrays(N), NEW y \in 0 .. n - 1,
         Left(y) < n
  PROVE  /\ Smaller(h, n, y) \in 1 .. n - 1
         /\ Smaller(h, n, y) > y
         /\ Parent(Smaller(h, n, y)) = y
         /\ \A z \in 1 .. n - 1 : Parent(z) = y => ~ Before(h[z], h[Smaller(h, n, y)])
<1>1. PICK l \in 1 .. n - 1 : l = Left(y) /\ l > y /\ Parent(l) = y
  BY ChildFacts
<1>2. PICK r \in Nat : r = Right(y) /\ r > l /\ Parent(r) = y
  BY ChildFacts, <1>1
<1>3. \A z \in 0 .. n - 1 : h[z] \in Rec
  BY DEF Arrays
<1>4. ASSUME NEW z \in 1 .. n - 1, Parent(z) = y PROVE z = l \/ z = r
  BY <1>1, <1>2, <1>4, ParentFacts
<1>5. ~ Before(h[l], h[l])
  BY <1>3, BeforeIrreflexive
<1>6. CASE r < n /\ Before(h[r], h[l])
  <2>1. Smaller(h, n, y) = r
    BY <1>1, <1>2, <1>6 DEF Smaller
  <2>2. ~ Before(h[l], h[r]) /\ ~ Before(h[r], h[r])
    BY <1>2, <1>3, <1>6, BeforeAsymmetric, BeforeIrreflexive
  <2> QED BY <1>1, <1>2, <1>4, <1>6, <2>1, <2>2
<1>7. CASE ~ (r < n /\ Before(h[r], h[l]))
  <2>1. Smaller(h, n, y) = l
    BY <1>1, <1>2, <1>7 DEF Smaller
  <2> QED BY <1>1, <1>2, <1>4, <1>5, <1>7, <2>1
<1> QED BY <1>6, <1>7

LEMMA SinkRoundKeeps ==
  ASSUME NEW N \in Nat, NEW n \in 0 .. N, NEW h \in Arrays(N),
         NEW y \in 0 .. n - 1, NEW a \in 0 .. y,
         Sinks(h, n, a, y), Left(y) < n, Before(h[Smaller(h, n, y)], h[y])
  PROVE  Sinks(Swapped(h, y, Smaller(h, n, y)), n, a, Smaller(h, n, y))
<1>1. PICK c \in 1 .. n - 1 : c = Smaller(h, n, y) /\ c > y /\ Parent(c) = y
  BY SmallerFacts
<1>2. \A z \in 1 .. n - 1 : Parent(z) = y => ~ Before(h[z], h[c])
  BY <1>1, SmallerFacts
<1>3. PICK s : s = Swapped(h, y, c)
  OBVIOUS
<1>4. /\ s \in Arrays(N) /\ s[y] = h[c] /\ s[c] = h[y]
      /\ \A z \in 0 .. N - 1 : z # y /\ z # c => s[z] = h[z]
  <2>1. N \in Nat /\ y \in 0 .. N - 1 /\ c \in 0 .. N - 1
    BY <1>1
  <2>2. /\ Swapped(h, y, c) \in Arrays(N)
        /\ Swapped(h, y, c)[y] = h[c] /\ Swapped(h, y, c)[c] = h[y]
        /\ \A z \in 0 .. N - 1 : z # y /\ z # c => Swapped(h, y, c)[z] = h[z]
    BY <2>1, SwapFacts
  <2> QED BY <1>3, <2>2
<1>5. \A z \in 0 .. n - 1 : h[z] \in Rec
  BY DEF Arrays
<1>6. ASSUME NEW z \in 1 .. n - 1
      PROVE  Parent(z) \in 0 .. n - 1 /\ Parent(z) < z
  <2>1. z \in Nat /\ z > 0
    OBVIOUS
  <2>2. Parent(z) \in Nat /\ Parent(z) < z
    BY <2>1, ParentFacts
  <2> QED BY <2>2
<1>7. ~ Before(h[y], h[c])
  BY <1>1, <1>5, BeforeAsymmetric
<1>8. \A z \in 1 .. n - 1 :
        Parent(z) # y /\ (z # y \/ y # a) => ~ Before(h[z], h[Parent(z)])
  BY DEF Sinks, Settled
<1>9. y > 0 => \A z \in 1 .. n - 1 : Parent(z) = y => ~ Before(h[z], h[Parent(y)])
  BY DEF Sinks
<1>10. a > 0 => \A z \in 1 .. n - 1 : Parent(z) = a => ~ Before(h[z], h[Parent(a)])
  BY DEF Sinks
<1>11. ASSUME NEW z \in 1 .. n - 1, Parent(z) # c, z # c \/ c # a
       PROVE  ~ Before(s[z], s[Parent(z)])
  <2>1. CASE z = c
    BY <1>1, <1>4, <1>7, <2>1
  <2>2. CASE z # c /\ Parent(z) = y
    <3>1. s[z] = h[z] /\ s[Parent(z)] = h[c]
      BY <1>4, <1>6, <2>2
    <3> QED BY <3>1, <1>2, <2>2
  <2>3. CASE z = y
    <3>1. s[z] = h[c] /\ Parent(z) # y /\ s[Parent(z)] = h[Parent(y)]
      BY <1>1, <1>4, <1>6, <1>11, <2>3
    <3> QED BY <3>1, <1>1, <1>9, <2>3
  <2>4. CASE z # c /\ z # y /\ Parent(z) # y
    <3>1. s[z] = h[z] /\ s[Parent(z)] = h[Parent(z)]
      BY <1>4, <1>6, <1>11, <2>4
    <3> QED BY <3>1, <1>8, <2>4
  <2> QED BY <2>1, <2>2, <2>3, <2>4
<1>12. ASSUME NEW z \in 1 .. n - 1, Parent(z) = c
       PROVE  ~ Before(s[z], s[Parent(c)])
  <2>1. z # y /\ z # c /\ s[z] = h[z] /\ s[Parent(c)] = h[c]
    BY <1>1, <1>4, <1>6, <1>12
  <2>2. ~ Before(h[z], h[c])
    BY <1>1, <1>8, <1>12, <2>1
  <2> QED BY <2>1, <2>2
<1>13. ASSUME a > 0, NEW z \in 1 .. n - 1, Parent(z) = a
       PROVE  ~ Before(s[z], s[Parent(a)])
  <2>1. Parent(a) \in 0 .. n - 1 /\ Parent(a) < a
    BY <1>6, <1>13
  <2>2. s[Parent(a)] = h[Parent(a)]
    BY <1>1, <1>4, <2>1
  <2>3. CASE z = y
    <3>1. y # a /\ y > 0 /\ s[z] = h[c]
      BY <1>4, <1>6, <1>13, <2>3
    <3>2. ~ Before(h[c], h[a])
      BY <1>1, <1>9, <1>13, <2>3, <3>1
    <3>3. ~ Before(h[a], h[Parent(a)])
      BY <1>8, <1>13, <2>1, <3>1
    <3>4. ~ Before(h[c], h[Parent(a)])
      BY <3>2, <3>3, <2>1, <1>5, <1>13, BeforeTransitive
    <3> QED BY <3>1, <3>4, <2>2
  <2>4. CASE z = c
    <3>1. s[z] = h[y] /\ y = a
      BY <1>1, <1>4, <1>13, <2>4
    <3>2. ~ Before(h[c], h[Parent(a)])
      BY <1>10, <1>13, <2>4
    <3>3. ~ Before(h[y], h[Parent(a)])
      BY <3>2, <2>1, <1>5, <1>7, BeforeTransitive
    <3> QED BY <3>1, <3>3, <2>2
  <2>5. CASE z # y /\ z # c
    <3>1. s[z] = h[z]
      BY <1>4, <2>5
    <3> QED BY <3>1, <2>2, <1>10, <1>13
  <2> QED BY <2>3, <2>4, <2>5
<1>14. Sinks(s, n, a, c)
  BY <1>11, <1>12, <1>13 DEF Sinks, Settled
<1> QED BY <1>14, <1>1, <1>3

-----------------------------------------------------------------------------
(* The two loops.                                                          *)

LoopStates(N) == [heap : Arrays(N), x : 0 .. N - 1]

LEMMA RiseRoundTyped ==
  ASSUME NEW N \in Nat, NEW s \in LoopStates(N)
  PROVE  RiseRound(s) \in LoopStates(N)
<1>1. s.heap \in Arrays(N) /\ s.x \in 0 .. N - 1
  BY DEF LoopStates
<1>2. CASE s.x > 0 /\ Before(s.heap[s.x], s.heap[Parent(s.x)])
  <2>1. PICK p \in 0 .. N - 1 : p = Parent(s.x)
    BY <1>1, <1>2, ParentFacts
  <2>2. Swapped(s.heap, s.x, p) \in Arrays(N)
    BY <1>1, SwapFacts
  <2>3. RiseRound(s) = [heap |-> Swapped(s.heap, s.x, p), x |-> p]
    BY <1>2, <2>1 DEF RiseRound
  <2> QED BY <2>2, <2>3 DEF LoopStates
<1>3. CASE ~ (s.x > 0 /\ Before(s.heap[s.x], s.heap[Parent(s.x)]))
  BY <1>3 DEF RiseRound
<1> QED BY <1>2, <1>3

LEMMA RisingRounds ==
  ASSUME NEW N \in Nat, NEW h \in Arrays(N), NEW x \in 0 .. N - 1
  PROVE  /\ Rising(h, x)[0] = [heap |-> h, x |-> x]
         /\ \A k \in Nat : /\ Rising(h, x)[k] \in LoopStates(N)
                          /\ Rising(h, x)[k + 1] = RiseRound(Rising(h, x)[k])
<1> DEFINE S == LoopStates(N)
           s0 == [heap |-> h, x |-> x]
           step == [p \in Nat \X S |-> RiseRound(p[2])]
           Solves(f) == f = [k \in Nat |-> IF k = 0 THEN s0 ELSE RiseRound(f[k - 1])]
<1>1. StepOf(s0, step, S)
  BY RiseRoundTyped DEF StepOf, LoopStates
<1>2. \A k \in Nat, s \in S : step[<<k, s>>] = RiseRound(s)
  OBVIOUS
<1> HIDE DEF S, step
<1>3. \E f : Solves(f)
  <2>1. PICK f \in [Nat -> S] :
          \A k \in Nat : f[k] = IF k = 0 THEN s0 ELSE step[<<k - 1, f[k - 1]>>]
    <3> HIDE DEF s0
    <3> QED BY <1>1, LoopSolution
  <2>2. ASSUME NEW k \in Nat, k # 0 PROVE step[<<k - 1, f[k - 1]>>] = RiseRound(f[k - 1])
    <3>1. k - 1 \in Nat
      BY <2>2
    <3> QED BY <3>1, <1>2
  <2>3. Solves(f)
    BY <2>1, <2>2
  <2> QED BY <2>3
<1>4. PICK g : g = Rising(h, x)
  OBVIOUS
<1>5. Solves(g)
  <2>1. Rising(h, x) = CHOOSE f : Solves(f)
    BY DEF Rising
  <2> HIDE DEF Solves
  <2> QED BY <1>3, <1>4, <2>1
<1>6. \A k \in Nat : g[k] = IF k = 0 THEN s0 ELSE RiseRound(g[k - 1])
  BY <1>5
<1>7. g = [k \in Nat |-> g[k]]
  BY <1>5
<1>8. g[0] = s0 /\ \A k \in Nat : g[k + 1] = RiseRound(g[k])
  <2>1. ASSUME NEW k \in Nat PROVE g[k + 1] = RiseRound(g[k])
    <3>1. k + 1 \in Nat /\ k + 1 # 0 /\ (k + 1) - 1 = k
      OBVIOUS
    <3> QED BY <3>1, <1>6
  <2> QED BY <2>1, <1>6
<1>9. \A k \in Nat : g[k] \in S => g[k + 1] = step[<<k, g[k]>>]
  BY <1>2, <1>8
<1>10. AllRounds(g, s0, step, S)
  <2> HIDE DEF s0, Solves
  <2> QED BY <1>1, <1>7, <1>8, <1>9, LoopRounds
<1>11. \A k \in Nat : g[k] \in S
  BY <1>10 DEF AllRounds
<1> QED BY <1>4, <1>8, <1>11 DEF S

LEMMA SinkRoundTyped ==
  ASSUME NEW N \in Nat, NEW n \in 0 .. N, NEW s \in LoopStates(N)
  PROVE  SinkRound(s, n) \in LoopStates(N)
<1>1. s.heap \in Arrays(N) /\ s.x \in 0 .. N - 1
  BY DEF LoopStates
<1> DEFINE child == Smaller(s.heap, n, s.x)
<1>2. CASE Left(s.x) < n /\ Before(s.heap[child], s.heap[s.x])
  <2>1. s.x \in 0 .. n - 1
    BY <1>1, <1>2 DEF Left
  <2>2. PICK c \in 0 .. N - 1 : c = child
    BY <1>1, <1>2, <2>1, SmallerFacts
  <2>3. Swapped(s.heap, s.x, c) \in Arrays(N)
    BY <1>1, SwapFacts
  <2>4. SinkRound(s, n) = [heap |-> Swapped(s.heap, s.x, c), x |-> c]
    BY <1>2, <2>2 DEF SinkRound
  <2> QED BY <2>3, <2>4 DEF LoopStates
<1>3. CASE ~ (Left(s.x) < n /\ Before(s.heap[child], s.heap[s.x]))
  BY <1>3 DEF SinkRound
<1> QED BY <1>2, <1>3

LEMMA SinkingRounds ==
  ASSUME NEW N \in Nat, NEW n \in 0 .. N, NEW h \in Arrays(N), NEW x \in 0 .. N - 1
  PROVE  /\ Sinking(h, n, x)[0] = [heap |-> h, x |-> x]
         /\ \A k \in Nat : /\ Sinking(h, n, x)[k] \in LoopStates(N)
                          /\ Sinking(h, n, x)[k + 1] = SinkRound(Sinking(h, n, x)[k], n)
<1> DEFINE S == LoopStates(N)
           s0 == [heap |-> h, x |-> x]
           step == [p \in Nat \X S |-> SinkRound(p[2], n)]
           Solves(f) == f = [k \in Nat |-> IF k = 0 THEN s0 ELSE SinkRound(f[k - 1], n)]
<1>1. StepOf(s0, step, S)
  BY SinkRoundTyped DEF StepOf, LoopStates
<1>2. \A k \in Nat, s \in S : step[<<k, s>>] = SinkRound(s, n)
  OBVIOUS
<1> HIDE DEF S, step
<1>3. \E f : Solves(f)
  <2>1. PICK f \in [Nat -> S] :
          \A k \in Nat : f[k] = IF k = 0 THEN s0 ELSE step[<<k - 1, f[k - 1]>>]
    <3> HIDE DEF s0
    <3> QED BY <1>1, LoopSolution
  <2>2. ASSUME NEW k \in Nat, k # 0 PROVE step[<<k - 1, f[k - 1]>>] = SinkRound(f[k - 1], n)
    <3>1. k - 1 \in Nat
      BY <2>2
    <3> QED BY <3>1, <1>2
  <2>3. Solves(f)
    BY <2>1, <2>2
  <2> QED BY <2>3
<1>4. PICK g : g = Sinking(h, n, x)
  OBVIOUS
<1>5. Solves(g)
  <2>1. Sinking(h, n, x) = CHOOSE f : Solves(f)
    BY DEF Sinking
  <2> HIDE DEF Solves
  <2> QED BY <1>3, <1>4, <2>1
<1>6. \A k \in Nat : g[k] = IF k = 0 THEN s0 ELSE SinkRound(g[k - 1], n)
  BY <1>5
<1>7. g = [k \in Nat |-> g[k]]
  BY <1>5
<1>8. g[0] = s0 /\ \A k \in Nat : g[k + 1] = SinkRound(g[k], n)
  <2>1. ASSUME NEW k \in Nat PROVE g[k + 1] = SinkRound(g[k], n)
    <3>1. k + 1 \in Nat /\ k + 1 # 0 /\ (k + 1) - 1 = k
      OBVIOUS
    <3> QED BY <3>1, <1>6
  <2> QED BY <2>1, <1>6
<1>9. \A k \in Nat : g[k] \in S => g[k + 1] = step[<<k, g[k]>>]
  BY <1>2, <1>8
<1>10. AllRounds(g, s0, step, S)
  <2> HIDE DEF s0, Solves
  <2> QED BY <1>1, <1>7, <1>8, <1>9, LoopRounds
<1>11. \A k \in Nat : g[k] \in S
  BY <1>10 DEF AllRounds
<1> QED BY <1>4, <1>8, <1>11 DEF S

-----------------------------------------------------------------------------
(* What SiftUp and SiftDown come to.                                       *)

\* A round leaves the state as it is.
Risen(s) == ~ (s.x > 0 /\ Before(s.heap[s.x], s.heap[Parent(s.x)]))

Sunk(s, n) == ~ (Left(s.x) < n /\ Before(s.heap[Smaller(s.heap, n, s.x)], s.heap[s.x]))

(* A record that does not come before its parent stays.                    *)
LEMMA SiftUpStays ==
  ASSUME NEW N \in Nat, NEW h \in Arrays(N), NEW x \in 0 .. N - 1,
         x > 0 => Settled(h, x)
  PROVE  SiftUp(h, x) = h
<1>0. /\ Rising(h, x)[0] = [heap |-> h, x |-> x]
      /\ \A k \in Nat : /\ Rising(h, x)[k] \in LoopStates(N)
                       /\ Rising(h, x)[k + 1] = RiseRound(Rising(h, x)[k])
  BY RisingRounds
<1> DEFINE s0 == [heap |-> h, x |-> x]
           I == {k \in Nat : Rising(h, x)[k] = s0}
<1>1. 0 \in I
  BY <1>0
<1>2. RiseRound(s0) = s0
  BY DEF RiseRound, Settled
<1>3. ASSUME NEW k \in Nat, k \in I PROVE k + 1 \in I
  <2>1. Rising(h, x)[k] = s0
    BY <1>3
  <2>2. Rising(h, x)[k + 1] = RiseRound(Rising(h, x)[k])
    BY <1>0
  <2> HIDE DEF s0
  <2> QED BY <1>2, <2>1, <2>2
<1>4. \A k \in Nat : k \in I
  <2> HIDE DEF I
  <2> QED BY <1>1, <1>3, NatSetInduction
<1>5. Rising(h, x)[x] = s0
  BY <1>4
<1> QED BY <1>5 DEF SiftUp

(* The rounds of SiftUp on the first n places.                             *)
RisesBy(h, x, s, k, n, N) ==
  /\ s.heap \in Arrays(N) /\ s.x \in 0 .. n - 1
  /\ Rearranged(h, s.heap, n, N)
  /\ Rises(s.heap, n, s.x)
  /\ s.x + k <= x \/ Risen(s)

LEMMA RiseRoundProgress ==
  ASSUME NEW N \in Nat, NEW n \in 0 .. N, NEW h \in Arrays(N), NEW x \in 0 .. n - 1,
         NEW k \in Nat, NEW s \in LoopStates(N), RisesBy(h, x, s, k, n, N)
  PROVE  RisesBy(h, x, RiseRound(s), k + 1, n, N)
<1>1. /\ s.heap \in Arrays(N) /\ s.x \in 0 .. n - 1
      /\ Rearranged(h, s.heap, n, N) /\ Rises(s.heap, n, s.x)
  BY DEF RisesBy
<1>2. CASE Risen(s)
  <2>1. RiseRound(s) = s
    BY <1>2 DEF Risen, RiseRound
  <2> QED BY <1>1, <1>2, <2>1 DEF RisesBy
<1>3. CASE ~ Risen(s)
  <2>1. s.x > 0 /\ Before(s.heap[s.x], s.heap[Parent(s.x)]) /\ s.x + k <= x
    BY <1>3 DEF Risen, RisesBy
  <2>2. PICK p \in 0 .. n - 1 : p = Parent(s.x) /\ p < s.x
    BY <1>1, <2>1, ParentFacts
  <2>3. PICK g : g = Swapped(s.heap, s.x, p)
    OBVIOUS
  <2>4. g \in Arrays(N)
    <3>1. s.x \in 0 .. N - 1 /\ p \in 0 .. N - 1
      BY <1>1
    <3> QED BY <1>1, <3>1, <2>3, SwapFacts
  <2>5. Rearranged(s.heap, g, n, N)
    BY <1>1, <2>2, <2>3, SwapRearranges
  <2>6. Rearranged(h, g, n, N)
    BY <1>1, <2>5, RearrangedTransitive
  <2>7. Rises(g, n, p)
    BY <1>1, <2>1, <2>2, <2>3, RiseRoundKeeps
  <2>8. RiseRound(s) = [heap |-> g, x |-> p]
    BY <2>1, <2>2, <2>3 DEF RiseRound
  <2>9. p + (k + 1) <= x
    BY <1>1, <2>1, <2>2
  <2> QED BY <2>2, <2>4, <2>6, <2>7, <2>8, <2>9 DEF RisesBy
<1> QED BY <1>2, <1>3

LEMMA SiftUpFacts ==
  ASSUME NEW N \in Nat, NEW n \in 0 .. N, NEW h \in Arrays(N), NEW x \in 0 .. n - 1,
         Rises(h, n, x)
  PROVE  /\ SiftUp(h, x) \in Arrays(N)
         /\ Rearranged(h, SiftUp(h, x), n, N)
         /\ HeapTo(SiftUp(h, x), n)
<1>0. /\ Rising(h, x)[0] = [heap |-> h, x |-> x]
      /\ \A k \in Nat : /\ Rising(h, x)[k] \in LoopStates(N)
                       /\ Rising(h, x)[k + 1] = RiseRound(Rising(h, x)[k])
  <2>1. x \in 0 .. N - 1
    OBVIOUS
  <2> QED BY <2>1, RisingRounds
<1> DEFINE I == {k \in Nat : RisesBy(h, x, Rising(h, x)[k], k, n, N)}
<1>1. 0 \in I
  <2> QED BY <1>0, RearrangedSame DEF RisesBy
<1>2. ASSUME NEW k \in Nat, k \in I PROVE k + 1 \in I
  <2>1. PICK s \in LoopStates(N) : s = Rising(h, x)[k] /\ Rising(h, x)[k + 1] = RiseRound(s)
    BY <1>0
  <2>2. RisesBy(h, x, s, k, n, N)
    BY <1>2, <2>1
  <2>3. RisesBy(h, x, RiseRound(s), k + 1, n, N)
    BY <2>2, RiseRoundProgress
  <2> QED BY <2>1, <2>3
<1>3. \A k \in Nat : k \in I
  <2> HIDE DEF I
  <2> QED BY <1>1, <1>2, NatSetInduction
<1>4. PICK s : s = Rising(h, x)[x]
  OBVIOUS
<1>5. RisesBy(h, x, s, x, n, N)
  BY <1>3, <1>4
<1>6. SiftUp(h, x) = s.heap
  BY <1>4 DEF SiftUp
<1>7. s.x = 0 \/ Settled(s.heap, s.x)
  BY <1>5 DEF RisesBy, Risen, Settled
<1>8. HeapTo(s.heap, n)
  BY <1>5, <1>7 DEF RisesBy, Rises, HeapTo
<1> QED BY <1>5, <1>6, <1>8 DEF RisesBy

(* Likewise for a record without children.                                 *)
LEMMA SiftDownStays ==
  ASSUME NEW N \in Nat, NEW n \in 0 .. N, NEW h \in Arrays(N), NEW x \in 0 .. N - 1,
         Left(x) >= n
  PROVE  SiftDown(h, n, x) = h
<1>0. /\ Sinking(h, n, x)[0] = [heap |-> h, x |-> x]
      /\ \A k \in Nat : /\ Sinking(h, n, x)[k] \in LoopStates(N)
                       /\ Sinking(h, n, x)[k + 1] = SinkRound(Sinking(h, n, x)[k], n)
  BY SinkingRounds
<1> DEFINE s0 == [heap |-> h, x |-> x]
           I == {k \in Nat : Sinking(h, n, x)[k] = s0}
<1>1. 0 \in I
  BY <1>0
<1>2. SinkRound(s0, n) = s0
  <2>1. ~ (Left(x) < n)
    BY ChildFacts
  <2> QED BY <2>1 DEF SinkRound
<1>3. ASSUME NEW k \in Nat, k \in I PROVE k + 1 \in I
  <2>1. Sinking(h, n, x)[k] = s0
    BY <1>3
  <2>2. Sinking(h, n, x)[k + 1] = SinkRound(Sinking(h, n, x)[k], n)
    BY <1>0
  <2> HIDE DEF s0
  <2> QED BY <1>2, <2>1, <2>2
<1>4. \A k \in Nat : k \in I
  <2> HIDE DEF I
  <2> QED BY <1>1, <1>3, NatSetInduction
<1>5. Sinking(h, n, x)[n] = s0
  BY <1>4
<1> QED BY <1>5 DEF SiftDown

(* The rounds of SiftDown on the first n places, from a.                   *)
SinksBy(h, a, s, k, n, N) ==
  /\ s.heap \in Arrays(N) /\ s.x \in 0 .. n - 1 /\ a <= s.x
  /\ Rearranged(h, s.heap, n, N)
  /\ Sinks(s.heap, n, a, s.x)
  /\ s.x >= a + k \/ Sunk(s, n)

LEMMA SinkRoundProgress ==
  ASSUME NEW N \in Nat, NEW n \in 0 .. N, NEW h \in Arrays(N), NEW a \in 0 .. n - 1,
         NEW k \in Nat, NEW s \in LoopStates(N), SinksBy(h, a, s, k, n, N)
  PROVE  SinksBy(h, a, SinkRound(s, n), k + 1, n, N)
<1>1. /\ s.heap \in Arrays(N) /\ s.x \in 0 .. n - 1 /\ a \in 0 .. s.x
      /\ Rearranged(h, s.heap, n, N) /\ Sinks(s.heap, n, a, s.x)
  BY DEF SinksBy
<1>2. CASE Sunk(s, n)
  <2>1. SinkRound(s, n) = s
    BY <1>2 DEF Sunk, SinkRound
  <2> QED BY <1>1, <1>2, <2>1 DEF SinksBy
<1>3. CASE ~ Sunk(s, n)
  <2>1. /\ Left(s.x) < n /\ Before(s.heap[Smaller(s.heap, n, s.x)], s.heap[s.x])
        /\ s.x >= a + k
    BY <1>3 DEF Sunk, SinksBy
  <2>2. PICK c \in 0 .. n - 1 : c = Smaller(s.heap, n, s.x) /\ c > s.x
    BY <1>1, <2>1, SmallerFacts
  <2>3. PICK g : g = Swapped(s.heap, s.x, c)
    OBVIOUS
  <2>4. g \in Arrays(N)
    <3>1. s.x \in 0 .. N - 1 /\ c \in 0 .. N - 1
      BY <1>1
    <3> QED BY <1>1, <3>1, <2>3, SwapFacts
  <2>5. Rearranged(s.heap, g, n, N)
    BY <1>1, <2>2, <2>3, SwapRearranges
  <2>6. Rearranged(h, g, n, N)
    BY <1>1, <2>5, RearrangedTransitive
  <2>7. Sinks(g, n, a, c)
    BY <1>1, <2>1, <2>2, <2>3, SinkRoundKeeps
  <2>8. SinkRound(s, n) = [heap |-> g, x |-> c]
    BY <2>1, <2>2, <2>3 DEF SinkRound
  <2>9. c >= a + (k + 1) /\ a <= c
    BY <1>1, <2>1, <2>2
  <2> QED BY <2>2, <2>4, <2>6, <2>7, <2>8, <2>9 DEF SinksBy
<1> QED BY <1>2, <1>3

LEMMA SunkSettles ==
  ASSUME NEW N \in Nat, NEW n \in 0 .. N, NEW s \in LoopStates(N), s.x \in 0 .. n - 1,
         Sunk(s, n), NEW z \in 1 .. n - 1, Parent(z) = s.x
  PROVE  Settled(s.heap, z)
<1>1. s.heap \in Arrays(N)
  BY DEF LoopStates
<1>2. z = Left(s.x) \/ z = Right(s.x)
  BY ParentFacts
<1>3. Left(s.x) < n
  BY <1>2, ChildFacts
<1>4. PICK c \in 1 .. n - 1 : c = Smaller(s.heap, n, s.x) /\ ~ Before(s.heap[z], s.heap[c])
  BY <1>1, <1>3, SmallerFacts
<1>5. ~ Before(s.heap[c], s.heap[s.x])
  BY <1>3, <1>4 DEF Sunk
<1>6. s.heap[z] \in Rec /\ s.heap[c] \in Rec /\ s.heap[s.x] \in Rec
  BY <1>1 DEF Arrays
<1> QED BY <1>4, <1>5, <1>6, BeforeTransitive DEF Settled

LEMMA SiftDownFacts ==
  ASSUME NEW N \in Nat, NEW n \in 0 .. N, NEW h \in Arrays(N), NEW a \in 0 .. n - 1,
         Sinks(h, n, a, a)
  PROVE  /\ SiftDown(h, n, a) \in Arrays(N)
         /\ Rearranged(h, SiftDown(h, n, a), n, N)
         /\ Rises(SiftDown(h, n, a), n, a)
<1>0. /\ Sinking(h, n, a)[0] = [heap |-> h, x |-> a]
      /\ \A k \in Nat : /\ Sinking(h, n, a)[k] \in LoopStates(N)
                       /\ Sinking(h, n, a)[k + 1] = SinkRound(Sinking(h, n, a)[k], n)
  <2>1. a \in 0 .. N - 1
    OBVIOUS
  <2> QED BY <2>1, SinkingRounds
<1> DEFINE I == {k \in Nat : SinksBy(h, a, Sinking(h, n, a)[k], k, n, N)}
<1>1. 0 \in I
  <2> QED BY <1>0, RearrangedSame DEF SinksBy
<1>2. ASSUME NEW k \in Nat, k \in I PROVE k + 1 \in I
  <2>1. PICK s \in LoopStates(N) : s = Sinking(h, n, a)[k] /\ Sinking(h, n, a)[k + 1] = SinkRound(s, n)
    BY <1>0
  <2>2. SinksBy(h, a, s, k, n, N)
    BY <1>2, <2>1
  <2>3. SinksBy(h, a, SinkRound(s, n), k + 1, n, N)
    BY <2>2, SinkRoundProgress
  <2> QED BY <2>1, <2>3
<1>3. \A k \in Nat : k \in I
  <2> HIDE DEF I
  <2> QED BY <1>1, <1>2, NatSetInduction
<1>4. PICK s \in LoopStates(N) : s = Sinking(h, n, a)[n]
  BY <1>0
<1>5. SinksBy(h, a, s, n, n, N)
  BY <1>3, <1>4
<1>6. SiftDown(h, n, a) = s.heap
  BY <1>4 DEF SiftDown
<1>7. Sunk(s, n) /\ s.x \in 0 .. n - 1 /\ a \in 0 .. s.x
  BY <1>5 DEF SinksBy
<1>8. \A z \in 1 .. n - 1 : Parent(z) = s.x => Settled(s.heap, z)
  BY <1>7, SunkSettles
<1>9. Rises(s.heap, n, a)
  BY <1>5, <1>7, <1>8 DEF SinksBy, Sinks, Rises
<1> QED BY <1>5, <1>6, <1>9 DEF SinksBy

-----------------------------------------------------------------------------
(* What the operations on a heap come to.                                  *)

LEMMA ArrayLength ==
  ASSUME NEW N \in Nat, NEW h \in Arrays(N)
  PROVE  DOMAIN h = 0 .. N - 1 /\ IsFiniteSet(DOMAIN h) /\ Cardinality(DOMAIN h) = N
<1>1. DOMAIN h = 0 .. N - 1
  BY DEF Arrays
<1>2. IsFiniteSet(0 .. N - 1) /\ Cardinality(0 .. N - 1) = N
  BY FS_Interval
<1> QED BY <1>1, <1>2

(* No record of a heap comes before the topmost.                           *)
LEMMA TopmostFirst ==
  ASSUME NEW N \in Nat, NEW n \in 0 .. N, NEW h \in Arrays(N), HeapTo(h, n),
         NEW y \in 0 .. n - 1
  PROVE  ~ Before(h[y], h[0])
<1> SUFFICES ASSUME Before(h[y], h[0]) PROVE FALSE
  OBVIOUS
<1> DEFINE T == {z \in 0 .. n - 1 : Before(h[z], h[0])}
<1>1. T \subseteq Nat /\ y \in T
  OBVIOUS
<1>2. PICK x \in T : \A z \in T : x <= z
  <2> HIDE DEF T
  <2> QED BY <1>1, LeastNat
<1>3. x \in 0 .. n - 1 /\ Before(h[x], h[0])
  OBVIOUS
<1>4. \A z \in 0 .. n - 1 : h[z] \in Rec
  BY DEF Arrays
<1>5. x # 0
  BY <1>3, <1>4, BeforeIrreflexive
<1>6. PICK p \in 0 .. n - 1 : p = Parent(x) /\ p < x
  BY <1>3, <1>5, ParentFacts
<1>7. ~ Before(h[p], h[0])
  BY <1>2, <1>6
<1>8. ~ Before(h[x], h[p])
  BY <1>3, <1>5, <1>6 DEF HeapTo, Settled
<1>9. ~ Before(h[x], h[0])
  BY <1>3, <1>4, <1>6, <1>7, <1>8, BeforeTransitive
<1> QED BY <1>3, <1>9

(* Another record at x may have to sink or to rise.                        *)
LEMMA ChangedSinks ==
  ASSUME NEW N \in Nat, NEW n \in 0 .. N, NEW g \in Arrays(N), HeapTo(g, n),
         NEW x \in 0 .. n - 1, NEW r \in Rec
  PROVE  /\ [g EXCEPT ![x] = r] \in Arrays(N)
         /\ Sinks([g EXCEPT ![x] = r], n, x, x)
<1>1. PICK h : h = [g EXCEPT ![x] = r]
  OBVIOUS
<1>2. h \in Arrays(N) /\ \A z \in 0 .. N - 1 : z # x => h[z] = g[z]
  BY <1>1 DEF Arrays
<1>3. ASSUME NEW z \in 1 .. n - 1
      PROVE  Parent(z) \in 0 .. n - 1 /\ Parent(z) < z /\ ~ Before(g[z], g[Parent(z)])
  BY ParentFacts DEF HeapTo, Settled
<1>4. \A z \in 0 .. n - 1 : g[z] \in Rec
  BY DEF Arrays
<1>5. ASSUME NEW z \in 1 .. n - 1, Parent(z) # x, z # x
      PROVE  ~ Before(h[z], h[Parent(z)])
  BY <1>2, <1>3, <1>5
<1>6. ASSUME x > 0, NEW z \in 1 .. n - 1, Parent(z) = x
      PROVE  ~ Before(h[z], h[Parent(x)])
  <2>1. h[z] = g[z] /\ h[Parent(x)] = g[Parent(x)] /\ Parent(x) \in 0 .. n - 1
    BY <1>2, <1>3, <1>6
  <2>2. ~ Before(g[z], g[x]) /\ ~ Before(g[x], g[Parent(x)])
    BY <1>3, <1>6
  <2>3. ~ Before(g[z], g[Parent(x)])
    BY <2>1, <2>2, <1>4, BeforeTransitive
  <2> QED BY <2>1, <2>3
<1>7. Sinks(h, n, x, x)
  BY <1>5, <1>6 DEF Sinks, Settled
<1> QED BY <1>1, <1>2, <1>7

(* SiftDown, then SiftUp, puts it right.                                   *)
LEMMA SiftBothFacts ==
  ASSUME NEW N \in Nat, NEW n \in 0 .. N, NEW g \in Arrays(N), HeapTo(g, n),
         NEW x \in 0 .. n - 1, NEW r \in Rec, NEW h, h = [g EXCEPT ![x] = r]
  PROVE  /\ h \in Arrays(N)
         /\ SiftUp(SiftDown(h, n, x), x) \in Arrays(N)
         /\ Rearranged(h, SiftUp(SiftDown(h, n, x), x), n, N)
         /\ HeapTo(SiftUp(SiftDown(h, n, x), x), n)
<1>1. h \in Arrays(N) /\ Sinks(h, n, x, x)
  BY ChangedSinks
<1>2. PICK d : d = SiftDown(h, n, x)
  OBVIOUS
<1>3. d \in Arrays(N) /\ Rearranged(h, d, n, N) /\ Rises(d, n, x)
  BY <1>1, <1>2, SiftDownFacts
<1>4. PICK u : u = SiftUp(d, x)
  OBVIOUS
<1>5. u \in Arrays(N) /\ Rearranged(d, u, n, N) /\ HeapTo(u, n)
  BY <1>3, <1>4, SiftUpFacts
<1>6. Rearranged(h, u, n, N)
  BY <1>3, <1>5, RearrangedTransitive
<1> QED BY <1>1, <1>2, <1>4, <1>5, <1>6

LEMMA UpdateFacts ==
  ASSUME NEW N \in Nat, NEW g \in Arrays(N), HeapTo(g, N),
         NEW x \in 0 .. N - 1, NEW r \in Rec, NEW h, h = [g EXCEPT ![x] = r]
  PROVE  /\ Update(h, x) \in Arrays(N)
         /\ Rearranged(h, Update(h, x), N, N)
         /\ HeapTo(Update(h, x), N)
<1>1. /\ h \in Arrays(N)
      /\ SiftUp(SiftDown(h, N, x), x) \in Arrays(N)
      /\ Rearranged(h, SiftUp(SiftDown(h, N, x), x), N, N)
      /\ HeapTo(SiftUp(SiftDown(h, N, x), x), N)
  <2>1. N \in 0 .. N
    OBVIOUS
  <2> QED BY <2>1, SiftBothFacts
<1>2. Update(h, x) = SiftUp(SiftDown(h, N, x), x)
  BY <1>1, ArrayLength DEF Update
<1> QED BY <1>1, <1>2

LEMMA RemoveFacts ==
  ASSUME NEW n \in Nat, NEW N \in Nat, N = n + 1, NEW g \in Arrays(N), HeapTo(g, N),
         NEW x \in 0 .. n
  PROVE  /\ Remove(g, x) \in Arrays(n)
         /\ Recs(Remove(g, x), n) = {g[y] : y \in 0 .. n \ {x}}
         /\ Distinct(g, N) => Distinct(Remove(g, x), n)
         /\ HeapTo(Remove(g, x), n)
<1>1. PICK h : h = [g EXCEPT ![x] = g[n]]
  OBVIOUS
<1>2. PICK u : u = SiftUp(SiftDown(h, n, x), x)
  OBVIOUS
<1>3. Remove(g, x) = [y \in 0 .. n - 1 |-> u[y]]
  <2>1. Cardinality(DOMAIN g) - 1 = n
    BY ArrayLength
  <2> QED BY <2>1, <1>1, <1>2 DEF Remove
<1>4. /\ h \in Arrays(N) /\ \A z \in 0 .. N - 1 : z # x => h[z] = g[z]
      /\ h[x] = g[n]
  BY <1>1 DEF Arrays
<1>5. \A y \in 1 .. n - 1 : Settled(g, y)
  BY DEF HeapTo
<1>6. u \in Arrays(N) /\ Rearranged(h, u, n, N) /\ HeapTo(u, n)
  <2>1. CASE x = n
    <3>1. h = g
      BY <1>1, <2>1 DEF Arrays
    <3>2. Left(x) >= n
      BY <2>1, ChildFacts
    <3>3. SiftDown(h, n, x) = h
      BY <1>4, <3>2, SiftDownStays
    <3>4. x > 0 => Settled(h, x)
      BY <2>1, <3>1 DEF HeapTo
    <3>5. u = h
      BY <1>2, <1>4, <3>3, <3>4, SiftUpStays
    <3>6. HeapTo(h, n)
      BY <3>1, <1>5 DEF HeapTo
    <3> QED BY <1>4, <3>5, <3>6, RearrangedSame
  <2>2. CASE x # n
    <3>1. x \in 0 .. n - 1 /\ n \in 0 .. N
      BY <2>2
    <3>2. HeapTo(g, n)
      BY <1>5 DEF HeapTo
    <3>3. g[n] \in Rec
      BY DEF Arrays
    <3> QED BY <3>1, <3>2, <3>3, <1>1, <1>2, SiftBothFacts
  <2> QED BY <2>1, <2>2
<1>7. PICK r : r = Remove(g, x)
  OBVIOUS
<1>8. /\ r \in Arrays(n)
      /\ \A y \in 0 .. n - 1 : r[y] = u[y]
  BY <1>3, <1>6, <1>7 DEF Arrays
<1>9. Recs(h, n) = {g[y] : y \in 0 .. n \ {x}}
  <2>1. ASSUME NEW y \in 0 .. n - 1 PROVE \E z \in 0 .. n \ {x} : h[y] = g[z]
    <3>1. CASE y = x
      BY <1>4, <3>1
    <3>2. CASE y # x
      BY <1>4, <3>2
    <3> QED BY <3>1, <3>2
  <2>2. ASSUME NEW z \in 0 .. n \ {x} PROVE \E y \in 0 .. n - 1 : h[y] = g[z]
    <3>1. CASE z = n
      <4>1. x \in 0 .. n - 1 /\ h[x] = g[z]
        BY <1>4, <3>1
      <4> QED BY <4>1
    <3>2. CASE z # n
      <4>1. z \in 0 .. n - 1 /\ h[z] = g[z]
        BY <1>4, <3>2
      <4> QED BY <4>1
    <3> QED BY <3>1, <3>2
  <2> QED BY <2>1, <2>2 DEF Recs
<1>10. Recs(r, n) = Recs(u, n)
  BY <1>8 DEF Recs
<1>11. Recs(r, n) = {g[y] : y \in 0 .. n \ {x}}
  BY <1>6, <1>9, <1>10 DEF Rearranged
<1>12. ASSUME Distinct(g, N) PROVE Distinct(r, n)
  <2>1. Distinct(h, n)
    <3>1. ASSUME NEW y \in 0 .. n - 1, NEW z \in 0 .. n - 1, h[y].ticket = h[z].ticket
          PROVE  y = z
      <4> DEFINE from(w) == IF w = x THEN n ELSE w
      <4>1. \A w \in 0 .. n - 1 : from(w) \in 0 .. N - 1 /\ h[w] = g[from(w)]
        BY <1>4
      <4>2. from(y) = from(z)
        <5> HIDE DEF from
        <5> QED BY <4>1, <3>1, <1>12 DEF Distinct
      <4> QED BY <4>2
    <3> QED BY <3>1 DEF Distinct
  <2>2. Distinct(u, n)
    BY <2>1, <1>6 DEF Rearranged
  <2> QED BY <2>2, <1>8 DEF Distinct
<1>13. HeapTo(r, n)
  <2>1. ASSUME NEW y \in 1 .. n - 1 PROVE Settled(r, y)
    <3>1. Parent(y) \in 0 .. n - 1
      BY ParentFacts
    <3>2. Settled(u, y)
      BY <1>6 DEF HeapTo
    <3> QED BY <3>1, <3>2, <1>8 DEF Settled
  <2> QED BY <2>1 DEF HeapTo
<1> QED BY <1>7, <1>8, <1>11, <1>12, <1>13

(* A record that is appended rises to its place.                           *)
LEMMA InsertFacts ==
  ASSUME NEW n \in Nat, NEW N \in Nat, N = n + 1, NEW h \in Arrays(N), HeapTo(h, n)
  PROVE  /\ SiftUp(h, n) \in Arrays(N)
         /\ Rearranged(h, SiftUp(h, n), N, N)
         /\ HeapTo(SiftUp(h, n), N)
<1>1. \A y \in 1 .. N - 1 : y # n => Settled(h, y)
  BY DEF HeapTo
<1>2. \A y \in 1 .. N - 1 : Parent(y) # n
  BY ParentFacts
<1>3. Rises(h, N, n)
  BY <1>1, <1>2 DEF Rises
<1>4. n \in 0 .. N - 1 /\ N \in 0 .. N
  OBVIOUS
<1> QED BY <1>3, <1>4, SiftUpFacts

-----------------------------------------------------------------------------
(* Sort.                                                                   *)

LEMMA TopmostLastTyped ==
  ASSUME NEW N \in Nat, NEW n \in 0 .. N - 1, NEW h \in Arrays(N)
  PROVE  TopmostLast(h, n) \in Arrays(N)
<1>1. PICK s : s = Swapped(h, 0, n)
  OBVIOUS
<1>2. 0 \in 0 .. N - 1 /\ n \in 0 .. N
  OBVIOUS
<1>3. s \in Arrays(N)
  BY <1>1, <1>2, SwapFacts
<1>4. Sinking(s, n, 0)[n] \in LoopStates(N)
  <2>1. n \in Nat
    OBVIOUS
  <2>2. \A k \in Nat : Sinking(s, n, 0)[k] \in LoopStates(N)
    BY <1>2, <1>3, SinkingRounds
  <2> QED BY <2>1, <2>2
<1> QED BY <1>1, <1>4 DEF TopmostLast, SiftDown, LoopStates

LEMMA SortingRounds ==
  ASSUME NEW N \in Nat, NEW h \in Arrays(N)
  PROVE  /\ Sorting(h)[0] = h
         /\ \A k \in 1 .. N : Sorting(h)[k] = TopmostLast(Sorting(h)[k - 1], N - k)
<1> DEFINE n == Cardinality(DOMAIN h)
           S == Arrays(N)
           step == [p \in Nat \X S |->
                      IF p[1] < N THEN TopmostLast(p[2], N - (p[1] + 1)) ELSE p[2]]
           Solves(f) == f = [k \in 0 .. n |-> IF k = 0 THEN h ELSE TopmostLast(f[k - 1], n - k)]
<1>1. n = N
  BY ArrayLength
<1>2. StepOf(h, step, S)
  <2>1. ASSUME NEW k \in Nat, NEW s \in S
        PROVE  (IF k < N THEN TopmostLast(s, N - (k + 1)) ELSE s) \in S
    <3>1. CASE k < N
      <4>1. N - (k + 1) \in 0 .. N - 1
        BY <3>1
      <4> QED BY <3>1, <4>1, TopmostLastTyped
    <3>2. CASE ~ (k < N)
      BY <3>2
    <3> QED BY <3>1, <3>2
  <2> HIDE DEF S
  <2>2. step \in [Nat \X S -> S]
    BY <2>1
  <2> QED BY <2>2 DEF StepOf, S
<1>3. \A k \in Nat, s \in S : k < N => step[<<k, s>>] = TopmostLast(s, N - (k + 1))
  OBVIOUS
<1> HIDE DEF S, step, n
<1>4. \E f : Solves(f)
  <2>1. PICK f \in [Nat -> S] :
          \A k \in Nat : f[k] = IF k = 0 THEN h ELSE step[<<k - 1, f[k - 1]>>]
    BY <1>2, LoopSolution
  <2>2. ASSUME NEW k \in 1 .. N PROVE f[k] = TopmostLast(f[k - 1], N - k)
    <3>1. k - 1 \in Nat /\ k - 1 < N /\ N - ((k - 1) + 1) = N - k
      OBVIOUS
    <3>2. step[<<k - 1, f[k - 1]>>] = TopmostLast(f[k - 1], N - k)
      BY <3>1, <1>3
    <3>3. k \in Nat /\ k # 0
      OBVIOUS
    <3> QED BY <3>2, <3>3, <2>1
  <2> DEFINE e == [k \in 0 .. n |-> f[k]]
  <2>3. ASSUME NEW k \in 0 .. n PROVE e[k] = IF k = 0 THEN h ELSE TopmostLast(e[k - 1], n - k)
    <3>1. CASE k = 0
      <4>1. f[0] = h
        BY <2>1
      <4> QED BY <4>1, <3>1
    <3>2. CASE k # 0
      <4>1. k \in 1 .. N /\ k - 1 \in 0 .. n
        BY <1>1, <3>2
      <4>2. e[k] = f[k] /\ e[k - 1] = f[k - 1]
        BY <4>1
      <4> QED BY <4>1, <4>2, <2>2, <3>2, <1>1
    <3> QED BY <3>1, <3>2
  <2>4. e = [k \in 0 .. n |-> e[k]]
    OBVIOUS
  <2> HIDE DEF e
  <2>5. Solves(e)
    BY <2>3, <2>4
  <2> QED BY <2>5
<1>5. PICK g : g = Sorting(h)
  OBVIOUS
<1>6. Solves(g)
  <2>1. Sorting(h) = CHOOSE f : Solves(f)
    BY DEF Sorting, n
  <2> HIDE DEF Solves
  <2> QED BY <1>4, <1>5, <2>1
<1>7. \A k \in 0 .. N : g[k] = IF k = 0 THEN h ELSE TopmostLast(g[k - 1], N - k)
  BY <1>1, <1>6
<1> QED BY <1>5, <1>7

(* A rearrangement of the first places is one of the whole array.          *)
LEMMA RearrangedWhole ==
  ASSUME NEW N \in Nat, NEW n \in 0 .. N, NEW g \in Arrays(N), NEW h \in Arrays(N),
         Rearranged(g, h, n, N)
  PROVE  Rearranged(g, h, N, N)
<1>1. /\ Recs(h, n) = Recs(g, n)
      /\ Distinct(g, n) => Distinct(h, n)
      /\ \A y \in n .. N - 1 : h[y] = g[y]
  BY DEF Rearranged
<1>2. \A y \in 0 .. N - 1 : y \in 0 .. n - 1 \/ y \in n .. N - 1
  OBVIOUS
<1>3. ASSUME NEW y \in 0 .. n - 1
      PROVE  (\E z \in 0 .. n - 1 : h[y] = g[z]) /\ (\E z \in 0 .. n - 1 : g[y] = h[z])
  BY <1>1 DEF Recs
<1>4. ASSUME NEW y \in 0 .. N - 1 PROVE \E z \in 0 .. N - 1 : h[y] = g[z]
  <2>1. CASE y \in 0 .. n - 1
    BY <2>1, <1>3
  <2>2. CASE y \in n .. N - 1
    BY <2>2, <1>1
  <2> QED BY <2>1, <2>2, <1>2
<1>5. ASSUME NEW y \in 0 .. N - 1 PROVE \E z \in 0 .. N - 1 : g[y] = h[z]
  <2>1. CASE y \in 0 .. n - 1
    BY <2>1, <1>3
  <2>2. CASE y \in n .. N - 1
    BY <2>2, <1>1
  <2> QED BY <2>1, <2>2, <1>2
<1>6. Recs(h, N) = Recs(g, N)
  <2>1. Recs(h, N) \subseteq Recs(g, N)
    BY <1>4 DEF Recs
  <2>2. Recs(g, N) \subseteq Recs(h, N)
    BY <1>5 DEF Recs
  <2> QED BY <2>1, <2>2
<1>7. ASSUME Distinct(g, N) PROVE Distinct(h, N)
  <2>1. \A y, z \in 0 .. N - 1 : g[y].ticket = g[z].ticket => y = z
    BY <1>7 DEF Distinct
  <2>2. \A y, z \in 0 .. n - 1 : h[y].ticket = h[z].ticket => y = z
    BY <1>1, <2>1 DEF Distinct
  <2>3. ASSUME NEW y \in 0 .. n - 1, NEW z \in n .. N - 1 PROVE h[y].ticket # h[z].ticket
    <3>1. PICK w \in 0 .. n - 1 : h[y] = g[w]
      BY <1>3
    <3>2. h[z] = g[z] /\ w # z
      BY <1>1
    <3> QED BY <3>1, <3>2, <2>1
  <2>4. \A y, z \in n .. N - 1 : h[y].ticket = h[z].ticket => y = z
    BY <1>1, <2>1
  <2>5. ASSUME NEW y \in 0 .. N - 1, NEW z \in 0 .. N - 1, h[y].ticket = h[z].ticket
        PROVE  y = z
    <3>1. CASE y \in 0 .. n - 1 /\ z \in 0 .. n - 1
      BY <2>2, <2>5, <3>1
    <3>2. CASE y \in 0 .. n - 1 /\ z \in n .. N - 1
      BY <2>3, <2>5, <3>2
    <3>3. CASE y \in n .. N - 1 /\ z \in 0 .. n - 1
      BY <2>3, <2>5, <3>3
    <3>4. CASE y \in n .. N - 1 /\ z \in n .. N - 1
      BY <2>4, <2>5, <3>4
    <3> QED BY <1>2, <3>1, <3>2, <3>3, <3>4
  <2> QED BY <2>5 DEF Distinct
<1>8. \A y \in N .. N - 1 : h[y] = g[y]
  OBVIOUS
<1> QED BY <1>6, <1>7, <1>8 DEF Rearranged

(* From m on the array is sorted, first record last, and before it is a    *)
(* heap of the records that come after these.                              *)
SortedDownTo(g, m, N) ==
  \A y \in m .. N - 1 : \A z \in 0 .. y - 1 : ~ Before(g[z], g[y])

SortsBy(h, g, m, N) ==
  /\ g \in Arrays(N) /\ Rearranged(h, g, N, N)
  /\ HeapTo(g, m)
  /\ SortedDownTo(g, m, N)

LEMMA SortRoundKeeps ==
  ASSUME NEW N \in Nat, NEW h \in Arrays(N), NEW g, NEW m \in 1 .. N, NEW p \in Nat, p = m - 1,
         SortsBy(h, g, m, N)
  PROVE  SortsBy(h, TopmostLast(g, p), p, N)
<1>1. /\ g \in Arrays(N) /\ Rearranged(h, g, N, N) /\ HeapTo(g, m)
      /\ \A y \in m .. N - 1 : \A z \in 0 .. y - 1 : ~ Before(g[z], g[y])
  BY DEF SortsBy, SortedDownTo
<1>2. PICK s : s = Swapped(g, 0, p)
  OBVIOUS
<1>3. /\ s \in Arrays(N) /\ s[0] = g[p] /\ s[p] = g[0]
      /\ \A z \in 0 .. N - 1 : z # 0 /\ z # p => s[z] = g[z]
  <2>1. PICK o \in 0 .. N - 1, q \in 0 .. N - 1 : o = 0 /\ q = p
    OBVIOUS
  <2>2. s = Swapped(g, o, q)
    BY <1>2, <2>1
  <2>3. /\ Swapped(g, o, q) \in Arrays(N)
        /\ Swapped(g, o, q)[o] = g[q] /\ Swapped(g, o, q)[q] = g[o]
        /\ \A z \in 0 .. N - 1 : z # o /\ z # q => Swapped(g, o, q)[z] = g[z]
    BY <1>1, SwapFacts
  <2> QED BY <2>1, <2>2, <2>3
<1>4. Rearranged(g, s, N, N)
  <2>1. 0 \in 0 .. N - 1 /\ p \in 0 .. N - 1 /\ N \in 0 .. N
    OBVIOUS
  <2> QED BY <1>1, <1>2, <2>1, SwapRearranges
<1>5. Rearranged(g, s, m, N)
  <2>1. 0 \in 0 .. m - 1 /\ p \in 0 .. m - 1 /\ m \in 0 .. N
    OBVIOUS
  <2> QED BY <1>1, <1>2, <2>1, SwapRearranges
<1>6. PICK d : d = TopmostLast(g, p)
  OBVIOUS
<1>7. d = SiftDown(s, p, 0)
  BY <1>2, <1>6 DEF TopmostLast
<1>8. d \in Arrays(N) /\ Rearranged(s, d, p, N) /\ HeapTo(d, p)
  <2>1. CASE p = 0
    <3>1. Left(0) >= p /\ p \in 0 .. N /\ 0 \in 0 .. N - 1
      BY <2>1, ChildFacts
    <3>2. d = s
      BY <1>3, <1>7, <3>1, SiftDownStays
    <3> QED BY <1>3, <2>1, <3>2, RearrangedSame DEF HeapTo
  <2>2. CASE p # 0
    <3>1. ASSUME NEW z \in 1 .. p - 1, Parent(z) # 0 PROVE Settled(s, z)
      <4>1. Parent(z) \in 0 .. p - 1 /\ z \in 1 .. m - 1
        BY ParentFacts
      <4>2. Settled(g, z)
        BY <1>1, <4>1 DEF HeapTo
      <4>3. s[z] = g[z] /\ s[Parent(z)] = g[Parent(z)]
        BY <1>3, <3>1, <4>1
      <4> QED BY <4>2, <4>3 DEF Settled
    <3>2. Sinks(s, p, 0, 0)
      BY <3>1 DEF Sinks
    <3>3. p \in 0 .. N /\ 0 \in 0 .. p - 1
      BY <2>2
    <3>4. d \in Arrays(N) /\ Rearranged(s, d, p, N) /\ Rises(d, p, 0)
      BY <1>3, <1>7, <3>2, <3>3, SiftDownFacts
    <3> QED BY <3>4 DEF Rises, HeapTo
  <2> QED BY <2>1, <2>2
<1>9. Rearranged(h, d, N, N)
  <2>1. p \in 0 .. N
    OBVIOUS
  <2>2. Rearranged(s, d, N, N)
    BY <1>3, <1>8, <2>1, RearrangedWhole
  <2>3. Rearranged(g, d, N, N)
    BY <2>2, <1>4, RearrangedTransitive
  <2> QED BY <2>3, <1>1, RearrangedTransitive
<1>10. ASSUME NEW z \in 0 .. p - 1 PROVE \E w \in 0 .. m - 1 : d[z] = g[w]
  <2>1. PICK v \in 0 .. p - 1 : d[z] = s[v]
    BY <1>8 DEF Rearranged, Recs
  <2>2. v \in 0 .. m - 1
    OBVIOUS
  <2>3. \E w \in 0 .. m - 1 : s[v] = g[w]
    BY <1>5, <2>2 DEF Rearranged, Recs
  <2> QED BY <2>1, <2>3
<1>11. \A y \in p .. N - 1 : d[y] = s[y]
  BY <1>8 DEF Rearranged
<1>12. \A y \in m .. N - 1 : d[y] = g[y]
  BY <1>3, <1>11
<1>13. d[p] = g[0]
  BY <1>3, <1>11
<1>14. ASSUME NEW y \in p .. N - 1, NEW z \in 0 .. y - 1 PROVE ~ Before(d[z], d[y])
  <2>1. CASE y = p
    <3>1. PICK w \in 0 .. m - 1 : d[z] = g[w]
      BY <1>10, <2>1
    <3>2. m \in 0 .. N
      OBVIOUS
    <3>3. ~ Before(g[w], g[0])
      BY <1>1, <3>2, TopmostFirst
    <3> QED BY <1>13, <2>1, <3>1, <3>3
  <2>2. CASE y # p
    <3>1. y \in m .. N - 1 /\ d[y] = g[y]
      BY <1>12, <2>2
    <3>2. \E w \in 0 .. y - 1 : d[z] = g[w]
      <4>1. CASE z \in 0 .. p - 1
        <5>1. PICK w \in 0 .. m - 1 : d[z] = g[w]
          BY <1>10, <4>1
        <5>2. w \in 0 .. y - 1
          BY <3>1
        <5> QED BY <5>1, <5>2
      <4>2. CASE z = p
        <5>1. 0 \in 0 .. y - 1
          BY <3>1
        <5> QED BY <5>1, <4>2, <1>13
      <4>3. CASE z \in m .. N - 1
        BY <1>12, <4>3
      <4> QED BY <4>1, <4>2, <4>3
    <3> QED BY <3>1, <3>2, <1>1
  <2> QED BY <2>1, <2>2
<1> QED BY <1>6, <1>8, <1>9, <1>14 DEF SortsBy, SortedDownTo

(* Sort: the records of a heap, the first of them last.                    *)
LEMMA SortFacts ==
  ASSUME NEW N \in Nat, NEW h \in Arrays(N), HeapTo(h, N)
  PROVE  /\ Sort(h) \in Arrays(N)
         /\ Rearranged(h, Sort(h), N, N)
         /\ SortedDownTo(Sort(h), 0, N)
<1>1. PICK g : g = Sorting(h)
  OBVIOUS
<1>2. g[0] = h /\ \A k \in 1 .. N : g[k] = TopmostLast(g[k - 1], N - k)
  BY <1>1, SortingRounds
<1> DEFINE I == {k \in Nat : k <= N => SortsBy(h, g[k], N - k, N)}
<1>3. 0 \in I
  <2>1. N - 0 = N
    OBVIOUS
  <2>2. SortsBy(h, h, N, N)
    BY RearrangedSame DEF SortsBy, SortedDownTo
  <2> QED BY <1>2, <2>1, <2>2
<1>4. ASSUME NEW k \in Nat, k \in I PROVE k + 1 \in I
  <2> SUFFICES ASSUME k + 1 <= N PROVE SortsBy(h, g[k + 1], N - (k + 1), N)
    OBVIOUS
  <2>1. PICK m \in 1 .. N : m = N - k
    OBVIOUS
  <2>2. PICK p \in Nat : p = m - 1
    OBVIOUS
  <2>3. SortsBy(h, g[k], m, N)
    BY <1>4, <2>1
  <2>4. SortsBy(h, TopmostLast(g[k], p), p, N)
    BY <2>2, <2>3, SortRoundKeeps
  <2>5. k + 1 \in 1 .. N /\ (k + 1) - 1 = k /\ N - (k + 1) = p
    BY <2>1, <2>2
  <2>6. g[k + 1] = TopmostLast(g[k], p)
    BY <1>2, <2>5
  <2> QED BY <2>4, <2>5, <2>6
<1>5. \A k \in Nat : k \in I
  <2> HIDE DEF I
  <2> QED BY <1>3, <1>4, NatSetInduction
<1>6. SortsBy(h, g[N], 0, N)
  <2>1. N <= N /\ N - N = 0
    OBVIOUS
  <2> QED BY <1>5, <2>1
<1>7. Sort(h) = g[N]
  BY <1>1, ArrayLength DEF Sort
<1> QED BY <1>6, <1>7 DEF SortsBy

-----------------------------------------------------------------------------
(* Remake.                                                                 *)

LEMMA SiftUpTyped ==
  ASSUME NEW N \in Nat, NEW x \in 0 .. N - 1, NEW h \in Arrays(N)
  PROVE  SiftUp(h, x) \in Arrays(N)
<1>1. Rising(h, x)[x] \in LoopStates(N)
  <2>1. \A k \in Nat : Rising(h, x)[k] \in LoopStates(N)
    BY RisingRounds
  <2> QED BY <2>1
<1> QED BY <1>1 DEF SiftUp, LoopStates

LEMMA RemakingRounds ==
  ASSUME NEW N \in Nat, NEW h \in Arrays(N)
  PROVE  /\ Remaking(h)[0] = h
         /\ \A k \in 1 .. N : Remaking(h)[k] = SiftUp(Remaking(h)[k - 1], k - 1)
<1> DEFINE n == Cardinality(DOMAIN h)
           S == Arrays(N)
           step == [p \in Nat \X S |->
                      IF p[1] < N THEN SiftUp(p[2], p[1]) ELSE p[2]]
           Solves(f) == f = [k \in 0 .. n |-> IF k = 0 THEN h ELSE SiftUp(f[k - 1], k - 1)]
<1>1. n = N
  BY ArrayLength
<1>2. StepOf(h, step, S)
  <2>1. ASSUME NEW k \in Nat, NEW s \in S
        PROVE  (IF k < N THEN SiftUp(s, k) ELSE s) \in S
    <3>1. CASE k < N
      <4>1. k \in 0 .. N - 1
        BY <3>1
      <4> QED BY <3>1, <4>1, SiftUpTyped
    <3>2. CASE ~ (k < N)
      BY <3>2
    <3> QED BY <3>1, <3>2
  <2> HIDE DEF S
  <2>2. step \in [Nat \X S -> S]
    BY <2>1
  <2> QED BY <2>2 DEF StepOf, S
<1>3. \A k \in Nat, s \in S : k < N => step[<<k, s>>] = SiftUp(s, k)
  OBVIOUS
<1> HIDE DEF S, step, n
<1>4. \E f : Solves(f)
  <2>1. PICK f \in [Nat -> S] :
          \A k \in Nat : f[k] = IF k = 0 THEN h ELSE step[<<k - 1, f[k - 1]>>]
    BY <1>2, LoopSolution
  <2>2. ASSUME NEW k \in 1 .. N PROVE f[k] = SiftUp(f[k - 1], k - 1)
    <3>1. k - 1 \in Nat /\ k - 1 < N
      OBVIOUS
    <3>2. step[<<k - 1, f[k - 1]>>] = SiftUp(f[k - 1], k - 1)
      BY <3>1, <1>3
    <3>3. k \in Nat /\ k # 0
      OBVIOUS
    <3> QED BY <3>2, <3>3, <2>1
  <2> DEFINE e == [k \in 0 .. n |-> f[k]]
  <2>3. ASSUME NEW k \in 0 .. n PROVE e[k] = IF k = 0 THEN h ELSE SiftUp(e[k - 1], k - 1)
    <3>1. CASE k = 0
      <4>1. f[0] = h
        BY <2>1
      <4> QED BY <4>1, <3>1
    <3>2. CASE k # 0
      <4>1. k \in 1 .. N /\ k - 1 \in 0 .. n
        BY <1>1, <3>2
      <4>2. e[k] = f[k] /\ e[k - 1] = f[k - 1]
        BY <4>1
      <4> QED BY <4>1, <4>2, <2>2, <3>2, <1>1
    <3> QED BY <3>1, <3>2
  <2>4. e = [k \in 0 .. n |-> e[k]]
    OBVIOUS
  <2> HIDE DEF e
  <2>5. Solves(e)
    BY <2>3, <2>4
  <2> QED BY <2>5
<1>5. PICK g : g = Remaking(h)
  OBVIOUS
<1>6. Solves(g)
  <2>1. Remaking(h) = CHOOSE f : Solves(f)
    BY DEF Remaking, n
  <2> HIDE DEF Solves
  <2> QED BY <1>4, <1>5, <2>1
<1>7. \A k \in 0 .. N : g[k] = IF k = 0 THEN h ELSE SiftUp(g[k - 1], k - 1)
  BY <1>1, <1>6
<1> QED BY <1>5, <1>7

(* Remake: a heap of the same records, whatever their order was.           *)
LEMMA RemakeFacts ==
  ASSUME NEW N \in Nat, NEW h \in Arrays(N)
  PROVE  /\ Remake(h) \in Arrays(N)
         /\ Rearranged(h, Remake(h), N, N)
         /\ HeapTo(Remake(h), N)
<1>1. PICK g : g = Remaking(h)
  OBVIOUS
<1>2. g[0] = h /\ \A k \in 1 .. N : g[k] = SiftUp(g[k - 1], k - 1)
  BY <1>1, RemakingRounds
<1> DEFINE Made(f, k) == f \in Arrays(N) /\ Rearranged(h, f, N, N) /\ HeapTo(f, k)
           I == {k \in Nat : k <= N => Made(g[k], k)}
<1>3. 0 \in I
  BY <1>2, RearrangedSame DEF HeapTo
<1>4. ASSUME NEW k \in Nat, k \in I PROVE k + 1 \in I
  <2> SUFFICES ASSUME k + 1 <= N PROVE Made(g[k + 1], k + 1)
    OBVIOUS
  <2>1. PICK n \in 0 .. N : n = k + 1 /\ k \in 0 .. n - 1
    OBVIOUS
  <2>2. PICK f : f = g[k] /\ Made(f, k)
    BY <1>4
  <2>3. PICK u : u = SiftUp(f, k)
    OBVIOUS
  <2>4. Rises(f, n, k)
    <3>1. \A y \in 1 .. n - 1 : y # k => Settled(f, y)
      BY <2>1, <2>2 DEF HeapTo
    <3>2. \A y \in 1 .. n - 1 : Parent(y) # k
      BY <2>1, ParentFacts
    <3> QED BY <3>1, <3>2 DEF Rises
  <2>5. u \in Arrays(N) /\ Rearranged(f, u, n, N) /\ HeapTo(u, n)
    BY <2>1, <2>2, <2>3, <2>4, SiftUpFacts
  <2>6. Rearranged(f, u, N, N)
    BY <2>2, <2>5, RearrangedWhole
  <2>7. Rearranged(h, u, N, N)
    BY <2>2, <2>6, RearrangedTransitive
  <2>8. g[k + 1] = u
    <3>1. k + 1 \in 1 .. N /\ (k + 1) - 1 = k
      OBVIOUS
    <3> QED BY <3>1, <1>2, <2>2, <2>3
  <2> QED BY <2>1, <2>5, <2>7, <2>8
<1>5. \A k \in Nat : k \in I
  <2> HIDE DEF I
  <2> QED BY <1>3, <1>4, NatSetInduction
<1>6. Made(g[N], N)
  BY <1>5
<1>7. Remake(h) = g[N]
  BY <1>1, ArrayLength DEF Remake
<1> QED BY <1>6, <1>7

-----------------------------------------------------------------------------
(* The inductive invariant.                                                *)

\* Every mark is that of an earlier traversal, or the one before the first.
Old(R, m) ==
  \A r \in R : IF m = 0 THEN r.m_iVisitedMark = MarkMod - 1 ELSE r.m_iVisitedMark <= m

\* The tickets of the records that do not have the mark m.
Unmarked(R, m) == {r.ticket : r \in {q \in R : q.m_iVisitedMark # m}}

ArrayInv(h, n) == n \in Nat /\ h \in Arrays(n) /\ Distinct(h, n)

IdleInv == at = "idle" => unseen = {}

UnorderedInv ==
  at = "unordered" =>
    /\ m_iVisitedMark # 0 /\ pos >= 0
    /\ unseen = Unmarked(Recs(m_pHeap, m_nCurrent), m_iVisitedMark)
    /\ ~ bUnvisitedRecords =>
         \A x \in 0 .. m_nCurrent - 1 : x < pos => m_pHeap[x].m_iVisitedMark = m_iVisitedMark

OrderedInv ==
  at = "ordered" =>
    /\ pos < m_nCurrent
    /\ unseen = {m_pHeap[x].ticket : x \in 0 .. pos}
    /\ \A y \in 0 .. pos : \A z \in 0 .. y - 1 : ~ Before(m_pHeap[z], m_pHeap[y])

HeapInv ==
  /\ ArrayInv(m_pHeap, m_nCurrent)
  /\ m_iVisitedMark \in 0 .. MarkMod - 1
  /\ at \in {"idle", "unordered", "ordered"}
  /\ pos \in -1 .. Cardinality(Tickets)
  /\ bUnvisitedRecords \in BOOLEAN
  /\ at # "ordered" => HeapTo(m_pHeap, m_nCurrent)
  /\ at # "unordered" => Old(Recs(m_pHeap, m_nCurrent), m_iVisitedMark)
  /\ IdleInv
  /\ UnorderedInv
  /\ OrderedInv

-----------------------------------------------------------------------------
(* Lemmas.                                                                 *)

LEMMA LengthIs ==
  ASSUME NEW n \in Nat, NEW h \in Arrays(n)
  PROVE  Cardinality(DOMAIN h) = n
BY ArrayLength

LEMMA HeldIs ==
  ASSUME NEW n \in Nat, NEW h \in Arrays(n)
  PROVE  Held(h) = {r.ticket : r \in Recs(h, n)} /\ Held(h) \subseteq Tickets
<1>1. DOMAIN h = 0 .. n - 1 /\ \A x \in 0 .. n - 1 : h[x] \in Rec
  BY DEF Arrays
<1> QED BY <1>1 DEF Held, Recs, Rec

(* As tickets are distinct there are no more records than tickets.         *)
LEMMA LengthBound ==
  ASSUME NEW n \in Nat, NEW h, ArrayInv(h, n)
  PROVE  n <= Cardinality(Tickets)
<1>1. h \in Arrays(n) /\ \A y, z \in 0 .. n - 1 : h[y].ticket = h[z].ticket => y = z
  BY DEF ArrayInv, Distinct
<1> DEFINE f == [x \in 0 .. n - 1 |-> h[x].ticket]
<1>2. \A x \in 0 .. n - 1 : h[x].ticket \in Tickets
  BY <1>1 DEF Arrays, Rec
<1>3. f \in Injection(0 .. n - 1, Tickets)
  BY <1>1, <1>2 DEF Injection, IsInjective
<1>4. Cardinality(0 .. n - 1) <= Cardinality(Tickets)
  <2> HIDE DEF f
  <2> QED BY <1>3, FS_Injection, HeapAssumption
<1>5. Cardinality(0 .. n - 1) = n
  BY FS_Interval
<1> QED BY <1>4, <1>5

LEMMA TicketsFinite == Cardinality(Tickets) \in Nat
BY FS_CardinalityType, HeapAssumption

\* All records but the one at p.
Others(h, n, p) == {h[y] : y \in 0 .. n - 1 \ {p}}

Replaced(g, h, n, p, r) ==
  /\ g \in Arrays(n) /\ g[p] = r
  /\ \A y \in 0 .. n - 1 : y # p => g[y] = h[y]
  /\ Recs(g, n) = Others(h, n, p) \cup {r}

(* A record takes the place of the one at p.                               *)
LEMMA RecsReplaced ==
  ASSUME NEW n \in Nat, NEW h \in Arrays(n), NEW p \in 0 .. n - 1, NEW r \in Rec,
         NEW g, g = [h EXCEPT ![p] = r]
  PROVE  Replaced(g, h, n, p, r)
<1>1. g \in Arrays(n) /\ g[p] = r /\ \A y \in 0 .. n - 1 : y # p => g[y] = h[y]
  BY DEF Arrays
<1>2. Recs(g, n) \subseteq Others(h, n, p) \cup {r}
  BY <1>1 DEF Recs, Others
<1>3. Others(h, n, p) \cup {r} \subseteq Recs(g, n)
  BY <1>1 DEF Recs, Others
<1> QED BY <1>1, <1>2, <1>3 DEF Replaced

LEMMA DistinctReplaced ==
  ASSUME NEW n \in Nat, NEW h \in Arrays(n), NEW p \in 0 .. n - 1, NEW r \in Rec,
         r.ticket = h[p].ticket, Distinct(h, n), NEW g, g = [h EXCEPT ![p] = r]
  PROVE  Distinct(g, n)
<1>1. \A y \in 0 .. n - 1 : g[y].ticket = h[y].ticket
  BY RecsReplaced DEF Replaced
<1> QED BY <1>1 DEF Distinct

(* The record at p leaves the unmarked ones, as a marked one or for good.  *)
LEMMA UnmarkedLess ==
  ASSUME NEW n \in Nat, NEW h \in Arrays(n), Distinct(h, n), NEW p \in 0 .. n - 1,
         NEW m, h[p].m_iVisitedMark # m, NEW R,
         \/ R = Others(h, n, p)
         \/ \E r \in Rec : r.m_iVisitedMark = m /\ R = Others(h, n, p) \cup {r}
  PROVE  Unmarked(R, m) = Unmarked(Recs(h, n), m) \ {h[p].ticket}
<1>1. \A y \in 0 .. n - 1 : h[y].ticket = h[p].ticket => y = p
  BY DEF Distinct
<1>2. ASSUME NEW t \in Unmarked(R, m)
      PROVE  t \in Unmarked(Recs(h, n), m) /\ t # h[p].ticket
  <2>1. PICK q \in R : q.m_iVisitedMark # m /\ t = q.ticket
    BY DEF Unmarked
  <2>2. PICK y \in 0 .. n - 1 : y # p /\ q = h[y]
    BY <2>1 DEF Others
  <2> QED BY <2>1, <2>2, <1>1 DEF Unmarked, Recs
<1>3. ASSUME NEW t \in Unmarked(Recs(h, n), m), t # h[p].ticket PROVE t \in Unmarked(R, m)
  <2>1. PICK y \in 0 .. n - 1 : h[y].m_iVisitedMark # m /\ t = h[y].ticket
    BY DEF Unmarked, Recs
  <2>2. h[y] \in R
    BY <2>1, <1>3 DEF Others
  <2> QED BY <2>1, <2>2 DEF Unmarked
<1> QED BY <1>2, <1>3

LEMMA MarkBefore ==
  ASSUME NEW m \in 0 .. MarkMod - 1
  PROVE  (m - 1) % MarkMod = IF m = 0 THEN MarkMod - 1 ELSE m - 1
BY HeapAssumption

LEMMA MarkAfter ==
  ASSUME NEW m \in 0 .. MarkMod - 1
  PROVE  (m + 1) % MarkMod = IF m = MarkMod - 1 THEN 0 ELSE m + 1
BY HeapAssumption

-----------------------------------------------------------------------------
(* It holds at the start, and every action keeps it.                       *)

LEMMA InitInv == HeapInit => HeapInv
<1> SUFFICES ASSUME HeapInit PROVE HeapInv
  OBVIOUS
<1>1. m_pHeap \in Arrays(0)
  BY DEF HeapInit, Arrays
<1>2. m_nCurrent = 0
  BY <1>1, LengthIs DEF m_nCurrent
<1>3. ArrayInv(m_pHeap, 0)
  BY <1>1 DEF ArrayInv, Distinct
<1>4. HeapTo(m_pHeap, 0) /\ Recs(m_pHeap, 0) = {}
  BY DEF HeapTo, Recs
<1>5. pos \in -1 .. Cardinality(Tickets) /\ m_iVisitedMark \in 0 .. MarkMod - 1
  BY TicketsFinite, HeapAssumption DEF HeapInit
<1> QED
  BY <1>2, <1>3, <1>4, <1>5 DEF HeapInit, HeapInv, IdleInv, UnorderedInv, OrderedInv, Old

(* A record is added.                                                      *)
LEMMA InsertArray ==
  ASSUME HeapInv, NEW ticket \in Tickets, NEW key \in Keys, Insert(ticket, key),
         NEW n \in Nat, n = m_nCurrent
  PROVE  \E N \in Nat, r \in Rec :
           /\ ArrayInv(m_pHeap', N) /\ HeapTo(m_pHeap', N)
           /\ r.ticket = ticket /\ r.key = key
           /\ r.m_iVisitedMark = IF m_iVisitedMark = 0 THEN MarkMod - 1 ELSE m_iVisitedMark - 1
           /\ Recs(m_pHeap', N) = Recs(m_pHeap, n) \cup {r}
<1>1. m_pHeap \in Arrays(n) /\ Distinct(m_pHeap, n) /\ HeapTo(m_pHeap, n)
  BY DEF HeapInv, ArrayInv, Insert
<1>2. m_iVisitedMark \in 0 .. MarkMod - 1
  BY DEF HeapInv
<1>3. PICK r : r = [ticket |-> ticket, key |-> key,
                    m_iVisitedMark |-> (m_iVisitedMark - 1) % MarkMod]
  OBVIOUS
<1>4. /\ r \in Rec /\ r.ticket = ticket /\ r.key = key
      /\ r.m_iVisitedMark = IF m_iVisitedMark = 0 THEN MarkMod - 1 ELSE m_iVisitedMark - 1
  <2>1. r.m_iVisitedMark = IF m_iVisitedMark = 0 THEN MarkMod - 1 ELSE m_iVisitedMark - 1
    BY <1>2, <1>3, MarkBefore
  <2>2. r.m_iVisitedMark \in 0 .. MarkMod - 1
    BY <1>2, <2>1, HeapAssumption
  <2> QED BY <1>3, <2>1, <2>2 DEF Rec
<1>5. PICK N \in Nat : N = n + 1 /\ n \in 0 .. N - 1
  OBVIOUS
<1>6. PICK l : l = [x \in 0 .. n |-> IF x = n THEN r ELSE m_pHeap[x]]
  OBVIOUS
<1>7. l \in Arrays(N) /\ l[n] = r /\ \A x \in 0 .. n - 1 : l[x] = m_pHeap[x]
  <2>1. \A x \in 0 .. n : l[x] \in Rec
    BY <1>1, <1>4, <1>6 DEF Arrays
  <2>2. 0 .. n = 0 .. N - 1
    BY <1>5
  <2> QED BY <1>6, <2>1, <2>2 DEF Arrays
<1>8. m_pHeap' = SiftUp(l, n) /\ ticket \notin Held(m_pHeap)
  BY <1>1, <1>3, <1>6 DEF Insert
<1>9. HeapTo(l, n)
  <2>1. ASSUME NEW y \in 1 .. n - 1 PROVE Settled(l, y)
    <3>1. Parent(y) \in 0 .. n - 1
      BY ParentFacts
    <3>2. Settled(m_pHeap, y)
      BY <1>1 DEF HeapTo
    <3> QED BY <3>1, <3>2, <1>7 DEF Settled
  <2> QED BY <2>1 DEF HeapTo
<1>10. /\ m_pHeap' \in Arrays(N) /\ Rearranged(l, m_pHeap', N, N)
       /\ HeapTo(m_pHeap', N)
  BY <1>5, <1>7, <1>8, <1>9, InsertFacts
<1>11. Distinct(l, N)
  <2>1. \A x \in 0 .. n - 1 : l[x].ticket # ticket
    BY <1>1, <1>7, <1>8, HeldIs DEF Recs
  <2>2. \A y, z \in 0 .. n - 1 : l[y].ticket = l[z].ticket => y = z
    BY <1>1, <1>7 DEF Distinct
  <2>3. \A x \in 0 .. N - 1 : x \in 0 .. n - 1 \/ x = n
    BY <1>5
  <2> QED BY <1>4, <1>7, <2>1, <2>2, <2>3 DEF Distinct
<1>12. ArrayInv(m_pHeap', N)
  BY <1>10, <1>11 DEF ArrayInv, Rearranged
<1>13. Recs(m_pHeap', N) = Recs(m_pHeap, n) \cup {r}
  <2>1. Recs(m_pHeap', N) = Recs(l, N)
    BY <1>10 DEF Rearranged
  <2>2. Recs(l, N) \subseteq Recs(m_pHeap, n) \cup {r}
    BY <1>5, <1>7 DEF Recs
  <2>3. Recs(m_pHeap, n) \cup {r} \subseteq Recs(l, N)
    BY <1>5, <1>7 DEF Recs
  <2> QED BY <2>1, <2>2, <2>3
<1> QED BY <1>4, <1>10, <1>12, <1>13

LEMMA InsertInv ==
  ASSUME HeapInv, NEW ticket \in Tickets, NEW key \in Keys, Insert(ticket, key)
  PROVE  HeapInv'
<1>1. PICK n \in Nat : n = m_nCurrent
  BY DEF HeapInv, ArrayInv
<1>2. PICK N \in Nat, r \in Rec :
        /\ ArrayInv(m_pHeap', N) /\ HeapTo(m_pHeap', N)
        /\ r.m_iVisitedMark = IF m_iVisitedMark = 0 THEN MarkMod - 1 ELSE m_iVisitedMark - 1
        /\ Recs(m_pHeap', N) = Recs(m_pHeap, n) \cup {r}
  BY <1>1, InsertArray
<1>3. m_nCurrent' = N
  BY <1>2, LengthIs DEF ArrayInv, m_nCurrent
<1>4. at = "idle" /\ UNCHANGED <<m_iVisitedMark, at, pos, bUnvisitedRecords, unseen>>
  BY DEF Insert
<1>5. Old(Recs(m_pHeap, n), m_iVisitedMark) /\ m_iVisitedMark \in 0 .. MarkMod - 1
  BY <1>1, <1>4 DEF HeapInv
<1>6. Old(Recs(m_pHeap', N), m_iVisitedMark)
  BY <1>2, <1>5 DEF Old
<1>7. IdleInv' /\ UnorderedInv' /\ OrderedInv'
  BY <1>4 DEF HeapInv, IdleInv, UnorderedInv, OrderedInv
<1> QED BY <1>2, <1>3, <1>4, <1>6, <1>7 DEF HeapInv

(* The first record is removed.                                            *)
LEMMA RemoveTopmostArray ==
  ASSUME HeapInv, RemoveTopmost, NEW N \in Nat, N = m_nCurrent
  PROVE  /\ 0 \in 0 .. N - 1
         /\ \E n \in Nat : /\ ArrayInv(m_pHeap', n) /\ HeapTo(m_pHeap', n)
                          /\ Recs(m_pHeap', n) = Others(m_pHeap, N, 0)
<1>1. m_pHeap \in Arrays(N) /\ Distinct(m_pHeap, N) /\ HeapTo(m_pHeap, N) /\ N > 0
  BY DEF HeapInv, ArrayInv, RemoveTopmost
<1>2. PICK n \in Nat : N = n + 1
  <2>1. N - 1 \in Nat /\ N = (N - 1) + 1
    BY <1>1
  <2> QED BY <2>1
<1>3. PICK o \in 0 .. n : o = 0
  OBVIOUS
<1>4. m_pHeap' = Remove(m_pHeap, o)
  BY <1>3 DEF RemoveTopmost
<1>5. /\ m_pHeap' \in Arrays(n)
      /\ Recs(m_pHeap', n) = {m_pHeap[y] : y \in 0 .. n \ {o}}
      /\ Distinct(m_pHeap', n)
      /\ HeapTo(m_pHeap', n)
  BY <1>1, <1>2, <1>4, RemoveFacts
<1>6. Recs(m_pHeap', n) = Others(m_pHeap, N, 0)
  BY <1>2, <1>3, <1>5 DEF Others
<1> QED BY <1>1, <1>5, <1>6 DEF ArrayInv

LEMMA RemoveTopmostInv ==
  ASSUME HeapInv, RemoveTopmost
  PROVE  HeapInv'
<1>1. PICK N \in Nat : N = m_nCurrent
  BY DEF HeapInv, ArrayInv
<1>2. PICK n \in Nat : /\ ArrayInv(m_pHeap', n) /\ HeapTo(m_pHeap', n)
                       /\ Recs(m_pHeap', n) = Others(m_pHeap, N, 0)
  BY <1>1, RemoveTopmostArray
<1>3. m_nCurrent' = n
  BY <1>2, LengthIs DEF ArrayInv, m_nCurrent
<1>4. at = "idle" /\ UNCHANGED <<m_iVisitedMark, at, pos, bUnvisitedRecords, unseen>>
  BY DEF RemoveTopmost
<1>5. Old(Recs(m_pHeap', n), m_iVisitedMark)
  <2>1. Recs(m_pHeap', n) \subseteq Recs(m_pHeap, N)
    BY <1>2 DEF Recs, Others
  <2> QED BY <1>1, <1>4, <2>1 DEF HeapInv, Old
<1>6. IdleInv' /\ UnorderedInv' /\ OrderedInv'
  BY <1>4 DEF HeapInv, IdleInv, UnorderedInv, OrderedInv
<1> QED BY <1>2, <1>3, <1>4, <1>5, <1>6 DEF HeapInv

(* A traversal starts with every record unmarked.                          *)
LEMMA StartUnorderedInv ==
  ASSUME HeapInv, StartUnordered
  PROVE  HeapInv'
<1>1. PICK n \in Nat : /\ n = m_nCurrent /\ m_pHeap \in Arrays(n)
                       /\ Distinct(m_pHeap, n) /\ HeapTo(m_pHeap, n)
                       /\ Old(Recs(m_pHeap, n), m_iVisitedMark)
  BY DEF HeapInv, ArrayInv, StartUnordered
<1>2. m_iVisitedMark \in 0 .. MarkMod - 1
  BY DEF HeapInv
<1>3. PICK mark : mark = (m_iVisitedMark + 1) % MarkMod
  OBVIOUS
<1>4. mark = IF m_iVisitedMark = MarkMod - 1 THEN 0 ELSE m_iVisitedMark + 1
  BY <1>2, <1>3, MarkAfter
<1>5. /\ m_iVisitedMark' = (IF mark = 0 THEN 1 ELSE mark)
      /\ m_pHeap' = IF mark = 0
                    THEN [x \in DOMAIN m_pHeap |-> [m_pHeap[x] EXCEPT !.m_iVisitedMark = 0]]
                    ELSE m_pHeap
      /\ at' = "unordered" /\ pos' = 0 /\ bUnvisitedRecords' = FALSE
      /\ unseen' = Held(m_pHeap)
  BY <1>3 DEF StartUnordered
<1>6. m_iVisitedMark' \in 0 .. MarkMod - 1 /\ m_iVisitedMark' # 0
  BY <1>2, <1>4, <1>5, HeapAssumption
<1>7. ASSUME NEW x \in 0 .. n - 1
      PROVE  /\ m_pHeap'[x] \in Rec
             /\ m_pHeap'[x].ticket = m_pHeap[x].ticket /\ m_pHeap'[x].key = m_pHeap[x].key
             /\ m_pHeap'[x].m_iVisitedMark # m_iVisitedMark'
  <2>1. m_pHeap[x] \in Rec /\ DOMAIN m_pHeap = 0 .. n - 1
    BY <1>1 DEF Arrays
  <2>2. CASE mark = 0
    <3>1. m_pHeap'[x] = [m_pHeap[x] EXCEPT !.m_iVisitedMark = 0]
      BY <1>5, <2>1, <2>2
    <3> QED BY <1>5, <2>1, <2>2, <3>1, HeapAssumption DEF Rec
  <2>3. CASE mark # 0
    <3>1. m_pHeap'[x] = m_pHeap[x] /\ m_iVisitedMark' = m_iVisitedMark + 1
      BY <1>4, <1>5, <2>3
    <3>2. IF m_iVisitedMark = 0 THEN m_pHeap[x].m_iVisitedMark = MarkMod - 1
                                ELSE m_pHeap[x].m_iVisitedMark <= m_iVisitedMark
      BY <1>1 DEF Old, Recs
    <3>3. m_pHeap[x].m_iVisitedMark \in 0 .. MarkMod - 1
      BY <2>1 DEF Rec
    <3>4. m_pHeap[x].m_iVisitedMark # m_iVisitedMark + 1
      BY <1>2, <3>2, <3>3, HeapAssumption
    <3> QED BY <2>1, <3>1, <3>4
  <2> QED BY <2>2, <2>3
<1>8. m_pHeap' \in Arrays(n)
  <2>1. DOMAIN m_pHeap = 0 .. n - 1
    BY <1>1 DEF Arrays
  <2>2. m_pHeap' = [x \in 0 .. n - 1 |-> m_pHeap'[x]]
    BY <1>1, <1>5, <2>1 DEF Arrays
  <2> QED BY <1>7, <2>2 DEF Arrays
<1>9. m_nCurrent' = n
  BY <1>8, LengthIs DEF m_nCurrent
<1>10. Distinct(m_pHeap', n)
  BY <1>1, <1>7 DEF Distinct
<1>11. HeapTo(m_pHeap', n)
  <2>1. ASSUME NEW y \in 1 .. n - 1 PROVE Settled(m_pHeap', y)
    <3>1. Parent(y) \in 0 .. n - 1 /\ y \in 0 .. n - 1
      BY ParentFacts
    <3>2. Settled(m_pHeap, y)
      BY <1>1 DEF HeapTo
    <3> QED BY <3>1, <3>2, <1>7 DEF Settled, Before
  <2> QED BY <2>1 DEF HeapTo
<1>12. Held(m_pHeap) = Unmarked(Recs(m_pHeap', n), m_iVisitedMark')
  <2>1. DOMAIN m_pHeap = 0 .. n - 1
    BY <1>1 DEF Arrays
  <2>2. Held(m_pHeap) \subseteq Unmarked(Recs(m_pHeap', n), m_iVisitedMark')
    <3>1. ASSUME NEW x \in 0 .. n - 1
          PROVE  m_pHeap[x].ticket \in Unmarked(Recs(m_pHeap', n), m_iVisitedMark')
      BY <1>7 DEF Unmarked, Recs
    <3> QED BY <3>1, <2>1 DEF Held
  <2>3. Unmarked(Recs(m_pHeap', n), m_iVisitedMark') \subseteq Held(m_pHeap)
    BY <1>7, <2>1 DEF Held, Unmarked, Recs
  <2> QED BY <2>2, <2>3
<1>13. pos' \in -1 .. Cardinality(Tickets)
  BY <1>5, TicketsFinite
<1>14. UnorderedInv'
  BY <1>5, <1>6, <1>9, <1>12 DEF UnorderedInv
<1>15. IdleInv' /\ OrderedInv'
  BY <1>5 DEF IdleInv, OrderedInv
<1>16. ArrayInv(m_pHeap', m_nCurrent')
  BY <1>8, <1>9, <1>10 DEF ArrayInv
<1> QED
  BY <1>5, <1>6, <1>9, <1>11, <1>13, <1>14, <1>15, <1>16 DEF HeapInv

LEMMA SkipVisitedInv ==
  ASSUME HeapInv, SkipVisited
  PROVE  HeapInv'
<1>1. /\ at = "unordered" /\ pos < m_nCurrent
      /\ m_pHeap[pos].m_iVisitedMark = m_iVisitedMark /\ pos' = pos + 1
      /\ UNCHANGED <<m_pHeap, m_iVisitedMark, at, bUnvisitedRecords, unseen>>
  BY DEF SkipVisited, InPass
<1>2. /\ m_nCurrent \in Nat /\ pos \in Nat
      /\ ArrayInv(m_pHeap, m_nCurrent)
  BY <1>1 DEF HeapInv, ArrayInv, UnorderedInv
<1>3. m_nCurrent' = m_nCurrent
  BY <1>1 DEF m_nCurrent
<1>4. pos' \in -1 .. Cardinality(Tickets)
  BY <1>1, <1>2, LengthBound, TicketsFinite
<1>5. UnorderedInv'
  BY <1>1, <1>2, <1>3 DEF HeapInv, UnorderedInv
<1> QED BY <1>1, <1>3, <1>4, <1>5 DEF HeapInv, IdleInv, OrderedInv

(* One callback of TraverseUnordered: the record at pos is marked, and     *)
(* perhaps removed or given another key.                                   *)
LEMMA VisitUnorderedArray ==
  ASSUME HeapInv, VisitUnordered, NEW n \in Nat, n = m_nCurrent
  PROVE  /\ pos \in 0 .. n - 1
         /\ \E N \in Nat :
              /\ ArrayInv(m_pHeap', N) /\ HeapTo(m_pHeap', N)
              /\ \/ Recs(m_pHeap', N) = Others(m_pHeap, n, pos)
                 \/ \E r \in Rec :
                      /\ r.ticket = m_pHeap[pos].ticket /\ r.m_iVisitedMark = m_iVisitedMark
                      /\ Recs(m_pHeap', N) = Others(m_pHeap, n, pos) \cup {r}
<1>1. /\ pos \in 0 .. n - 1
      /\ m_pHeap \in Arrays(n) /\ Distinct(m_pHeap, n) /\ HeapTo(m_pHeap, n)
      /\ m_iVisitedMark \in 0 .. MarkMod - 1
  BY DEF VisitUnordered, InPass, HeapInv, ArrayInv, UnorderedInv
<1>2. m_pHeap[pos] \in Rec
  BY <1>1 DEF Arrays
<1>3. PICK r : r = [m_pHeap[pos] EXCEPT !.m_iVisitedMark = m_iVisitedMark]
  OBVIOUS
<1>4. /\ r \in Rec /\ r.ticket = m_pHeap[pos].ticket /\ r.key = m_pHeap[pos].key
      /\ r.m_iVisitedMark = m_iVisitedMark
  BY <1>1, <1>2, <1>3 DEF Rec
<1>5. PICK s : s = [m_pHeap EXCEPT ![pos] = r]
  OBVIOUS
<1>6. s = [m_pHeap EXCEPT ![pos].m_iVisitedMark = m_iVisitedMark]
  BY <1>3, <1>5
<1>7. /\ s \in Arrays(n) /\ s[pos] = r
      /\ \A y \in 0 .. n - 1 : y # pos => s[y] = m_pHeap[y]
      /\ Recs(s, n) = Others(m_pHeap, n, pos) \cup {r}
  <2>1. Replaced(s, m_pHeap, n, pos, r)
    BY <1>1, <1>4, <1>5, RecsReplaced
  <2> QED BY <2>1 DEF Replaced
<1>8. Distinct(s, n)
  BY <1>1, <1>4, <1>5, DistinctReplaced
<1>9. HeapTo(s, n)
  <2>1. \A y \in 0 .. n - 1 : s[y].key = m_pHeap[y].key /\ s[y].ticket = m_pHeap[y].ticket
    BY <1>4, <1>7
  <2>2. ASSUME NEW y \in 1 .. n - 1 PROVE Settled(s, y)
    <3>1. Parent(y) \in 0 .. n - 1 /\ y \in 0 .. n - 1
      BY ParentFacts
    <3>2. Settled(m_pHeap, y)
      BY <1>1 DEF HeapTo
    <3> QED BY <3>1, <3>2, <2>1 DEF Settled, Before
  <2> QED BY <2>2 DEF HeapTo
<1>10. CASE m_pHeap' = s
  <2>1. ArrayInv(m_pHeap', n) /\ HeapTo(m_pHeap', n)
    BY <1>7, <1>8, <1>9, <1>10 DEF ArrayInv
  <2> QED BY <2>1, <1>1, <1>4, <1>7, <1>10
<1>11. CASE m_pHeap' = Remove(s, pos)
  <2>1. PICK N \in Nat : n = N + 1
    <3>1. n - 1 \in Nat /\ n = (n - 1) + 1
      BY <1>1
    <3> QED BY <3>1
  <2>2. pos \in 0 .. N /\ 0 .. N = 0 .. n - 1
    BY <1>1, <2>1
  <2>3. /\ m_pHeap' \in Arrays(N)
        /\ Recs(m_pHeap', N) = {s[y] : y \in 0 .. N \ {pos}}
        /\ Distinct(m_pHeap', N)
        /\ HeapTo(m_pHeap', N)
    BY <1>7, <1>8, <1>9, <1>11, <2>1, <2>2, RemoveFacts
  <2>4. {s[y] : y \in 0 .. N \ {pos}} = Others(m_pHeap, n, pos)
    BY <1>7, <2>2 DEF Others
  <2>5. ArrayInv(m_pHeap', N)
    BY <2>3 DEF ArrayInv
  <2> QED BY <1>1, <2>3, <2>4, <2>5
<1>12. CASE \E k \in Keys : m_pHeap' = Update([s EXCEPT ![pos].key = k], pos)
  <2>1. PICK k \in Keys : m_pHeap' = Update([s EXCEPT ![pos].key = k], pos)
    BY <1>12
  <2>2. PICK q : q = [r EXCEPT !.key = k]
    OBVIOUS
  <2>3. q \in Rec /\ q.ticket = m_pHeap[pos].ticket /\ q.m_iVisitedMark = m_iVisitedMark
    BY <1>4, <2>2 DEF Rec
  <2>4. PICK h : h = [m_pHeap EXCEPT ![pos] = q]
    OBVIOUS
  <2>5. h = [s EXCEPT ![pos].key = k]
    <3>1. [s EXCEPT ![pos].key = k] = [s EXCEPT ![pos] = q]
      BY <1>7, <2>2
    <3>2. h = [s EXCEPT ![pos] = q]
      BY <1>1, <1>5, <2>4 DEF Arrays
    <3> QED BY <3>1, <3>2
  <2>6. Recs(h, n) = Others(m_pHeap, n, pos) \cup {q}
    <3>1. Replaced(h, m_pHeap, n, pos, q)
      BY <1>1, <2>3, <2>4, RecsReplaced
    <3> QED BY <3>1 DEF Replaced
  <2>7. Distinct(h, n)
    BY <1>1, <2>3, <2>4, DistinctReplaced
  <2>8. /\ m_pHeap' \in Arrays(n) /\ Rearranged(h, m_pHeap', n, n)
        /\ HeapTo(m_pHeap', n)
    BY <1>1, <2>1, <2>3, <2>4, <2>5, UpdateFacts
  <2>9. ArrayInv(m_pHeap', n) /\ Recs(m_pHeap', n) = Recs(h, n)
    BY <2>7, <2>8 DEF ArrayInv, Rearranged
  <2> QED BY <1>1, <2>3, <2>6, <2>8, <2>9
<1> QED BY <1>6, <1>10, <1>11, <1>12 DEF VisitUnordered

LEMMA VisitUnorderedInv ==
  ASSUME HeapInv, VisitUnordered
  PROVE  HeapInv'
<1>1. PICK n \in Nat : n = m_nCurrent /\ ArrayInv(m_pHeap, n)
  BY DEF HeapInv, ArrayInv
<1>2. /\ at = "unordered" /\ m_pHeap[pos].m_iVisitedMark # m_iVisitedMark
      /\ bUnvisitedRecords' = TRUE /\ pos' = pos + 1
      /\ unseen' = unseen \ {m_pHeap[pos].ticket}
      /\ UNCHANGED <<m_iVisitedMark, at>>
  BY DEF VisitUnordered, InPass
<1>3. m_pHeap \in Arrays(n) /\ Distinct(m_pHeap, n)
  BY <1>1 DEF ArrayInv
<1>4. pos \in 0 .. n - 1
  BY <1>1, VisitUnorderedArray
<1>5. PICK N \in Nat :
        /\ ArrayInv(m_pHeap', N) /\ HeapTo(m_pHeap', N)
        /\ \/ Recs(m_pHeap', N) = Others(m_pHeap, n, pos)
           \/ \E r \in Rec :
                /\ r.ticket = m_pHeap[pos].ticket /\ r.m_iVisitedMark = m_iVisitedMark
                /\ Recs(m_pHeap', N) = Others(m_pHeap, n, pos) \cup {r}
  BY <1>1, VisitUnorderedArray
<1>6. m_nCurrent' = N
  BY <1>5, LengthIs DEF ArrayInv, m_nCurrent
<1>7. Unmarked(Recs(m_pHeap', N), m_iVisitedMark)
        = Unmarked(Recs(m_pHeap, n), m_iVisitedMark) \ {m_pHeap[pos].ticket}
  BY <1>2, <1>3, <1>4, <1>5, UnmarkedLess
<1>8. UnorderedInv'
  BY <1>1, <1>2, <1>4, <1>6, <1>7 DEF HeapInv, UnorderedInv
<1>9. pos' \in -1 .. Cardinality(Tickets)
  BY <1>1, <1>2, <1>4, LengthBound, TicketsFinite
<1>10. IdleInv' /\ OrderedInv' /\ m_iVisitedMark' \in 0 .. MarkMod - 1
  BY <1>2 DEF HeapInv, IdleInv, OrderedInv
<1> QED BY <1>2, <1>5, <1>6, <1>8, <1>9, <1>10 DEF HeapInv

(* A pass that found every record marked ends the traversal.               *)
LEMMA EndPassInv ==
  ASSUME HeapInv, EndPass
  PROVE  HeapInv'
<1>1. PICK n \in Nat : n = m_nCurrent /\ ArrayInv(m_pHeap, n)
  BY DEF HeapInv, ArrayInv
<1>2. /\ at = "unordered" /\ pos >= n
      /\ at' = (IF bUnvisitedRecords THEN "unordered" ELSE "idle")
      /\ pos' = 0 /\ bUnvisitedRecords' = FALSE
      /\ UNCHANGED <<m_pHeap, m_iVisitedMark, unseen>>
  BY <1>1 DEF EndPass
<1>3. m_nCurrent' = n
  BY <1>1, <1>2 DEF m_nCurrent
<1>4. pos' \in -1 .. Cardinality(Tickets)
  BY <1>2, TicketsFinite
<1>5. CASE bUnvisitedRecords
  <2>1. UnorderedInv'
    BY <1>1, <1>2, <1>3 DEF HeapInv, UnorderedInv
  <2>2. at' = "unordered"
    BY <1>2, <1>5
  <2> QED BY <1>1, <1>2, <1>3, <1>4, <2>1, <2>2 DEF HeapInv, IdleInv, OrderedInv
<1>6. CASE ~ bUnvisitedRecords
  <2>1. at' = "idle"
    BY <1>2, <1>6
  <2>2. ASSUME NEW r \in Recs(m_pHeap, n) PROVE r.m_iVisitedMark = m_iVisitedMark
    <3>1. PICK x \in 0 .. n - 1 : r = m_pHeap[x]
      BY DEF Recs
    <3>2. pos \in Int /\ x < pos
      BY <1>2 DEF HeapInv
    <3> QED BY <1>1, <1>2, <1>6, <3>1, <3>2 DEF HeapInv, UnorderedInv
  <2>3. unseen = {}
    <3>1. unseen = Unmarked(Recs(m_pHeap, n), m_iVisitedMark)
      BY <1>1, <1>2 DEF HeapInv, UnorderedInv
    <3> QED BY <2>2, <3>1 DEF Unmarked
  <2>4. m_iVisitedMark # 0 /\ m_iVisitedMark \in 0 .. MarkMod - 1
    BY <1>2 DEF HeapInv, UnorderedInv
  <2>5. Old(Recs(m_pHeap, n), m_iVisitedMark)
    BY <2>2, <2>4 DEF Old
  <2>6. IdleInv' /\ UnorderedInv' /\ OrderedInv'
    BY <1>2, <2>1, <2>3 DEF IdleInv, UnorderedInv, OrderedInv
  <2>7. HeapTo(m_pHeap, n)
    BY <1>1, <1>2 DEF HeapInv
  <2> QED BY <1>1, <1>2, <1>3, <1>4, <2>4, <2>5, <2>6, <2>7, HeapAssumption DEF HeapInv
<1> QED BY <1>5, <1>6

LEMMA StartOrderedInv ==
  ASSUME HeapInv, StartOrdered
  PROVE  HeapInv'
<1>1. PICK n \in Nat : /\ n = m_nCurrent /\ m_pHeap \in Arrays(n)
                       /\ Distinct(m_pHeap, n) /\ HeapTo(m_pHeap, n)
                       /\ Old(Recs(m_pHeap, n), m_iVisitedMark)
  BY DEF HeapInv, ArrayInv, StartOrdered
<1>2. /\ m_pHeap' = Sort(m_pHeap) /\ pos' = n - 1 /\ at' = "ordered"
      /\ unseen' = Held(m_pHeap)
      /\ UNCHANGED <<m_iVisitedMark, bUnvisitedRecords>>
  BY <1>1 DEF StartOrdered
<1>3. /\ m_pHeap' \in Arrays(n) /\ Rearranged(m_pHeap, m_pHeap', n, n)
      /\ SortedDownTo(m_pHeap', 0, n)
  BY <1>1, <1>2, SortFacts
<1>4. Recs(m_pHeap', n) = Recs(m_pHeap, n) /\ Distinct(m_pHeap', n)
  BY <1>1, <1>3 DEF Rearranged
<1>5. m_nCurrent' = n
  BY <1>3, LengthIs DEF m_nCurrent
<1>6. pos' \in -1 .. Cardinality(Tickets)
  <2>1. n <= Cardinality(Tickets)
    BY <1>1, LengthBound DEF ArrayInv
  <2> QED BY <1>2, <2>1, TicketsFinite
<1>7. OrderedInv'
  <2>1. Held(m_pHeap) = {m_pHeap'[x].ticket : x \in 0 .. n - 1}
    <3>1. Held(m_pHeap) = {r.ticket : r \in Recs(m_pHeap', n)}
      BY <1>1, <1>4, HeldIs
    <3> QED BY <3>1 DEF Recs
  <2>2. \A y \in 0 .. n - 1 : \A z \in 0 .. y - 1 : ~ Before(m_pHeap'[z], m_pHeap'[y])
    BY <1>3 DEF SortedDownTo
  <2> QED BY <1>2, <1>5, <2>1, <2>2 DEF OrderedInv
<1>8. ArrayInv(m_pHeap', n)
  BY <1>3, <1>4 DEF ArrayInv
<1>9. IdleInv' /\ UnorderedInv'
  BY <1>2 DEF IdleInv, UnorderedInv
<1> QED BY <1>1, <1>2, <1>4, <1>5, <1>6, <1>7, <1>8, <1>9 DEF HeapInv

(* The callback of TraverseOrdered may change the key of the record at     *)
(* pos, which the traversal has then passed.                               *)
LEMMA VisitOrderedArray ==
  ASSUME HeapInv, VisitOrdered, NEW n \in Nat, n = m_nCurrent
  PROVE  /\ pos \in 0 .. n - 1
         /\ \E q \in Rec :
              /\ q.ticket = m_pHeap[pos].ticket
              /\ q.m_iVisitedMark = m_pHeap[pos].m_iVisitedMark
              /\ Distinct(m_pHeap', n)
              /\ Replaced(m_pHeap', m_pHeap, n, pos, q)
<1>1. /\ pos \in 0 .. n - 1
      /\ m_pHeap \in Arrays(n) /\ Distinct(m_pHeap, n)
  BY DEF VisitOrdered, HeapInv, ArrayInv, OrderedInv
<1>2. m_pHeap[pos] \in Rec
  BY <1>1 DEF Arrays
<1>3. PICK k \in Keys : m_pHeap' = [m_pHeap EXCEPT ![pos].key = k]
  BY DEF VisitOrdered
<1>4. PICK q : q = [m_pHeap[pos] EXCEPT !.key = k]
  OBVIOUS
<1>5. /\ q \in Rec /\ q.ticket = m_pHeap[pos].ticket
      /\ q.m_iVisitedMark = m_pHeap[pos].m_iVisitedMark
  BY <1>2, <1>4 DEF Rec
<1>6. m_pHeap' = [m_pHeap EXCEPT ![pos] = q]
  BY <1>3, <1>4
<1>7. Replaced(m_pHeap', m_pHeap, n, pos, q)
  BY <1>1, <1>5, <1>6, RecsReplaced
<1>8. Distinct(m_pHeap', n)
  BY <1>1, <1>5, <1>6, DistinctReplaced
<1> QED BY <1>1, <1>5, <1>7, <1>8

LEMMA VisitOrderedInv ==
  ASSUME HeapInv, VisitOrdered
  PROVE  HeapInv'
<1>1. PICK n \in Nat : /\ n = m_nCurrent /\ m_pHeap \in Arrays(n) /\ Distinct(m_pHeap, n)
                       /\ Old(Recs(m_pHeap, n), m_iVisitedMark)
  BY DEF HeapInv, ArrayInv, VisitOrdered
<1>2. /\ at = "ordered" /\ pos' = pos - 1
      /\ unseen' = unseen \ {m_pHeap[pos].ticket}
      /\ UNCHANGED <<m_iVisitedMark, at, bUnvisitedRecords>>
  BY DEF VisitOrdered
<1>3. pos \in 0 .. n - 1
  BY <1>1, VisitOrderedArray
<1>4. PICK q \in Rec : /\ q.ticket = m_pHeap[pos].ticket
                       /\ q.m_iVisitedMark = m_pHeap[pos].m_iVisitedMark
                       /\ Distinct(m_pHeap', n)
                       /\ Replaced(m_pHeap', m_pHeap, n, pos, q)
  BY <1>1, VisitOrderedArray
<1>5. /\ m_pHeap' \in Arrays(n)
      /\ \A y \in 0 .. n - 1 : y # pos => m_pHeap'[y] = m_pHeap[y]
      /\ Recs(m_pHeap', n) = Others(m_pHeap, n, pos) \cup {q}
  BY <1>4 DEF Replaced
<1>6. m_nCurrent' = n
  BY <1>5, LengthIs DEF m_nCurrent
<1>7. Old(Recs(m_pHeap', n), m_iVisitedMark)
  <2>1. m_pHeap[pos] \in Recs(m_pHeap, n) /\ Others(m_pHeap, n, pos) \subseteq Recs(m_pHeap, n)
    BY <1>3 DEF Recs, Others
  <2> QED BY <1>1, <1>4, <1>5, <2>1 DEF Old
<1>8. pos' \in -1 .. Cardinality(Tickets)
  <2>1. n <= Cardinality(Tickets)
    BY <1>1, LengthBound DEF ArrayInv
  <2> QED BY <1>2, <1>3, <2>1, TicketsFinite
<1>9. OrderedInv'
  <2>1. /\ unseen = {m_pHeap[x].ticket : x \in 0 .. pos}
        /\ \A y \in 0 .. pos : \A z \in 0 .. y - 1 : ~ Before(m_pHeap[z], m_pHeap[y])
    BY <1>2 DEF HeapInv, OrderedInv
  <2>2. \A x \in 0 .. pos - 1 : x \in 0 .. n - 1 /\ x # pos /\ m_pHeap'[x] = m_pHeap[x]
    BY <1>3, <1>5
  <2>3. \A x \in 0 .. pos - 1 : m_pHeap[x].ticket # m_pHeap[pos].ticket
    BY <1>1, <1>3, <2>2 DEF Distinct
  <2>4. unseen \ {m_pHeap[pos].ticket} = {m_pHeap[x].ticket : x \in 0 .. pos - 1}
    <3>1. \A x \in 0 .. pos : x \in 0 .. pos - 1 \/ x = pos
      BY <1>3
    <3>2. \A x \in 0 .. pos - 1 : x \in 0 .. pos
      BY <1>3
    <3> QED BY <2>1, <2>3, <3>1, <3>2
  <2>5. {m_pHeap[x].ticket : x \in 0 .. pos - 1} = {m_pHeap'[x].ticket : x \in 0 .. pos - 1}
    BY <2>2
  <2>6. ASSUME NEW y \in 0 .. pos - 1, NEW z \in 0 .. y - 1
        PROVE  ~ Before(m_pHeap'[z], m_pHeap'[y])
    <3>1. y \in 0 .. pos /\ z \in 0 .. pos - 1
      BY <1>3
    <3> QED BY <2>1, <2>2, <3>1
  <2>7. pos - 1 < n
    BY <1>3
  <2> QED BY <1>2, <1>6, <2>4, <2>5, <2>6, <2>7 DEF OrderedInv
<1>10. IdleInv' /\ UnorderedInv' /\ m_iVisitedMark' \in 0 .. MarkMod - 1
  BY <1>2 DEF HeapInv, IdleInv, UnorderedInv
<1>11. ArrayInv(m_pHeap', n)
  BY <1>4, <1>5 DEF ArrayInv
<1> QED BY <1>2, <1>6, <1>7, <1>8, <1>9, <1>10, <1>11 DEF HeapInv

LEMMA EndOrderedInv ==
  ASSUME HeapInv, EndOrdered
  PROVE  HeapInv'
<1>1. PICK n \in Nat : /\ n = m_nCurrent /\ m_pHeap \in Arrays(n) /\ Distinct(m_pHeap, n)
                       /\ Old(Recs(m_pHeap, n), m_iVisitedMark)
  BY DEF HeapInv, ArrayInv, EndOrdered
<1>2. /\ m_pHeap' = Remake(m_pHeap) /\ at' = "idle" /\ pos' = 0 /\ unseen' = {}
      /\ UNCHANGED <<m_iVisitedMark, bUnvisitedRecords>>
  BY DEF EndOrdered
<1>3. /\ m_pHeap' \in Arrays(n) /\ Rearranged(m_pHeap, m_pHeap', n, n)
      /\ HeapTo(m_pHeap', n)
  BY <1>1, <1>2, RemakeFacts
<1>4. Recs(m_pHeap', n) = Recs(m_pHeap, n) /\ ArrayInv(m_pHeap', n)
  BY <1>1, <1>3 DEF Rearranged, ArrayInv
<1>5. m_nCurrent' = n
  BY <1>3, LengthIs DEF m_nCurrent
<1>6. pos' \in -1 .. Cardinality(Tickets)
  BY <1>2, TicketsFinite
<1>7. IdleInv' /\ UnorderedInv' /\ OrderedInv'
  BY <1>2 DEF IdleInv, UnorderedInv, OrderedInv
<1> QED BY <1>1, <1>2, <1>3, <1>4, <1>5, <1>6, <1>7 DEF HeapInv

LEMMA StutterInv ==
  ASSUME HeapInv, UNCHANGED heapVars
  PROVE  HeapInv'
BY DEF HeapInv, heapVars, m_nCurrent, ArrayInv, IdleInv, UnorderedInv, OrderedInv

LEMMA NextInv ==
  ASSUME HeapInv, [HeapNext]_heapVars
  PROVE  HeapInv'
<1>1. CASE \E ticket \in Tickets, key \in Keys : Insert(ticket, key)
  BY <1>1, InsertInv
<1>2. CASE RemoveTopmost
  BY <1>2, RemoveTopmostInv
<1>3. CASE StartUnordered
  BY <1>3, StartUnorderedInv
<1>4. CASE StartOrdered
  BY <1>4, StartOrderedInv
<1>5. CASE SkipVisited
  BY <1>5, SkipVisitedInv
<1>6. CASE VisitUnordered
  BY <1>6, VisitUnorderedInv
<1>7. CASE EndPass
  BY <1>7, EndPassInv
<1>8. CASE VisitOrdered
  BY <1>8, VisitOrderedInv
<1>9. CASE EndOrdered
  BY <1>9, EndOrderedInv
<1>10. CASE UNCHANGED heapVars
  BY <1>10, StutterInv
<1> QED
  BY <1>1, <1>2, <1>3, <1>4, <1>5, <1>6, <1>7, <1>8, <1>9, <1>10 DEF HeapNext, Traversal

(* The invariant of the heap, for any tickets, keys and range of marks:    *)
(* the array is a heap outside an ordered traversal, sorted as far as one  *)
(* has still to go, and the records a traversal has still to visit are     *)
(* those without its mark (timer.cpp:617-802).                             *)
THEOREM HeapInvariant == HeapSpec => []HeapInv
<1>1. HeapInv /\ [HeapNext]_heapVars => HeapInv'
  BY NextInv
<1> QED BY InitInv, <1>1, PTL DEF HeapSpec

LEMMA InvSound == HeapInv => HeapSound
<1> SUFFICES ASSUME HeapInv PROVE HeapSound
  OBVIOUS
<1>1. PICK n \in Nat : n = m_nCurrent /\ m_pHeap \in Arrays(n)
  BY DEF HeapInv, ArrayInv
<1>2. DOMAIN m_pHeap = 0 .. n - 1 /\ \A x \in 0 .. n - 1 : m_pHeap[x] \in Rec
  BY <1>1 DEF Arrays
<1>3. HeapTypeOK
  BY <1>1, <1>2 DEF HeapTypeOK, HeapInv, Rec
<1>4. HeapOrdered
  <2> SUFFICES ASSUME at # "ordered", NEW x \in DOMAIN m_pHeap \ {0}
               PROVE  ~ Before(m_pHeap[x], m_pHeap[Parent(x)])
    BY DEF HeapOrdered
  <2>1. x \in 1 .. n - 1
    BY <1>2
  <2>2. HeapTo(m_pHeap, n)
    BY <1>1 DEF HeapInv
  <2> QED BY <2>1, <2>2 DEF HeapTo, Settled
<1> QED BY <1>3, <1>4 DEF HeapSound

(* The heap is in order whatever the callbacks removed or changed: no      *)
(* record comes before its parent and there are no holes.                  *)
THEOREM HeapIsSound == HeapSpec => []HeapSound
BY HeapInvariant, InvSound, PTL

-----------------------------------------------------------------------------
(* What the traversals visit.                                              *)

LEMMA VisitsStep ==
  ASSUME HeapInv, HeapInv', [HeapNext]_heapVars
  PROVE  /\ VisitUnordered => m_pHeap[pos].ticket \in unseen
         /\ at = "unordered" /\ at' = "idle" => unseen = {}
         /\ at = "ordered" /\ at' = "ordered" =>
              \A x \in 0 .. pos - 1 : Before(m_pHeap[pos], m_pHeap[x])
<1>1. PICK n \in Nat : n = m_nCurrent /\ m_pHeap \in Arrays(n) /\ Distinct(m_pHeap, n)
  BY DEF HeapInv, ArrayInv
<1>2. ASSUME VisitUnordered PROVE m_pHeap[pos].ticket \in unseen
  <2>1. pos \in 0 .. n - 1
    BY <1>1, <1>2, VisitUnorderedArray
  <2>2. unseen = Unmarked(Recs(m_pHeap, n), m_iVisitedMark)
    BY <1>1, <1>2 DEF VisitUnordered, InPass, HeapInv, UnorderedInv
  <2>3. m_pHeap[pos].m_iVisitedMark # m_iVisitedMark
    BY <1>2 DEF VisitUnordered
  <2> QED BY <2>1, <2>2, <2>3 DEF Unmarked, Recs
<1>3. ASSUME at = "unordered", at' = "idle" PROVE unseen = {}
  <2>1. EndPass
    BY <1>3 DEF HeapNext, Traversal, Insert, RemoveTopmost, StartUnordered, StartOrdered,
                SkipVisited, VisitUnordered, VisitOrdered, EndOrdered, heapVars
  <2>2. unseen' = unseen
    BY <2>1 DEF EndPass
  <2>3. unseen' = {}
    BY <1>3 DEF HeapInv, IdleInv
  <2> QED BY <2>2, <2>3
<1>4. ASSUME at = "ordered", NEW x \in 0 .. pos - 1
      PROVE  Before(m_pHeap[pos], m_pHeap[x])
  <2>1. /\ pos < n /\ pos \in Int
        /\ \A y \in 0 .. pos : \A z \in 0 .. y - 1 : ~ Before(m_pHeap[z], m_pHeap[y])
    BY <1>1, <1>4 DEF HeapInv, OrderedInv
  <2>2. pos \in 0 .. n - 1 /\ x \in 0 .. n - 1 /\ x # pos /\ pos \in 0 .. pos
    BY <2>1
  <2>3. m_pHeap[pos].ticket # m_pHeap[x].ticket
    BY <1>1, <2>2 DEF Distinct
  <2>4. m_pHeap[pos] \in Rec /\ m_pHeap[x] \in Rec
    BY <1>1, <2>2 DEF Arrays
  <2> QED BY <2>1, <2>2, <2>3, <2>4, BeforeTotal
<1> QED BY <1>2, <1>3, <1>4

(* A traversal visits each record exactly once, or in order, whatever the  *)
(* callbacks remove, change or move, and across a rollover of the marks    *)
(* (timer.cpp:700-778).                                                    *)
THEOREM TraversalsVisit == HeapSpec => Visits
<1>1. HeapInv /\ HeapInv' /\ [HeapNext]_heapVars
        => [/\ VisitUnordered => m_pHeap[pos].ticket \in unseen
            /\ at = "unordered" /\ at' = "idle" => unseen = {}]_heapVars
  BY VisitsStep
<1>2. HeapInv /\ HeapInv' /\ [HeapNext]_heapVars
        => [at = "ordered" /\ at' = "ordered" =>
              \A x \in 0 .. pos - 1 : Before(m_pHeap[pos], m_pHeap[x])]_heapVars
  BY VisitsStep
<1>3. HeapSpec => VisitsExactlyOnce
  BY <1>1, HeapInvariant, PTL DEF HeapSpec, VisitsExactlyOnce
<1>4. HeapSpec => VisitsInOrder
  BY <1>2, HeapInvariant, PTL DEF HeapSpec, VisitsInOrder
<1> QED BY <1>3, <1>4 DEF Visits

-----------------------------------------------------------------------------
(* The array implements the set of tasks.                                  *)

KeyMap(h) == [t \in Held(h) |-> h[CHOOSE x \in DOMAIN h : h[x].ticket = t].key]

\* F gives the key of each ticket of the records R.
KeysOf(F, R) ==
  /\ F = [t \in {r.ticket : r \in R} |-> F[t]]
  /\ \A r \in R : F[r.ticket] = r.key

LEMMA KeyMapFacts ==
  ASSUME NEW n \in Nat, NEW h, ArrayInv(h, n)
  PROVE  KeysOf(KeyMap(h), Recs(h, n)) /\ DOMAIN KeyMap(h) = Held(h)
<1>1. h \in Arrays(n) /\ Distinct(h, n) /\ DOMAIN h = 0 .. n - 1
  BY DEF ArrayInv, Arrays
<1>2. Held(h) = {r.ticket : r \in Recs(h, n)}
  BY <1>1, HeldIs
<1>3. PICK F : F = KeyMap(h)
  OBVIOUS
<1>4. DOMAIN F = Held(h) /\ F = [t \in Held(h) |-> F[t]]
  BY <1>3 DEF KeyMap
<1>5. ASSUME NEW r \in Recs(h, n) PROVE F[r.ticket] = r.key
  <2>1. PICK y \in 0 .. n - 1 : r = h[y]
    BY DEF Recs
  <2>2. r.ticket \in Held(h)
    BY <1>2
  <2>3. PICK c : c = CHOOSE x \in DOMAIN h : h[x].ticket = r.ticket
    OBVIOUS
  <2>4. c \in DOMAIN h /\ h[c].ticket = r.ticket
    BY <1>1, <2>1, <2>3
  <2>5. c = y
    BY <1>1, <2>1, <2>4 DEF Distinct
  <2>6. F[r.ticket] = h[c].key
    BY <1>3, <2>2, <2>3 DEF KeyMap
  <2> QED BY <2>1, <2>5, <2>6
<1> QED BY <1>2, <1>3, <1>4, <1>5 DEF KeysOf

LEMMA KeysUnique ==
  ASSUME NEW R, NEW F, NEW G, KeysOf(F, R), KeysOf(G, R)
  PROVE  F = G
<1> DEFINE D == {r.ticket : r \in R}
<1>1. F = [t \in D |-> F[t]] /\ G = [t \in D |-> G[t]]
  BY DEF KeysOf
<1>2. \A t \in D : F[t] = G[t]
  BY DEF KeysOf
<1> HIDE DEF D
<1> QED BY <1>1, <1>2

LEMMA KeysAdded ==
  ASSUME NEW R, NEW F, KeysOf(F, R), NEW r, \A q \in R : q.ticket # r.ticket
  PROVE  KeysOf([u \in DOMAIN F \cup {r.ticket} |-> IF u = r.ticket THEN r.key ELSE F[u]],
                R \cup {r})
<1> DEFINE D == {q.ticket : q \in R}
           G == [u \in DOMAIN F \cup {r.ticket} |-> IF u = r.ticket THEN r.key ELSE F[u]]
<1>1. DOMAIN F = D /\ \A q \in R : F[q.ticket] = q.key /\ q.ticket \in D
  BY DEF KeysOf
<1>2. {q.ticket : q \in R \cup {r}} = D \cup {r.ticket}
  OBVIOUS
<1>3. ASSUME NEW q \in R \cup {r} PROVE G[q.ticket] = q.key
  BY <1>1
<1>4. G = [u \in D \cup {r.ticket} |-> G[u]]
  BY <1>1
<1> HIDE DEF D, G
<1>5. KeysOf(G, R \cup {r})
  BY <1>2, <1>3, <1>4 DEF KeysOf
<1> QED BY <1>5 DEF G

LEMMA KeysLess ==
  ASSUME NEW n \in Nat, NEW h, ArrayInv(h, n), NEW p \in 0 .. n - 1,
         NEW F, KeysOf(F, Recs(h, n))
  PROVE  KeysOf([u \in DOMAIN F \ {h[p].ticket} |-> F[u]], Others(h, n, p))
<1> DEFINE D == {q.ticket : q \in Recs(h, n)}
           G == [u \in DOMAIN F \ {h[p].ticket} |-> F[u]]
<1>1. DOMAIN F = D /\ \A q \in Recs(h, n) : F[q.ticket] = q.key /\ q.ticket \in D
  BY DEF KeysOf
<1>2. \A y \in 0 .. n - 1 : h[y].ticket = h[p].ticket => y = p
  BY DEF ArrayInv, Distinct
<1>3. ASSUME NEW q \in Others(h, n, p) PROVE q \in Recs(h, n) /\ q.ticket # h[p].ticket
  BY <1>2 DEF Others, Recs
<1>4. {q.ticket : q \in Others(h, n, p)} = D \ {h[p].ticket}
  <2>1. ASSUME NEW t \in D \ {h[p].ticket} PROVE t \in {q.ticket : q \in Others(h, n, p)}
    <3>1. PICK y \in 0 .. n - 1 : t = h[y].ticket
      BY DEF Recs
    <3> QED BY <3>1 DEF Others
  <2> QED BY <1>3, <2>1
<1>5. ASSUME NEW q \in Others(h, n, p) PROVE G[q.ticket] = q.key
  BY <1>1, <1>3
<1>6. G = [u \in D \ {h[p].ticket} |-> G[u]]
  BY <1>1
<1> HIDE DEF D, G
<1>7. KeysOf(G, Others(h, n, p))
  BY <1>4, <1>5, <1>6 DEF KeysOf
<1> QED BY <1>7 DEF G

LEMMA KeysChanged ==
  ASSUME NEW n \in Nat, NEW h, ArrayInv(h, n), NEW p \in 0 .. n - 1,
         NEW F, KeysOf(F, Recs(h, n)), NEW q, q.ticket = h[p].ticket
  PROVE  KeysOf([F EXCEPT ![h[p].ticket] = q.key], Others(h, n, p) \cup {q})
<1> DEFINE D == {r.ticket : r \in Recs(h, n)}
           G == [F EXCEPT ![h[p].ticket] = q.key]
<1>1. DOMAIN F = D /\ \A r \in Recs(h, n) : F[r.ticket] = r.key /\ r.ticket \in D
  BY DEF KeysOf
<1>2. \A y \in 0 .. n - 1 : h[y].ticket = h[p].ticket => y = p
  BY DEF ArrayInv, Distinct
<1>3. ASSUME NEW r \in Others(h, n, p) PROVE r \in Recs(h, n) /\ r.ticket # h[p].ticket
  BY <1>2 DEF Others, Recs
<1>4. h[p].ticket \in D
  BY DEF Recs
<1>5. {r.ticket : r \in Others(h, n, p) \cup {q}} = D
  <2>1. ASSUME NEW t \in D PROVE t \in {r.ticket : r \in Others(h, n, p) \cup {q}}
    <3>1. PICK y \in 0 .. n - 1 : t = h[y].ticket
      BY DEF Recs
    <3> QED BY <3>1 DEF Others
  <2>2. ASSUME NEW r \in Others(h, n, p) \cup {q} PROVE r.ticket \in D
    BY <1>1, <1>3, <1>4
  <2> HIDE DEF D
  <2> QED BY <2>1, <2>2
<1>6. ASSUME NEW r \in Others(h, n, p) \cup {q} PROVE G[r.ticket] = r.key
  BY <1>1, <1>3, <1>4
<1>7. G = [u \in D |-> G[u]]
  BY <1>1
<1> HIDE DEF D, G
<1>8. KeysOf(G, Others(h, n, p) \cup {q})
  BY <1>5, <1>6, <1>7 DEF KeysOf
<1> QED BY <1>8 DEF G

(* The map of an array is known from its records.                          *)
LEMMA KeyMapIs ==
  ASSUME NEW n \in Nat, NEW h, ArrayInv(h, n), NEW F, KeysOf(F, Recs(h, n))
  PROVE  KeyMap(h) = F
BY KeyMapFacts, KeysUnique

LEMMA KeyOfIs == KeyOf = KeyMap(m_pHeap) /\ KeyOf' = KeyMap(m_pHeap')
BY DEF KeyOf, KeyMap

LEMMA HeldTickets ==
  ASSUME NEW n \in Nat, NEW h, ArrayInv(h, n)
  PROVE  /\ DOMAIN KeyMap(h) \subseteq Tickets
         /\ \A y \in 0 .. n - 1 : h[y].ticket \in DOMAIN KeyMap(h) /\ h[y] \in Rec
<1>1. h \in Arrays(n)
  BY DEF ArrayInv
<1>2. DOMAIN KeyMap(h) = {r.ticket : r \in Recs(h, n)} /\ DOMAIN KeyMap(h) \subseteq Tickets
  BY <1>1, HeldIs, KeyMapFacts
<1>3. \A y \in 0 .. n - 1 : h[y] \in Rec /\ h[y] \in Recs(h, n)
  BY <1>1 DEF Arrays, Recs
<1> QED BY <1>2, <1>3

(* The state of an array that keeps its records is that of the same tasks. *)
LEMMA SameKeys ==
  ASSUME NEW n \in Nat, NEW g, NEW h, ArrayInv(g, n), ArrayInv(h, n),
         Recs(h, n) = Recs(g, n)
  PROVE  KeyMap(h) = KeyMap(g)
<1>1. KeysOf(KeyMap(g), Recs(h, n))
  BY KeyMapFacts
<1> QED BY <1>1, KeyMapIs

LEMMA InsertSet ==
  ASSUME HeapInv, HeapInv', NEW ticket \in Tickets, NEW key \in Keys, Insert(ticket, key)
  PROVE  Set!Next
<1>1. PICK n \in Nat : n = m_nCurrent /\ ArrayInv(m_pHeap, n)
  BY DEF HeapInv, ArrayInv
<1>2. PICK N \in Nat, r \in Rec :
        /\ ArrayInv(m_pHeap', N) /\ r.ticket = ticket /\ r.key = key
        /\ Recs(m_pHeap', N) = Recs(m_pHeap, n) \cup {r}
  BY <1>1, InsertArray
<1>3. at = "idle" /\ ticket \notin Held(m_pHeap) /\ unseen' = unseen
  BY DEF Insert
<1>4. unseen = {}
  BY <1>3 DEF HeapInv, IdleInv
<1>5. PICK F : F = KeyMap(m_pHeap)
  OBVIOUS
<1>6. KeysOf(F, Recs(m_pHeap, n)) /\ DOMAIN F = Held(m_pHeap)
  BY <1>1, <1>5, KeyMapFacts
<1>7. \A q \in Recs(m_pHeap, n) : q.ticket # r.ticket
  <2>1. Held(m_pHeap) = {q.ticket : q \in Recs(m_pHeap, n)}
    BY <1>1, HeldIs DEF ArrayInv
  <2> QED BY <1>2, <1>3, <2>1
<1>8. PICK G : G = [u \in DOMAIN F \cup {r.ticket} |-> IF u = r.ticket THEN r.key ELSE F[u]]
  OBVIOUS
<1>9. KeysOf(G, Recs(m_pHeap', N))
  BY <1>2, <1>6, <1>7, <1>8, KeysAdded
<1>10. KeyMap(m_pHeap') = G
  BY <1>2, <1>9, KeyMapIs
<1>11. ticket \in Tickets \ DOMAIN KeyOf
  BY <1>3, <1>5, <1>6, KeyOfIs
<1>12. KeyOf' = [u \in DOMAIN KeyOf \cup {ticket} |-> IF u = ticket THEN key ELSE KeyOf[u]]
  BY <1>2, <1>5, <1>8, <1>10, KeyOfIs
<1>13. Set!Insert
  BY <1>11, <1>12 DEF Set!Insert
<1> QED BY <1>3, <1>4, <1>13 DEF Set!Next

LEMMA RemoveTopmostSet ==
  ASSUME HeapInv, HeapInv', RemoveTopmost
  PROVE  Set!Next
<1>1. PICK N \in Nat : N = m_nCurrent /\ ArrayInv(m_pHeap, N)
  BY DEF HeapInv, ArrayInv
<1>2. PICK n \in Nat : ArrayInv(m_pHeap', n) /\ Recs(m_pHeap', n) = Others(m_pHeap, N, 0)
  BY <1>1, RemoveTopmostArray
<1>3. 0 \in 0 .. N - 1
  BY <1>1, RemoveTopmostArray
<1>4. at = "idle" /\ unseen' = unseen /\ unseen = {}
  BY DEF RemoveTopmost, HeapInv, IdleInv
<1>5. PICK F : F = KeyMap(m_pHeap)
  OBVIOUS
<1>6. KeysOf(F, Recs(m_pHeap, N))
  BY <1>1, <1>5, KeyMapFacts
<1>7. PICK o \in 0 .. N - 1 : o = 0
  BY <1>3
<1>8. PICK t : t = m_pHeap[o].ticket
  OBVIOUS
<1>9. KeysOf([u \in DOMAIN F \ {t} |-> F[u]], Others(m_pHeap, N, o))
  BY <1>1, <1>6, <1>8, KeysLess
<1>10. KeyMap(m_pHeap') = [u \in DOMAIN F \ {t} |-> F[u]]
  BY <1>2, <1>7, <1>9, KeyMapIs
<1>11. t \in DOMAIN F
  BY <1>1, <1>5, <1>8, HeldTickets
<1>12. ASSUME NEW u \in DOMAIN F \ {t}
       PROVE  F[t] < F[u] \/ (F[t] = F[u] /\ t < u)
  <2>1. PICK r \in Recs(m_pHeap, N) : u = r.ticket
    BY <1>6 DEF KeysOf
  <2>2. PICK y \in 0 .. N - 1 : r = m_pHeap[y]
    BY <2>1 DEF Recs
  <2>3. m_pHeap \in Arrays(N) /\ HeapTo(m_pHeap, N) /\ N \in 0 .. N
    BY <1>1, <1>4 DEF ArrayInv, HeapInv
  <2>4. ~ Before(m_pHeap[y], m_pHeap[0])
    BY <2>3, TopmostFirst
  <2>5. m_pHeap[o] \in Rec /\ m_pHeap[y] \in Rec
    BY <1>1, HeldTickets
  <2>6. Before(m_pHeap[o], m_pHeap[y])
    BY <1>7, <1>8, <1>12, <2>1, <2>2, <2>4, <2>5, BeforeTotal
  <2>7. F[t] = m_pHeap[o].key /\ F[u] = m_pHeap[y].key
    <3>1. m_pHeap[o] \in Recs(m_pHeap, N) /\ m_pHeap[y] \in Recs(m_pHeap, N)
      BY DEF Recs
    <3> QED BY <1>6, <1>8, <2>1, <2>2, <3>1 DEF KeysOf
  <2> QED BY <1>8, <2>1, <2>2, <2>6, <2>7 DEF Before
<1>13. Set!RemoveTopmost
  <2>1. \A u \in DOMAIN KeyOf \ {t} : Set!Precedes(t, u)
    BY <1>5, <1>12, KeyOfIs DEF Set!Precedes
  <2>2. KeyOf' = Set!Without(t)
    BY <1>5, <1>10, KeyOfIs DEF Set!Without
  <2>3. t \in DOMAIN KeyOf
    BY <1>5, <1>11, KeyOfIs
  <2> QED BY <2>1, <2>2, <2>3 DEF Set!RemoveTopmost
<1> QED BY <1>4, <1>13 DEF Set!Next

LEMMA StartUnorderedSet ==
  ASSUME HeapInv, HeapInv', StartUnordered
  PROVE  Set!Next
<1>1. PICK n \in Nat : n = m_nCurrent /\ ArrayInv(m_pHeap, n)
  BY DEF HeapInv, ArrayInv
<1>2. PICK N \in Nat : ArrayInv(m_pHeap', N)
  BY DEF HeapInv, ArrayInv
<1>3. /\ at = "idle" /\ unseen' = Held(m_pHeap)
      /\ \/ m_pHeap' = [x \in DOMAIN m_pHeap |-> [m_pHeap[x] EXCEPT !.m_iVisitedMark = 0]]
         \/ m_pHeap' = m_pHeap
  BY DEF StartUnordered
<1>4. DOMAIN m_pHeap' = DOMAIN m_pHeap
  BY <1>3
<1>5. N = n
  BY <1>1, <1>2, <1>4, LengthIs DEF ArrayInv
<1>6. ASSUME NEW x \in 0 .. n - 1
      PROVE  m_pHeap'[x].ticket = m_pHeap[x].ticket /\ m_pHeap'[x].key = m_pHeap[x].key
  <2>1. m_pHeap[x] \in Rec /\ x \in DOMAIN m_pHeap
    BY <1>1 DEF ArrayInv, Arrays
  <2> QED BY <1>3, <2>1 DEF Rec
<1>7. PICK F : F = KeyMap(m_pHeap)
  OBVIOUS
<1>8. /\ F = [t \in {r.ticket : r \in Recs(m_pHeap, n)} |-> F[t]]
      /\ \A r \in Recs(m_pHeap, n) : F[r.ticket] = r.key
      /\ DOMAIN F = Held(m_pHeap)
  BY <1>1, <1>7, KeyMapFacts DEF KeysOf
<1>9. KeysOf(F, Recs(m_pHeap', n))
  <2>1. {r.ticket : r \in Recs(m_pHeap', n)} = {r.ticket : r \in Recs(m_pHeap, n)}
    BY <1>6 DEF Recs
  <2>2. \A r \in Recs(m_pHeap', n) : F[r.ticket] = r.key
    BY <1>6, <1>8 DEF Recs
  <2> QED BY <1>8, <2>1, <2>2 DEF KeysOf
<1>10. KeyMap(m_pHeap') = F
  BY <1>2, <1>5, <1>9, KeyMapIs
<1>11. unseen = {}
  BY <1>3 DEF HeapInv, IdleInv
<1>12. Set!StartTraversal
  BY <1>3, <1>7, <1>8, <1>10, <1>11, KeyOfIs DEF Set!StartTraversal
<1> QED BY <1>12 DEF Set!Next

LEMMA StartOrderedSet ==
  ASSUME HeapInv, HeapInv', StartOrdered
  PROVE  Set!Next
<1>1. PICK n \in Nat : n = m_nCurrent /\ ArrayInv(m_pHeap, n)
  BY DEF HeapInv, ArrayInv
<1>2. at = "idle" /\ unseen' = Held(m_pHeap) /\ m_pHeap' = Sort(m_pHeap)
  BY DEF StartOrdered
<1>3. m_pHeap' \in Arrays(n) /\ Rearranged(m_pHeap, m_pHeap', n, n)
  BY <1>1, <1>2, SortFacts DEF HeapInv, ArrayInv
<1>4. ArrayInv(m_pHeap', n) /\ Recs(m_pHeap', n) = Recs(m_pHeap, n)
  BY <1>1, <1>3 DEF ArrayInv, Rearranged
<1>5. KeyMap(m_pHeap') = KeyMap(m_pHeap) /\ DOMAIN KeyMap(m_pHeap) = Held(m_pHeap)
  BY <1>1, <1>4, SameKeys, KeyMapFacts
<1>6. unseen = {}
  BY <1>2 DEF HeapInv, IdleInv
<1>7. Set!StartTraversal
  BY <1>2, <1>5, <1>6, KeyOfIs DEF Set!StartTraversal
<1> QED BY <1>7 DEF Set!Next

LEMMA EndOrderedSet ==
  ASSUME HeapInv, HeapInv', EndOrdered
  PROVE  Set!Next
<1>1. PICK n \in Nat : n = m_nCurrent /\ ArrayInv(m_pHeap, n)
  BY DEF HeapInv, ArrayInv
<1>2. m_pHeap' = Remake(m_pHeap) /\ unseen' = {}
  BY DEF EndOrdered
<1>3. m_pHeap' \in Arrays(n) /\ Rearranged(m_pHeap, m_pHeap', n, n)
  BY <1>1, <1>2, RemakeFacts DEF ArrayInv
<1>4. ArrayInv(m_pHeap', n) /\ Recs(m_pHeap', n) = Recs(m_pHeap, n)
  BY <1>1, <1>3 DEF ArrayInv, Rearranged
<1>5. KeyMap(m_pHeap') = KeyMap(m_pHeap)
  BY <1>1, <1>4, SameKeys
<1>6. Set!StopTraversal
  BY <1>2, <1>5, KeyOfIs DEF Set!StopTraversal
<1> QED BY <1>6 DEF Set!Next

(* The record that is visited keeps its ticket, or leaves.                 *)
LEMMA VisitSet ==
  ASSUME NEW n \in Nat, n = m_nCurrent, ArrayInv(m_pHeap, n), pos \in 0 .. n - 1,
         NEW N \in Nat, ArrayInv(m_pHeap', N),
         \/ Recs(m_pHeap', N) = Others(m_pHeap, n, pos)
         \/ \E q \in Rec : /\ q.ticket = m_pHeap[pos].ticket
                           /\ Recs(m_pHeap', N) = Others(m_pHeap, n, pos) \cup {q},
         m_pHeap[pos].ticket \in unseen, unseen' = unseen \ {m_pHeap[pos].ticket}
  PROVE  Set!Next
<1>1. PICK F : F = KeyMap(m_pHeap)
  OBVIOUS
<1>2. KeysOf(F, Recs(m_pHeap, n))
  BY <1>1, KeyMapFacts
<1>3. PICK t : t = m_pHeap[pos].ticket
  OBVIOUS
<1>4. CASE Recs(m_pHeap', N) = Others(m_pHeap, n, pos)
  <2>1. KeysOf([u \in DOMAIN F \ {t} |-> F[u]], Others(m_pHeap, n, pos))
    BY <1>2, <1>3, KeysLess
  <2>2. KeyMap(m_pHeap') = [u \in DOMAIN F \ {t} |-> F[u]]
    BY <1>4, <2>1, KeyMapIs
  <2>3. KeyOf' = Set!Without(t)
    BY <1>1, <2>2, KeyOfIs DEF Set!Without
  <2>4. Set!Visit
    BY <1>3, <2>3 DEF Set!Visit
  <2> QED BY <2>4 DEF Set!Next
<1>5. CASE \E q \in Rec : /\ q.ticket = m_pHeap[pos].ticket
                          /\ Recs(m_pHeap', N) = Others(m_pHeap, n, pos) \cup {q}
  <2>1. PICK q \in Rec : /\ q.ticket = m_pHeap[pos].ticket
                         /\ Recs(m_pHeap', N) = Others(m_pHeap, n, pos) \cup {q}
    BY <1>5
  <2>2. PICK G : G = [F EXCEPT ![t] = q.key]
    OBVIOUS
  <2>3. KeysOf(G, Others(m_pHeap, n, pos) \cup {q})
    BY <1>2, <1>3, <2>1, <2>2, KeysChanged
  <2>4. KeyMap(m_pHeap') = G
    BY <2>1, <2>3, KeyMapIs
  <2>5. KeyOf' = [KeyOf EXCEPT ![t] = q.key] /\ q.key \in Keys
    BY <1>1, <2>2, <2>4, KeyOfIs DEF Rec
  <2>6. Set!Visit
    BY <1>3, <2>5 DEF Set!Visit
  <2> QED BY <2>6 DEF Set!Next
<1> QED BY <1>4, <1>5

LEMMA VisitUnorderedSet ==
  ASSUME HeapInv, HeapInv', VisitUnordered
  PROVE  Set!Next
<1>1. PICK n \in Nat : n = m_nCurrent /\ ArrayInv(m_pHeap, n)
  BY DEF HeapInv, ArrayInv
<1>2. pos \in 0 .. n - 1
  BY <1>1, VisitUnorderedArray
<1>3. PICK N \in Nat :
        /\ ArrayInv(m_pHeap', N)
        /\ \/ Recs(m_pHeap', N) = Others(m_pHeap, n, pos)
           \/ \E r \in Rec :
                /\ r.ticket = m_pHeap[pos].ticket
                /\ Recs(m_pHeap', N) = Others(m_pHeap, n, pos) \cup {r}
  BY <1>1, VisitUnorderedArray
<1>4. m_pHeap[pos].ticket \in unseen
  BY VisitsStep DEF HeapNext, Traversal
<1>5. unseen' = unseen \ {m_pHeap[pos].ticket}
  BY DEF VisitUnordered
<1> QED BY <1>1, <1>2, <1>3, <1>4, <1>5, VisitSet

LEMMA VisitOrderedSet ==
  ASSUME HeapInv, HeapInv', VisitOrdered
  PROVE  Set!Next
<1>1. PICK n \in Nat : n = m_nCurrent /\ ArrayInv(m_pHeap, n)
  BY DEF HeapInv, ArrayInv
<1>2. pos \in 0 .. n - 1
  BY <1>1, VisitOrderedArray
<1>3. PICK q \in Rec : /\ q.ticket = m_pHeap[pos].ticket
                       /\ Distinct(m_pHeap', n)
                       /\ Replaced(m_pHeap', m_pHeap, n, pos, q)
  BY <1>1, VisitOrderedArray
<1>4. /\ ArrayInv(m_pHeap', n)
      /\ Recs(m_pHeap', n) = Others(m_pHeap, n, pos) \cup {q}
  BY <1>3 DEF Replaced, ArrayInv
<1>5. unseen = {m_pHeap[x].ticket : x \in 0 .. pos}
  BY DEF VisitOrdered, HeapInv, OrderedInv
<1>6. m_pHeap[pos].ticket \in unseen
  BY <1>2, <1>5
<1>7. unseen' = unseen \ {m_pHeap[pos].ticket}
  BY DEF VisitOrdered
<1> QED BY <1>1, <1>2, <1>3, <1>4, <1>6, <1>7, VisitSet

LEMMA NextSet ==
  ASSUME HeapInv, HeapInv', [HeapNext]_heapVars
  PROVE  [Set!Next]_<<KeyOf, unseen>>
<1>1. CASE \E ticket \in Tickets, key \in Keys : Insert(ticket, key)
  BY <1>1, InsertSet
<1>2. CASE RemoveTopmost
  BY <1>2, RemoveTopmostSet
<1>3. CASE StartUnordered
  BY <1>3, StartUnorderedSet
<1>4. CASE StartOrdered
  BY <1>4, StartOrderedSet
<1>5. CASE VisitUnordered
  BY <1>5, VisitUnorderedSet
<1>6. CASE VisitOrdered
  BY <1>6, VisitOrderedSet
<1>7. CASE EndOrdered
  BY <1>7, EndOrderedSet
<1>8. CASE SkipVisited \/ EndPass \/ UNCHANGED heapVars
  <2>1. m_pHeap' = m_pHeap /\ unseen' = unseen
    BY <1>8 DEF SkipVisited, EndPass, heapVars
  <2>2. KeyOf' = KeyOf
    BY <2>1, KeyOfIs
  <2> QED BY <2>1, <2>2
<1> QED
  BY <1>1, <1>2, <1>3, <1>4, <1>5, <1>6, <1>7, <1>8 DEF HeapNext, Traversal

LEMMA InitSet == HeapInit => Set!Init
<1> SUFFICES ASSUME HeapInit PROVE Set!Init
  OBVIOUS
<1>1. Held(m_pHeap) = {}
  BY DEF HeapInit, Held
<1>2. KeyOf = [t \in {} |-> 0]
  BY <1>1 DEF KeyOf
<1> QED BY <1>2 DEF HeapInit, Set!Init

(* The heap implements the set of tasks that its users take it for: what   *)
(* SiftUp and SiftDown move, and what a rollover of the marks changes, is  *)
(* not seen from outside; the topmost record is the one no other precedes; *)
(* a callback touches one record that the traversal has not yet visited    *)
(* (timer.cpp:585-802).                                                    *)
THEOREM ImplementsSet == HeapSpec => ImplementsTaskSet
<1>1. HeapInv /\ HeapInv' /\ [HeapNext]_heapVars => [Set!Next]_<<KeyOf, unseen>>
  BY NextSet
<1> QED BY InitSet, <1>1, HeapInvariant, PTL DEF HeapSpec, ImplementsTaskSet, Set!Spec
=============================================================================
