------------------------------ MODULE WireProofs ------------------------------
(***************************************************************************)
(* Proofs about a connection.                                              *)
(*                                                                         *)
(* Input and Output, for any sizes of lines, blocks and limits: input does *)
(* not depend on how it is cut into reads, input and output are accounted  *)
(* for, and the queue of output is bounded.                                *)
(*                                                                         *)
(* Telnet: the negotiation of options ends in agreement, however often a   *)
(* client asks and whatever crosses on the way.  Each side of each option  *)
(* is a conversation of its own within the two directions of the           *)
(* connection.  The messages about it that are on their way, in their      *)
(* order, and what both ends think of it take only twelve forms (InStep).  *)
(***************************************************************************)
EXTENDS Telnet, Input, Output, Totals, SequenceTheorems, FiniteSetTheorems, TLAPS

-----------------------------------------------------------------------------
(* Totals of sequences.                                                    *)

LEMMA DisjointUnion ==
  ASSUME NEW S, IsFiniteSet(S), NEW T, IsFiniteSet(T), S \cap T = {}
  PROVE  /\ IsFiniteSet(S \cup T) /\ Cardinality(S \cup T) = Cardinality(S) + Cardinality(T)
<1>1. Cardinality(S \cap T) = 0
  BY FS_EmptySet
<1>2. Cardinality(S) \in Nat /\ Cardinality(T) \in Nat
  BY FS_CardinalityType
<1>3. IsFiniteSet(S \cup T)
      /\ Cardinality(S \cup T) = Cardinality(S) + Cardinality(T) - Cardinality(S \cap T)
  BY FS_Union
<1>. QED
  BY <1>1, <1>2, <1>3

LEMMA SubsetRemoved ==
  ASSUME NEW S, IsFiniteSet(S), NEW T \in SUBSET S
  PROVE  /\ IsFiniteSet(S \ T) /\ Cardinality(S \ T) = Cardinality(S) - Cardinality(T)
<1>1. S \cap T = T
  OBVIOUS
<1>. QED
  BY <1>1, FS_Difference

LEMMA UnitsMembers ==
  ASSUME NEW s \in Seq(Nat), NEW u
  PROVE  u \in Units(s) <=>
           u = <<u[1], u[2]>> /\ u[1] \in 1 .. Len(s) /\ u[2] \in 1 .. s[u[1]]
<1>1. DOMAIN s = 1 .. Len(s)
  OBVIOUS
<1>2. u \in Units(s) <=> \E i \in 1 .. Len(s) : u \in {i} \X (1 .. s[i])
  BY <1>1 DEF Units
<1>3. \A i : u \in {i} \X (1 .. s[i]) <=> u = <<u[1], u[2]>> /\ u[1] = i /\ u[2] \in 1 .. s[i]
  OBVIOUS
<1>. QED
  BY <1>2, <1>3

LEMMA ColumnMembers ==
  ASSUME NEW i, NEW n, NEW u
  PROVE  u \in {i} \X (1 .. n) <=> u = <<u[1], u[2]>> /\ u[1] = i /\ u[2] \in 1 .. n
OBVIOUS

(* One number counts its own units. *)
LEMMA Column ==
  ASSUME NEW i, NEW n \in Nat
  PROVE  IsFiniteSet({i} \X (1 .. n)) /\ Cardinality({i} \X (1 .. n)) = n
<1>1. IsFiniteSet({i}) /\ Cardinality({i}) = 1
  BY FS_Singleton
<1>2. IsFiniteSet(1 .. n) /\ Cardinality(1 .. n) = n
  BY FS_Interval
<1>3. Cardinality({i} \X (1 .. n)) = 1 * n /\ 1 * n = n
  BY <1>1, <1>2, FS_Product
<1>. QED
  BY <1>1, <1>2, <1>3, FS_Product

LEMMA UnitsFinite ==
  ASSUME NEW s \in Seq(Nat)
  PROVE  IsFiniteSet(Units(s)) /\ Total(s) \in Nat
<1>. DEFINE columns == {{i} \X (1 .. s[i]) : i \in DOMAIN s}
<1>1. IsFiniteSet(DOMAIN s)
  BY FS_Interval
<1>2. IsFiniteSet(columns)
  <2>. DEFINE f == [i \in DOMAIN s |-> {i} \X (1 .. s[i])]
  <2>1. f \in Surjection(DOMAIN s, columns)
    BY DEF Surjection
  <2>. QED
    BY <1>1, <2>1, FS_Surjection
<1>3. \A c \in columns : IsFiniteSet(c)
  <2>. SUFFICES ASSUME NEW i \in DOMAIN s PROVE IsFiniteSet({i} \X (1 .. s[i]))
    OBVIOUS
  <2>1. s[i] \in Nat
    OBVIOUS
  <2>. QED
    BY <2>1, Column
<1>4. IsFiniteSet(UNION columns)
  BY <1>2, <1>3, FS_UNION
<1>. QED
  BY <1>4, FS_CardinalityType DEF Units, Total

LEMMA TotalEmpty == Total(<<>>) = 0
<1>1. Units(<<>>) = {}
  BY DEF Units
<1>. QED
  BY <1>1, FS_EmptySet DEF Total

LEMMA TotalAppend ==
  ASSUME NEW s \in Seq(Nat), NEW n \in Nat
  PROVE  Total(Append(s, n)) = Total(s) + n
<1>. DEFINE t == Append(s, n)
            c == {Len(s) + 1} \X (1 .. n)
<1>1. t \in Seq(Nat) /\ Len(t) = Len(s) + 1 /\ t[Len(s) + 1] = n
      /\ \A i \in 1 .. Len(s) : t[i] = s[i]
  BY AppendProperties
<1>2. Units(t) = Units(s) \cup c
  <2>1. \A u : u \in Units(t) <=> u \in Units(s) \/ u \in c
    <3>. TAKE u
    <3>. HIDE DEF c, t
    <3>1. u \in c <=> u = <<u[1], u[2]>> /\ u[1] = Len(s) + 1 /\ u[2] \in 1 .. n
      BY ColumnMembers DEF c
    <3>2. /\ u \in Units(t) <=> u = <<u[1], u[2]>> /\ u[1] \in 1 .. Len(t) /\ u[2] \in 1 .. t[u[1]]
          /\ u \in Units(s) <=> u = <<u[1], u[2]>> /\ u[1] \in 1 .. Len(s) /\ u[2] \in 1 .. s[u[1]]
      BY <1>1, UnitsMembers
    <3>. QED
      BY SMTT(30), <1>1, <3>1, <3>2
  <2>. QED
    BY <2>1
<1>3. Units(s) \cap c = {}
  BY UnitsMembers, ColumnMembers
<1>4. IsFiniteSet(c) /\ Cardinality(c) = n
  BY Column
<1>. HIDE DEF c, t
<1>5. Cardinality(Units(t)) = Cardinality(Units(s)) + n
  BY <1>2, <1>3, <1>4, UnitsFinite, DisjointUnion
<1>. QED
  BY <1>5 DEF Total, t

LEMMA TotalExcept ==
  ASSUME NEW s \in Seq(Nat), NEW i \in 1 .. Len(s), NEW n \in Nat
  PROVE  Total([s EXCEPT ![i] = n]) = Total(s) - s[i] + n
<1>. DEFINE t == [s EXCEPT ![i] = n]
            a == {i} \X (1 .. s[i])
            c == {i} \X (1 .. n)
<1>1. t \in Seq(Nat) /\ Len(t) = Len(s) /\ \A j \in 1 .. Len(s) : t[j] = IF j = i THEN n ELSE s[j]
  OBVIOUS
<1>2. s[i] \in Nat
  OBVIOUS
<1>3. Units(t) = (Units(s) \ a) \cup c
  <2>1. \A u : u \in Units(t) <=> (u \in Units(s) /\ u \notin a) \/ u \in c
    <3>. TAKE u
    <3>. HIDE DEF a, c, t
    <3>1. /\ u \in a <=> u = <<u[1], u[2]>> /\ u[1] = i /\ u[2] \in 1 .. s[i]
          /\ u \in c <=> u = <<u[1], u[2]>> /\ u[1] = i /\ u[2] \in 1 .. n
      BY ColumnMembers DEF a, c
    <3>2. /\ u \in Units(t) <=> u = <<u[1], u[2]>> /\ u[1] \in 1 .. Len(t) /\ u[2] \in 1 .. t[u[1]]
          /\ u \in Units(s) <=> u = <<u[1], u[2]>> /\ u[1] \in 1 .. Len(s) /\ u[2] \in 1 .. s[u[1]]
      BY <1>1, UnitsMembers
    <3>. QED
      BY <1>1, <3>1, <3>2
  <2>. QED
    BY <2>1
<1>4. (Units(s) \ a) \cap c = {}
  BY <1>2, UnitsMembers, ColumnMembers
<1>5. a \subseteq Units(s)
  BY SMTT(30), <1>2, UnitsMembers, ColumnMembers
<1>6. /\ IsFiniteSet(c) /\ Cardinality(c) = n /\ Cardinality(a) = s[i]
      /\ IsFiniteSet(Units(s))
  BY <1>2, Column, UnitsFinite
<1>. HIDE DEF a, c, t
<1>7. IsFiniteSet(Units(s) \ a) /\ Cardinality(Units(s) \ a) = Cardinality(Units(s)) - s[i]
  BY <1>5, <1>6, SubsetRemoved
<1>8. Cardinality(Units(t)) = Cardinality(Units(s)) - s[i] + n
  BY <1>3, <1>4, <1>6, <1>7, DisjointUnion
<1>. QED
  BY <1>8 DEF Total, t

LEMMA TotalTail ==
  ASSUME NEW s \in Seq(Nat), s # <<>>
  PROVE  Total(Tail(s)) = Total(s) - s[1]
<1>. DEFINE t == Tail(s)
            a == {1} \X (1 .. s[1])
            f == [u \in Units(t) |-> <<u[1] + 1, u[2]>>]
<1>1. t \in Seq(Nat) /\ Len(t) = Len(s) - 1 /\ \A i \in 1 .. Len(t) : t[i] = s[i + 1]
  BY HeadTailProperties
<1>2. s[1] \in Nat /\ Len(s) \in Nat \ {0}
  OBVIOUS
<1>3. \A u \in Units(t) : u = <<u[1], u[2]>> /\ u[1] \in 1 .. Len(t) /\ u[2] \in 1 .. t[u[1]]
  BY <1>1, UnitsMembers
<1>4. f \in [Units(t) -> Units(s) \ a]
  <2>. SUFFICES ASSUME NEW u \in Units(t)
                PROVE  <<u[1] + 1, u[2]>> \in Units(s) \ a
    OBVIOUS
  <2>1. u[1] + 1 \in 1 .. Len(s) /\ u[2] \in 1 .. s[u[1] + 1] /\ u[1] + 1 # 1
    BY <1>1, <1>2, <1>3
  <2>. QED
    BY <2>1, UnitsMembers
<1>5. f \in Injection(Units(t), Units(s) \ a)
  <2>. HIDE DEF f
  <2>. SUFFICES \A u, v \in Units(t) : f[u] = f[v] => u = v
    BY <1>4 DEF Injection, IsInjective
  <2>. TAKE u, v \in Units(t)
  <2>. USE DEF f
  <2>. HAVE f[u] = f[v]
  <2>1. u[1] + 1 = v[1] + 1 /\ u[2] = v[2]
    OBVIOUS
  <2>2. u[1] \in Int /\ v[1] \in Int
    BY <1>1, <1>3
  <2>3. u[1] = v[1]
    BY <2>1, <2>2
  <2>. QED
    BY <1>3, <2>1, <2>3
<1>6. f \in Surjection(Units(t), Units(s) \ a)
  <2>. SUFFICES ASSUME NEW v \in Units(s) \ a
                PROVE  \E u \in Units(t) : f[u] = v
    BY <1>4 DEF Surjection
  <2>1. PICK i \in 1 .. Len(s) : \E k \in 1 .. s[i] : v = <<i, k>>
    BY UnitsMembers
  <2>. PICK k \in 1 .. s[i] : v = <<i, k>>
    BY <2>1
  <2>2. i # 1
    BY <1>2, <2>1
  <2>3. i - 1 \in 1 .. Len(t) /\ k \in 1 .. t[i - 1]
    BY <1>1, <1>2, <2>1, <2>2
  <2>4. <<i - 1, k>> \in Units(t)
    BY <1>1, <2>3, UnitsMembers
  <2>5. f[<<i - 1, k>>] = <<(i - 1) + 1, k>>
    BY <2>4
  <2>. QED
    BY <2>4, <2>5
<1>7. Cardinality(Units(s) \ a) = Cardinality(Units(t))
  BY <1>1, <1>5, <1>6, UnitsFinite, FS_Bijection DEF ExistsBijection, Bijection
<1>8. a \subseteq Units(s)
  BY <1>2, UnitsMembers, ColumnMembers
<1>9. Cardinality(a) = s[1]
  BY <1>2, Column
<1>. HIDE DEF a, t
<1>10. Cardinality(Units(t)) = Cardinality(Units(s)) - s[1]
  BY <1>7, <1>8, <1>9, UnitsFinite, SubsetRemoved
<1>. QED
  BY <1>10 DEF Total, t

-----------------------------------------------------------------------------
(* Blocks of output.                                                       *)

BlockType == [chars : Nat, used : Nat]

(* All blocks but the last are full, none is empty. *)
WellFilled(bs) ==
  \A i \in 1 .. Len(bs) :
    /\ bs[i].chars \in 1 .. bs[i].used /\ bs[i].used <= BlockSize
    /\ i < Len(bs) => bs[i].used = BlockSize

(* Only of the head block something was sent already. *)
Unsent(bs, first) == \A i \in first .. Len(bs) : bs[i].chars = bs[i].used

LEMMA ArraySeq ==
  ASSUME NEW S, NEW n \in Nat, NEW f \in [1 .. n -> S]
  PROVE  f \in Seq(S) /\ Len(f) = n
<1>1. f \in Seq(S)
  BY SeqDef
<1>2. 1 .. Len(f) = 1 .. n /\ Len(f) \in Nat
  BY <1>1
<1>. QED
  BY <1>1, <1>2

LEMMA WaitingType ==
  ASSUME NEW bs \in Seq(BlockType)
  PROVE  /\ Waiting(bs) \in Seq(Nat) /\ Len(Waiting(bs)) = Len(bs)
         /\ \A i \in 1 .. Len(bs) : Waiting(bs)[i] = bs[i].chars
<1>1. ASSUME NEW i \in 1 .. Len(bs)
      PROVE  bs[i].chars \in Nat
  <2>1. bs[i] \in BlockType
    OBVIOUS
  <2>. QED
    BY <2>1 DEF BlockType
<1>2. Len(bs) \in Nat
  OBVIOUS
<1>3. Waiting(bs) \in [1 .. Len(bs) -> Nat]
  BY <1>1 DEF Waiting
<1>4. Waiting(bs) \in Seq(Nat) /\ Len(Waiting(bs)) = Len(bs)
  BY <1>2, <1>3, ArraySeq
<1>. QED
  BY <1>4 DEF Waiting

LEMMA WaitingEmpty == Total(Waiting(<<>>)) = 0
<1>1. <<>> \in Seq(BlockType) /\ Len(<<>>) = 0
  OBVIOUS
<1>2. Waiting(<<>>) \in Seq(Nat) /\ Len(Waiting(<<>>)) = 0
  BY <1>1, WaitingType
<1>3. Waiting(<<>>) = <<>>
  BY <1>2
<1>. QED
  BY <1>3, TotalEmpty

LEMMA WaitingAppend ==
  ASSUME NEW bs \in Seq(BlockType), NEW b \in BlockType
  PROVE  Total(Waiting(Append(bs, b))) = Total(Waiting(bs)) + b.chars
<1>. DEFINE t == Append(bs, b)
<1>1. t \in Seq(BlockType) /\ Len(t) = Len(bs) + 1 /\ t[Len(bs) + 1] = b
      /\ \A i \in 1 .. Len(bs) : t[i] = bs[i]
  BY AppendProperties
<1>. HIDE DEF t
<1>2. b.chars \in Nat
  BY DEF BlockType
<1>3. Waiting(t) = Append(Waiting(bs), b.chars)
  <2>1. Append(Waiting(bs), b.chars) \in Seq(Nat) /\ Waiting(t) \in Seq(Nat)
    BY <1>1, <1>2, WaitingType
  <2>2. ASSUME NEW i \in 1 .. Len(bs) + 1
        PROVE  Waiting(t)[i] = Append(Waiting(bs), b.chars)[i]
    <3>1. Waiting(t)[i] = t[i].chars
      BY <1>1, WaitingType
    <3>2. Append(Waiting(bs), b.chars)[i] = IF i = Len(bs) + 1 THEN b.chars ELSE Waiting(bs)[i]
      BY <1>2, WaitingType
    <3>. QED
      BY <1>1, <3>1, <3>2, WaitingType
  <2>3. Len(Waiting(t)) = Len(bs) + 1 /\ Len(Append(Waiting(bs), b.chars)) = Len(bs) + 1
    BY <1>1, <1>2, WaitingType
  <2>. QED
    BY <2>1, <2>2, <2>3, SeqEqual
<1>. QED
  BY <1>2, <1>3, WaitingType, TotalAppend DEF t

LEMMA WaitingExcept ==
  ASSUME NEW bs \in Seq(BlockType), NEW i \in 1 .. Len(bs), NEW b \in BlockType
  PROVE  Total(Waiting([bs EXCEPT ![i] = b])) = Total(Waiting(bs)) - bs[i].chars + b.chars
<1>. DEFINE t == [bs EXCEPT ![i] = b]
<1>1. t \in Seq(BlockType) /\ Len(t) = Len(bs)
      /\ \A j \in 1 .. Len(bs) : t[j] = IF j = i THEN b ELSE bs[j]
  BY ExceptSeq
<1>. HIDE DEF t
<1>2. b.chars \in Nat
  BY DEF BlockType
<1>3. Waiting(t) = [Waiting(bs) EXCEPT ![i] = b.chars]
  BY <1>1 DEF Waiting
<1>. QED
  BY <1>2, <1>3, WaitingType, TotalExcept DEF t

LEMMA WaitingTail ==
  ASSUME NEW bs \in Seq(BlockType), bs # <<>>
  PROVE  Total(Waiting(Tail(bs))) = Total(Waiting(bs)) - bs[1].chars
<1>. DEFINE t == Tail(bs)
<1>1. t \in Seq(BlockType) /\ Len(t) = Len(bs) - 1 /\ \A i \in 1 .. Len(t) : t[i] = bs[i + 1]
  BY HeadTailProperties
<1>. HIDE DEF t
<1>2. Len(bs) \in Nat \ {0}
  OBVIOUS
<1>3. Waiting(bs) # <<>> /\ Waiting(bs)[1] = bs[1].chars
  BY <1>2, WaitingType
<1>4. Waiting(t) = Tail(Waiting(bs))
  <2>1. /\ Tail(Waiting(bs)) \in Seq(Nat) /\ Len(Tail(Waiting(bs))) = Len(bs) - 1
        /\ \A i \in 1 .. Len(bs) - 1 : Tail(Waiting(bs))[i] = Waiting(bs)[i + 1]
    BY <1>3, WaitingType, HeadTailProperties
  <2>2. ASSUME NEW i \in 1 .. Len(bs) - 1
        PROVE  Waiting(t)[i] = Tail(Waiting(bs))[i]
    <3>1. i + 1 \in 1 .. Len(bs) /\ i \in 1 .. Len(t)
      BY <1>1, <1>2
    <3>2. Waiting(t)[i] = t[i].chars /\ Waiting(bs)[i + 1] = bs[i + 1].chars
      BY <1>1, <3>1, WaitingType
    <3>. QED
      BY <1>1, <2>1, <3>1, <3>2
  <2>3. Waiting(t) \in Seq(Nat) /\ Len(Waiting(t)) = Len(bs) - 1
    BY <1>1, WaitingType
  <2>. QED
    BY <2>1, <2>2, <2>3, SeqEqual
<1>. QED
  BY <1>3, <1>4, WaitingType, TotalTail DEF t

(* Nothing waits in blocks that do not exist. *)
LEMMA WaitingNat ==
  ASSUME NEW bs \in Seq(BlockType)
  PROVE  Total(Waiting(bs)) \in Nat
BY WaitingType, UnitsFinite

LEMMA BlockFields ==
  ASSUME NEW bs \in Seq(BlockType), NEW i \in 1 .. Len(bs)
  PROVE  bs[i] \in BlockType /\ bs[i].chars \in Nat /\ bs[i].used \in Nat
<1>1. bs[i] \in BlockType
  OBVIOUS
<1>. QED
  BY <1>1 DEF BlockType

(* Filling the last block. *)
LEMMA FilledFacts ==
  ASSUME NEW bs \in Seq(BlockType), bs # <<>>, WellFilled(bs), Unsent(bs, 2),
         NEW n \in Nat, n <= Room(Last(bs))
  PROVE  LET t == Filled(bs, n) IN
         /\ t \in Seq(BlockType) /\ Len(t) = Len(bs)
         /\ WellFilled(t) /\ Unsent(t, 2)
         /\ Total(Waiting(t)) = Total(Waiting(bs)) + n
         /\ t[1].chars = IF Len(bs) = 1 THEN bs[1].chars + n ELSE bs[1].chars
         /\ t[Len(bs)].used = bs[Len(bs)].used + n
<1>. DEFINE z == Len(bs)
            b == [chars |-> bs[z].chars + n, used |-> bs[z].used + n]
            t == Filled(bs, n)
<1>1. z \in Nat \ {0}
  OBVIOUS
<1>2. /\ bs[z].chars \in 1 .. bs[z].used /\ bs[z].used + n <= BlockSize
      /\ bs[z].chars \in Nat /\ bs[z].used \in Nat
  BY <1>1, BlockFields, WriteAssumption DEF WellFilled, Room, Last
<1>3. b \in BlockType /\ b.chars = bs[z].chars + n /\ b.used = bs[z].used + n
  BY SMTT(30), <1>2 DEF BlockType
<1>4. t = [bs EXCEPT ![z] = b]
  BY DEF Filled
<1>. HIDE DEF b, t
<1>5. t \in Seq(BlockType) /\ Len(t) = z /\ \A i \in 1 .. z : t[i] = IF i = z THEN b ELSE bs[i]
  BY <1>1, <1>3, <1>4, ExceptSeq
<1>6. WellFilled(t)
  BY <1>1, <1>2, <1>3, <1>5 DEF WellFilled
<1>7. Unsent(t, 2)
  BY <1>1, <1>2, <1>3, <1>5 DEF Unsent
<1>8. Total(Waiting(t)) = Total(Waiting(bs)) + n
  <2>0. z \in 1 .. Len(bs) /\ b \in BlockType
    BY <1>1, <1>3
  <2>. HIDE DEF z
  <2>1. Total(Waiting([bs EXCEPT ![z] = b])) = Total(Waiting(bs)) - bs[z].chars + b.chars
    BY <2>0, WaitingExcept
  <2>2. Total(Waiting(bs)) \in Nat
    BY WaitingNat
  <2>. QED
    BY <1>2, <1>3, <1>4, <2>1, <2>2
<1>. QED
  BY <1>1, <1>3, <1>5, <1>6, <1>7, <1>8 DEF t

LEMMA AddedFacts ==
  ASSUME NEW bs \in Seq(BlockType), WellFilled(bs), Unsent(bs, 2), NEW n \in 1 .. MaxWrite
  PROVE  LET t == Added(bs, n) IN
         /\ t \in Seq(BlockType) /\ t # <<>>
         /\ WellFilled(t) /\ Unsent(t, 2)
         /\ Total(Waiting(t)) = Total(Waiting(bs)) + n
         /\ t[1].chars \in Nat \ {0}
         /\ bs = <<>> \/ Unsent(bs, 1) => t[1].chars >= n
<1>. DEFINE t == Added(bs, n)
            z == Len(bs)
<1>1. n \in Nat \ {0} /\ n <= BlockSize /\ BlockSize \in Nat
  BY WriteAssumption
<1>2. CASE bs = <<>>
  <2>1. t = <<Block(n)>> /\ Block(n) \in BlockType /\ Block(n).chars = n /\ Block(n).used = n
    BY <1>1, <1>2 DEF Added, Block, BlockType
  <2>2. t = Append(bs, Block(n))
    BY <1>2, <2>1
  <2>3. t \in Seq(BlockType) /\ Len(t) = 1 /\ t[1] = Block(n)
    BY <2>1
  <2>4. Total(Waiting(t)) = Total(Waiting(bs)) + n
    BY <2>1, <2>2, WaitingAppend
  <2>. HIDE DEF t
  <2>5. WellFilled(t) /\ Unsent(t, 2)
    BY <1>1, <2>1, <2>3 DEF WellFilled, Unsent
  <2>. QED
    BY <1>1, <2>1, <2>3, <2>4, <2>5 DEF t
<1>3. ASSUME bs # <<>>
      PROVE  /\ z \in Nat \ {0} /\ Room(Last(bs)) \in Nat
             /\ bs[z].used \in Nat /\ Room(Last(bs)) = BlockSize - bs[z].used
             /\ bs[1].chars \in Nat \ {0} /\ bs[1].used \in Nat
             /\ z > 1 => bs[1].used = BlockSize
  BY <1>1, <1>3, BlockFields DEF WellFilled, Room, Last
<1>4. CASE bs # <<>> /\ n <= Room(Last(bs))
  <2>1. t = Filled(bs, n)
    BY <1>4 DEF Added
  <2>2. /\ t \in Seq(BlockType) /\ Len(t) = z
        /\ WellFilled(t) /\ Unsent(t, 2)
        /\ Total(Waiting(t)) = Total(Waiting(bs)) + n
        /\ t[1].chars = IF z = 1 THEN bs[1].chars + n ELSE bs[1].chars
    BY <1>1, <1>4, <2>1, FilledFacts
  <2>. HIDE DEF t
  <2>3. Unsent(bs, 1) => t[1].chars >= n
    BY <1>1, <1>3, <1>4, <2>2 DEF Unsent
  <2>4. t # <<>> /\ t[1].chars \in Nat \ {0}
    BY <1>1, <1>3, <1>4, <2>2
  <2>. QED
    BY <1>4, <2>2, <2>3, <2>4 DEF t
<1>5. CASE bs # <<>> /\ ~ (n <= Room(Last(bs)))
  <2>. DEFINE r == Room(Last(bs))
              u == Filled(bs, r)
              b == Block(n - r)
  <2>1. t = Append(u, b)
    BY <1>5 DEF Added
  <2>2. /\ u \in Seq(BlockType) /\ Len(u) = z
        /\ WellFilled(u) /\ Unsent(u, 2)
        /\ Total(Waiting(u)) = Total(Waiting(bs)) + r
        /\ u[1].chars = IF z = 1 THEN bs[1].chars + r ELSE bs[1].chars
        /\ u[z].used = bs[z].used + r
    BY <1>3, <1>5, FilledFacts
  <2>3. b \in BlockType /\ b.chars = n - r /\ b.used = n - r /\ n - r \in 1 .. BlockSize
    BY SMTT(30), <1>1, <1>3, <1>5 DEF Block, BlockType
  <2>4. r \in Nat /\ r = BlockSize - bs[z].used /\ Total(Waiting(bs)) \in Nat
    BY <1>3, <1>5, WaitingNat
  <2>. HIDE DEF t, r, u, b
  <2>5. t \in Seq(BlockType) /\ Len(t) = z + 1 /\ t[z + 1] = b /\ \A i \in 1 .. z : t[i] = u[i]
    <3>1. /\ Append(u, b) \in Seq(BlockType) /\ Len(Append(u, b)) = Len(u) + 1
          /\ Append(u, b)[Len(u) + 1] = b
          /\ \A i \in 1 .. Len(u) : Append(u, b)[i] = u[i]
      BY <2>2, <2>3, AppendProperties
    <3>. HIDE DEF z
    <3>. QED
      BY <2>1, <2>2, <3>1
  <2>6. Total(Waiting(t)) = Total(Waiting(bs)) + n
    <3>1. Total(Waiting(Append(u, b))) = Total(Waiting(u)) + b.chars
      BY <2>2, <2>3, WaitingAppend
    <3>. HIDE DEF z
    <3>. QED
      BY <1>1, <2>1, <2>2, <2>3, <2>4, <3>1
  <2>7. z \in Nat \ {0} /\ u[z].used = BlockSize
    BY <1>1, <1>3, <1>5, <2>2, <2>4
  <2>. HIDE DEF z
  <2>8. ASSUME NEW i \in 1 .. z + 1
        PROVE  /\ t[i].chars \in 1 .. t[i].used /\ t[i].used <= BlockSize
               /\ i < z + 1 => t[i].used = BlockSize
               /\ i \in 2 .. z + 1 => t[i].chars = t[i].used
    <3>1. CASE i = z + 1
      BY <1>1, <2>3, <2>5, <2>7, <3>1
    <3>2. CASE i # z + 1
      <4>1. i \in 1 .. z /\ t[i] = u[i]
        BY <2>5, <2>7, <3>2
      <4>2. /\ u[i].chars \in 1 .. u[i].used /\ u[i].used <= BlockSize
            /\ i < z => u[i].used = BlockSize
        BY <2>2, <4>1 DEF WellFilled
      <4>3. i \in 2 .. z + 1 => u[i].chars = u[i].used
        BY <2>2, <2>7, <4>1 DEF Unsent
      <4>4. i # z => i < z
        BY <2>7, <4>1
      <4>. QED
        BY <2>7, <4>1, <4>2, <4>3, <4>4
    <3>. QED
      BY <3>1, <3>2
  <2>9. WellFilled(t) /\ Unsent(t, 2)
    BY <2>5, <2>8 DEF WellFilled, Unsent
  <2>10. Unsent(bs, 1) => t[1].chars >= n
    <3>. SUFFICES ASSUME Unsent(bs, 1) PROVE t[1].chars >= n
      OBVIOUS
    <3>1. t[1] = u[1] /\ 1 \in 1 .. Len(bs)
      BY <2>5, <2>7 DEF z
    <3>2. bs[1].chars = bs[1].used
      BY <3>1 DEF Unsent
    <3>. QED
      BY SMTT(30), <1>1, <1>3, <1>5, <2>2, <2>4, <3>1, <3>2
  <2>11. t # <<>> /\ t[1].chars \in Nat \ {0}
    <3>1. t[1] = u[1] /\ t # <<>>
      BY <2>5, <2>7
    <3>. QED
      BY SMTT(30), <1>3, <1>5, <2>2, <2>4, <3>1
  <2>. QED
    BY <1>5, <2>5, <2>6, <2>9, <2>10, <2>11 DEF t
<1>. QED
  BY <1>2, <1>4, <1>5

(* Throwing the head block away, or having sent it, leaves blocks of which *)
(* nothing was sent.                                                       *)
LEMMA TailFacts ==
  ASSUME NEW bs \in Seq(BlockType), bs # <<>>, WellFilled(bs), Unsent(bs, 2)
  PROVE  /\ Tail(bs) \in Seq(BlockType) /\ WellFilled(Tail(bs)) /\ Unsent(Tail(bs), 1)
         /\ Unsent(Tail(bs), 2)
         /\ Total(Waiting(Tail(bs))) = Total(Waiting(bs)) - bs[1].chars
         /\ bs[1].chars \in Nat \ {0}
         /\ Tail(bs) # <<>> => Tail(bs)[1].chars \in Nat \ {0}
<1>. DEFINE t == Tail(bs)
<1>1. t \in Seq(BlockType) /\ Len(t) = Len(bs) - 1 /\ \A i \in 1 .. Len(t) : t[i] = bs[i + 1]
  BY HeadTailProperties
<1>2. Len(bs) \in Nat \ {0}
  OBVIOUS
<1>. HIDE DEF t
<1>3. WellFilled(t)
  <2>. SUFFICES ASSUME NEW i \in 1 .. Len(t)
                PROVE  /\ t[i].chars \in 1 .. t[i].used /\ t[i].used <= BlockSize
                       /\ i < Len(t) => t[i].used = BlockSize
    BY DEF WellFilled
  <2>1. i + 1 \in 1 .. Len(bs) /\ t[i] = bs[i + 1] /\ (i < Len(t) => i + 1 < Len(bs))
    BY <1>1, <1>2
  <2>. QED
    BY <2>1 DEF WellFilled
<1>4. Unsent(t, 1) /\ Unsent(t, 2)
  BY <1>1, <1>2 DEF Unsent
<1>5. bs[1].chars \in Nat \ {0}
  BY <1>2, BlockFields DEF WellFilled
<1>6. t # <<>> => t[1].chars \in Nat \ {0}
  <2>. SUFFICES ASSUME t # <<>> PROVE t[1].chars \in Nat \ {0}
    OBVIOUS
  <2>1. 1 \in 1 .. Len(t)
    BY <1>1
  <2>. QED
    BY <1>1, <1>3, <2>1, BlockFields DEF WellFilled
<1>. QED
  BY <1>1, <1>3, <1>4, <1>5, <1>6, WaitingTail DEF t

(* A socket that takes k bytes of the head block. *)
LEMMA DrainedFacts ==
  ASSUME NEW bs \in Seq(BlockType), bs # <<>>, WellFilled(bs), Unsent(bs, 2),
         NEW k \in 1 .. bs[1].chars
  PROVE  LET t == Drained(bs, k) IN
         /\ t \in Seq(BlockType) /\ WellFilled(t) /\ Unsent(t, 2)
         /\ Total(Waiting(t)) = Total(Waiting(bs)) - k
         /\ \/ t = Tail(bs) /\ bs[1].chars = k /\ (t # <<>> => t[1].chars \in Nat)
            \/ t # <<>> /\ t[1].chars = bs[1].chars - k
<1>1. Len(bs) \in Nat \ {0} /\ 1 \in 1 .. Len(bs)
  OBVIOUS
<1>2. /\ bs[1].chars \in 1 .. bs[1].used /\ bs[1].used <= BlockSize
      /\ 1 < Len(bs) => bs[1].used = BlockSize
      /\ bs[1] \in BlockType /\ bs[1].chars \in Nat /\ bs[1].used \in Nat
  BY <1>1, BlockFields DEF WellFilled
<1>3. CASE bs[1].chars = k
  BY <1>3, TailFacts DEF Drained
<1>4. CASE bs[1].chars # k
  <2>. DEFINE b == [bs[1] EXCEPT !.chars = bs[1].chars - k]
              t == [bs EXCEPT ![1] = b]
  <2>1. Drained(bs, k) = t
    BY <1>4 DEF Drained
  <2>2. /\ b \in BlockType /\ b.chars = bs[1].chars - k /\ b.used = bs[1].used
        /\ b.chars \in 1 .. b.used
    BY <1>2, <1>4 DEF BlockType
  <2>. HIDE DEF b
  <2>3. Total(Waiting(t)) = Total(Waiting(bs)) - bs[1].chars + b.chars
    BY <1>1, <2>2, WaitingExcept
  <2>4. /\ t \in Seq(BlockType) /\ Len(t) = Len(bs)
        /\ \A i \in 1 .. Len(bs) : t[i] = IF i = 1 THEN b ELSE bs[i]
    BY <1>1, <2>2, ExceptSeq
  <2>. HIDE DEF t
  <2>5. WellFilled(t)
    BY <1>1, <1>2, <2>2, <2>4 DEF WellFilled
  <2>6. Unsent(t, 2)
    BY <1>1, <2>4 DEF Unsent
  <2>7. Total(Waiting(t)) = Total(Waiting(bs)) - k
    BY <1>2, <2>2, <2>3, WaitingNat
  <2>8. t # <<>> /\ t[1].chars = bs[1].chars - k
    BY <1>1, <2>2, <2>4
  <2>. QED
    BY <2>1, <2>4, <2>5, <2>6, <2>7, <2>8
<1>. QED
  BY <1>3, <1>4

-----------------------------------------------------------------------------
(* The queue of output.  The bound needs to know that what waits behind    *)
(* the head block is less than the limit, and that a block behind it is    *)
(* sent from its beginning: the block that becomes the head when another   *)
(* is thrown away then holds at least what is written next.                *)

OutputNumbers ==
  /\ blocks \in Seq(BlockType)
  /\ output_size \in Nat /\ output_tot \in Nat /\ output_lost \in Nat
  /\ sent \in Nat /\ before \in Nat

OutputCounts ==
  /\ output_size = Total(Waiting(blocks))
  /\ Queued = Passed + output_size

HeadCarriesLimit == blocks # <<>> => output_size - blocks[1].chars < output_limit

OutputTight ==
  /\ OutputNumbers /\ OutputCounts
  /\ WellFilled(blocks) /\ Unsent(blocks, 2)
  /\ HeadCarriesLimit /\ OutputBounded

(* All this until old bytes are sent from behind a block. *)
OutputIInv == stale \in Nat /\ (stale = 0 => OutputTight)

LEMMA OutputInitOK == OutputInit => OutputTight
<1>. SUFFICES ASSUME OutputInit PROVE OutputTight
  OBVIOUS
<1>. USE DEF OutputInit
<1>1. blocks \in Seq(BlockType) /\ Len(blocks) = 0
  OBVIOUS
<1>2. OutputNumbers
  BY <1>1 DEF OutputNumbers
<1>3. OutputCounts
  BY WaitingEmpty DEF OutputCounts, Queued, Passed
<1>4. WellFilled(blocks) /\ Unsent(blocks, 2)
  BY <1>1 DEF WellFilled, Unsent
<1>5. HeadCarriesLimit
  BY DEF HeadCarriesLimit
<1>6. OutputBounded
  BY LimitAssumption, WriteAssumption DEF OutputBounded
<1>. QED
  BY <1>2, <1>3, <1>4, <1>5, <1>6 DEF OutputTight

LEMMA QueueWriteOK ==
  ASSUME OutputTight, NEW n \in 1 .. MaxWrite, NEW zero \in BOOLEAN, queue_write(n, zero)
  PROVE  OutputTight'
<1>1. n \in Nat \ {0} /\ n <= MaxWrite /\ MaxWrite \in Nat /\ output_limit \in Nat \ {0}
  BY WriteAssumption, LimitAssumption
<1>2. /\ output_size \in Nat /\ output_tot \in Nat /\ output_lost \in Nat
      /\ sent \in Nat /\ before \in Nat /\ blocks \in Seq(BlockType)
  BY DEF OutputTight, OutputNumbers
<1>3. /\ output_size = Total(Waiting(blocks)) /\ WellFilled(blocks) /\ Unsent(blocks, 2)
      /\ before + output_tot = sent + output_lost + output_size
      /\ blocks # <<>> => output_size - blocks[1].chars < output_limit
  BY DEF OutputTight, OutputCounts, Queued, Passed, HeadCarriesLimit
<1>4. sent' = sent /\ before' = before /\ output_tot' = output_tot + n
  BY DEF queue_write
<1>. DEFINE flush == Overflows(output_size, n) /\ blocks # <<>>
            bs == IF flush THEN Tail(blocks) ELSE blocks
            c == IF flush THEN blocks[1].chars ELSE 0
            t == Added(bs, n)
<1>5. blocks' = t /\ output_size' = (output_size - c) + n /\ output_lost' = output_lost + c
  <2>1. CASE flush
    BY <2>1 DEF queue_write, Flushed
  <2>2. CASE ~ flush
    BY <1>2, <2>2 DEF queue_write
  <2>. QED
    BY <2>1, <2>2
<1>6. /\ bs \in Seq(BlockType) /\ WellFilled(bs) /\ Unsent(bs, 2) /\ c \in Nat
      /\ Total(Waiting(bs)) = output_size - c /\ Total(Waiting(bs)) \in Nat
      /\ flush => Unsent(bs, 1) /\ output_size - c < output_limit
  <2>1. CASE flush
    BY <1>2, <1>3, <2>1, TailFacts, WaitingNat
  <2>2. CASE ~ flush
    BY <1>2, <1>3, <2>2, WaitingNat
  <2>. QED
    BY <2>1, <2>2
<1>7. blocks = <<>> => output_size = 0
  BY <1>3, WaitingEmpty
<1>8. ~ flush => blocks = <<>> \/ output_size + n <= output_limit
  BY <1>1, <1>2 DEF Overflows
<1>9. ~ flush => bs = blocks /\ c = 0
  OBVIOUS
<1>. HIDE DEF flush, bs, c
<1>10. /\ t \in Seq(BlockType) /\ t # <<>> /\ WellFilled(t) /\ Unsent(t, 2)
       /\ Total(Waiting(t)) = Total(Waiting(bs)) + n
       /\ t[1].chars \in Nat \ {0}
       /\ bs = <<>> \/ Unsent(bs, 1) => t[1].chars >= n
  BY <1>6, AddedFacts
<1>. HIDE DEF t
<1>11. OutputNumbers'
  <2>1. output_size' \in Nat
    BY <1>1, <1>5, <1>6
  <2>2. output_lost' \in Nat /\ output_tot' \in Nat
    BY <1>1, <1>2, <1>4, <1>5, <1>6
  <2>3. blocks' \in Seq(BlockType)
    BY <1>5, <1>10
  <2>. QED
    BY <1>2, <1>4, <2>1, <2>2, <2>3 DEF OutputNumbers
<1>12. OutputCounts'
  <2>1. output_size' = Total(Waiting(blocks'))
    BY <1>5, <1>6, <1>10
  <2>2. before' + output_tot' = sent' + output_lost' + output_size'
    <3>1. c \in Nat /\ n \in Nat /\ before + output_tot = sent + output_lost + output_size
      BY <1>1, <1>3, <1>6
    <3>2. before' + output_tot' = before + (output_tot + n)
      BY <1>4
    <3>3. sent' + output_lost' + output_size' = sent + (output_lost + c) + ((output_size - c) + n)
      BY <1>4, <1>5
    <3>4. before + (output_tot + n) = sent + (output_lost + c) + ((output_size - c) + n)
      BY <1>2, <3>1
    <3>. QED
      BY <3>2, <3>3, <3>4
  <2>. QED
    BY <2>1, <2>2 DEF OutputCounts, Queued, Passed
<1>13. HeadCarriesLimit'
  <2>1. CASE flush
    BY <1>1, <1>2, <1>5, <1>6, <1>10, <2>1 DEF HeadCarriesLimit
  <2>2. CASE ~ flush /\ blocks = <<>>
    BY <1>1, <1>2, <1>5, <1>7, <1>9, <1>10, <2>2 DEF HeadCarriesLimit
  <2>3. CASE ~ flush /\ output_size + n <= output_limit
    BY <1>1, <1>2, <1>5, <1>9, <1>10, <2>3 DEF HeadCarriesLimit
  <2>. QED
    BY <1>8, <2>1, <2>2, <2>3
<1>14. OutputBounded'
  BY <1>1, <1>2, <1>5, <1>6, <1>7, <1>8, <1>9 DEF OutputBounded
<1>. QED
  BY <1>5, <1>10, <1>11, <1>12, <1>13, <1>14 DEF OutputTight

LEMMA BeyondNat ==
  ASSUME NEW c, NEW k \in Int
  PROVE  IsFiniteSet({i \in 1 .. k : i > c}) /\ Beyond(c, k) \in Nat
<1>1. IsFiniteSet(1 .. k) /\ {i \in 1 .. k : i > c} \subseteq 1 .. k
  BY FS_Interval
<1>. QED
  BY <1>1, FS_Subset, FS_CardinalityType DEF Beyond

(* No old bytes were sent, so that no more was than waited in the block. *)
LEMMA WriteOK ==
  ASSUME OutputTight, stale = 0, Write, stale' = 0
  PROVE  OutputTight'
<1>1. UNCHANGED <<output_tot, output_lost, zeros, before>> /\ blocks # <<>>
  BY DEF Write
<1>2. /\ output_size \in Nat /\ output_tot \in Nat /\ output_lost \in Nat
      /\ sent \in Nat /\ before \in Nat /\ blocks \in Seq(BlockType)
  BY DEF OutputTight, OutputNumbers
<1>3. /\ output_size = Total(Waiting(blocks)) /\ WellFilled(blocks) /\ Unsent(blocks, 2)
      /\ before + output_tot = sent + output_lost + output_size
      /\ output_size - blocks[1].chars < output_limit
      /\ output_size < output_limit + MaxWrite
  BY <1>1 DEF OutputTight, OutputCounts, Queued, Passed, HeadCarriesLimit, OutputBounded
<1>4. CASE UNCHANGED <<blocks, output_size, sent>>
  BY <1>1, <1>4 DEF OutputTight, OutputNumbers, OutputCounts, Queued, Passed, HeadCarriesLimit,
                    OutputBounded, WellFilled, Unsent
<1>5. CASE \E k \in 1 .. blocks[1].chars :
             /\ blocks' = Drained(blocks, k) /\ output_size' = output_size - k /\ sent' = sent + k
  <2>1. PICK k \in 1 .. blocks[1].chars :
             /\ blocks' = Drained(blocks, k) /\ output_size' = output_size - k /\ sent' = sent + k
    BY <1>5
  <2>. DEFINE t == Drained(blocks, k)
  <2>2. /\ t \in Seq(BlockType) /\ WellFilled(t) /\ Unsent(t, 2)
        /\ Total(Waiting(t)) = Total(Waiting(blocks)) - k
        /\ \/ t = Tail(blocks) /\ blocks[1].chars = k /\ (t # <<>> => t[1].chars \in Nat)
           \/ t # <<>> /\ t[1].chars = blocks[1].chars - k
    BY <1>1, <1>2, <1>3, DrainedFacts
  <2>3. Total(Waiting(t)) \in Nat
    BY <2>2, WaitingNat
  <2>4. blocks[1].chars \in Nat /\ k \in Nat \ {0} /\ output_limit \in Nat /\ MaxWrite \in Nat
    BY <1>1, <1>2, BlockFields, LimitAssumption, WriteAssumption
  <2>. HIDE DEF t
  <2>5. blocks' = t
    BY <2>1 DEF t
  <2>6. OutputNumbers'
    <3>1. output_size' \in Nat
      BY <1>3, <2>1, <2>2, <2>3
    <3>2. sent' \in Nat
      BY <1>2, <2>1, <2>4
    <3>3. blocks' \in Seq(BlockType)
      BY <2>2, <2>5
    <3>. QED
      BY <1>1, <1>2, <3>1, <3>2, <3>3 DEF OutputNumbers
  <2>7. OutputCounts'
    <3>1. output_size' = Total(Waiting(blocks'))
      BY <1>3, <2>1, <2>2, <2>5
    <3>2. before' + output_tot' = sent' + output_lost' + output_size'
      BY <1>1, <1>2, <1>3, <2>1, <2>4
    <3>. QED
      BY <3>1, <3>2 DEF OutputCounts, Queued, Passed
  <2>8. HeadCarriesLimit'
    <3>. SUFFICES ASSUME t # <<>> PROVE output_size - k - t[1].chars < output_limit
      BY <2>1, <2>5 DEF HeadCarriesLimit
    <3>1. CASE t = Tail(blocks) /\ blocks[1].chars = k /\ t[1].chars \in Nat
      BY SMTT(30), <1>2, <1>3, <2>4, <3>1
    <3>2. CASE t[1].chars = blocks[1].chars - k
      BY SMTT(30), <1>2, <1>3, <2>4, <3>2
    <3>. QED
      BY <2>2, <3>1, <3>2
  <2>9. OutputBounded'
    BY <1>2, <1>3, <2>1, <2>4 DEF OutputBounded
  <2>. QED
    BY <2>2, <2>5, <2>6, <2>7, <2>8, <2>9 DEF OutputTight
<1>6. blocks[1].chars \in Nat \ {0} /\ MaxStale \in Nat
  <2>1. 1 \in 1 .. Len(blocks)
    BY <1>1, <1>2
  <2>. QED
    BY <1>2, <1>3, <2>1, BlockFields, LimitAssumption DEF WellFilled
<1>7. ASSUME NEW k \in Takes(blocks[1].chars), stale' = stale + Beyond(blocks[1].chars, k)
      PROVE  k \in 1 .. blocks[1].chars
  <2>. DEFINE behind == {i \in 1 .. k : i > blocks[1].chars}
  <2>0. k \in 1 .. BlockSize + MaxStale /\ k \in Int
    BY <1>7 DEF Takes
  <2>1. k \in 1 .. BlockSize + MaxStale /\ IsFiniteSet(behind) /\ Cardinality(behind) \in Nat
    BY <2>0, BeyondNat DEF Beyond
  <2>2. Cardinality(behind) = 0
    BY <1>7, <2>1 DEF Beyond
  <2>3. k \notin behind
    BY <2>1, <2>2, FS_EmptySet
  <2>. QED
    BY <1>6, <2>1, <2>3, WriteAssumption
<1>. QED
  BY <1>4, <1>5, <1>6, <1>7 DEF Write

(* What else happens leaves the blocks and what waits in them alone. *)
LEMMA OutputRestOK ==
  ASSUME OutputTight,
         \/ WriteFails \/ LogoutOutput \/ UNCHANGED outputVars
  PROVE  OutputTight'
<1>1. /\ UNCHANGED <<blocks, output_size, output_lost, sent>>
      /\ \/ UNCHANGED <<output_tot, before>>
         \/ output_tot' = 0 /\ before' = before + output_tot
  BY DEF WriteFails, LogoutOutput, outputVars
<1>2. OutputNumbers'
  BY <1>1 DEF OutputTight, OutputNumbers
<1>3. OutputCounts'
  BY <1>1 DEF OutputTight, OutputNumbers, OutputCounts, Queued, Passed
<1>. QED
  BY <1>1, <1>2, <1>3 DEF OutputTight, HeadCarriesLimit, OutputBounded, WellFilled, Unsent

(* The blocks, the sizes and the totals of the queue of output.            *)
THEOREM OutputInvariant == OutputSpec => []OutputIInv
<1>1. OutputInit => OutputIInv
  BY OutputInitOK DEF OutputInit, OutputIInv
<1>2. OutputIInv /\ [OutputNext]_outputVars => OutputIInv'
  <2>. SUFFICES ASSUME OutputIInv, [OutputNext]_outputVars PROVE OutputIInv'
    OBVIOUS
  <2>1. CASE Write
    <3>1. ASSUME NEW k \in Takes(blocks[1].chars) \cup {0}
          PROVE  Beyond(blocks[1].chars, k) \in Nat
      <4>1. k \in Int
        BY <3>1 DEF Takes
      <4>. QED
        BY <4>1, BeyondNat
    <3>2. \/ UNCHANGED stale
          \/ \E k \in Takes(blocks[1].chars) \cup {0} : stale' = stale + Beyond(blocks[1].chars, k)
      BY <2>1 DEF Write
    <3>3. stale' \in Nat /\ (stale' = 0 => stale = 0)
      BY <3>1, <3>2 DEF OutputIInv
    <3>. QED
      BY <2>1, <3>3, WriteOK DEF OutputIInv
  <2>2. ASSUME NEW n \in 1 .. MaxWrite, NEW zero \in BOOLEAN, queue_write(n, zero)
        PROVE  OutputIInv'
    <3>1. stale' = stale
      BY <2>2 DEF queue_write
    <3>. QED
      BY <2>2, <3>1, QueueWriteOK DEF OutputIInv
  <2>3. CASE WriteFails \/ LogoutOutput \/ UNCHANGED outputVars
    <3>1. stale' = stale
      BY <2>3 DEF WriteFails, LogoutOutput, outputVars
    <3>. QED
      BY <2>3, <3>1, OutputRestOK DEF OutputIInv
  <2>. QED
    BY <2>1, <2>2, <2>3 DEF OutputNext
<1>. QED
  BY <1>1, <1>2, PTL DEF OutputSpec

(* Every byte that is queued is sent, waits or is counted as lost, whatever is   *)
(* thrown away at the limit (queue_write and process_output), and what waits for *)
(* a reader that does not read stays below the limit and one write.  All of it   *)
(* until writeToSocket finds no zero byte behind a block and sends what is there: *)
(* of a queue whose sizes wrapped nothing is said.                               *)
THEOREM OutputIsExact == OutputSpec => []OutputExact
<1>1. OutputIInv => OutputExact
  <2>. SUFFICES ASSUME OutputTight PROVE OutputAccounted /\ OutputBounded
    BY DEF OutputIInv, OutputExact
  <2>1. DOMAIN blocks = 1 .. Len(blocks)
    BY DEF OutputTight, OutputNumbers
  <2>. QED
    BY <2>1 DEF OutputTight, OutputCounts, WellFilled, OutputAccounted
<1>. QED
  BY <1>1, OutputInvariant, PTL

-----------------------------------------------------------------------------
(* Lines of input.                                                         *)

Text == Seq(Byte)

LEMMA LengthsType ==
  ASSUME NEW ls \in Seq(Text)
  PROVE  /\ Lengths(ls) \in Seq(Nat) /\ Len(Lengths(ls)) = Len(ls)
         /\ \A i \in 1 .. Len(ls) : Lengths(ls)[i] = Len(ls[i])
         /\ Total(Lengths(ls)) \in Nat
<1>1. ASSUME NEW i \in 1 .. Len(ls)
      PROVE  Len(ls[i]) \in Nat
  <2>1. ls[i] \in Text
    OBVIOUS
  <2>. QED
    BY <2>1 DEF Text
<1>2. Len(ls) \in Nat
  OBVIOUS
<1>3. Lengths(ls) \in [1 .. Len(ls) -> Nat]
  BY <1>1 DEF Lengths
<1>4. Lengths(ls) \in Seq(Nat) /\ Len(Lengths(ls)) = Len(ls)
  BY <1>2, <1>3, ArraySeq
<1>. QED
  BY <1>4, UnitsFinite DEF Lengths

LEMMA LengthsEmpty == Total(Lengths(<<>>)) = 0
<1>1. <<>> \in Seq(Text) /\ Len(<<>>) = 0
  OBVIOUS
<1>2. Lengths(<<>>) \in Seq(Nat) /\ Len(Lengths(<<>>)) = 0
  BY <1>1, LengthsType
<1>3. Lengths(<<>>) = <<>>
  BY <1>2
<1>. QED
  BY <1>3, TotalEmpty

LEMMA LengthsAppend ==
  ASSUME NEW ls \in Seq(Text), NEW l \in Text
  PROVE  Total(Lengths(Append(ls, l))) = Total(Lengths(ls)) + Len(l)
<1>. DEFINE t == Append(ls, l)
<1>1. t \in Seq(Text) /\ Len(t) = Len(ls) + 1 /\ t[Len(ls) + 1] = l
      /\ \A i \in 1 .. Len(ls) : t[i] = ls[i]
  BY AppendProperties
<1>. HIDE DEF t
<1>2. Len(l) \in Nat
  BY DEF Text
<1>3. Lengths(t) = Append(Lengths(ls), Len(l))
  <2>1. Append(Lengths(ls), Len(l)) \in Seq(Nat) /\ Lengths(t) \in Seq(Nat)
    BY <1>1, <1>2, LengthsType
  <2>2. ASSUME NEW i \in 1 .. Len(ls) + 1
        PROVE  Lengths(t)[i] = Append(Lengths(ls), Len(l))[i]
    <3>1. Lengths(t)[i] = Len(t[i])
      BY <1>1, LengthsType
    <3>2. Append(Lengths(ls), Len(l))[i] = IF i = Len(ls) + 1 THEN Len(l) ELSE Lengths(ls)[i]
      BY <1>2, LengthsType
    <3>. QED
      BY <1>1, <3>1, <3>2, LengthsType
  <2>3. Len(Lengths(t)) = Len(ls) + 1 /\ Len(Append(Lengths(ls), Len(l))) = Len(ls) + 1
    BY SMTT(30), <1>1, <1>2, LengthsType
  <2>. QED
    BY <2>1, <2>2, <2>3, SeqEqual
<1>. QED
  BY <1>2, <1>3, LengthsType, TotalAppend DEF t

LEMMA LengthsTail ==
  ASSUME NEW ls \in Seq(Text), ls # <<>>
  PROVE  Total(Lengths(Tail(ls))) = Total(Lengths(ls)) - Len(ls[1])
<1>. DEFINE t == Tail(ls)
<1>1. t \in Seq(Text) /\ Len(t) = Len(ls) - 1 /\ \A i \in 1 .. Len(t) : t[i] = ls[i + 1]
  BY HeadTailProperties
<1>. HIDE DEF t
<1>2. Len(ls) \in Nat \ {0}
  OBVIOUS
<1>3. Lengths(ls) # <<>> /\ Lengths(ls)[1] = Len(ls[1])
  BY <1>2, LengthsType
<1>4. Lengths(t) = Tail(Lengths(ls))
  <2>1. /\ Tail(Lengths(ls)) \in Seq(Nat) /\ Len(Tail(Lengths(ls))) = Len(ls) - 1
        /\ \A i \in 1 .. Len(ls) - 1 : Tail(Lengths(ls))[i] = Lengths(ls)[i + 1]
    BY <1>3, LengthsType, HeadTailProperties
  <2>2. ASSUME NEW i \in 1 .. Len(ls) - 1
        PROVE  Lengths(t)[i] = Tail(Lengths(ls))[i]
    <3>1. i + 1 \in 1 .. Len(ls) /\ i \in 1 .. Len(t)
      BY <1>1, <1>2
    <3>2. Lengths(t)[i] = Len(t[i]) /\ Lengths(ls)[i + 1] = Len(ls[i + 1])
      BY <1>1, <3>1, LengthsType
    <3>. QED
      BY <1>1, <2>1, <3>1, <3>2
  <2>3. Lengths(t) \in Seq(Nat) /\ Len(Lengths(t)) = Len(ls) - 1
    BY <1>1, LengthsType
  <2>. QED
    BY <2>1, <2>2, <2>3, SeqEqual
<1>. QED
  BY <1>3, <1>4, LengthsType, TotalTail DEF t

-----------------------------------------------------------------------------
(* One byte at a time: every step of the parser keeps its state in shape   *)
(* and changes its size by as much as the text it holds.                   *)

ParserType ==
  [state : {"Normal", "IAC", "WILL", "SB", "SB_IAC"},
   line : Text, option : Text, lines : Seq(Text), window : Text,
   replies : Seq(Byte \cup {"Yes"}), size : Int, lost : Nat]

LinesFit(ls) == \A i \in 1 .. Len(ls) : Len(ls[i]) \in 1 .. LineMax

ParserOK(r) ==
  /\ r \in ParserType
  /\ Len(r.line) <= LineMax /\ Len(r.option) <= OptionMax
  /\ LinesFit(r.lines)

Weight(r) == Len(r.line) + Total(Lengths(r.lines))

(* What one byte makes of a parser. *)
Fed(r, s) == ParserOK(s) /\ Weight(s) = Weight(r) + s.size - r.size

LEMMA ParserFields ==
  ASSUME NEW r, ParserOK(r)
  PROVE  /\ r.line \in Text /\ Len(r.line) \in Nat /\ Len(r.line) <= LineMax
         /\ r.option \in Text /\ Len(r.option) \in Nat /\ Len(r.option) <= OptionMax
         /\ r.lines \in Seq(Text) /\ LinesFit(r.lines) /\ Total(Lengths(r.lines)) \in Nat
         /\ r.window \in Text /\ r.replies \in Seq(Byte \cup {"Yes"})
         /\ r.size \in Int /\ r.lost \in Nat /\ Weight(r) \in Nat
<1>1. /\ r.line \in Text /\ r.option \in Text /\ r.lines \in Seq(Text) /\ r.window \in Text
      /\ r.replies \in Seq(Byte \cup {"Yes"}) /\ r.size \in Int /\ r.lost \in Nat
  BY DEF ParserOK, ParserType
<1>2. Len(r.line) \in Nat /\ Len(r.option) \in Nat
  BY <1>1 DEF Text
<1>. QED
  BY <1>1, <1>2, LengthsType DEF ParserOK, Weight

(* A step that touches neither the line, the lines nor the size. *)
LEMMA SameText ==
  ASSUME NEW r, ParserOK(r), NEW s \in ParserType,
         s.line = r.line, s.lines = r.lines, s.size = r.size, Len(s.option) <= OptionMax
  PROVE  Fed(r, s)
<1>1. Weight(s) = Weight(r)
  BY DEF Weight
<1>. QED
  BY <1>1, ParserFields DEF Fed, ParserOK

LEMMA ToFed ==
  ASSUME NEW r, ParserOK(r), NEW x \in {"Normal", "IAC", "WILL", "SB", "SB_IAC"}
  PROVE  /\ ParserOK(To(r, x)) /\ Fed(r, To(r, x))
         /\ To(r, x) = [r EXCEPT !.state = x]
         /\ To(r, x).line = r.line /\ To(r, x).lines = r.lines /\ To(r, x).size = r.size
         /\ To(r, x).option = r.option /\ To(r, x).window = r.window
         /\ To(r, x).replies = r.replies /\ To(r, x).lost = r.lost
<1>. DEFINE s == To(r, x)
<1>1. /\ s \in ParserType /\ s.line = r.line /\ s.lines = r.lines /\ s.size = r.size
      /\ s.option = r.option /\ s.window = r.window /\ s.replies = r.replies /\ s.lost = r.lost
  BY DEF To, ParserOK, ParserType
<1>2. Fed(r, s)
  <2>. HIDE DEF s
  <2>. QED
    BY <1>1, SameText, ParserFields
<1>. QED
  BY <1>1, <1>2 DEF Fed, To

LEMMA LongerText ==
  ASSUME NEW l \in Text, NEW b \in Byte
  PROVE  Append(l, b) \in Text /\ Len(Append(l, b)) = Len(l) + 1
BY AppendProperties DEF Text

LEMMA AcceptFed ==
  ASSUME NEW r, ParserOK(r), NEW b \in Byte
  PROVE  Fed(r, Accept(r, b))
<1>. DEFINE n == To(r, "Normal")
<1>1. /\ ParserOK(n) /\ n \in ParserType /\ Fed(r, n) /\ n.line = r.line /\ n.lines = r.lines
      /\ n.size = r.size /\ n.option = r.option
  BY ToFed DEF ParserOK
<1>2. CASE b \notin Printable
  BY <1>1, <1>2 DEF Accept
<1>. HIDE DEF n
<1>3. CASE b \in Printable /\ Len(r.line) < LineMax
  <2>. DEFINE s == [n EXCEPT !.line = Append(n.line, b), !.size = n.size + 1]
  <2>1. Accept(r, b) = s
    BY <1>3 DEF Accept, n
  <2>2. Append(n.line, b) \in Text /\ Len(Append(n.line, b)) = Len(r.line) + 1
    BY <1>1, LongerText, ParserFields
  <2>3. /\ s \in ParserType /\ s.line = Append(n.line, b) /\ s.lines = r.lines
        /\ s.size = r.size + 1 /\ s.option = r.option
    <3>. DEFINE l == Append(n.line, b)
                m == n.size + 1
    <3>1. m \in Int /\ l \in Text
      BY <1>1, <2>2, ParserFields
    <3>. HIDE DEF l, m
    <3>2. [n EXCEPT !.line = l, !.size = m] \in ParserType
      BY <1>1, <3>1 DEF ParserType
    <3>3. /\ s.line = l /\ s.size = m /\ s.lines = n.lines /\ s.option = n.option
      BY <1>1 DEF ParserType, l, m
    <3>. QED
      BY <1>1, <3>2, <3>3 DEF l, m
  <2>. HIDE DEF s
  <2>4. Weight(s) = Weight(r) + s.size - r.size
    BY <2>2, <2>3, ParserFields DEF Weight
  <2>5. ParserOK(s)
    BY <1>3, <2>2, <2>3, InputAssumption, ParserFields DEF ParserOK
  <2>. QED
    BY <2>1, <2>4, <2>5 DEF Fed
<1>4. CASE b \in Printable /\ ~ (Len(r.line) < LineMax)
  <2>. DEFINE s == [n EXCEPT !.lost = n.lost + 1]
  <2>1. Accept(r, b) = s
    BY <1>4 DEF Accept, n
  <2>2. /\ s \in ParserType /\ s.line = r.line /\ s.lines = r.lines
        /\ s.size = r.size /\ s.option = r.option
    BY <1>1 DEF ParserType
  <2>. HIDE DEF s
  <2>. QED
    BY <2>1, <2>2, SameText, ParserFields
<1>. QED
  BY <1>2, <1>3, <1>4

LEMMA EraseFed ==
  ASSUME NEW r, ParserOK(r)
  PROVE  Fed(r, Erase(r))
<1>. DEFINE n == To(r, "Normal")
<1>1. /\ n \in ParserType /\ Fed(r, n) /\ n.line = r.line /\ n.lines = r.lines
      /\ n.size = r.size /\ n.option = r.option
  BY ToFed DEF ParserOK
<1>2. CASE r.line = <<>>
  BY <1>1, <1>2 DEF Erase
<1>. HIDE DEF n
<1>3. CASE r.line # <<>>
  <2>. DEFINE l == Front(n.line)
              s == [n EXCEPT !.line = l, !.size = n.size - 1]
  <2>1. Erase(r) = s
    BY <1>3 DEF Erase, n
  <2>2. l \in Text /\ Len(l) = Len(r.line) - 1
    <3>1. r.line \in Seq(Byte) /\ Len(r.line) \in Nat \ {0}
      BY <1>3, ParserFields DEF Text
    <3>2. Len(r.line) - 1 \in Int /\ \A i \in 1 .. Len(r.line) - 1 : r.line[i] \in Byte
      BY <3>1
    <3>3. /\ SubSeq(r.line, 1, Len(r.line) - 1) \in Seq(Byte)
          /\ Len(SubSeq(r.line, 1, Len(r.line) - 1)) = Len(r.line) - 1
      BY <3>1, <3>2, SubSeqProperties
    <3>. QED
      BY <1>1, <3>3 DEF Front, Text
  <2>. HIDE DEF l
  <2>3. /\ s \in ParserType /\ s.line = l /\ s.lines = r.lines
        /\ s.size = r.size - 1 /\ s.option = r.option
    <3>. DEFINE m == n.size - 1
    <3>1. m \in Int
      BY <1>1, ParserFields
    <3>. HIDE DEF m
    <3>2. [n EXCEPT !.line = l, !.size = m] \in ParserType
      BY <1>1, <2>2, <3>1 DEF ParserType
    <3>3. /\ s.line = l /\ s.size = m /\ s.lines = n.lines /\ s.option = n.option
      BY <1>1 DEF ParserType, m
    <3>. QED
      BY <1>1, <3>2, <3>3 DEF m
  <2>. HIDE DEF s
  <2>4. Weight(s) = Weight(r) + s.size - r.size
    BY <2>2, <2>3, ParserFields DEF Weight
  <2>5. ParserOK(s)
    BY <2>2, <2>3, InputAssumption, ParserFields DEF ParserOK
  <2>. QED
    BY <2>1, <2>4, <2>5 DEF Fed
<1>. QED
  BY <1>2, <1>3

LEMMA AcceptLineFed ==
  ASSUME NEW r, ParserOK(r)
  PROVE  Fed(r, AcceptLine(r))
<1>1. r \in ParserType /\ Fed(r, r)
  BY SameText, ParserFields DEF ParserOK
<1>2. CASE r.line = <<>>
  BY <1>1, <1>2 DEF AcceptLine
<1>3. CASE r.line # <<>>
  <2>. DEFINE ls == Append(r.lines, r.line)
              s == [r EXCEPT !.lines = ls, !.line = <<>>]
  <2>1. AcceptLine(r) = s
    BY <1>3 DEF AcceptLine
  <2>2. /\ ls \in Seq(Text) /\ Len(ls) = Len(r.lines) + 1 /\ ls[Len(r.lines) + 1] = r.line
        /\ \A i \in 1 .. Len(r.lines) : ls[i] = r.lines[i]
    BY ParserFields, AppendProperties
  <2>3. Total(Lengths(ls)) = Total(Lengths(r.lines)) + Len(r.line)
    BY ParserFields, LengthsAppend
  <2>4. Len(r.line) \in 1 .. LineMax /\ Len(r.lines) \in Nat
    BY <1>3, ParserFields, InputAssumption DEF Text
  <2>. HIDE DEF ls
  <2>5. <<>> \in Text /\ Len(<<>>) = 0
    BY DEF Text
  <2>6. /\ s \in ParserType /\ s.line = <<>> /\ s.lines = ls
        /\ s.size = r.size /\ s.option = r.option
    BY <1>1, <2>2, <2>5 DEF ParserType
  <2>. HIDE DEF s
  <2>7. Weight(s) = Weight(r) + s.size - r.size
    BY <2>3, <2>5, <2>6, ParserFields DEF Weight
  <2>8. LinesFit(ls)
    <3>. SUFFICES ASSUME NEW i \in 1 .. Len(ls) PROVE Len(ls[i]) \in 1 .. LineMax
      BY DEF LinesFit
    <3>1. CASE i = Len(r.lines) + 1
      BY <2>2, <2>4, <3>1
    <3>2. CASE i # Len(r.lines) + 1
      <4>1. i \in 1 .. Len(r.lines) /\ ls[i] = r.lines[i]
        BY <2>2, <2>4, <3>2
      <4>. QED
        BY <4>1, ParserFields DEF LinesFit
    <3>. QED
      BY <3>1, <3>2
  <2>9. ParserOK(s)
    BY <2>5, <2>6, <2>8, InputAssumption, ParserFields DEF ParserOK
  <2>. QED
    BY <2>1, <2>7, <2>9 DEF Fed
<1>. QED
  BY <1>2, <1>3

LEMMA AcceptOptionFed ==
  ASSUME NEW r, ParserOK(r), NEW b \in Byte
  PROVE  Fed(r, AcceptOption(r, b))
<1>. DEFINE n == To(r, "SB")
            o == IF Len(n.option) < OptionMax THEN Append(n.option, b) ELSE n.option
            s == [n EXCEPT !.option = o]
<1>1. /\ n \in ParserType /\ n.line = r.line /\ n.lines = r.lines
      /\ n.size = r.size /\ n.option = r.option
  BY ToFed DEF ParserOK
<1>2. AcceptOption(r, b) = s
  BY DEF AcceptOption
<1>. HIDE DEF n
<1>3. o \in Text /\ Len(o) <= OptionMax
  <2>1. r.option \in Text /\ Len(r.option) \in Nat /\ Len(r.option) <= OptionMax
    BY ParserFields
  <2>2. Append(r.option, b) \in Text /\ Len(Append(r.option, b)) = Len(r.option) + 1
    BY <2>1, LongerText
  <2>. QED
    BY <1>1, <2>1, <2>2, InputAssumption
<1>. HIDE DEF o
<1>4. /\ s \in ParserType /\ s.line = r.line /\ s.lines = r.lines
      /\ s.size = r.size /\ s.option = o
  BY <1>1, <1>3 DEF ParserType
<1>. HIDE DEF s
<1>. QED
  BY <1>2, <1>3, <1>4, SameText

LEMMA CompleteFed ==
  ASSUME NEW r, ParserOK(r)
  PROVE  Fed(r, Complete(r))
<1>. DEFINE n == To(r, "Normal")
<1>1. /\ n \in ParserType /\ n.line = r.line /\ n.lines = r.lines
      /\ n.size = r.size /\ n.option = r.option /\ n.window \in Text
  BY ToFed, ParserFields DEF ParserOK
<1>2. \E w \in Text : Complete(r) = [n EXCEPT !.option = <<>>, !.window = w]
  <2>1. r.option # <<>> => Tail(r.option) \in Text
    BY ParserFields, HeadTailProperties DEF Text
  <2>. DEFINE told == /\ r.option # <<>> /\ Len(r.option) < OptionMax
                      /\ r.option[1] = "NAWS" /\ Len(r.option) = 2
              w == IF told THEN Tail(r.option) ELSE n.window
  <2>2. w \in Text
    BY <1>1, <2>1
  <2>3. Complete(r) = [n EXCEPT !.option = <<>>, !.window = w]
    BY DEF Complete
  <2>. QED
    BY <2>2, <2>3
<1>. HIDE DEF n
<1>3. PICK w \in Text : Complete(r) = [n EXCEPT !.option = <<>>, !.window = w]
  BY <1>2
<1>. DEFINE s == [n EXCEPT !.option = <<>>, !.window = w]
<1>4. <<>> \in Text /\ Len(<<>>) <= OptionMax
  BY InputAssumption DEF Text
<1>5. /\ s \in ParserType /\ s.line = r.line /\ s.lines = r.lines
      /\ s.size = r.size /\ s.option = <<>>
  BY <1>1, <1>4 DEF ParserType
<1>. HIDE DEF s
<1>. QED
  BY <1>3, <1>4, <1>5, SameText DEF s

LEMMA ReplyFed ==
  ASSUME NEW r, ParserOK(r), NEW what \in Byte \cup {"Yes"}
  PROVE  Fed(r, Reply(r, what))
<1>. DEFINE n == To(r, "Normal")
            a == Append(n.replies, what)
            s == [n EXCEPT !.replies = a]
<1>1. /\ n \in ParserType /\ n.line = r.line /\ n.lines = r.lines
      /\ n.size = r.size /\ n.option = r.option /\ n.replies = r.replies
  BY ToFed DEF ParserOK
<1>2. Reply(r, what) = s
  BY DEF Reply
<1>. HIDE DEF n
<1>3. a \in Seq(Byte \cup {"Yes"})
  BY <1>1, ParserFields, AppendProperties
<1>. HIDE DEF a
<1>4. /\ s \in ParserType /\ s.line = r.line /\ s.lines = r.lines
      /\ s.size = r.size /\ s.option = r.option
  BY <1>1, <1>3 DEF ParserType
<1>. HIDE DEF s
<1>. QED
  BY <1>2, <1>4, SameText, ParserFields

(* The option that IAC SB begins is empty. *)
LEMMA BeginFed ==
  ASSUME NEW r, ParserOK(r), NEW x \in {"Normal", "IAC", "WILL", "SB", "SB_IAC"}
  PROVE  Fed(r, [To(r, x) EXCEPT !.option = <<>>]) /\ Fed(r, [r EXCEPT !.option = <<>>])
<1>1. <<>> \in Text /\ Len(<<>>) <= OptionMax
  BY InputAssumption DEF Text
<1>2. ASSUME NEW n \in ParserType, n.line = r.line, n.lines = r.lines, n.size = r.size
      PROVE  Fed(r, [n EXCEPT !.option = <<>>])
  <2>. DEFINE s == [n EXCEPT !.option = <<>>]
  <2>1. /\ s \in ParserType /\ s.line = r.line /\ s.lines = r.lines
        /\ s.size = r.size /\ s.option = <<>>
    BY <1>1, <1>2 DEF ParserType
  <2>. HIDE DEF s
  <2>2. Fed(r, s)
    BY <1>1, <2>1, SameText
  <2>. QED
    BY <2>2 DEF s
<1>3. Fed(r, [To(r, x) EXCEPT !.option = <<>>])
  <2>. DEFINE n == To(r, x)
  <2>1. n \in ParserType /\ n.line = r.line /\ n.lines = r.lines /\ n.size = r.size
    BY ToFed DEF ParserOK
  <2>. HIDE DEF n
  <2>2. Fed(r, [n EXCEPT !.option = <<>>])
    BY <1>2, <2>1
  <2>. QED
    BY <2>2 DEF n
<1>4. Fed(r, [r EXCEPT !.option = <<>>])
  BY <1>2 DEF ParserOK
<1>. QED
  BY <1>3, <1>4

LEMMA FeedFed ==
  ASSUME NEW r, ParserOK(r), NEW b \in Byte
  PROVE  Fed(r, Feed(r, b))
<1>1. Fed(r, r)
  BY SameText, ParserFields DEF ParserOK
<1>2. Fed(r, To(r, "Normal")) /\ Fed(r, To(r, "IAC")) /\ Fed(r, To(r, "WILL")) /\ Fed(r, To(r, "SB_IAC"))
  BY ToFed
<1>3. Fed(r, Accept(r, b)) /\ Fed(r, Erase(r)) /\ Fed(r, AcceptLine(r)) /\ Fed(r, AcceptOption(r, b))
  BY AcceptFed, EraseFed, AcceptLineFed, AcceptOptionFed
<1>4. /\ Fed(r, Complete(r)) /\ Fed(r, Reply(r, "Yes")) /\ Fed(r, Reply(r, b))
      /\ Fed(r, [To(r, "SB") EXCEPT !.option = <<>>])
  BY CompleteFed, ReplyFed, BeginFed
<1>5. r.state \in {"Normal", "IAC", "WILL", "SB", "SB_IAC"}
  BY DEF ParserOK, ParserType
<1>6. CASE r.state = "Normal"
  BY <1>1, <1>2, <1>3, <1>6 DEF Feed
<1>7. CASE r.state = "IAC"
  BY <1>2, <1>3, <1>4, <1>7 DEF Feed
<1>8. CASE r.state = "WILL"
  BY <1>2, <1>4, <1>8 DEF Feed
<1>9. CASE r.state = "SB"
  BY <1>2, <1>3, <1>9 DEF Feed
<1>10. CASE r.state = "SB_IAC"
  BY <1>1, <1>3, <1>4, <1>10 DEF Feed
<1>. QED
  BY <1>5, <1>6, <1>7, <1>8, <1>9, <1>10

-----------------------------------------------------------------------------
(* The input of a descriptor.                                              *)

InputCounts == cut.size = 0 /\ input_size = Weight(cut)

InputIInv == ParserOK(cut) /\ InputCounts /\ ReadsDoNotMatter

(* What was counted is taken out of a parser. *)
LEMMA Emptied ==
  ASSUME NEW r, ParserOK(r)
  PROVE  LET s == [r EXCEPT !.size = 0] IN ParserOK(s) /\ s.size = 0 /\ Weight(s) = Weight(r)
<1>. DEFINE s == [r EXCEPT !.size = 0]
<1>1. /\ s \in ParserType /\ s.line = r.line /\ s.lines = r.lines
      /\ s.size = 0 /\ s.option = r.option
  BY DEF ParserOK, ParserType
<1>. HIDE DEF s
<1>2. ParserOK(s) /\ Weight(s) = Weight(r)
  BY <1>1, ParserFields DEF ParserOK, Weight
<1>. QED
  BY <1>1, <1>2 DEF s

LEMMA InputInitOK == InputInit => InputIInv
<1>. SUFFICES ASSUME InputInit PROVE InputIInv
  OBVIOUS
<1>. DEFINE f == FreshParser
<1>1. /\ <<>> \in Text /\ <<>> \in Seq(Text) /\ <<>> \in Seq(Byte \cup {"Yes"}) /\ Len(<<>>) = 0
  BY DEF Text
<1>2. /\ f \in ParserType /\ f.line = <<>> /\ f.lines = <<>> /\ f.option = <<>> /\ f.size = 0
  BY <1>1 DEF ParserType, FreshParser
<1>. HIDE DEF f
<1>3. ParserOK(f) /\ Weight(f) = 0
  BY <1>1, <1>2, LengthsEmpty, InputAssumption DEF ParserOK, LinesFit, Weight
<1>4. cut = f /\ whole = f /\ input_size = 0
  BY DEF InputInit, f
<1>. QED
  BY <1>2, <1>3, <1>4 DEF InputIInv, InputCounts, ReadsDoNotMatter

LEMMA ByteOK ==
  ASSUME InputIInv, NEW b \in Byte, NEW end \in BOOLEAN, process_input_helper(b, end)
  PROVE  InputIInv'
<1>. DEFINE c == Feed(cut, b)
            t == IF end THEN EndOfRead(c) ELSE c
<1>1. /\ ParserOK(cut) /\ cut.size = 0 /\ input_size = Weight(cut)
      /\ (~ overlong => cut = whole)
  BY DEF InputIInv, InputCounts, ReadsDoNotMatter
<1>2. /\ cut' = [t EXCEPT !.size = 0] /\ whole' = [Feed(whole, b) EXCEPT !.size = 0]
      /\ input_size' = input_size + t.size
      /\ overlong' = (overlong \/ (end /\ Len(c.option) = OptionMax))
  BY DEF process_input_helper
<1>3. ParserOK(c) /\ Weight(c) = Weight(cut) + c.size - 0
  BY <1>1, FeedFed DEF Fed
<1>4. /\ Len(c.option) \in Nat /\ Len(c.option) <= OptionMax /\ OptionMax \in Nat
      /\ c.size \in Int /\ Weight(c) \in Nat /\ Weight(cut) \in Nat
  BY <1>1, <1>3, ParserFields, InputAssumption
<1>. HIDE DEF c
<1>5. ParserOK(t) /\ Weight(t) = Weight(cut) + t.size
  <2>1. CASE t = c
    BY <1>3, <1>4, <2>1
  <2>2. CASE t = [c EXCEPT !.option = <<>>]
    <3>1. Fed(c, t)
      BY <1>3, <2>2, BeginFed
    <3>2. t.size \in Int
      BY <3>1, ParserFields DEF Fed
    <3>. QED
      BY <1>3, <1>4, <3>1, <3>2 DEF Fed
  <2>. QED
    BY <2>1, <2>2 DEF EndOfRead
<1>6. ~ overlong' => t = c
  BY <1>2, <1>4 DEF EndOfRead
<1>. HIDE DEF t
<1>7. ParserOK(cut') /\ cut'.size = 0 /\ Weight(cut') = Weight(t)
  BY <1>2, <1>5, Emptied
<1>8. input_size' = Weight(cut')
  BY <1>1, <1>2, <1>5, <1>7
<1>9. ~ overlong' => cut' = whole'
  BY <1>1, <1>2, <1>6 DEF c
<1>. QED
  BY <1>7, <1>8, <1>9 DEF InputIInv, InputCounts, ReadsDoNotMatter

LEMMA TakeLineOK ==
  ASSUME InputIInv, TakeLine
  PROVE  InputIInv'
<1>. DEFINE s == [cut EXCEPT !.lines = Tail(cut.lines)]
<1>1. /\ ParserOK(cut) /\ cut.size = 0 /\ input_size = Weight(cut)
      /\ (~ overlong => cut = whole)
  BY DEF InputIInv, InputCounts, ReadsDoNotMatter
<1>2. /\ cut.lines # <<>> /\ cut' = s /\ whole' = [whole EXCEPT !.lines = Tail(whole.lines)]
      /\ input_size' = input_size - Len(Head(cut.lines)) /\ overlong' = overlong
  BY DEF TakeLine
<1>3. /\ Tail(cut.lines) \in Seq(Text) /\ Len(Tail(cut.lines)) = Len(cut.lines) - 1
      /\ \A i \in 1 .. Len(Tail(cut.lines)) : Tail(cut.lines)[i] = cut.lines[i + 1]
      /\ Head(cut.lines) = cut.lines[1] /\ Len(cut.lines) \in Nat \ {0}
  BY <1>1, <1>2, ParserFields, HeadTailProperties
<1>4. Total(Lengths(Tail(cut.lines))) = Total(Lengths(cut.lines)) - Len(cut.lines[1])
  BY <1>1, <1>2, ParserFields, LengthsTail
<1>5. Len(cut.lines[1]) \in 1 .. LineMax
  BY <1>1, <1>3, ParserFields DEF LinesFit
<1>6. /\ s \in ParserType /\ s.line = cut.line /\ s.lines = Tail(cut.lines)
      /\ s.size = 0 /\ s.option = cut.option
  BY <1>1, <1>3 DEF ParserOK, ParserType
<1>. HIDE DEF s
<1>7. LinesFit(Tail(cut.lines))
  <2>. SUFFICES ASSUME NEW i \in 1 .. Len(Tail(cut.lines))
                PROVE  Len(Tail(cut.lines)[i]) \in 1 .. LineMax
    BY DEF LinesFit
  <2>1. i + 1 \in 1 .. Len(cut.lines) /\ Tail(cut.lines)[i] = cut.lines[i + 1]
    BY <1>3
  <2>. QED
    BY <1>1, <2>1, ParserFields DEF LinesFit
<1>8. ParserOK(s)
  BY <1>1, <1>6, <1>7 DEF ParserOK
<1>9. input_size' = Weight(s)
  BY SMTT(30), <1>1, <1>2, <1>3, <1>4, <1>5, <1>6, ParserFields, InputAssumption DEF Weight
<1>10. ~ overlong' => cut' = whole'
  BY <1>1, <1>2 DEF s
<1>. QED
  BY <1>2, <1>6, <1>8, <1>9, <1>10 DEF InputIInv, InputCounts, ReadsDoNotMatter

LEMMA InputRestartOK ==
  ASSUME InputIInv, InputRestart
  PROVE  InputIInv'
<1>. DEFINE s == Restarted(cut)
<1>1. ParserOK(cut) /\ cut.size = 0 /\ (~ overlong => cut = whole)
  BY DEF InputIInv, InputCounts, ReadsDoNotMatter
<1>2. cut' = s /\ whole' = Restarted(whole) /\ input_size' = 0 /\ overlong' = overlong
  BY DEF InputRestart
<1>3. /\ <<>> \in Text /\ <<>> \in Seq(Text) /\ Len(<<>>) = 0
  BY DEF Text
<1>4. /\ s \in ParserType /\ s.line = <<>> /\ s.lines = <<>> /\ s.option = <<>> /\ s.size = 0
  BY <1>1, <1>3 DEF ParserOK, ParserType, Restarted
<1>5. ~ overlong' => cut' = whole'
  BY <1>1, <1>2
<1>. HIDE DEF s
<1>6. ParserOK(s) /\ Weight(s) = 0
  BY <1>3, <1>4, LengthsEmpty, InputAssumption DEF ParserOK, LinesFit, Weight
<1>. QED
  BY <1>2, <1>4, <1>5, <1>6 DEF InputIInv, InputCounts, ReadsDoNotMatter

(* The shape of the parser and the size that is kept of it.                *)
THEOREM InputInvariant == InputSpec => []InputIInv
<1>1. InputInit => InputIInv
  BY InputInitOK
<1>2. InputIInv /\ UNCHANGED inputVars => InputIInv'
  BY DEF inputVars, InputIInv, ParserOK, InputCounts, ReadsDoNotMatter
<1>3. InputIInv /\ [InputNext]_inputVars => InputIInv'
  BY <1>2, ByteOK, TakeLineOK, InputRestartOK DEF InputNext
<1>. QED
  BY <1>1, <1>3, PTL DEF InputSpec

(* What is typed becomes the same lines, answers and windows however the bytes *)
(* are cut into reads, unless a read ends within a sub-option that fills its   *)
(* buffer, and the size that process_input and Task_ProcessCommand keep is     *)
(* that of the text that waits.                                                *)
THEOREM InputIsExact == InputSpec => []InputExact
<1>1. InputIInv => InputExact
  <2>. SUFFICES ASSUME InputIInv PROVE InputExact
    OBVIOUS
  <2>1. DOMAIN cut.lines = 1 .. Len(cut.lines)
    BY ParserFields DEF InputIInv
  <2>. QED
    BY <2>1 DEF InputIInv, InputCounts, ParserOK, LinesFit, Weight, InputExact, InputAccounted
<1>. QED
  BY <1>1, InputInvariant, PTL

-----------------------------------------------------------------------------
(* Telnet.                                                                 *)

Message == [command : {"WILL", "WONT", "DO", "DONT"}, option : Option]

-----------------------------------------------------------------------------
(* The messages of S in q are those of w, in the order of w.               *)

Embeds(f, q, S, w) ==
  /\ f \in [1 .. Len(w) -> 1 .. Len(q)]
  /\ \A j, k \in 1 .. Len(w) : j < k => f[j] < f[k]
  /\ \A j \in 1 .. Len(w) : q[f[j]] = w[j]
  /\ \A i \in 1 .. Len(q) : q[i] \in S => \E j \in 1 .. Len(w) : f[j] = i

About(q, S, w) == w \in Seq(S) /\ \E f : Embeds(f, q, S, w)

LEMMA AboutNothing ==
  ASSUME NEW S
  PROVE  About(<<>>, S, <<>>)
<1>1. <<>> \in Seq(S) /\ Len(<<>>) = 0 /\ 1 .. 0 = {}
  OBVIOUS
<1>2. Embeds([j \in 1 .. 0 |-> 0], <<>>, S, <<>>)
  BY <1>1 DEF Embeds
<1>. QED
  BY <1>1, <1>2 DEF About

LEMMA NothingAbout ==
  ASSUME NEW S, NEW w, About(<<>>, S, w)
  PROVE  w = <<>>
<1>1. PICK f : Embeds(f, <<>>, S, w)
  BY DEF About
<1>2. w \in Seq(S) /\ Len(w) \in Nat
  BY DEF About
<1>3. Len(w) = 0
  <2>. SUFFICES ASSUME Len(w) # 0 PROVE FALSE
    OBVIOUS
  <2>1. 1 \in 1 .. Len(w) /\ Len(<<>>) = 0
    BY <1>2
  <2>. QED
    BY <1>1, <2>1 DEF Embeds
<1>. QED
  BY <1>2, <1>3

(* One more message in the queue: of S or not.                             *)
LEMMA AboutAppend ==
  ASSUME NEW M, NEW q \in Seq(M), NEW S, NEW w, About(q, S, w), NEW m \in M
  PROVE  /\ m \in S => About(Append(q, m), S, Append(w, m))
         /\ m \notin S => About(Append(q, m), S, w)
<1>. DEFINE r == Append(q, m)
<1>1. PICK f : Embeds(f, q, S, w)
  BY DEF About
<1>2. w \in Seq(S) /\ Len(w) \in Nat /\ Len(q) \in Nat
  BY DEF About
<1>3. /\ r \in Seq(M) /\ Len(r) = Len(q) + 1 /\ r[Len(q) + 1] = m
      /\ \A i \in 1 .. Len(q) : r[i] = q[i]
  BY AppendProperties
<1>. HIDE DEF r
<1>4. /\ f \in [1 .. Len(w) -> 1 .. Len(q)]
      /\ \A j, k \in 1 .. Len(w) : j < k => f[j] < f[k]
      /\ \A j \in 1 .. Len(w) : q[f[j]] = w[j]
      /\ \A i \in 1 .. Len(q) : q[i] \in S => \E j \in 1 .. Len(w) : f[j] = i
  BY <1>1 DEF Embeds
<1>5. ASSUME m \notin S
      PROVE  About(r, S, w)
  <2>1. f \in [1 .. Len(w) -> 1 .. Len(r)]
    BY <1>2, <1>3, <1>4
  <2>2. \A j \in 1 .. Len(w) : r[f[j]] = w[j]
    BY <1>3, <1>4
  <2>3. \A i \in 1 .. Len(r) : r[i] \in S => \E j \in 1 .. Len(w) : f[j] = i
    <3>. SUFFICES ASSUME NEW i \in 1 .. Len(r), r[i] \in S
                  PROVE  \E j \in 1 .. Len(w) : f[j] = i
      OBVIOUS
    <3>1. i \in 1 .. Len(q)
      BY <1>2, <1>3, <1>5
    <3>. QED
      BY <1>3, <1>4, <3>1
  <2>4. Embeds(f, r, S, w)
    BY <1>4, <2>1, <2>2, <2>3 DEF Embeds
  <2>. QED
    BY <1>2, <2>4 DEF About
<1>6. ASSUME m \in S
      PROVE  About(r, S, Append(w, m))
  <2>. DEFINE v == Append(w, m)
              g == [j \in 1 .. Len(v) |-> IF j = Len(v) THEN Len(r) ELSE f[j]]
  <2>1. /\ v \in Seq(S) /\ Len(v) = Len(w) + 1 /\ v[Len(w) + 1] = m
        /\ \A j \in 1 .. Len(w) : v[j] = w[j]
    BY <1>2, <1>6, AppendProperties
  <2>. HIDE DEF v
  <2>2. \A j \in 1 .. Len(v) : (j = Len(v) /\ g[j] = Len(r)) \/ (j \in 1 .. Len(w) /\ g[j] = f[j])
    BY <1>2, <2>1
  <2>3. g \in [1 .. Len(v) -> 1 .. Len(r)]
    <3>1. ASSUME NEW j \in 1 .. Len(v)
          PROVE  (IF j = Len(v) THEN Len(r) ELSE f[j]) \in 1 .. Len(r)
      <4>1. CASE j = Len(v)
        BY <1>2, <1>3, <4>1
      <4>2. CASE j # Len(v)
        <5>1. j \in 1 .. Len(w)
          BY <1>2, <2>1, <4>2
        <5>2. f[j] \in 1 .. Len(q)
          BY <1>4, <5>1
        <5>. QED
          BY <1>2, <1>3, <4>2, <5>2
      <4>. QED
        BY <4>1, <4>2
    <3>. QED
      BY <3>1
  <2>. HIDE DEF g
  <2>4. \A j, k \in 1 .. Len(v) : j < k => g[j] < g[k]
    <3>. SUFFICES ASSUME NEW j \in 1 .. Len(v), NEW k \in 1 .. Len(v), j < k PROVE g[j] < g[k]
      OBVIOUS
    <3>1. j \in 1 .. Len(w) /\ g[j] = f[j] /\ f[j] \in 1 .. Len(q)
      <4>1. j # Len(v)
        BY <1>2, <2>1
      <4>2. j \in 1 .. Len(w) /\ g[j] = f[j]
        BY <2>2, <4>1
      <4>. QED
        BY <1>4, <4>2
    <3>2. CASE k = Len(v)
      BY <1>2, <1>3, <2>1, <2>2, <3>1, <3>2
    <3>3. CASE k # Len(v)
      BY <1>4, <2>1, <2>2, <3>1, <3>3
    <3>. QED
      BY <3>2, <3>3
  <2>5. \A j \in 1 .. Len(v) : r[g[j]] = v[j]
    <3>. TAKE j \in 1 .. Len(v)
    <3>1. CASE j = Len(v) /\ g[j] = Len(r)
      BY <1>2, <1>3, <2>1, <3>1
    <3>2. CASE j \in 1 .. Len(w) /\ g[j] = f[j]
      <4>1. f[j] \in 1 .. Len(q) /\ q[f[j]] = w[j] /\ v[j] = w[j]
        BY <1>4, <2>1, <3>2
      <4>2. r[f[j]] = q[f[j]]
        BY <1>3, <4>1
      <4>. QED
        BY <3>2, <4>1, <4>2
    <3>. QED
      BY <2>2, <3>1, <3>2
  <2>6. \A i \in 1 .. Len(r) : r[i] \in S => \E j \in 1 .. Len(v) : g[j] = i
    <3>. SUFFICES ASSUME NEW i \in 1 .. Len(r), r[i] \in S
                  PROVE  \E j \in 1 .. Len(v) : g[j] = i
      OBVIOUS
    <3>1. CASE i = Len(r)
      <4>1. Len(v) \in 1 .. Len(v) /\ g[Len(v)] = Len(r)
        BY <1>2, <2>1, <2>2
      <4>. QED
        BY <3>1, <4>1
    <3>2. CASE i # Len(r)
      <4>1. i \in 1 .. Len(q) /\ q[i] \in S
        BY <1>2, <1>3, <3>2
      <4>2. PICK j \in 1 .. Len(w) : f[j] = i
        BY <1>4, <4>1
      <4>3. j \in 1 .. Len(v) /\ j # Len(v)
        BY <1>2, <2>1
      <4>. QED
        BY <2>2, <4>2, <4>3
    <3>. QED
      BY <3>1, <3>2
  <2>7. Embeds(g, r, S, v)
    BY <2>3, <2>4, <2>5, <2>6 DEF Embeds
  <2>. QED
    BY <2>1, <2>7 DEF About, v
<1>. QED
  BY <1>5, <1>6 DEF r

(* The first message leaves the queue: it is not of S, or the first of w.  *)
LEMMA AboutTail ==
  ASSUME NEW M, NEW q \in Seq(M), q # <<>>, NEW S, NEW w, About(q, S, w)
  PROVE  /\ Head(q) \in S => w # <<>> /\ Head(w) = Head(q) /\ About(Tail(q), S, Tail(w))
         /\ Head(q) \notin S => About(Tail(q), S, w)
<1>. DEFINE r == Tail(q)
<1>1. PICK f : Embeds(f, q, S, w)
  BY DEF About
<1>2. w \in Seq(S) /\ Len(w) \in Nat /\ Len(q) \in Nat \ {0} /\ Head(q) = q[1]
  BY HeadTailProperties DEF About
<1>3. r \in Seq(M) /\ Len(r) = Len(q) - 1 /\ \A i \in 1 .. Len(r) : r[i] = q[i + 1]
  BY HeadTailProperties
<1>. HIDE DEF r
<1>4. /\ f \in [1 .. Len(w) -> 1 .. Len(q)]
      /\ \A j, k \in 1 .. Len(w) : j < k => f[j] < f[k]
      /\ \A j \in 1 .. Len(w) : q[f[j]] = w[j]
      /\ \A i \in 1 .. Len(q) : q[i] \in S => \E j \in 1 .. Len(w) : f[j] = i
  BY <1>1 DEF Embeds
<1>5. \A j \in 1 .. Len(w) : w[j] \in S /\ f[j] \in 1 .. Len(q)
  BY <1>2, <1>4
<1>6. ASSUME Head(q) \notin S
      PROVE  About(r, S, w)
  <2>. DEFINE g == [j \in 1 .. Len(w) |-> f[j] - 1]
  <2>1. \A j \in 1 .. Len(w) : f[j] # 1
    BY <1>2, <1>4, <1>5, <1>6
  <2>2. \A j \in 1 .. Len(w) : f[j] - 1 \in 1 .. Len(r) /\ g[j] = f[j] - 1
    BY <1>2, <1>3, <1>5, <2>1
  <2>3. g \in [1 .. Len(w) -> 1 .. Len(r)]
    BY <2>2
  <2>. HIDE DEF g
  <2>4. \A j, k \in 1 .. Len(w) : j < k => g[j] < g[k]
    BY <1>2, <1>4, <1>5, <2>2
  <2>5. \A j \in 1 .. Len(w) : r[g[j]] = w[j]
    <3>. TAKE j \in 1 .. Len(w)
    <3>1. r[f[j] - 1] = q[(f[j] - 1) + 1] /\ (f[j] - 1) + 1 = f[j]
      BY <1>3, <1>5, <2>2
    <3>. QED
      BY <1>4, <2>2, <3>1
  <2>6. \A i \in 1 .. Len(r) : r[i] \in S => \E j \in 1 .. Len(w) : g[j] = i
    <3>. SUFFICES ASSUME NEW i \in 1 .. Len(r), r[i] \in S
                  PROVE  \E j \in 1 .. Len(w) : g[j] = i
      OBVIOUS
    <3>1. i + 1 \in 1 .. Len(q) /\ q[i + 1] \in S
      BY <1>2, <1>3
    <3>2. PICK j \in 1 .. Len(w) : f[j] = i + 1
      BY <1>4, <3>1
    <3>. QED
      BY <2>2, <3>2
  <2>7. Embeds(g, r, S, w)
    BY <2>3, <2>4, <2>5, <2>6 DEF Embeds
  <2>. QED
    BY <1>2, <2>7 DEF About
<1>7. ASSUME Head(q) \in S
      PROVE  w # <<>> /\ Head(w) = Head(q) /\ About(r, S, Tail(w))
  <2>1. PICK one \in 1 .. Len(w) : f[one] = 1
    BY <1>2, <1>4, <1>7
  <2>2. w # <<>> /\ Len(w) \in Nat \ {0}
    BY <1>2, <2>1
  <2>3. one = 1
    <3>. SUFFICES ASSUME one # 1 PROVE FALSE
      OBVIOUS
    <3>1. 1 \in 1 .. Len(w) /\ 1 < one
      BY <1>2, <2>1
    <3>2. f[1] < 1 /\ f[1] \in 1 .. Len(q)
      BY <1>4, <1>5, <2>1, <3>1
    <3>. QED
      BY <1>2, <3>2
  <2>4. Head(w) = Head(q)
    BY <1>2, <1>4, <2>1, <2>2, <2>3
  <2>. DEFINE v == Tail(w)
              g == [j \in 1 .. Len(v) |-> f[j + 1] - 1]
  <2>5. v \in Seq(S) /\ Len(v) = Len(w) - 1 /\ \A j \in 1 .. Len(v) : v[j] = w[j + 1]
    BY <1>2, <2>2, HeadTailProperties
  <2>. HIDE DEF v
  <2>6. \A j \in 1 .. Len(v) :
          /\ j + 1 \in 1 .. Len(w) /\ f[j + 1] \in 1 .. Len(q) /\ f[j + 1] > 1
          /\ f[j + 1] - 1 \in 1 .. Len(r) /\ g[j] = f[j + 1] - 1
    <3>. SUFFICES ASSUME NEW j \in 1 .. Len(v)
                  PROVE  /\ j + 1 \in 1 .. Len(w) /\ f[j + 1] \in 1 .. Len(q) /\ f[j + 1] > 1
                         /\ f[j + 1] - 1 \in 1 .. Len(r) /\ g[j] = f[j + 1] - 1
      OBVIOUS
    <3>1. j + 1 \in 1 .. Len(w) /\ 1 \in 1 .. Len(w) /\ 1 < j + 1
      BY <1>2, <2>2, <2>5
    <3>2. f[j + 1] \in 1 .. Len(q) /\ f[1] < f[j + 1]
      BY <1>4, <1>5, <3>1
    <3>. QED
      BY <1>2, <1>3, <2>1, <2>3, <3>1, <3>2
  <2>7. g \in [1 .. Len(v) -> 1 .. Len(r)]
    BY <2>6
  <2>. HIDE DEF g
  <2>8. \A j, k \in 1 .. Len(v) : j < k => g[j] < g[k]
    <3>. SUFFICES ASSUME NEW j \in 1 .. Len(v), NEW k \in 1 .. Len(v), j < k PROVE g[j] < g[k]
      OBVIOUS
    <3>1. j + 1 < k + 1
      OBVIOUS
    <3>2. f[j + 1] < f[k + 1]
      BY <1>4, <2>6, <3>1
    <3>. QED
      BY SMTT(30), <2>6, <3>2
  <2>9. \A j \in 1 .. Len(v) : r[g[j]] = v[j]
    <3>. TAKE j \in 1 .. Len(v)
    <3>1. r[f[j + 1] - 1] = q[(f[j + 1] - 1) + 1] /\ (f[j + 1] - 1) + 1 = f[j + 1]
      BY SMTT(30), <1>3, <2>6
    <3>2. q[f[j + 1]] = w[j + 1]
      BY <1>4, <2>6
    <3>. QED
      BY <2>5, <2>6, <3>1, <3>2
  <2>10. \A i \in 1 .. Len(r) : r[i] \in S => \E j \in 1 .. Len(v) : g[j] = i
    <3>. SUFFICES ASSUME NEW i \in 1 .. Len(r), r[i] \in S
                  PROVE  \E j \in 1 .. Len(v) : g[j] = i
      OBVIOUS
    <3>1. i + 1 \in 1 .. Len(q) /\ q[i + 1] \in S /\ i + 1 # 1
      BY <1>2, <1>3
    <3>2. PICK k \in 1 .. Len(w) : f[k] = i + 1
      BY <1>4, <3>1
    <3>3. k - 1 \in 1 .. Len(v) /\ (k - 1) + 1 = k
      BY <1>2, <2>1, <2>3, <2>5, <3>1, <3>2
    <3>4. g[k - 1] = i
      BY SMTT(30), <2>6, <3>2, <3>3
    <3>. QED
      BY <3>3, <3>4
  <2>11. Embeds(g, r, S, v)
    BY <2>7, <2>8, <2>9, <2>10 DEF Embeds
  <2>. QED
    BY <2>2, <2>4, <2>5, <2>11 DEF About, v
<1>. QED
  BY <1>6, <1>7 DEF r

-----------------------------------------------------------------------------
(* One side of one option.  The server thinks x of it, the client thinks   *)
(* y; the messages of the client about it, on or off, that the server has  *)
(* not read are v, and the answers of the server, yes or no, are w.        *)

InStep(x, y, v, w, on, off, yes, no, willing) ==
  \/ x = "NO" /\ y = "NO" /\ v = <<>> /\ w = <<>>
  \/ x = "YES" /\ y = "YES" /\ v = <<>> /\ w = <<>>
  \/ x = "WANTYES_EMPTY" /\ y = "NO" /\ v = <<>> /\ w = <<yes>>
  \/ x = "WANTYES_EMPTY" /\ y = "NO" /\ v = <<off>> /\ w = <<>> /\ ~ willing
  \/ x = "WANTYES_EMPTY" /\ y = "YES" /\ v = <<on>> /\ w = <<>>
  \/ x = "WANTYES_EMPTY" /\ y = "WANTYES" /\ v = <<on>> /\ w = <<yes>>
  \/ x = "WANTYES_EMPTY" /\ y = "WANTNO" /\ v = <<on, off>> /\ w = <<>>
  \/ x = "YES" /\ y = "WANTYES" /\ v = <<>> /\ w = <<yes>>
  \/ x = "YES" /\ y = "WANTNO" /\ v = <<off>> /\ w = <<>>
  \/ x = "NO" /\ y = "WANTNO" /\ v = <<>> /\ w = <<no>>
  \/ x = "NO" /\ y = "WANTYES" /\ v = <<on>> /\ w = <<>>
  \/ x = "NO" /\ y = "WANTYES" /\ v = <<>> /\ w = <<no>>

Talks(toS, toC, x, y, on, off, yes, no, willing) ==
  \E v, w :
    /\ About(toS, {on, off}, v) /\ About(toC, {yes, no}, w)
    /\ InStep(x, y, v, w, on, off, yes, no, willing)

(* Messages of other conversations make no difference to one.               *)
LEMMA TalksOther ==
  ASSUME NEW M, NEW toS \in Seq(M), NEW toC \in Seq(M), NEW x, NEW y,
         NEW on \in M, NEW off \in M, NEW yes \in M, NEW no \in M, NEW willing,
         Talks(toS, toC, x, y, on, off, yes, no, willing), NEW m \in M
  PROVE  /\ m \notin {on, off} => Talks(Append(toS, m), toC, x, y, on, off, yes, no, willing)
         /\ m \notin {yes, no} => Talks(toS, Append(toC, m), x, y, on, off, yes, no, willing)
         /\ toS # <<>> /\ Head(toS) \notin {on, off}
              => Talks(Tail(toS), toC, x, y, on, off, yes, no, willing)
         /\ toC # <<>> /\ Head(toC) \notin {yes, no}
              => Talks(toS, Tail(toC), x, y, on, off, yes, no, willing)
<1>1. PICK v, w :
        /\ About(toS, {on, off}, v) /\ About(toC, {yes, no}, w)
        /\ InStep(x, y, v, w, on, off, yes, no, willing)
  BY DEF Talks
<1>2. m \notin {on, off} => About(Append(toS, m), {on, off}, v)
  BY <1>1, AboutAppend
<1>3. m \notin {yes, no} => About(Append(toC, m), {yes, no}, w)
  BY <1>1, AboutAppend
<1>4. toS # <<>> /\ Head(toS) \notin {on, off} => About(Tail(toS), {on, off}, v)
  BY <1>1, AboutTail
<1>5. toC # <<>> /\ Head(toC) \notin {yes, no} => About(Tail(toC), {yes, no}, w)
  BY <1>1, AboutTail
<1>. QED
  BY <1>1, <1>2, <1>3, <1>4, <1>5 DEF Talks

(* What is left of what was on its way.                                     *)
LEMMA ShortQueues ==
  ASSUME NEW a, NEW b
  PROVE  /\ Head(<<a>>) = a /\ Tail(<<a>>) = <<>> /\ <<a>> # <<>>
         /\ Head(<<a, b>>) = a /\ Tail(<<a, b>>) = <<b>> /\ <<a, b>> # <<>>
         /\ Append(<<>>, a) = <<a>> /\ Append(<<a>>, b) = <<a, b>>
<1>1. Head(<<a>>) = a /\ <<a>> # <<>> /\ Head(<<a, b>>) = a /\ <<a, b>> # <<>>
  OBVIOUS
<1>2. Append(<<>>, a) = <<a>>
  OBVIOUS
<1>. DEFINE one == <<a>>
            last == <<b>>
            two == <<a, b>>
            S == {a, b}
<1>3. /\ one \in Seq(S) /\ Len(one) = 1 /\ one[1] = a
      /\ last \in Seq(S) /\ Len(last) = 1 /\ last[1] = b
      /\ two \in Seq(S) /\ Len(two) = 2 /\ two[1] = a /\ two[2] = b
      /\ a \in S /\ b \in S
  OBVIOUS
<1>4. Tail(<<a>>) = <<>>
  OBVIOUS
<1>. HIDE DEF one, last, two, S
<1>5. Append(one, b) = two
  <2>1. /\ Append(one, b) \in Seq(S) /\ Len(Append(one, b)) = 2
        /\ Append(one, b)[1] = a /\ Append(one, b)[2] = b
    <3>1. /\ Append(one, b) \in Seq(S) /\ Len(Append(one, b)) = Len(one) + 1
          /\ \A i \in 1 .. Len(one) : Append(one, b)[i] = one[i]
          /\ Append(one, b)[Len(one) + 1] = b
      <4>1. one \in Seq(S) /\ b \in S
        BY <1>3
      <4>. QED
        BY <4>1, AppendProperties
    <3>. QED
      BY <1>3, <3>1
  <2>2. \A i \in 1 .. 2 : i = 1 \/ i = 2
    OBVIOUS
  <2>3. \A i \in 1 .. Len(two) : Append(one, b)[i] = two[i]
    BY <1>3, <2>1, <2>2
  <2>. QED
    BY <1>3, <2>1, <2>3, SeqEqual
<1>6. Tail(two) = last
  <2>1. /\ Tail(two) \in Seq(S) /\ Len(Tail(two)) = Len(two) - 1
        /\ \A i \in 1 .. Len(Tail(two)) : Tail(two)[i] = two[i + 1]
    BY SMTT(30), <1>3, HeadTailProperties
  <2>2. Len(Tail(two)) = 1 /\ Tail(two)[1] = b
    BY <1>3, <2>1
  <2>3. \A i \in 1 .. Len(last) : Tail(two)[i] = last[i]
    BY <1>3, <2>2
  <2>. QED
    BY <1>3, <2>1, <2>2, <2>3, SeqEqual
<1>. QED
  BY <1>1, <1>2, <1>4, <1>5, <1>6 DEF one, last, two

(* What the server becomes, and what it answers, if it is told on or off.   *)
LEMMA TalksServer ==
  ASSUME NEW M, NEW toS \in Seq(M), toS # <<>>, NEW toC \in Seq(M), NEW x, NEW y,
         NEW on \in M, NEW off \in M, NEW yes \in M, NEW no \in M, NEW willing,
         on # off, yes # no,
         Talks(toS, toC, x, y, on, off, yes, no, willing), Head(toS) \in {on, off}
  PROVE  LET q == Tail(toS) IN
         /\ x \in {"NO", "YES", "WANTYES_EMPTY"}
         /\ Head(toS) = on =>
              /\ x = "NO" => /\ Talks(q, Append(toC, yes), "YES", y, on, off, yes, no, willing)
                             /\ Talks(q, Append(toC, no), "NO", y, on, off, yes, no, willing)
              /\ x # "NO" => Talks(q, toC, "YES", y, on, off, yes, no, willing)
         /\ Head(toS) = off =>
              /\ x = "YES" => Talks(q, Append(toC, no), "NO", y, on, off, yes, no, willing)
              /\ x # "YES" => Talks(q, toC, "NO", y, on, off, yes, no, willing)
<1>1. PICK v, w :
        /\ About(toS, {on, off}, v) /\ About(toC, {yes, no}, w)
        /\ InStep(x, y, v, w, on, off, yes, no, willing)
  BY DEF Talks
<1>2. v # <<>> /\ Head(v) = Head(toS) /\ About(Tail(toS), {on, off}, Tail(v))
  BY <1>1, AboutTail
<1>3. /\ About(Append(toC, yes), {yes, no}, Append(w, yes))
      /\ About(Append(toC, no), {yes, no}, Append(w, no))
  BY <1>1, AboutAppend
<1>. DEFINE Left(a, b, z) == InStep(z, y, a, b, on, off, yes, no, willing)
<1>4. /\ x \in {"NO", "YES", "WANTYES_EMPTY"}
      /\ Head(v) = on =>
           /\ x = "NO" => Left(Tail(v), Append(w, yes), "YES") /\ Left(Tail(v), Append(w, no), "NO")
           /\ x # "NO" => Left(Tail(v), w, "YES")
      /\ Head(v) = off =>
           /\ x = "YES" => Left(Tail(v), Append(w, no), "NO")
           /\ x # "YES" => Left(Tail(v), w, "NO")
  <2>1. CASE x = "WANTYES_EMPTY" /\ y = "NO" /\ v = <<off>> /\ w = <<>>
    <3>1. Head(v) = off /\ Tail(v) = <<>>
      BY <2>1
    <3>. QED
      BY <2>1, <3>1 DEF InStep
  <2>2. CASE x = "WANTYES_EMPTY" /\ y \in {"YES", "WANTYES"} /\ v = <<on>>
    <3>1. Head(v) = on /\ Tail(v) = <<>>
      BY <2>2
    <3>. QED
      BY <1>1, <2>2, <3>1 DEF InStep
  <2>3. CASE x = "WANTYES_EMPTY" /\ y = "WANTNO" /\ v = <<on, off>> /\ w = <<>>
    <3>1. Head(v) = on /\ Tail(v) = <<off>>
      BY <2>3, ShortQueues
    <3>. QED
      BY <2>3, <3>1 DEF InStep
  <2>4. CASE x = "YES" /\ y = "WANTNO" /\ v = <<off>> /\ w = <<>>
    <3>1. Head(v) = off /\ Tail(v) = <<>> /\ Append(w, no) = <<no>>
      BY <2>4
    <3>. QED
      BY <2>4, <3>1 DEF InStep
  <2>5. CASE x = "NO" /\ y = "WANTYES" /\ v = <<on>> /\ w = <<>>
    <3>1. Head(v) = on /\ Tail(v) = <<>> /\ Append(w, yes) = <<yes>> /\ Append(w, no) = <<no>>
      BY <2>5
    <3>. QED
      BY <2>5, <3>1 DEF InStep
  <2>. HIDE DEF Left
  <2>. QED
    BY <1>1, <1>2, <2>1, <2>2, <2>3, <2>4, <2>5 DEF InStep
<1>. HIDE DEF Left
<1>. QED
  BY <1>1, <1>2, <1>3, <1>4 DEF Talks, Left

(* What the client becomes, and what it answers, if it is told yes or no.   *)
LEMMA TalksClient ==
  ASSUME NEW M, NEW toS \in Seq(M), NEW toC \in Seq(M), toC # <<>>, NEW x, NEW y,
         NEW on \in M, NEW off \in M, NEW yes \in M, NEW no \in M, NEW willing \in BOOLEAN,
         on # off, yes # no,
         Talks(toS, toC, x, y, on, off, yes, no, willing), Head(toC) \in {yes, no},
         NEW heard \in BOOLEAN, heard <=> Head(toC) = yes, NEW t, t = Told(y, heard, willing)
  PROVE  Talks(IF t.answers THEN Append(toS, IF t.agrees THEN on ELSE off) ELSE toS, Tail(toC),
               x, t.next, on, off, yes, no, willing)
<1>. DEFINE a == IF t.agrees THEN on ELSE off
<1>1. PICK v, w :
        /\ About(toS, {on, off}, v) /\ About(toC, {yes, no}, w)
        /\ InStep(x, y, v, w, on, off, yes, no, willing)
  BY DEF Talks
<1>2. w # <<>> /\ Head(w) = Head(toC) /\ About(Tail(toC), {yes, no}, Tail(w))
  BY <1>1, AboutTail
<1>3. /\ About(Append(toS, on), {on, off}, Append(v, on))
      /\ About(Append(toS, off), {on, off}, Append(v, off))
  BY <1>1, AboutAppend
<1>. DEFINE Left(b, z) == InStep(x, z, b, Tail(w), on, off, yes, no, willing)
<1>4. Left(IF t.answers THEN Append(v, a) ELSE v, t.next)
  <2>1. CASE y = "NO"
    <3>1. w = <<yes>> /\ x = "WANTYES_EMPTY" /\ v = <<>>
      BY <1>1, <1>2, <2>1 DEF InStep
    <3>2. Head(toC) = yes /\ Tail(w) = <<>>
      BY <1>2, <3>1
    <3>3. t = [next |-> IF willing THEN "YES" ELSE "NO", answers |-> TRUE, agrees |-> willing]
      BY <2>1, <3>2 DEF Told
    <3>. QED
      BY <3>1, <3>2, <3>3 DEF InStep
  <2>2. CASE y = "WANTYES"
    <3>1. t = [next |-> IF heard THEN "YES" ELSE "NO", answers |-> FALSE, agrees |-> FALSE]
      BY <2>2 DEF Told
    <3>2. CASE x = "WANTYES_EMPTY" /\ v = <<on>> /\ w = <<yes>>
      <4>1. Head(toC) = yes /\ Tail(w) = <<>>
        BY <1>2, <3>2
      <4>. QED
        BY <2>2, <3>1, <3>2, <4>1 DEF InStep
    <3>3. CASE x = "YES" /\ v = <<>> /\ w = <<yes>>
      <4>1. Head(toC) = yes /\ Tail(w) = <<>>
        BY <1>2, <3>3
      <4>. QED
        BY <2>2, <3>1, <3>3, <4>1 DEF InStep
    <3>4. CASE x = "NO" /\ v = <<>> /\ w = <<no>>
      <4>1. Head(toC) = no /\ Tail(w) = <<>>
        BY <1>2, <3>4
      <4>. QED
        BY <2>2, <3>1, <3>4, <4>1 DEF InStep
    <3>. HIDE DEF Left
    <3>. QED
      BY <1>1, <1>2, <2>2, <3>2, <3>3, <3>4 DEF InStep
  <2>3. CASE y = "WANTNO"
    <3>1. t = [next |-> "NO", answers |-> FALSE, agrees |-> FALSE]
      BY <2>3 DEF Told
    <3>2. x = "NO" /\ v = <<>> /\ w = <<no>>
      BY <1>1, <1>2, <2>3 DEF InStep
    <3>3. Tail(w) = <<>>
      BY <3>2
    <3>. QED
      BY <3>1, <3>2, <3>3 DEF InStep
  <2>4. y # "YES"
    BY <1>1, <1>2 DEF InStep
  <2>. QED
    BY <1>1, <2>1, <2>2, <2>3, <2>4 DEF InStep
<1>. HIDE DEF Left
<1>. QED
  BY <1>1, <1>2, <1>3, <1>4 DEF Talks, Left

(* The client asks for what it has not, and can do, or to be without it.    *)
LEMMA TalksAsk ==
  ASSUME NEW M, NEW toS \in Seq(M), NEW toC \in Seq(M), NEW x, NEW y,
         NEW on \in M, NEW off \in M, NEW yes \in M, NEW no \in M, NEW willing,
         Talks(toS, toC, x, y, on, off, yes, no, willing), y = "YES" \/ (y = "NO" /\ willing)
  PROVE  Talks(Append(toS, IF y = "NO" THEN on ELSE off), toC, x, Asked(y), on, off, yes, no, willing)
<1>1. PICK v, w :
        /\ About(toS, {on, off}, v) /\ About(toC, {yes, no}, w)
        /\ InStep(x, y, v, w, on, off, yes, no, willing)
  BY DEF Talks
<1>2. /\ About(Append(toS, on), {on, off}, Append(v, on))
      /\ About(Append(toS, off), {on, off}, Append(v, off))
  BY <1>1, AboutAppend
<1>3. CASE y = "YES"
  <2>1. InStep(x, "WANTNO", Append(v, off), w, on, off, yes, no, willing)
    BY ZenonT(40), <1>1, <1>3, ShortQueues DEF InStep
  <2>. QED
    BY <1>1, <1>2, <1>3, <2>1 DEF Talks, Asked
<1>4. CASE y = "NO" /\ willing
  <2>1. InStep(x, "WANTYES", Append(v, on), w, on, off, yes, no, willing)
    BY <1>1, <1>4, ShortQueues DEF InStep
  <2>. QED
    BY <1>1, <1>2, <1>4, <2>1 DEF Talks, Asked
<1>. QED
  BY <1>3, <1>4

-----------------------------------------------------------------------------
(* What the server does with a message.                                    *)

ServerState ==
  {"NO", "YES", "WANTNO_EMPTY", "WANTNO_OPPOSITE", "WANTYES_EMPTY", "WANTYES_OPPOSITE"}

ServerType ==
  [him : [Option -> ServerState], us : [Option -> ServerState], out : Seq(Message)]

(* Messages to the client about SGA of the server's side, which follows     *)
(* EOR and about which no agreement is claimed.                             *)
OfSGA == {Msg("WILL", "SGA"), Msg("WONT", "SGA")}

LEMMA MessageFacts ==
  ASSUME NEW c \in {"WILL", "WONT", "DO", "DONT"}, NEW o \in Option
  PROVE  /\ Msg(c, o) \in Message /\ Msg(c, o).command = c /\ Msg(c, o).option = o
         /\ \A d, p : Msg(c, o) = Msg(d, p) <=> c = d /\ o = p
BY DEF Msg, Message

LEMMA MessageOf ==
  ASSUME NEW m \in Message
  PROVE  /\ m.command \in {"WILL", "WONT", "DO", "DONT"} /\ m.option \in Option
         /\ m = Msg(m.command, m.option)
BY DEF Msg, Message

LEMMA Options == "EOR" \in Option /\ "SGA" \in Option /\ "NAWS" \in Option /\ "EOR" # "SGA"
BY DEF Option, Known

(* One field of what the server has become.                                 *)
LEMMA SendFacts ==
  ASSUME NEW t \in ServerType, NEW c \in {"WILL", "WONT", "DO", "DONT"}, NEW o \in Option
  PROVE  /\ Send(t, c, o) \in ServerType
         /\ Send(t, c, o).him = t.him /\ Send(t, c, o).us = t.us
         /\ Send(t, c, o).out = Append(t.out, Msg(c, o))
<1>1. Append(t.out, Msg(c, o)) \in Seq(Message)
  BY MessageFacts, AppendProperties DEF ServerType
<1>. QED
  BY <1>1 DEF Send, ServerType

LEMMA SetHimFacts ==
  ASSUME NEW t \in ServerType, NEW o \in Option, NEW x \in ServerState
  PROVE  LET u == SetHimState(t, o, x) IN
         /\ u \in ServerType /\ u.us = t.us /\ u.out = t.out
         /\ \A p \in Option : u.him[p] = IF p = o /\ o \in Known THEN x ELSE t.him[p]
BY DEF SetHimState, ServerType

LEMMA PutUsFacts ==
  ASSUME NEW t \in ServerType, NEW o \in Option, NEW x \in ServerState
  PROVE  LET u == [t EXCEPT !.us[o] = x] IN
         /\ u \in ServerType /\ u.him = t.him /\ u.out = t.out
         /\ \A p \in Option : u.us[p] = IF p = o THEN x ELSE t.us[p]
BY DEF ServerType

(* SGA follows: its state and messages about it are all that changes.       *)
SGAFollows(t, u) ==
  /\ u \in ServerType /\ u.him = t.him
  /\ \A p \in Option : p # "SGA" => u.us[p] = t.us[p]
  /\ u.out = t.out \/ \E m \in OfSGA : u.out = Append(t.out, m)

LEMMA EnableSGA ==
  ASSUME NEW t \in ServerType
  PROVE  SGAFollows(t, EnableUs(t, "SGA")) /\ SGAFollows(t, DisableUs(t, "SGA"))
<1>1. ASSUME NEW x \in ServerState, NEW c \in {"WILL", "WONT"}
      PROVE  LET u == [t EXCEPT !.us["SGA"] = x] IN SGAFollows(t, u) /\ SGAFollows(t, Send(u, c, "SGA"))
  <2>. DEFINE u == [t EXCEPT !.us["SGA"] = x]
  <2>1. /\ u \in ServerType /\ u.him = t.him /\ u.out = t.out
        /\ \A p \in Option : p # "SGA" => u.us[p] = t.us[p]
    BY PutUsFacts, Options
  <2>. HIDE DEF u
  <2>2. Msg(c, "SGA") \in OfSGA /\ c \in {"WILL", "WONT", "DO", "DONT"} /\ "SGA" \in Option
    BY Options DEF OfSGA
  <2>3. /\ Send(u, c, "SGA") \in ServerType
        /\ Send(u, c, "SGA").him = u.him /\ Send(u, c, "SGA").us = u.us
        /\ Send(u, c, "SGA").out = Append(u.out, Msg(c, "SGA"))
    BY <2>1, <2>2, SendFacts
  <2>4. SGAFollows(t, u) /\ SGAFollows(t, Send(u, c, "SGA"))
    BY <2>1, <2>2, <2>3 DEF SGAFollows
  <2>. QED
    BY <2>4 DEF u
<1>2. SGAFollows(t, t)
  BY DEF SGAFollows
<1>. QED
  BY <1>1, <1>2 DEF EnableUs, DisableUs, ServerState

LEMMA SetUsFacts ==
  ASSUME NEW t \in ServerType, NEW o \in Option, NEW x \in ServerState
  PROVE  LET u == SetUsState(t, o, x) IN
         /\ u \in ServerType /\ u.him = t.him
         /\ \A p \in Option : p # "SGA" => u.us[p] = IF p = o /\ o \in Known THEN x ELSE t.us[p]
         /\ u.out = t.out \/ \E m \in OfSGA : u.out = Append(t.out, m)
<1>. DEFINE put == IF o \in Known THEN [t EXCEPT !.us[o] = x] ELSE t
<1>1. /\ put \in ServerType /\ put.him = t.him /\ put.out = t.out
      /\ \A p \in Option : put.us[p] = IF p = o /\ o \in Known THEN x ELSE t.us[p]
  BY PutUsFacts
<1>2. SetUsState(t, o, x) \in {put, EnableUs(put, "SGA"), DisableUs(put, "SGA")}
  BY DEF SetUsState
<1>. HIDE DEF put
<1>3. SGAFollows(put, put)
  BY <1>1 DEF SGAFollows
<1>4. SGAFollows(put, SetUsState(t, o, x))
  BY <1>1, <1>2, <1>3, EnableSGA
<1>. QED
  BY <1>1, <1>4 DEF SGAFollows

(* WILL and WONT: the state of his side changes, and an answer follows. *)
LEMMA RespondHim ==
  ASSUME NEW t \in ServerType, NEW m \in Message, m.command \in {"WILL", "WONT"},
         t.him[m.option] \in {"NO", "YES", "WANTYES_EMPTY"},
         m.option \notin Known => t.him[m.option] = "NO"
  PROVE  LET u == Respond(t, m)
             o == m.option
             x == t.him[o]
         IN /\ u \in ServerType /\ u.us = t.us
            /\ \A p \in Option : p # o => u.him[p] = t.him[p]
            /\ m.command = "WILL" /\ x = "NO" /\ o \in Known
                 => u.him[o] = "YES" /\ u.out = Append(t.out, Msg("DO", o))
            /\ m.command = "WILL" /\ x = "NO" /\ o \notin Known
                 => u.him[o] = "NO" /\ u.out = Append(t.out, Msg("DONT", o))
            /\ m.command = "WILL" /\ x # "NO" => u.him[o] = "YES" /\ u.out = t.out
            /\ m.command = "WONT" /\ x = "YES"
                 => u.him[o] = "NO" /\ u.out = Append(t.out, Msg("DONT", o))
            /\ m.command = "WONT" /\ x # "YES" => u.him[o] = "NO" /\ u.out = t.out
<1>. DEFINE o == m.option
            x == t.him[o]
            u == Respond(t, m)
<1>1. o \in Option /\ t.him \in [Option -> ServerState] /\ t \in ServerType
  BY MessageOf DEF ServerType
<1>2. ASSUME NEW s \in {"NO", "YES"}
      PROVE  LET h == SetHimState(t, o, s) IN
             /\ h \in ServerType /\ h.us = t.us /\ h.out = t.out
             /\ \A p \in Option : h.him[p] = IF p = o /\ o \in Known THEN s ELSE t.him[p]
  <2>1. s \in ServerState
    BY DEF ServerState
  <2>. QED
    BY <1>1, <2>1, SetHimFacts
<1>3. CASE m.command = "WILL" /\ x = "NO" /\ o \in Known
  <2>. DEFINE h == SetHimState(t, o, "YES")
  <2>1. u = Send(h, "DO", o)
    BY <1>3 DEF Respond, Respond_WILL, DesiredHimOption
  <2>2. /\ h \in ServerType /\ h.us = t.us /\ h.out = t.out
        /\ \A p \in Option : h.him[p] = IF p = o THEN "YES" ELSE t.him[p]
    BY <1>2, <1>3
  <2>. HIDE DEF h, u
  <2>3. u \in ServerType /\ u.us = h.us /\ u.him = h.him /\ u.out = Append(h.out, Msg("DO", o))
    BY <1>1, <2>1, <2>2, SendFacts
  <2>. QED
    BY <1>1, <1>3, <2>2, <2>3 DEF u
<1>4. CASE m.command = "WILL" /\ x = "NO" /\ o \notin Known
  <2>1. u = Send(t, "DONT", o)
    BY <1>4 DEF Respond, Respond_WILL, DesiredHimOption
  <2>. HIDE DEF u
  <2>2. u \in ServerType /\ u.us = t.us /\ u.him = t.him /\ u.out = Append(t.out, Msg("DONT", o))
    BY <1>1, <2>1, SendFacts
  <2>. QED
    BY <1>1, <1>4, <2>2 DEF u
<1>5. CASE m.command = "WILL" /\ x # "NO"
  <2>. DEFINE h == SetHimState(t, o, "YES")
  <2>1. u = h
    BY <1>5 DEF Respond, Respond_WILL
  <2>2. o \in Known
    BY <1>5
  <2>3. /\ h \in ServerType /\ h.us = t.us /\ h.out = t.out
        /\ \A p \in Option : h.him[p] = IF p = o THEN "YES" ELSE t.him[p]
    BY <1>2, <2>2
  <2>. HIDE DEF h, u
  <2>. QED
    BY <1>1, <1>5, <2>1, <2>3 DEF u
<1>6. CASE m.command = "WONT" /\ x = "YES"
  <2>. DEFINE h == SetHimState(t, o, "NO")
  <2>1. u = Send(h, "DONT", o)
    BY <1>6 DEF Respond, Respond_WONT
  <2>2. o \in Known
    BY <1>6
  <2>3. /\ h \in ServerType /\ h.us = t.us /\ h.out = t.out
        /\ \A p \in Option : h.him[p] = IF p = o THEN "NO" ELSE t.him[p]
    BY <1>2, <2>2
  <2>. HIDE DEF h, u
  <2>4. u \in ServerType /\ u.us = h.us /\ u.him = h.him /\ u.out = Append(h.out, Msg("DONT", o))
    BY <1>1, <2>1, <2>3, SendFacts
  <2>. QED
    BY <1>1, <1>6, <2>3, <2>4 DEF u
<1>7. CASE m.command = "WONT" /\ x # "YES"
  <2>. DEFINE h == SetHimState(t, o, "NO")
  <2>1. \/ u = t /\ x = "NO"
        \/ u = h /\ x = "WANTYES_EMPTY" /\ o \in Known
    <3>1. u = Respond_WONT(t, o)
      BY <1>7 DEF Respond
    <3>2. x \in {"NO", "WANTYES_EMPTY"}
      BY <1>7
    <3>3. CASE x = "NO"
      BY <3>1, <3>3 DEF Respond_WONT
    <3>4. CASE x = "WANTYES_EMPTY"
      BY <3>1, <3>4 DEF Respond_WONT
    <3>. QED
      BY <3>2, <3>3, <3>4
  <2>2. /\ h \in ServerType /\ h.us = t.us /\ h.out = t.out
        /\ \A p \in Option : h.him[p] = IF p = o /\ o \in Known THEN "NO" ELSE t.him[p]
    BY <1>2
  <2>. HIDE DEF h, u
  <2>. QED
    BY <1>1, <1>7, <2>1, <2>2 DEF u
<1>. HIDE DEF u
<1>. QED
  BY <1>3, <1>4, <1>5, <1>6, <1>7 DEF u

(* DO and DONT: the state of our side changes, SGA may follow, and an      *)
(* answer follows.                                                         *)
Answers(t, m, u, s) ==
  LET o == m.option
      x == t.us[o]
  IN /\ u \in ServerType /\ u.him = t.him
     /\ \A p \in Option : p # o /\ p # "SGA" => u.us[p] = t.us[p]
     /\ s = t.out \/ \E a \in OfSGA : s = Append(t.out, a)
     /\ m.command = "DO" /\ x = "NO" /\ o = "EOR"
          => u.us[o] = "YES" /\ u.out = Append(s, Msg("WILL", o))
     /\ m.command = "DO" /\ x = "NO" /\ o # "EOR"
          => u.us[o] = "NO" /\ u.out = Append(s, Msg("WONT", o))
     /\ m.command = "DO" /\ x # "NO" => u.us[o] = "YES" /\ u.out = s
     /\ m.command = "DONT" /\ x = "YES"
          => u.us[o] = "NO" /\ u.out = Append(s, Msg("WONT", o))
     /\ m.command = "DONT" /\ x # "YES" => u.us[o] = "NO" /\ u.out = s

LEMMA RespondUs ==
  ASSUME NEW t \in ServerType, NEW m \in Message, m.command \in {"DO", "DONT"},
         m.option # "SGA",
         t.us[m.option] \in {"NO", "YES", "WANTYES_EMPTY"},
         m.option # "EOR" => t.us[m.option] = "NO"
  PROVE  \E s : Answers(t, m, Respond(t, m), s)
<1>. DEFINE o == m.option
            x == t.us[o]
            u == Respond(t, m)
<1>1. o \in Option /\ t.us \in [Option -> ServerState] /\ "EOR" \in Known
  BY MessageOf DEF ServerType, Known
<1>2. ASSUME NEW z \in {"NO", "YES"}
      PROVE  LET h == SetUsState(t, o, z) IN
             /\ h \in ServerType /\ h.him = t.him
             /\ \A p \in Option : p # "SGA" => h.us[p] = IF p = o /\ o \in Known THEN z ELSE t.us[p]
             /\ h.out = t.out \/ \E a \in OfSGA : h.out = Append(t.out, a)
  <2>1. z \in ServerState
    BY DEF ServerState
  <2>. QED
    BY <1>1, <2>1, SetUsFacts
<1>3. CASE m.command = "DO" /\ x = "NO" /\ o = "EOR"
  <2>. DEFINE h == SetUsState(t, o, "YES")
  <2>1. u = Send(h, "WILL", o)
    BY <1>3 DEF Respond, Respond_DO, DesiredUsOption
  <2>2. /\ h \in ServerType /\ h.him = t.him
        /\ \A p \in Option : p # "SGA" => h.us[p] = IF p = o THEN "YES" ELSE t.us[p]
        /\ h.out = t.out \/ \E a \in OfSGA : h.out = Append(t.out, a)
    BY <1>1, <1>2, <1>3
  <2>. HIDE DEF h, u
  <2>3. u \in ServerType /\ u.us = h.us /\ u.him = h.him /\ u.out = Append(h.out, Msg("WILL", o))
    BY <1>1, <2>1, <2>2, SendFacts
  <2>. QED
    BY <1>1, <1>3, <2>2, <2>3 DEF u, Answers
<1>4. CASE m.command = "DO" /\ x = "NO" /\ o # "EOR"
  <2>1. u = Send(t, "WONT", o)
    BY <1>4 DEF Respond, Respond_DO, DesiredUsOption
  <2>. HIDE DEF u
  <2>2. u \in ServerType /\ u.us = t.us /\ u.him = t.him /\ u.out = Append(t.out, Msg("WONT", o))
    BY <1>1, <2>1, SendFacts
  <2>. QED
    BY <1>1, <1>4, <2>2 DEF u, Answers
<1>5. CASE m.command = "DO" /\ x # "NO"
  <2>. DEFINE h == SetUsState(t, o, "YES")
  <2>1. u = h
    BY <1>5 DEF Respond, Respond_DO
  <2>2. o \in Known
    BY <1>1, <1>5
  <2>3. /\ h \in ServerType /\ h.him = t.him
        /\ \A p \in Option : p # "SGA" => h.us[p] = IF p = o THEN "YES" ELSE t.us[p]
        /\ h.out = t.out \/ \E a \in OfSGA : h.out = Append(t.out, a)
    BY <1>2, <2>2
  <2>. HIDE DEF h, u
  <2>. QED
    BY <1>1, <1>5, <2>1, <2>3 DEF u, Answers
<1>6. CASE m.command = "DONT" /\ x = "YES"
  <2>. DEFINE h == SetUsState(t, o, "NO")
  <2>1. u = Send(h, "WONT", o)
    BY <1>6 DEF Respond, Respond_DONT
  <2>2. o \in Known
    BY <1>1, <1>6
  <2>3. /\ h \in ServerType /\ h.him = t.him
        /\ \A p \in Option : p # "SGA" => h.us[p] = IF p = o THEN "NO" ELSE t.us[p]
        /\ h.out = t.out \/ \E a \in OfSGA : h.out = Append(t.out, a)
    BY <1>2, <2>2
  <2>. HIDE DEF h, u
  <2>4. u \in ServerType /\ u.us = h.us /\ u.him = h.him /\ u.out = Append(h.out, Msg("WONT", o))
    BY <1>1, <2>1, <2>3, SendFacts
  <2>. QED
    BY <1>1, <1>6, <2>3, <2>4 DEF u, Answers
<1>7. CASE m.command = "DONT" /\ x # "YES"
  <2>. DEFINE h == SetUsState(t, o, "NO")
  <2>1. u = h
    BY <1>7 DEF Respond, Respond_DONT
  <2>2. o \notin Known => x = "NO"
    BY <1>1
  <2>3. /\ h \in ServerType /\ h.him = t.him
        /\ \A p \in Option : p # "SGA" => h.us[p] = IF p = o THEN "NO" ELSE t.us[p]
        /\ h.out = t.out \/ \E a \in OfSGA : h.out = Append(t.out, a)
    BY <1>2, <2>2
  <2>. HIDE DEF h, u
  <2>. QED
    BY <1>1, <1>7, <2>1, <2>3 DEF u, Answers
<1>. HIDE DEF u
<1>. QED
  BY <1>3, <1>4, <1>5, <1>6, <1>7 DEF u

(* About SGA of our side anything may be said, and nothing else.           *)
LEMMA RespondSGA ==
  ASSUME NEW t \in ServerType, NEW m \in Message, m.command \in {"DO", "DONT"}, m.option = "SGA"
  PROVE  SGAFollows(t, Respond(t, m))
<1>1. "SGA" \in Option /\ "SGA" \in Known
  BY Options DEF Known
<1>2. ASSUME NEW z \in ServerState, NEW c \in {"WILL", "WONT"}
      PROVE  LET h == SetUsState(t, "SGA", z) IN SGAFollows(t, h) /\ SGAFollows(t, Send(h, c, "SGA"))
  <2>. DEFINE h == [t EXCEPT !.us["SGA"] = z]
  <2>1. SetUsState(t, "SGA", z) = h
    BY <1>1 DEF SetUsState
  <2>2. /\ h \in ServerType /\ h.him = t.him /\ h.out = t.out
        /\ \A p \in Option : p # "SGA" => h.us[p] = t.us[p]
    BY <1>1, PutUsFacts
  <2>. HIDE DEF h
  <2>3. Msg(c, "SGA") \in OfSGA /\ c \in {"WILL", "WONT", "DO", "DONT"}
    BY DEF OfSGA
  <2>4. /\ Send(h, c, "SGA") \in ServerType
        /\ Send(h, c, "SGA").him = h.him /\ Send(h, c, "SGA").us = h.us
        /\ Send(h, c, "SGA").out = Append(h.out, Msg(c, "SGA"))
    BY <1>1, <2>2, <2>3, SendFacts
  <2>. QED
    BY <2>1, <2>2, <2>3, <2>4 DEF SGAFollows
<1>3. SGAFollows(t, Send(t, "WONT", "SGA"))
  <2>1. Msg("WONT", "SGA") \in OfSGA
    BY DEF OfSGA
  <2>. QED
    BY <1>1, <2>1, SendFacts DEF SGAFollows
<1>. QED
  BY <1>2, <1>3 DEF Respond, Respond_DO, Respond_DONT, ServerState

-----------------------------------------------------------------------------
(* Every conversation but that about SGA of the server's side.             *)

Types ==
  /\ Server \in ServerType
  /\ toServer \in Seq(Message)
  /\ clientHim \in [Option -> {"NO", "YES", "WANTYES", "WANTNO"}]
  /\ clientUs \in [Option -> {"NO", "YES", "WANTYES", "WANTNO"}]

(* The server does not want what it does not know.                         *)
Unwanted ==
  /\ \A o \in Option \ Known : him[o] = "NO"
  /\ \A o \in Option \ {"EOR", "SGA"} : us[o] = "NO"

HimTalks ==
  \A o \in Option :
    Talks(toServer, toClient, him[o], clientUs[o],
          Msg("WILL", o), Msg("WONT", o), Msg("DO", o), Msg("DONT", o), o \in offers)

UsTalks ==
  \A o \in Option \ {"SGA"} :
    Talks(toServer, toClient, us[o], clientHim[o],
          Msg("DO", o), Msg("DONT", o), Msg("WILL", o), Msg("WONT", o), o \in accepts)

TelnetIInv == Types /\ Unwanted /\ HimTalks /\ UsTalks

(* The messages of one conversation.                                       *)
LEMMA Subjects ==
  ASSUME NEW o \in Option
  PROVE  /\ Msg("WILL", o) \in Message /\ Msg("WONT", o) \in Message
         /\ Msg("DO", o) \in Message /\ Msg("DONT", o) \in Message
         /\ Msg("WILL", o) # Msg("WONT", o) /\ Msg("DO", o) # Msg("DONT", o)
         /\ \A m \in Message :
              /\ m \in {Msg("WILL", o), Msg("WONT", o)}
                   <=> m.option = o /\ m.command \in {"WILL", "WONT"}
              /\ m \in {Msg("DO", o), Msg("DONT", o)}
                   <=> m.option = o /\ m.command \in {"DO", "DONT"}
<1>1. /\ Msg("WILL", o) \in Message /\ Msg("WONT", o) \in Message
      /\ Msg("DO", o) \in Message /\ Msg("DONT", o) \in Message
      /\ Msg("WILL", o) # Msg("WONT", o) /\ Msg("DO", o) # Msg("DONT", o)
  BY MessageFacts
<1>2. ASSUME NEW m \in Message
      PROVE  /\ m \in {Msg("WILL", o), Msg("WONT", o)}
                   <=> m.option = o /\ m.command \in {"WILL", "WONT"}
             /\ m \in {Msg("DO", o), Msg("DONT", o)}
                   <=> m.option = o /\ m.command \in {"DO", "DONT"}
  <2>1. /\ m.command \in {"WILL", "WONT", "DO", "DONT"} /\ m.option \in Option
        /\ m = Msg(m.command, m.option)
    BY MessageOf
  <2>2. \A d : m = Msg(d, o) <=> m.command = d /\ m.option = o
    BY <2>1, MessageFacts
  <2>. QED
    BY <2>2
<1>. QED
  BY <1>1, <1>2

LEMMA SGAMessages ==
  ASSUME NEW a \in OfSGA
  PROVE  a \in Message /\ a.command \in {"WILL", "WONT"} /\ a.option = "SGA"
BY MessageFacts, Options DEF OfSGA

(* The server reads WILL or WONT. *)
LEMMA ReadsHimOK ==
  ASSUME TelnetIInv, ServerReads, Head(toServer).command \in {"WILL", "WONT"}
  PROVE  TelnetIInv'
<1>. DEFINE m == Head(toServer)
            o == m.option
            t == Server
            u == Respond(t, m)
            q == Tail(toServer)
<1>1. /\ toServer # <<>> /\ toServer' = q
      /\ him' = u.him /\ us' = u.us /\ toClient' = u.out
      /\ UNCHANGED <<clientHim, clientUs, accepts, offers>>
  BY DEF ServerReads, client
<1>2. /\ t \in ServerType /\ t.him = him /\ t.us = us /\ t.out = toClient
      /\ toServer \in Seq(Message) /\ toClient \in Seq(Message)
      /\ clientHim \in [Option -> {"NO", "YES", "WANTYES", "WANTNO"}]
      /\ clientUs \in [Option -> {"NO", "YES", "WANTYES", "WANTNO"}]
  BY DEF TelnetIInv, Types, Server, ServerType
<1>3. /\ m \in Message /\ o \in Option /\ m.command \in {"WILL", "WONT"}
      /\ q \in Seq(Message) /\ m = Msg(m.command, o)
  BY <1>1, <1>2, HeadTailProperties, MessageOf
<1>. HIDE DEF m, t, q
<1>4. Talks(toServer, toClient, him[o], clientUs[o],
            Msg("WILL", o), Msg("WONT", o), Msg("DO", o), Msg("DONT", o), o \in offers)
  BY <1>3 DEF TelnetIInv, HimTalks
<1>5. m \in {Msg("WILL", o), Msg("WONT", o)}
  BY <1>3, Subjects
<1>6. /\ him[o] \in {"NO", "YES", "WANTYES_EMPTY"}
      /\ m = Msg("WILL", o) =>
           /\ him[o] = "NO" =>
                /\ Talks(q, Append(toClient, Msg("DO", o)), "YES", clientUs[o],
                         Msg("WILL", o), Msg("WONT", o), Msg("DO", o), Msg("DONT", o), o \in offers)
                /\ Talks(q, Append(toClient, Msg("DONT", o)), "NO", clientUs[o],
                         Msg("WILL", o), Msg("WONT", o), Msg("DO", o), Msg("DONT", o), o \in offers)
           /\ him[o] # "NO" =>
                Talks(q, toClient, "YES", clientUs[o],
                      Msg("WILL", o), Msg("WONT", o), Msg("DO", o), Msg("DONT", o), o \in offers)
      /\ m = Msg("WONT", o) =>
           /\ him[o] = "YES" =>
                Talks(q, Append(toClient, Msg("DONT", o)), "NO", clientUs[o],
                      Msg("WILL", o), Msg("WONT", o), Msg("DO", o), Msg("DONT", o), o \in offers)
           /\ him[o] # "YES" =>
                Talks(q, toClient, "NO", clientUs[o],
                      Msg("WILL", o), Msg("WONT", o), Msg("DO", o), Msg("DONT", o), o \in offers)
  BY <1>1, <1>2, <1>3, <1>4, <1>5, Subjects, TalksServer DEF m, q
<1>7. o \notin Known => him[o] = "NO"
  BY <1>3 DEF TelnetIInv, Unwanted
<1>8. /\ u \in ServerType /\ u.us = us
      /\ \A p \in Option : p # o => u.him[p] = him[p]
      /\ m.command = "WILL" /\ him[o] = "NO" /\ o \in Known
           => u.him[o] = "YES" /\ u.out = Append(toClient, Msg("DO", o))
      /\ m.command = "WILL" /\ him[o] = "NO" /\ o \notin Known
           => u.him[o] = "NO" /\ u.out = Append(toClient, Msg("DONT", o))
      /\ m.command = "WILL" /\ him[o] # "NO" => u.him[o] = "YES" /\ u.out = toClient
      /\ m.command = "WONT" /\ him[o] = "YES"
           => u.him[o] = "NO" /\ u.out = Append(toClient, Msg("DONT", o))
      /\ m.command = "WONT" /\ him[o] # "YES" => u.him[o] = "NO" /\ u.out = toClient
  BY <1>2, <1>3, <1>6, <1>7, RespondHim
<1>. HIDE DEF u
<1>9. \/ u.out = toClient
      \/ \E a \in {Msg("DO", o), Msg("DONT", o)} : u.out = Append(toClient, a)
  BY <1>3, <1>8
<1>10. Types'
  BY <1>1, <1>2, <1>3, <1>8 DEF Types, Server, ServerType
<1>11. Unwanted'
  <2>1. \A p \in Option \ Known : u.him[p] = "NO"
    BY <1>3, <1>7, <1>8 DEF TelnetIInv, Unwanted
  <2>. QED
    BY <1>1, <1>8, <2>1 DEF TelnetIInv, Unwanted
<1>12. HimTalks'
  <2>. SUFFICES ASSUME NEW p \in Option
                PROVE  Talks(q, u.out, u.him[p], clientUs[p], Msg("WILL", p), Msg("WONT", p),
                             Msg("DO", p), Msg("DONT", p), p \in offers)
    BY <1>1 DEF HimTalks
  <2>1. CASE p = o
    <3>1. m = Msg("WILL", o) <=> m.command = "WILL"
      BY <1>3, MessageFacts
    <3>2. m = Msg("WONT", o) <=> m.command = "WONT"
      BY <1>3, MessageFacts
    <3>. QED
      BY <1>3, <1>6, <1>8, <2>1, <3>1, <3>2
  <2>2. CASE p # o
    <3>1. Talks(toServer, toClient, him[p], clientUs[p],
                Msg("WILL", p), Msg("WONT", p), Msg("DO", p), Msg("DONT", p), p \in offers)
      BY DEF TelnetIInv, HimTalks
    <3>2. /\ Msg("WILL", p) \in Message /\ Msg("WONT", p) \in Message
          /\ Msg("DO", p) \in Message /\ Msg("DONT", p) \in Message
      BY Subjects
    <3>3. m \notin {Msg("WILL", p), Msg("WONT", p)}
      BY <1>3, <2>2, Subjects
    <3>4. Talks(q, toClient, him[p], clientUs[p],
                Msg("WILL", p), Msg("WONT", p), Msg("DO", p), Msg("DONT", p), p \in offers)
      BY <1>1, <1>2, <3>1, <3>2, <3>3, TalksOther DEF m, q
    <3>5. ASSUME NEW a \in {Msg("DO", o), Msg("DONT", o)}
          PROVE  a \in Message /\ a \notin {Msg("DO", p), Msg("DONT", p)}
      <4>1. a \in Message /\ a.option = o
        BY <1>3, Subjects
      <4>. QED
        BY <2>2, <4>1, Subjects
    <3>6. \A a \in {Msg("DO", o), Msg("DONT", o)} :
            Talks(q, Append(toClient, a), him[p], clientUs[p],
                  Msg("WILL", p), Msg("WONT", p), Msg("DO", p), Msg("DONT", p), p \in offers)
      BY <1>2, <1>3, <3>2, <3>4, <3>5, TalksOther
    <3>. QED
      BY <1>8, <1>9, <2>2, <3>4, <3>6
  <2>. QED
    BY <2>1, <2>2
<1>13. UsTalks'
  <2>. SUFFICES ASSUME NEW p \in Option, p # "SGA"
                PROVE  Talks(q, u.out, us[p], clientHim[p], Msg("DO", p), Msg("DONT", p),
                             Msg("WILL", p), Msg("WONT", p), p \in accepts)
    BY <1>1, <1>8 DEF UsTalks
  <2>1. Talks(toServer, toClient, us[p], clientHim[p],
              Msg("DO", p), Msg("DONT", p), Msg("WILL", p), Msg("WONT", p), p \in accepts)
    BY DEF TelnetIInv, UsTalks
  <2>2. /\ Msg("WILL", p) \in Message /\ Msg("WONT", p) \in Message
        /\ Msg("DO", p) \in Message /\ Msg("DONT", p) \in Message
    BY Subjects
  <2>3. m \notin {Msg("DO", p), Msg("DONT", p)}
    BY <1>3, Subjects
  <2>4. Talks(q, toClient, us[p], clientHim[p],
              Msg("DO", p), Msg("DONT", p), Msg("WILL", p), Msg("WONT", p), p \in accepts)
    BY <1>1, <1>2, <2>1, <2>2, <2>3, TalksOther DEF m, q
  <2>5. ASSUME NEW a \in {Msg("DO", o), Msg("DONT", o)}
        PROVE  a \in Message /\ a \notin {Msg("WILL", p), Msg("WONT", p)}
    <3>1. a \in Message /\ a.command \in {"DO", "DONT"}
      BY <1>3, Subjects
    <3>. QED
      BY <3>1, Subjects
  <2>6. \A a \in {Msg("DO", o), Msg("DONT", o)} :
          Talks(q, Append(toClient, a), us[p], clientHim[p],
                Msg("DO", p), Msg("DONT", p), Msg("WILL", p), Msg("WONT", p), p \in accepts)
    BY <1>2, <1>3, <2>2, <2>4, <2>5, TalksOther
  <2>. QED
    BY <1>9, <2>4, <2>6
<1>. QED
  BY <1>10, <1>11, <1>12, <1>13 DEF TelnetIInv

(* Conversations of the server's side p that only hear of others. *)
LEMMA OthersHear ==
  ASSUME TelnetIInv, NEW m \in Message, toServer # <<>>, m = Head(toServer),
         NEW out, NEW s \in Seq(Message), NEW c \in {"WILL", "WONT"}, NEW o \in Option,
         s = toClient \/ \E a \in OfSGA : s = Append(toClient, a),
         out = s \/ out = Append(s, Msg(c, o)),
         m.command \in {"DO", "DONT"}, m.option = o
  PROVE  LET q == Tail(toServer) IN
         /\ \A p \in Option :
              Talks(q, out, him[p], clientUs[p], Msg("WILL", p), Msg("WONT", p),
                    Msg("DO", p), Msg("DONT", p), p \in offers)
         /\ \A p \in Option : p # o /\ p # "SGA" =>
              Talks(q, out, us[p], clientHim[p], Msg("DO", p), Msg("DONT", p),
                    Msg("WILL", p), Msg("WONT", p), p \in accepts)
<1>. DEFINE q == Tail(toServer)
<1>1. toServer \in Seq(Message) /\ toClient \in Seq(Message)
  BY DEF TelnetIInv, Types, Server, ServerType
<1>2. q \in Seq(Message)
  BY <1>1, HeadTailProperties
<1>3. c \in {"WILL", "WONT", "DO", "DONT"} /\ Msg(c, o) \in Message
      /\ Msg(c, o).command = c /\ Msg(c, o).option = o
  BY MessageFacts
<1>. HIDE DEF q
<1>4. ASSUME NEW p \in Option
      PROVE  Talks(q, out, him[p], clientUs[p], Msg("WILL", p), Msg("WONT", p),
                   Msg("DO", p), Msg("DONT", p), p \in offers)
  <2>. DEFINE T(a) == Talks(q, a, him[p], clientUs[p], Msg("WILL", p), Msg("WONT", p),
                            Msg("DO", p), Msg("DONT", p), p \in offers)
  <2>1. Talks(toServer, toClient, him[p], clientUs[p], Msg("WILL", p), Msg("WONT", p),
              Msg("DO", p), Msg("DONT", p), p \in offers)
    BY DEF TelnetIInv, HimTalks
  <2>2. /\ Msg("WILL", p) \in Message /\ Msg("WONT", p) \in Message
        /\ Msg("DO", p) \in Message /\ Msg("DONT", p) \in Message
    BY Subjects
  <2>3. m \notin {Msg("WILL", p), Msg("WONT", p)}
    BY Subjects
  <2>4. T(toClient)
    BY <1>1, <2>1, <2>2, <2>3, TalksOther DEF q
  <2>5. ASSUME NEW b \in Seq(Message), T(b), NEW a \in Message, a.command \in {"WILL", "WONT"}
        PROVE  T(Append(b, a))
    <3>1. a \notin {Msg("DO", p), Msg("DONT", p)}
      BY <2>5, Subjects
    <3>. QED
      BY <1>2, <2>2, <2>5, <3>1, TalksOther
  <2>. HIDE DEF T
  <2>6. T(s)
    BY <1>1, <2>4, <2>5, SGAMessages
  <2>7. T(out)
    BY <1>3, <2>5, <2>6
  <2>. QED
    BY <2>7 DEF T
<1>5. ASSUME NEW p \in Option, p # o, p # "SGA"
      PROVE  Talks(q, out, us[p], clientHim[p], Msg("DO", p), Msg("DONT", p),
                   Msg("WILL", p), Msg("WONT", p), p \in accepts)
  <2>. DEFINE T(a) == Talks(q, a, us[p], clientHim[p], Msg("DO", p), Msg("DONT", p),
                            Msg("WILL", p), Msg("WONT", p), p \in accepts)
  <2>1. Talks(toServer, toClient, us[p], clientHim[p], Msg("DO", p), Msg("DONT", p),
              Msg("WILL", p), Msg("WONT", p), p \in accepts)
    BY <1>5 DEF TelnetIInv, UsTalks
  <2>2. /\ Msg("WILL", p) \in Message /\ Msg("WONT", p) \in Message
        /\ Msg("DO", p) \in Message /\ Msg("DONT", p) \in Message
    BY Subjects
  <2>3. m \notin {Msg("DO", p), Msg("DONT", p)}
    BY <1>5, Subjects
  <2>4. T(toClient)
    BY <1>1, <2>1, <2>2, <2>3, TalksOther DEF q
  <2>5. ASSUME NEW b \in Seq(Message), T(b), NEW a \in Message, a.option # p
        PROVE  T(Append(b, a))
    <3>1. a \notin {Msg("WILL", p), Msg("WONT", p)}
      BY <2>5, Subjects
    <3>. QED
      BY <1>2, <2>2, <2>5, <3>1, TalksOther
  <2>. HIDE DEF T
  <2>6. T(s)
    BY <1>1, <1>5, <2>4, <2>5, SGAMessages
  <2>7. T(out)
    BY <1>3, <1>5, <2>5, <2>6
  <2>. QED
    BY <2>7 DEF T
<1>. QED
  BY <1>4, <1>5 DEF q

(* The server reads DO or DONT about EOR, NAWS or an unknown option. *)
LEMMA ReadsUsOK ==
  ASSUME TelnetIInv, ServerReads, Head(toServer).command \in {"DO", "DONT"},
         Head(toServer).option # "SGA"
  PROVE  TelnetIInv'
<1>. DEFINE m == Head(toServer)
            o == m.option
            t == Server
            u == Respond(t, m)
            q == Tail(toServer)
            T(b, x) == Talks(q, b, x, clientHim[o], Msg("DO", o), Msg("DONT", o),
                             Msg("WILL", o), Msg("WONT", o), o \in accepts)
<1>1. /\ toServer # <<>> /\ toServer' = q
      /\ him' = u.him /\ us' = u.us /\ toClient' = u.out
      /\ UNCHANGED <<clientHim, clientUs, accepts, offers>>
  BY DEF ServerReads, client
<1>2. /\ t \in ServerType /\ t.him = him /\ t.us = us /\ t.out = toClient
      /\ toServer \in Seq(Message) /\ toClient \in Seq(Message)
      /\ clientHim \in [Option -> {"NO", "YES", "WANTYES", "WANTNO"}]
      /\ clientUs \in [Option -> {"NO", "YES", "WANTYES", "WANTNO"}]
  BY DEF TelnetIInv, Types, Server, ServerType
<1>3. /\ m \in Message /\ o \in Option /\ o # "SGA" /\ m.command \in {"DO", "DONT"}
      /\ q \in Seq(Message) /\ m = Msg(m.command, o) /\ m = Head(toServer)
  BY <1>1, <1>2, HeadTailProperties, MessageOf
<1>. HIDE DEF m, t, q
<1>4. Talks(toServer, toClient, us[o], clientHim[o], Msg("DO", o), Msg("DONT", o),
            Msg("WILL", o), Msg("WONT", o), o \in accepts)
  BY <1>3 DEF TelnetIInv, UsTalks
<1>5. m \in {Msg("DO", o), Msg("DONT", o)} /\ toServer # <<>>
  BY <1>1, <1>3, Subjects
<1>6. us[o] \in {"NO", "YES", "WANTYES_EMPTY"}
  BY <1>1, <1>2, <1>3, <1>4, <1>5, Subjects, TalksServer
<1>7. o # "EOR" => us[o] = "NO"
  BY <1>3 DEF TelnetIInv, Unwanted
<1>8. PICK s :
        /\ u \in ServerType /\ u.him = him
        /\ \A p \in Option : p # o /\ p # "SGA" => u.us[p] = us[p]
        /\ s = toClient \/ \E a \in OfSGA : s = Append(toClient, a)
        /\ m.command = "DO" /\ us[o] = "NO" /\ o = "EOR"
             => u.us[o] = "YES" /\ u.out = Append(s, Msg("WILL", o))
        /\ m.command = "DO" /\ us[o] = "NO" /\ o # "EOR"
             => u.us[o] = "NO" /\ u.out = Append(s, Msg("WONT", o))
        /\ m.command = "DO" /\ us[o] # "NO" => u.us[o] = "YES" /\ u.out = s
        /\ m.command = "DONT" /\ us[o] = "YES"
             => u.us[o] = "NO" /\ u.out = Append(s, Msg("WONT", o))
        /\ m.command = "DONT" /\ us[o] # "YES" => u.us[o] = "NO" /\ u.out = s
  <2>1. PICK s : Answers(t, m, u, s)
    BY <1>2, <1>3, <1>6, <1>7, RespondUs
  <2>. HIDE DEF u
  <2>. QED
    BY <1>2, <2>1 DEF Answers
<1>. HIDE DEF u
<1>9. s \in Seq(Message)
  BY SMTT(30), <1>2, <1>8, SGAMessages, AppendProperties
<1>10. /\ m = Msg("DO", o) =>
            /\ us[o] = "NO" => T(Append(s, Msg("WILL", o)), "YES") /\ T(Append(s, Msg("WONT", o)), "NO")
            /\ us[o] # "NO" => T(s, "YES")
       /\ m = Msg("DONT", o) =>
            /\ us[o] = "YES" => T(Append(s, Msg("WONT", o)), "NO")
            /\ us[o] # "YES" => T(s, "NO")
  <2>1. Talks(toServer, s, us[o], clientHim[o], Msg("DO", o), Msg("DONT", o),
              Msg("WILL", o), Msg("WONT", o), o \in accepts)
    <3>1. CASE s = toClient
      BY <1>4, <3>1
    <3>2. CASE \E a \in OfSGA : s = Append(toClient, a)
      <4>1. PICK a \in OfSGA : s = Append(toClient, a)
        BY <3>2
      <4>2. a \in Message /\ a \notin {Msg("WILL", o), Msg("WONT", o)}
        BY <1>3, SGAMessages, Subjects
      <4>3. /\ Msg("WILL", o) \in Message /\ Msg("WONT", o) \in Message
            /\ Msg("DO", o) \in Message /\ Msg("DONT", o) \in Message
        BY <1>3, Subjects
      <4>. QED
        BY <1>2, <1>4, <4>1, <4>2, <4>3, TalksOther
    <3>. QED
      BY <1>8, <3>1, <3>2
  <2>. QED
    BY <1>2, <1>3, <1>5, <1>9, <2>1, Subjects, TalksServer DEF q
<1>11. /\ m = Msg("DO", o) <=> m.command = "DO"
       /\ m = Msg("DONT", o) <=> m.command = "DONT"
  BY <1>3, MessageFacts
<1>12. T(u.out, u.us[o])
  <2>. HIDE DEF T
  <2>. QED
    BY <1>3, <1>7, <1>8, <1>10, <1>11
<1>13. \E c \in {"WILL", "WONT"} : u.out = s \/ u.out = Append(s, Msg(c, o))
  BY <1>3, <1>8
<1>14. /\ \A p \in Option :
             Talks(q, u.out, him[p], clientUs[p], Msg("WILL", p), Msg("WONT", p),
                   Msg("DO", p), Msg("DONT", p), p \in offers)
       /\ \A p \in Option : p # o /\ p # "SGA" =>
             Talks(q, u.out, us[p], clientHim[p], Msg("DO", p), Msg("DONT", p),
                   Msg("WILL", p), Msg("WONT", p), p \in accepts)
  <2>1. PICK c \in {"WILL", "WONT"} : u.out = s \/ u.out = Append(s, Msg(c, o))
    BY <1>13
  <2>2. (s = toClient \/ \E a \in OfSGA : s = Append(toClient, a)) /\ toServer # <<>>
    BY <1>1, <1>8
  <2>3. m = Head(toServer) /\ m \in Message /\ o \in Option /\ m.command \in {"DO", "DONT"}
    BY <1>3
  <2>. HIDE DEF o
  <2>4. m.option = o
    BY DEF o
  <2>. QED
    BY <1>9, <2>1, <2>2, <2>3, <2>4, OthersHear DEF q
<1>15. Types'
  BY <1>1, <1>2, <1>3, <1>8 DEF Types, Server, ServerType
<1>16. Unwanted'
  <2>1. \A p \in Option \ {"EOR", "SGA"} : u.us[p] = "NO"
    BY <1>3, <1>7, <1>8 DEF TelnetIInv, Unwanted
  <2>. QED
    BY <1>1, <1>8, <2>1 DEF TelnetIInv, Unwanted
<1>17. HimTalks'
  BY <1>1, <1>8, <1>14 DEF HimTalks
<1>18. UsTalks'
  <2>. SUFFICES ASSUME NEW p \in Option, p # "SGA"
                PROVE  Talks(q, u.out, u.us[p], clientHim[p], Msg("DO", p), Msg("DONT", p),
                             Msg("WILL", p), Msg("WONT", p), p \in accepts)
    BY <1>1 DEF UsTalks
  <2>1. CASE p = o
    BY <1>12, <2>1
  <2>2. CASE p # o
    BY <1>8, <1>14, <2>2
  <2>. QED
    BY <2>1, <2>2
<1>. QED
  BY <1>15, <1>16, <1>17, <1>18 DEF TelnetIInv

(* The server reads DO or DONT about SGA. *)
LEMMA ReadsSGAOK ==
  ASSUME TelnetIInv, ServerReads, Head(toServer).command \in {"DO", "DONT"},
         Head(toServer).option = "SGA"
  PROVE  TelnetIInv'
<1>. DEFINE m == Head(toServer)
            t == Server
            u == Respond(t, m)
            q == Tail(toServer)
<1>1. /\ toServer # <<>> /\ toServer' = q
      /\ him' = u.him /\ us' = u.us /\ toClient' = u.out
      /\ UNCHANGED <<clientHim, clientUs, accepts, offers>>
  BY DEF ServerReads, client
<1>2. /\ t \in ServerType /\ t.him = him /\ t.us = us /\ t.out = toClient
      /\ toServer \in Seq(Message) /\ toClient \in Seq(Message)
      /\ clientHim \in [Option -> {"NO", "YES", "WANTYES", "WANTNO"}]
      /\ clientUs \in [Option -> {"NO", "YES", "WANTYES", "WANTNO"}]
  BY DEF TelnetIInv, Types, Server, ServerType
<1>3. /\ m \in Message /\ "SGA" \in Option /\ m.command \in {"DO", "DONT"}
      /\ q \in Seq(Message) /\ m = Head(toServer) /\ m.option = "SGA"
  BY <1>1, <1>2, HeadTailProperties, Options
<1>. HIDE DEF m, t, q
<1>4. SGAFollows(t, u)
  BY <1>2, <1>3, RespondSGA
<1>. HIDE DEF u
<1>5. /\ u \in ServerType /\ u.him = him
      /\ \A p \in Option : p # "SGA" => u.us[p] = us[p]
      /\ u.out = toClient \/ \E a \in OfSGA : u.out = Append(toClient, a)
  BY <1>2, <1>4 DEF SGAFollows
<1>6. u.out \in Seq(Message)
  BY <1>5 DEF ServerType
<1>. DEFINE w == "WILL"
            sga == "SGA"
            out == u.out
<1>7. /\ \A p \in Option :
             Talks(q, out, him[p], clientUs[p], Msg("WILL", p), Msg("WONT", p),
                   Msg("DO", p), Msg("DONT", p), p \in offers)
      /\ \A p \in Option : p # sga /\ p # "SGA" =>
             Talks(q, out, us[p], clientHim[p], Msg("DO", p), Msg("DONT", p),
                   Msg("WILL", p), Msg("WONT", p), p \in accepts)
  <2>1. w \in {"WILL", "WONT"} /\ sga \in Option /\ m.option = sga
    BY <1>3
  <2>2. out \in Seq(Message) /\ (out = toClient \/ \E a \in OfSGA : out = Append(toClient, a))
    BY <1>5, <1>6
  <2>3. out = out \/ out = Append(out, Msg(w, sga))
    OBVIOUS
  <2>. HIDE DEF w, sga, out
  <2>. QED
    BY <1>1, <1>3, <2>1, <2>2, <2>3, OthersHear DEF q
<1>8. Types'
  BY <1>1, <1>2, <1>3, <1>5 DEF Types, Server, ServerType
<1>9. Unwanted'
  BY <1>1, <1>5 DEF TelnetIInv, Unwanted
<1>10. HimTalks' /\ UsTalks'
  BY <1>1, <1>5, <1>7 DEF HimTalks, UsTalks
<1>. QED
  BY <1>8, <1>9, <1>10 DEF TelnetIInv
-----------------------------------------------------------------------------
(* What the client does with a message.                                    *)

ClientState == {"NO", "YES", "WANTYES", "WANTNO"}

LEMMA ToldFacts ==
  ASSUME NEW x \in ClientState, NEW on \in BOOLEAN, NEW willing \in BOOLEAN
  PROVE  Told(x, on, willing).next \in ClientState
BY DEF Told, ClientState

(* A message of another conversation is read, and perhaps answered.         *)
LEMMA TalksPast ==
  ASSUME NEW M, NEW toS \in Seq(M), NEW toC \in Seq(M), toC # <<>>, NEW x, NEW y,
         NEW on \in M, NEW off \in M, NEW yes \in M, NEW no \in M, NEW willing,
         Talks(toS, toC, x, y, on, off, yes, no, willing), Head(toC) \notin {yes, no},
         NEW r \in M, r \notin {on, off}, NEW answers
  PROVE  Talks(IF answers THEN Append(toS, r) ELSE toS, Tail(toC), x, y, on, off, yes, no, willing)
<1>1. Talks(toS, Tail(toC), x, y, on, off, yes, no, willing)
  BY TalksOther
<1>2. Tail(toC) \in Seq(M)
  BY HeadTailProperties
<1>. DEFINE q == Tail(toC)
<1>. HIDE DEF q
<1>3. Talks(Append(toS, r), q, x, y, on, off, yes, no, willing)
  BY <1>1, <1>2, TalksOther DEF q
<1>. QED
  BY <1>1, <1>3 DEF q

(* The client reads WILL or WONT. *)
LEMMA HearsHimOK ==
  ASSUME TelnetIInv, ClientReads, Head(toClient).command \in {"WILL", "WONT"}
  PROVE  TelnetIInv'
<1>. DEFINE m == Head(toClient)
            o == m.option
            heard == m = Msg("WILL", o)
            willing == o \in accepts
            t == Told(clientHim[o], heard, willing)
            r == IF t.agrees THEN Msg("DO", o) ELSE Msg("DONT", o)
            s == IF t.answers THEN Append(toServer, r) ELSE toServer
            q == Tail(toClient)
<1>1. /\ Server \in ServerType /\ toServer \in Seq(Message) /\ toClient \in Seq(Message)
      /\ clientHim \in [Option -> ClientState] /\ clientUs \in [Option -> ClientState]
  BY DEF TelnetIInv, Types, Server, ServerType, ClientState
<1>2. toClient # <<>> /\ m \in Message /\ o \in Option /\ q \in Seq(Message) /\ m = Msg(m.command, o)
  BY <1>1, HeadTailProperties, MessageOf DEF ClientReads
<1>3. m = Msg("WILL", o) <=> m.command \in {"WILL", "DO"}
  BY <1>2, MessageFacts
<1>4. /\ clientHim' = [clientHim EXCEPT ![o] = t.next] /\ UNCHANGED clientUs
      /\ toServer' = s /\ toClient' = q
      /\ UNCHANGED <<him, us, accepts, offers>>
  <2>1. t = Told(clientHim[o], m.command \in {"WILL", "DO"}, o \in accepts)
    BY <1>3
  <2>. QED
    BY <2>1 DEF ClientReads
<1>5. t.next \in ClientState /\ r \in Message /\ r.command \in {"DO", "DONT"} /\ r.option = o
  <2>1. t.next \in ClientState
    <3>1. clientHim[o] \in ClientState /\ heard \in BOOLEAN /\ willing \in BOOLEAN
      BY <1>1, <1>2
    <3>. HIDE DEF heard, willing
    <3>. QED
      BY <3>1, ToldFacts
  <2>2. \A c \in {"DO", "DONT"} : Msg(c, o) \in Message /\ Msg(c, o).command = c /\ Msg(c, o).option = o
    BY <1>2, MessageFacts
  <2>. HIDE DEF t, m
  <2>. QED
    BY <2>1, <2>2
<1>6. s \in Seq(Message)
  BY <1>1, <1>5, AppendProperties
<1>11. heard \in BOOLEAN /\ willing \in BOOLEAN
  OBVIOUS
<1>. HIDE DEF q, r, s, t, m, heard, willing
<1>7. Types'
  <2>1. Server' = [him |-> him, us |-> us, out |-> q]
    BY <1>4 DEF Server
  <2>2. Server' \in ServerType
    BY <1>1, <1>2, <2>1 DEF Server, ServerType
  <2>. QED
    BY <1>1, <1>4, <1>5, <1>6, <2>2 DEF Types, ClientState
<1>8. Unwanted'
  BY <1>4 DEF TelnetIInv, Unwanted
<1>9. HimTalks'
  <2>. SUFFICES ASSUME NEW p \in Option
                PROVE  Talks(s, q, him[p], clientUs[p], Msg("WILL", p), Msg("WONT", p),
                             Msg("DO", p), Msg("DONT", p), p \in offers)
    BY <1>4 DEF HimTalks
  <2>1. Talks(toServer, toClient, him[p], clientUs[p], Msg("WILL", p), Msg("WONT", p),
              Msg("DO", p), Msg("DONT", p), p \in offers)
    BY DEF TelnetIInv, HimTalks
  <2>2. /\ Msg("WILL", p) \in Message /\ Msg("WONT", p) \in Message
        /\ Msg("DO", p) \in Message /\ Msg("DONT", p) \in Message
        /\ m \notin {Msg("DO", p), Msg("DONT", p)} /\ r \notin {Msg("WILL", p), Msg("WONT", p)}
    BY <1>2, <1>5, Subjects DEF m
  <2>. QED
    BY <1>1, <1>2, <1>5, <2>1, <2>2, TalksPast DEF q, s, m
<1>10. UsTalks'
  <2>. SUFFICES ASSUME NEW p \in Option, p # "SGA"
                PROVE  Talks(s, q, us[p], clientHim'[p], Msg("DO", p), Msg("DONT", p),
                             Msg("WILL", p), Msg("WONT", p), p \in accepts)
    BY <1>4 DEF UsTalks
  <2>1. Talks(toServer, toClient, us[p], clientHim[p], Msg("DO", p), Msg("DONT", p),
              Msg("WILL", p), Msg("WONT", p), p \in accepts)
    BY DEF TelnetIInv, UsTalks
  <2>2. /\ Msg("WILL", p) \in Message /\ Msg("WONT", p) \in Message
        /\ Msg("DO", p) \in Message /\ Msg("DONT", p) \in Message
        /\ Msg("WILL", p) # Msg("WONT", p) /\ Msg("DO", p) # Msg("DONT", p)
    BY Subjects
  <2>3. CASE p # o
    <3>1. m \notin {Msg("WILL", p), Msg("WONT", p)} /\ r \notin {Msg("DO", p), Msg("DONT", p)}
      BY <1>2, <1>5, <2>3, Subjects DEF m
    <3>2. clientHim'[p] = clientHim[p]
      BY <1>1, <1>4, <2>3
    <3>. QED
      BY <1>1, <1>2, <1>5, <2>1, <2>2, <3>1, <3>2, TalksPast DEF q, s, m
  <2>4. CASE p = o
    <3>1. Head(toClient) \in {Msg("WILL", p), Msg("WONT", p)}
      BY <1>2, <2>4, Subjects DEF m
    <3>2. heard <=> Head(toClient) = Msg("WILL", p)
      BY <2>4 DEF heard, m
    <3>3. t = Told(clientHim[p], heard, willing)
      BY <2>4 DEF t
    <3>4. Talks(IF t.answers THEN Append(toServer, IF t.agrees THEN Msg("DO", p) ELSE Msg("DONT", p))
                ELSE toServer, Tail(toClient), us[p], t.next,
                Msg("DO", p), Msg("DONT", p), Msg("WILL", p), Msg("WONT", p), willing)
      <4>1. Talks(toServer, toClient, us[p], clientHim[p], Msg("DO", p), Msg("DONT", p),
                  Msg("WILL", p), Msg("WONT", p), willing)
        BY <2>1, <2>4 DEF willing
      <4>. QED
        BY <1>1, <1>2, <1>11, <2>2, <3>1, <3>2, <3>3, <4>1, TalksClient
    <3>5. clientHim'[p] = t.next
      BY <1>1, <1>4, <2>4
    <3>. QED
      BY <2>4, <3>4, <3>5 DEF r, s, q, willing
  <2>. QED
    BY <2>3, <2>4
<1>. QED
  BY <1>7, <1>8, <1>9, <1>10 DEF TelnetIInv

(* The client reads DO or DONT. *)
LEMMA HearsUsOK ==
  ASSUME TelnetIInv, ClientReads, Head(toClient).command \in {"DO", "DONT"}
  PROVE  TelnetIInv'
<1>. DEFINE m == Head(toClient)
            o == m.option
            heard == m = Msg("DO", o)
            willing == o \in offers
            t == Told(clientUs[o], heard, willing)
            r == IF t.agrees THEN Msg("WILL", o) ELSE Msg("WONT", o)
            s == IF t.answers THEN Append(toServer, r) ELSE toServer
            q == Tail(toClient)
<1>1. /\ Server \in ServerType /\ toServer \in Seq(Message) /\ toClient \in Seq(Message)
      /\ clientUs \in [Option -> ClientState] /\ clientHim \in [Option -> ClientState]
  BY DEF TelnetIInv, Types, Server, ServerType, ClientState
<1>2. toClient # <<>> /\ m \in Message /\ o \in Option /\ q \in Seq(Message) /\ m = Msg(m.command, o)
  BY <1>1, HeadTailProperties, MessageOf DEF ClientReads
<1>3. m = Msg("DO", o) <=> m.command \in {"DO", "WILL"}
  BY <1>2, MessageFacts
<1>4. /\ clientUs' = [clientUs EXCEPT ![o] = t.next] /\ UNCHANGED clientHim
      /\ toServer' = s /\ toClient' = q
      /\ UNCHANGED <<him, us, offers, accepts>>
  <2>1. t = Told(clientUs[o], m.command \in {"DO", "WILL"}, o \in offers)
    BY <1>3
  <2>. QED
    BY <2>1 DEF ClientReads
<1>5. t.next \in ClientState /\ r \in Message /\ r.command \in {"WILL", "WONT"} /\ r.option = o
  <2>1. t.next \in ClientState
    <3>1. clientUs[o] \in ClientState /\ heard \in BOOLEAN /\ willing \in BOOLEAN
      BY <1>1, <1>2
    <3>. HIDE DEF heard, willing
    <3>. QED
      BY <3>1, ToldFacts
  <2>2. \A c \in {"WILL", "WONT"} : Msg(c, o) \in Message /\ Msg(c, o).command = c /\ Msg(c, o).option = o
    BY <1>2, MessageFacts
  <2>. HIDE DEF t, m
  <2>. QED
    BY <2>1, <2>2
<1>6. s \in Seq(Message)
  BY <1>1, <1>5, AppendProperties
<1>11. heard \in BOOLEAN /\ willing \in BOOLEAN
  OBVIOUS
<1>. HIDE DEF q, r, s, t, m, heard, willing
<1>7. Types'
  <2>1. Server' = [him |-> him, us |-> us, out |-> q]
    BY <1>4 DEF Server
  <2>2. Server' \in ServerType
    BY <1>1, <1>2, <2>1 DEF Server, ServerType
  <2>. QED
    BY <1>1, <1>4, <1>5, <1>6, <2>2 DEF Types, ClientState
<1>8. Unwanted'
  BY <1>4 DEF TelnetIInv, Unwanted
<1>9. UsTalks'
  <2>. SUFFICES ASSUME NEW p \in Option, p # "SGA"
                PROVE  Talks(s, q, us[p], clientHim[p], Msg("DO", p), Msg("DONT", p),
                             Msg("WILL", p), Msg("WONT", p), p \in accepts)
    BY <1>4 DEF UsTalks
  <2>1. Talks(toServer, toClient, us[p], clientHim[p], Msg("DO", p), Msg("DONT", p),
              Msg("WILL", p), Msg("WONT", p), p \in accepts)
    BY DEF TelnetIInv, UsTalks
  <2>2. /\ Msg("DO", p) \in Message /\ Msg("DONT", p) \in Message
        /\ Msg("WILL", p) \in Message /\ Msg("WONT", p) \in Message
        /\ m \notin {Msg("WILL", p), Msg("WONT", p)} /\ r \notin {Msg("DO", p), Msg("DONT", p)}
    BY <1>2, <1>5, Subjects DEF m
  <2>. QED
    BY <1>1, <1>2, <1>5, <2>1, <2>2, TalksPast DEF q, s, m
<1>10. HimTalks'
  <2>. SUFFICES ASSUME NEW p \in Option
                PROVE  Talks(s, q, him[p], clientUs'[p], Msg("WILL", p), Msg("WONT", p),
                             Msg("DO", p), Msg("DONT", p), p \in offers)
    BY <1>4 DEF HimTalks
  <2>1. Talks(toServer, toClient, him[p], clientUs[p], Msg("WILL", p), Msg("WONT", p),
              Msg("DO", p), Msg("DONT", p), p \in offers)
    BY DEF TelnetIInv, HimTalks
  <2>2. /\ Msg("DO", p) \in Message /\ Msg("DONT", p) \in Message
        /\ Msg("WILL", p) \in Message /\ Msg("WONT", p) \in Message
        /\ Msg("DO", p) # Msg("DONT", p) /\ Msg("WILL", p) # Msg("WONT", p)
    BY Subjects
  <2>3. CASE p # o
    <3>1. m \notin {Msg("DO", p), Msg("DONT", p)} /\ r \notin {Msg("WILL", p), Msg("WONT", p)}
      BY <1>2, <1>5, <2>3, Subjects DEF m
    <3>2. clientUs'[p] = clientUs[p]
      BY <1>1, <1>4, <2>3
    <3>. QED
      BY <1>1, <1>2, <1>5, <2>1, <2>2, <3>1, <3>2, TalksPast DEF q, s, m
  <2>4. CASE p = o
    <3>1. Head(toClient) \in {Msg("DO", p), Msg("DONT", p)}
      BY <1>2, <2>4, Subjects DEF m
    <3>2. heard <=> Head(toClient) = Msg("DO", p)
      BY <2>4 DEF heard, m
    <3>3. t = Told(clientUs[p], heard, willing)
      BY <2>4 DEF t
    <3>4. Talks(IF t.answers THEN Append(toServer, IF t.agrees THEN Msg("WILL", p) ELSE Msg("WONT", p))
                ELSE toServer, Tail(toClient), him[p], t.next,
                Msg("WILL", p), Msg("WONT", p), Msg("DO", p), Msg("DONT", p), willing)
      <4>1. Talks(toServer, toClient, him[p], clientUs[p], Msg("WILL", p), Msg("WONT", p),
                  Msg("DO", p), Msg("DONT", p), willing)
        BY <2>1, <2>4 DEF willing
      <4>. QED
        BY <1>1, <1>2, <1>11, <2>2, <3>1, <3>2, <3>3, <4>1, TalksClient
    <3>5. clientUs'[p] = t.next
      BY <1>1, <1>4, <2>4
    <3>. QED
      BY <2>4, <3>4, <3>5 DEF r, s, q, willing
  <2>. QED
    BY <2>3, <2>4
<1>. QED
  BY <1>7, <1>8, <1>9, <1>10 DEF TelnetIInv

(* The client asks for a change of the server's side. *)
LEMMA AsksHimOK ==
  ASSUME TelnetIInv, NEW o \in Option,
         clientHim[o] = "YES" \/ (clientHim[o] = "NO" /\ o \in accepts),
         clientHim' = [clientHim EXCEPT ![o] = Asked(@)],
         toServer' = Append(toServer, Msg(IF clientHim[o] = "NO" THEN "DO" ELSE "DONT", o)),
         UNCHANGED <<clientUs, him, us, toClient, accepts, offers>>
  PROVE  TelnetIInv'
<1>. DEFINE r == Msg(IF clientHim[o] = "NO" THEN "DO" ELSE "DONT", o)
            y == clientHim[o]
<1>1. /\ Server \in ServerType /\ toServer \in Seq(Message) /\ toClient \in Seq(Message)
      /\ clientHim \in [Option -> ClientState] /\ clientUs \in [Option -> ClientState]
  BY DEF TelnetIInv, Types, Server, ServerType, ClientState
<1>2. r \in Message /\ r.command \in {"DO", "DONT"} /\ r.option = o
  BY MessageFacts
<1>3. Asked(y) \in ClientState
  BY DEF Asked, ClientState
<1>4. toServer' = Append(toServer, r) /\ toServer' \in Seq(Message)
  BY <1>1, <1>2, AppendProperties
<1>5. Types'
  BY <1>1, <1>3, <1>4 DEF Types, Server, ClientState
<1>6. Unwanted'
  BY DEF TelnetIInv, Unwanted
<1>7. ASSUME NEW p \in Option
      PROVE  /\ Msg("WILL", p) \in Message /\ Msg("WONT", p) \in Message
             /\ Msg("DO", p) \in Message /\ Msg("DONT", p) \in Message
             /\ r \notin {Msg("WILL", p), Msg("WONT", p)}
             /\ p # o => r \notin {Msg("DO", p), Msg("DONT", p)}
  <2>. HIDE DEF r
  <2>. QED
    BY <1>2, Subjects
<1>. HIDE DEF r
<1>8. HimTalks'
  <2>. SUFFICES ASSUME NEW p \in Option
                PROVE  Talks(Append(toServer, r), toClient, him[p], clientUs[p],
                             Msg("WILL", p), Msg("WONT", p), Msg("DO", p), Msg("DONT", p), p \in offers)
    BY <1>4 DEF HimTalks
  <2>1. Talks(toServer, toClient, him[p], clientUs[p], Msg("WILL", p), Msg("WONT", p),
              Msg("DO", p), Msg("DONT", p), p \in offers)
    BY DEF TelnetIInv, HimTalks
  <2>. QED
    BY <1>1, <1>2, <1>7, <2>1, TalksOther
<1>9. UsTalks'
  <2>. SUFFICES ASSUME NEW p \in Option, p # "SGA"
                PROVE  Talks(Append(toServer, r), toClient, us[p], clientHim'[p],
                             Msg("DO", p), Msg("DONT", p), Msg("WILL", p), Msg("WONT", p), p \in accepts)
    BY <1>4 DEF UsTalks
  <2>1. Talks(toServer, toClient, us[p], clientHim[p], Msg("DO", p), Msg("DONT", p),
              Msg("WILL", p), Msg("WONT", p), p \in accepts)
    BY DEF TelnetIInv, UsTalks
  <2>2. CASE p # o
    <3>1. clientHim'[p] = clientHim[p]
      BY <1>1, <2>2
    <3>. QED
      BY <1>1, <1>2, <1>7, <2>1, <2>2, <3>1, TalksOther
  <2>3. CASE p = o
    <3>1. clientHim'[o] = Asked(y)
      BY <1>1
    <3>2. r = IF y = "NO" THEN Msg("DO", o) ELSE Msg("DONT", o)
      BY DEF r
    <3>. DEFINE willing == o \in accepts
    <3>3. /\ Talks(toServer, toClient, us[o], y, Msg("DO", o), Msg("DONT", o),
                   Msg("WILL", o), Msg("WONT", o), willing)
          /\ y = "YES" \/ (y = "NO" /\ willing)
      BY <2>1, <2>3
    <3>. HIDE DEF y, willing
    <3>4. Talks(Append(toServer, IF y = "NO" THEN Msg("DO", o) ELSE Msg("DONT", o)), toClient, us[o],
                Asked(y), Msg("DO", o), Msg("DONT", o), Msg("WILL", o), Msg("WONT", o), willing)
      BY <1>1, <1>7, <3>3, TalksAsk
    <3>. QED
      BY <2>3, <3>1, <3>2, <3>4 DEF willing
  <2>. QED
    BY <2>2, <2>3
<1>. QED
  BY <1>5, <1>6, <1>8, <1>9 DEF TelnetIInv

(* The client asks for a change of its own side. *)
LEMMA AsksUsOK ==
  ASSUME TelnetIInv, NEW o \in Option,
         clientUs[o] = "YES" \/ (clientUs[o] = "NO" /\ o \in offers),
         clientUs' = [clientUs EXCEPT ![o] = Asked(@)],
         toServer' = Append(toServer, Msg(IF clientUs[o] = "NO" THEN "WILL" ELSE "WONT", o)),
         UNCHANGED <<clientHim, him, us, toClient, offers, accepts>>
  PROVE  TelnetIInv'
<1>. DEFINE r == Msg(IF clientUs[o] = "NO" THEN "WILL" ELSE "WONT", o)
            y == clientUs[o]
<1>1. /\ Server \in ServerType /\ toServer \in Seq(Message) /\ toClient \in Seq(Message)
      /\ clientUs \in [Option -> ClientState] /\ clientHim \in [Option -> ClientState]
  BY DEF TelnetIInv, Types, Server, ServerType, ClientState
<1>2. r \in Message /\ r.command \in {"WILL", "WONT"} /\ r.option = o
  BY MessageFacts
<1>3. Asked(y) \in ClientState
  BY DEF Asked, ClientState
<1>4. toServer' = Append(toServer, r) /\ toServer' \in Seq(Message)
  BY <1>1, <1>2, AppendProperties
<1>5. Types'
  BY <1>1, <1>3, <1>4 DEF Types, Server, ClientState
<1>6. Unwanted'
  BY DEF TelnetIInv, Unwanted
<1>7. ASSUME NEW p \in Option
      PROVE  /\ Msg("DO", p) \in Message /\ Msg("DONT", p) \in Message
             /\ Msg("WILL", p) \in Message /\ Msg("WONT", p) \in Message
             /\ r \notin {Msg("DO", p), Msg("DONT", p)}
             /\ p # o => r \notin {Msg("WILL", p), Msg("WONT", p)}
  <2>. HIDE DEF r
  <2>. QED
    BY <1>2, Subjects
<1>. HIDE DEF r
<1>8. UsTalks'
  <2>. SUFFICES ASSUME NEW p \in Option, p # "SGA"
                PROVE  Talks(Append(toServer, r), toClient, us[p], clientHim[p],
                             Msg("DO", p), Msg("DONT", p), Msg("WILL", p), Msg("WONT", p), p \in accepts)
    BY <1>4 DEF UsTalks
  <2>1. Talks(toServer, toClient, us[p], clientHim[p], Msg("DO", p), Msg("DONT", p),
              Msg("WILL", p), Msg("WONT", p), p \in accepts)
    BY DEF TelnetIInv, UsTalks
  <2>. QED
    BY <1>1, <1>2, <1>7, <2>1, TalksOther
<1>9. HimTalks'
  <2>. SUFFICES ASSUME NEW p \in Option
                PROVE  Talks(Append(toServer, r), toClient, him[p], clientUs'[p],
                             Msg("WILL", p), Msg("WONT", p), Msg("DO", p), Msg("DONT", p), p \in offers)
    BY <1>4 DEF HimTalks
  <2>1. Talks(toServer, toClient, him[p], clientUs[p], Msg("WILL", p), Msg("WONT", p),
              Msg("DO", p), Msg("DONT", p), p \in offers)
    BY DEF TelnetIInv, HimTalks
  <2>2. CASE p # o
    <3>1. clientUs'[p] = clientUs[p]
      BY <1>1, <2>2
    <3>. QED
      BY <1>1, <1>2, <1>7, <2>1, <2>2, <3>1, TalksOther
  <2>3. CASE p = o
    <3>1. clientUs'[o] = Asked(y)
      BY <1>1
    <3>2. r = IF y = "NO" THEN Msg("WILL", o) ELSE Msg("WONT", o)
      BY DEF r
    <3>. DEFINE willing == o \in offers
    <3>3. /\ Talks(toServer, toClient, him[o], y, Msg("WILL", o), Msg("WONT", o),
                   Msg("DO", o), Msg("DONT", o), willing)
          /\ y = "YES" \/ (y = "NO" /\ willing)
      BY <2>1, <2>3
    <3>. HIDE DEF y, willing
    <3>4. Talks(Append(toServer, IF y = "NO" THEN Msg("WILL", o) ELSE Msg("WONT", o)), toClient, him[o],
                Asked(y), Msg("WILL", o), Msg("WONT", o), Msg("DO", o), Msg("DONT", o), willing)
      BY <1>1, <1>7, <3>3, TalksAsk
    <3>. QED
      BY <2>3, <3>1, <3>2, <3>4 DEF willing
  <2>. QED
    BY <2>2, <2>3
<1>. QED
  BY <1>5, <1>6, <1>8, <1>9 DEF TelnetIInv

LEMMA ClientAsksOK ==
  ASSUME TelnetIInv, NEW o \in Option, ClientAsks(o)
  PROVE  TelnetIInv'
<1>1. UNCHANGED <<him, us, toClient, accepts, offers>>
  BY DEF ClientAsks
<1>2. \/ /\ clientHim[o] = "YES" \/ (clientHim[o] = "NO" /\ o \in accepts)
         /\ clientHim' = [clientHim EXCEPT ![o] = Asked(@)]
         /\ toServer' = Append(toServer, Msg(IF clientHim[o] = "NO" THEN "DO" ELSE "DONT", o))
         /\ UNCHANGED clientUs
      \/ /\ clientUs[o] = "YES" \/ (clientUs[o] = "NO" /\ o \in offers)
         /\ clientUs' = [clientUs EXCEPT ![o] = Asked(@)]
         /\ toServer' = Append(toServer, Msg(IF clientUs[o] = "NO" THEN "WILL" ELSE "WONT", o))
         /\ UNCHANGED clientHim
  BY DEF ClientAsks
<1>. QED
  BY <1>1, <1>2, AsksHimOK, AsksUsOK

-----------------------------------------------------------------------------
(* The requests with which the server opens.                               *)

Opening(t) ==
  /\ \A o \in Option :
       Talks(<<>>, t.out, t.him[o], "NO",
             Msg("WILL", o), Msg("WONT", o), Msg("DO", o), Msg("DONT", o), o \in offers)
  /\ \A o \in Option \ {"SGA"} :
       Talks(<<>>, t.out, t.us[o], "NO",
             Msg("DO", o), Msg("DONT", o), Msg("WILL", o), Msg("WONT", o), o \in accepts)

LEMMA TalksRequest ==
  ASSUME NEW M, NEW toS \in Seq(M), NEW toC \in Seq(M),
         NEW on \in M, NEW off \in M, NEW yes \in M, NEW no \in M, NEW willing,
         Talks(toS, toC, "NO", "NO", on, off, yes, no, willing)
  PROVE  Talks(toS, Append(toC, yes), "WANTYES_EMPTY", "NO", on, off, yes, no, willing)
<1>1. PICK v, w :
        /\ About(toS, {on, off}, v) /\ About(toC, {yes, no}, w)
        /\ InStep("NO", "NO", v, w, on, off, yes, no, willing)
  BY DEF Talks
<1>2. About(Append(toC, yes), {yes, no}, Append(w, yes))
  BY <1>1, AboutAppend
<1>3. InStep("WANTYES_EMPTY", "NO", v, Append(w, yes), on, off, yes, no, willing)
  BY <1>1, ShortQueues DEF InStep
<1>. QED
  BY <1>1, <1>2, <1>3 DEF Talks

LEMMA OpensHim ==
  ASSUME NEW t \in ServerType, Opening(t), NEW o \in Known, t.him[o] = "NO"
  PROVE  LET u == EnableHim(t, o) IN
         /\ u \in ServerType /\ Opening(u) /\ u.us = t.us
         /\ \A p \in Option : p # o => u.him[p] = t.him[p]
<1>. DEFINE h == SetHimState(t, o, "WANTYES_EMPTY")
            u == EnableHim(t, o)
            r == Msg("DO", o)
<1>1. u = Send(h, "DO", o)
  BY DEF EnableHim
<1>2. o \in Option /\ "WANTYES_EMPTY" \in ServerState
  BY DEF Option, ServerState
<1>3. /\ h \in ServerType /\ h.us = t.us /\ h.out = t.out
      /\ \A p \in Option : h.him[p] = IF p = o THEN "WANTYES_EMPTY" ELSE t.him[p]
  BY <1>2, SetHimFacts
<1>. HIDE DEF h, u
<1>4. u \in ServerType /\ u.us = h.us /\ u.him = h.him /\ u.out = Append(h.out, r)
  BY <1>1, <1>2, <1>3, SendFacts
<1>5. r \in Message /\ r.command = "DO" /\ r.option = o
  BY <1>2, MessageFacts
<1>6. t.out \in Seq(Message) /\ <<>> \in Seq(Message)
  BY DEF ServerType
<1>. HIDE DEF r
<1>7. ASSUME NEW p \in Option
      PROVE  Talks(<<>>, Append(t.out, r), u.him[p], "NO",
                   Msg("WILL", p), Msg("WONT", p), Msg("DO", p), Msg("DONT", p), p \in offers)
  <2>1. Talks(<<>>, t.out, t.him[p], "NO",
              Msg("WILL", p), Msg("WONT", p), Msg("DO", p), Msg("DONT", p), p \in offers)
    BY DEF Opening
  <2>2. /\ Msg("WILL", p) \in Message /\ Msg("WONT", p) \in Message
        /\ Msg("DO", p) \in Message /\ Msg("DONT", p) \in Message
        /\ p # o => r \notin {Msg("DO", p), Msg("DONT", p)}
    BY <1>5, Subjects
  <2>3. CASE p = o
    <3>1. t.him[p] = "NO" /\ u.him[p] = "WANTYES_EMPTY" /\ r = Msg("DO", p)
      BY <1>3, <1>4, <2>3 DEF r
    <3>2. Talks(<<>>, t.out, "NO", "NO",
                Msg("WILL", p), Msg("WONT", p), Msg("DO", p), Msg("DONT", p), p \in offers)
      BY <2>1, <3>1
    <3>3. Talks(<<>>, Append(t.out, Msg("DO", p)), "WANTYES_EMPTY", "NO",
                Msg("WILL", p), Msg("WONT", p), Msg("DO", p), Msg("DONT", p), p \in offers)
      BY <1>6, <2>2, <3>2, TalksRequest
    <3>. QED
      BY <3>1, <3>3
  <2>4. CASE p # o
    BY <1>3, <1>4, <1>5, <1>6, <2>1, <2>2, <2>4, TalksOther
  <2>. QED
    BY <2>3, <2>4
<1>8. ASSUME NEW p \in Option, p # "SGA"
      PROVE  Talks(<<>>, Append(t.out, r), t.us[p], "NO",
                   Msg("DO", p), Msg("DONT", p), Msg("WILL", p), Msg("WONT", p), p \in accepts)
  <2>1. Talks(<<>>, t.out, t.us[p], "NO",
              Msg("DO", p), Msg("DONT", p), Msg("WILL", p), Msg("WONT", p), p \in accepts)
    BY <1>8 DEF Opening
  <2>2. /\ Msg("WILL", p) \in Message /\ Msg("WONT", p) \in Message
        /\ Msg("DO", p) \in Message /\ Msg("DONT", p) \in Message
        /\ r \notin {Msg("WILL", p), Msg("WONT", p)}
    BY <1>5, Subjects
  <2>. QED
    BY <1>5, <1>6, <2>1, <2>2, TalksOther
<1>. QED
  BY <1>3, <1>4, <1>7, <1>8 DEF Opening, u

LEMMA OpensUs ==
  ASSUME NEW t \in ServerType, Opening(t), t.him["EOR"] = "NO", t.us["EOR"] = "NO"
  PROVE  LET u == EnableUs(t, "EOR") IN
         /\ u \in ServerType /\ Opening(u) /\ u.him = t.him
         /\ \A p \in Option : p # "EOR" => u.us[p] = t.us[p]
<1>. DEFINE h == [t EXCEPT !.us["EOR"] = "WANTYES_EMPTY"]
            u == EnableUs(t, "EOR")
            r == Msg("WILL", "EOR")
<1>1. u = Send(h, "WILL", "EOR")
  BY DEF EnableUs
<1>2. "EOR" \in Option /\ "WANTYES_EMPTY" \in ServerState
  BY Options DEF ServerState
<1>3. /\ h \in ServerType /\ h.him = t.him /\ h.out = t.out
      /\ \A p \in Option : h.us[p] = IF p = "EOR" THEN "WANTYES_EMPTY" ELSE t.us[p]
  BY <1>2, PutUsFacts
<1>. HIDE DEF h, u
<1>4. u \in ServerType /\ u.us = h.us /\ u.him = h.him /\ u.out = Append(h.out, r)
  BY <1>1, <1>2, <1>3, SendFacts
<1>5. r \in Message /\ r.command = "WILL" /\ r.option = "EOR"
  BY <1>2, MessageFacts
<1>6. t.out \in Seq(Message) /\ <<>> \in Seq(Message)
  BY DEF ServerType
<1>. HIDE DEF r
<1>7. ASSUME NEW p \in Option
      PROVE  Talks(<<>>, Append(t.out, r), t.him[p], "NO",
                   Msg("WILL", p), Msg("WONT", p), Msg("DO", p), Msg("DONT", p), p \in offers)
  <2>1. Talks(<<>>, t.out, t.him[p], "NO",
              Msg("WILL", p), Msg("WONT", p), Msg("DO", p), Msg("DONT", p), p \in offers)
    BY DEF Opening
  <2>2. /\ Msg("WILL", p) \in Message /\ Msg("WONT", p) \in Message
        /\ Msg("DO", p) \in Message /\ Msg("DONT", p) \in Message
        /\ r \notin {Msg("DO", p), Msg("DONT", p)}
    BY <1>5, Subjects
  <2>. QED
    BY <1>5, <1>6, <2>1, <2>2, TalksOther
<1>8. ASSUME NEW p \in Option, p # "SGA"
      PROVE  Talks(<<>>, Append(t.out, r), u.us[p], "NO",
                   Msg("DO", p), Msg("DONT", p), Msg("WILL", p), Msg("WONT", p), p \in accepts)
  <2>1. Talks(<<>>, t.out, t.us[p], "NO",
              Msg("DO", p), Msg("DONT", p), Msg("WILL", p), Msg("WONT", p), p \in accepts)
    BY <1>8 DEF Opening
  <2>2. /\ Msg("WILL", p) \in Message /\ Msg("WONT", p) \in Message
        /\ Msg("DO", p) \in Message /\ Msg("DONT", p) \in Message
        /\ p # "EOR" => r \notin {Msg("WILL", p), Msg("WONT", p)}
    BY <1>5, Subjects
  <2>3. CASE p = "EOR"
    <3>1. t.us[p] = "NO" /\ u.us[p] = "WANTYES_EMPTY" /\ r = Msg("WILL", p)
      BY <1>3, <1>4, <2>3 DEF r
    <3>2. Talks(<<>>, t.out, "NO", "NO",
                Msg("DO", p), Msg("DONT", p), Msg("WILL", p), Msg("WONT", p), p \in accepts)
      BY <2>1, <3>1
    <3>3. Talks(<<>>, Append(t.out, Msg("WILL", p)), "WANTYES_EMPTY", "NO",
                Msg("DO", p), Msg("DONT", p), Msg("WILL", p), Msg("WONT", p), p \in accepts)
      BY <1>6, <2>2, <3>2, TalksRequest
    <3>. QED
      BY <3>1, <3>3
  <2>4. CASE p # "EOR"
    BY <1>3, <1>4, <1>5, <1>6, <2>1, <2>2, <2>4, TalksOther
  <2>. QED
    BY <2>3, <2>4
<1>. QED
  BY <1>3, <1>4, <1>7, <1>8 DEF Opening, u

LEMMA TelnetInitOK ==
  ASSUME TelnetInit
  PROVE  TelnetIInv
<1>. DEFINE off == [o \in Option |-> "NO"]
            t0 == [him |-> off, us |-> off, out |-> <<>>]
            t1 == EnableUs(t0, "EOR")
            t2 == EnableHim(t1, "EOR")
            t3 == EnableHim(t2, "SGA")
            t4 == EnableHim(t3, "NAWS")
<1>1. /\ him = t4.him /\ us = t4.us /\ toClient = t4.out /\ toServer = <<>>
      /\ clientHim = off /\ clientUs = off
  BY DEF TelnetInit, TelnetSetup
<1>2. "EOR" \in Known /\ "SGA" \in Known /\ "NAWS" \in Known /\ Known \subseteq Option
  BY DEF Known, Option
<1>3. off \in [Option -> ServerState] /\ off \in [Option -> ClientState] /\ \A o \in Option : off[o] = "NO"
  BY DEF ServerState, ClientState
<1>. HIDE DEF off
<1>4. t0 \in ServerType /\ t0.him = off /\ t0.us = off /\ t0.out = <<>>
  BY <1>3 DEF ServerType
<1>. HIDE DEF t0
<1>5. Opening(t0)
  <2>1. ASSUME NEW on, NEW no, NEW yes, NEW nay, NEW willing
        PROVE  Talks(<<>>, <<>>, "NO", "NO", on, no, yes, nay, willing)
    BY AboutNothing DEF Talks, InStep
  <2>. QED
    BY <1>3, <1>4, <2>1 DEF Opening
<1>6. /\ t1 \in ServerType /\ Opening(t1) /\ t1.him = t0.him
      /\ \A p \in Option : p # "EOR" => t1.us[p] = t0.us[p]
  BY <1>2, <1>3, <1>4, <1>5, OpensUs
<1>. HIDE DEF t1
<1>7. /\ t2 \in ServerType /\ Opening(t2) /\ t2.us = t1.us
      /\ \A p \in Option : p # "EOR" => t2.him[p] = t1.him[p]
  BY <1>2, <1>3, <1>4, <1>6, OpensHim
<1>. HIDE DEF t2
<1>8. /\ t3 \in ServerType /\ Opening(t3) /\ t3.us = t2.us
      /\ \A p \in Option : p # "SGA" => t3.him[p] = t2.him[p]
  BY <1>2, <1>3, <1>4, <1>6, <1>7, OpensHim
<1>. HIDE DEF t3
<1>9. /\ t4 \in ServerType /\ Opening(t4) /\ t4.us = t3.us
      /\ \A p \in Option : p # "NAWS" => t4.him[p] = t3.him[p]
  BY <1>2, <1>3, <1>4, <1>6, <1>7, <1>8, OpensHim
<1>. HIDE DEF t4
<1>10. Types
  <2>1. <<>> \in Seq(Message)
    OBVIOUS
  <2>. QED
    BY <1>1, <1>3, <1>9, <2>1 DEF Types, Server, ServerType, ClientState
<1>11. Unwanted
  BY <1>1, <1>2, <1>3, <1>4, <1>6, <1>7, <1>8, <1>9 DEF Unwanted, Known
<1>12. HimTalks /\ UsTalks
  BY <1>1, <1>3, <1>9 DEF Opening, HimTalks, UsTalks
<1>. QED
  BY <1>10, <1>11, <1>12 DEF TelnetIInv

-----------------------------------------------------------------------------
LEMMA TelnetNextOK ==
  ASSUME TelnetIInv, [TelnetNext]_telnetVars
  PROVE  TelnetIInv'
<1>1. CASE ServerReads
  <2>1. Head(toServer) \in Message
    BY <1>1, HeadTailProperties DEF ServerReads, TelnetIInv, Types
  <2>2. Head(toServer).command \in {"WILL", "WONT", "DO", "DONT"}
    BY <2>1, MessageOf
  <2>. QED
    BY <1>1, <2>2, ReadsHimOK, ReadsUsOK, ReadsSGAOK
<1>2. CASE ClientReads
  <2>1. Head(toClient) \in Message
    BY <1>2, HeadTailProperties DEF ClientReads, TelnetIInv, Types, Server, ServerType
  <2>2. Head(toClient).command \in {"WILL", "WONT", "DO", "DONT"}
    BY <2>1, MessageOf
  <2>. QED
    BY <1>2, <2>2, HearsHimOK, HearsUsOK
<1>3. CASE \E o \in Option : ClientAsks(o)
  BY <1>3, ClientAsksOK
<1>4. CASE UNCHANGED telnetVars
  BY <1>4 DEF telnetVars, TelnetIInv, Types, Unwanted, HimTalks, UsTalks, Server
<1>. QED
  BY <1>1, <1>2, <1>3, <1>4 DEF TelnetNext

(* Every conversation stays in one of its twelve forms, for any client that *)
(* follows RFC 1143 and any number of requests (bsd.cpp, actions 13 to 16   *)
(* of process_input_helper).                                                *)
THEOREM TelnetInvariant == TelnetSpec => []TelnetIInv
<1>1. TelnetInit => TelnetIInv
  BY TelnetInitOK
<1>2. TelnetIInv /\ [TelnetNext]_telnetVars => TelnetIInv'
  BY TelnetNextOK
<1>. QED
  BY <1>1, <1>2, PTL DEF TelnetSpec

(* With nothing on its way both ends agree which options are on: a client   *)
(* that was refused does not believe otherwise, and the server sends        *)
(* end-of-record marks only to who expects them.                            *)
THEOREM BothEndsAgree == TelnetSpec => []Agreed
<1>1. TelnetIInv => Agreed
  <2>. SUFFICES ASSUME TelnetIInv, toClient = <<>>, toServer = <<>>, NEW o \in Option
                PROVE  /\ (him[o] = "YES") <=> (clientUs[o] = "YES")
                       /\ o # "SGA" => ((us[o] = "YES") <=> (clientHim[o] = "YES"))
    BY DEF Agreed, Quiet
  <2>1. ASSUME NEW x, NEW y, NEW on, NEW off, NEW yes, NEW no, NEW willing,
               Talks(<<>>, <<>>, x, y, on, off, yes, no, willing)
        PROVE  (x = "YES") <=> (y = "YES")
    <3>1. PICK v, w :
            /\ About(<<>>, {on, off}, v) /\ About(<<>>, {yes, no}, w)
            /\ InStep(x, y, v, w, on, off, yes, no, willing)
      BY <2>1 DEF Talks
    <3>2. v = <<>> /\ w = <<>>
      BY <3>1, NothingAbout
    <3>. QED
      BY <3>1, <3>2 DEF InStep
  <2>2. Talks(<<>>, <<>>, him[o], clientUs[o], Msg("WILL", o), Msg("WONT", o),
              Msg("DO", o), Msg("DONT", o), o \in offers)
    BY DEF TelnetIInv, HimTalks
  <2>3. o # "SGA" => Talks(<<>>, <<>>, us[o], clientHim[o], Msg("DO", o), Msg("DONT", o),
                           Msg("WILL", o), Msg("WONT", o), o \in accepts)
    BY DEF TelnetIInv, UsTalks
  <2>. QED
    BY <2>1, <2>2, <2>3
<1>. QED
  BY <1>1, TelnetInvariant, PTL
=============================================================================
