--------------------------- MODULE MailBagProofs ---------------------------
(***************************************************************************)
(* Proofs about MailBag: whatever is posted, removed, counted again and    *)
(* loaded, a body is counted at least as often as letters carry it, and a  *)
(* letter shows what was sent.  The counts need not be exact for that,     *)
(* which is why letters may be lost without giving up their bodies.        *)
(***************************************************************************)
EXTENDS MailBag, FiniteSetTheorems, TLAPS

IInv == TypeOK /\ RefsCover /\ BodiesIntact

\* The letters that carry a body are finitely many.
LEMMA CarryingFinite ==
  ASSUME NEW ls, IsFiniteSet(DOMAIN ls), NEW i
  PROVE  IsFiniteSet(Carrying(ls, i)) /\ Cardinality(Carrying(ls, i)) \in Nat
  BY FS_Subset, FS_CardinalityType, Carrying(ls, i) \in SUBSET DOMAIN ls DEF Carrying

\* Taking away letters, some of which give up their body, leaves no more
\* carriers than the count that remains.
LEMMA FewerCarry ==
  ASSUME NEW S, IsFiniteSet(S), NEW G, NEW U \in SUBSET G
  PROVE  /\ Cardinality(S \ G) \in Nat /\ Cardinality(S \cap U) \in Nat /\ Cardinality(S) \in Nat
         /\ Cardinality(S \ G) <= Cardinality(S) - Cardinality(S \cap U)
  <1>1. IsFiniteSet(S \ G) /\ IsFiniteSet(S \cap U)
    BY FS_Subset, S \ G \in SUBSET S, S \cap U \in SUBSET S
  <1>2. IsFiniteSet((S \ G) \cup (S \cap U))
        /\ Cardinality((S \ G) \cup (S \cap U)) = Cardinality(S \ G) + Cardinality(S \cap U)
    <2>1. (S \ G) \cap (S \cap U) = {}
      OBVIOUS
    <2>2. Cardinality((S \ G) \cap (S \cap U)) = 0
      BY <2>1, FS_EmptySet
    <2>3. /\ IsFiniteSet((S \ G) \cup (S \cap U))
          /\ Cardinality((S \ G) \cup (S \cap U))
               = Cardinality(S \ G) + Cardinality(S \cap U) - Cardinality((S \ G) \cap (S \cap U))
      BY <1>1, FS_Union
    <2>4. Cardinality(S \ G) \in Nat /\ Cardinality(S \cap U) \in Nat
      BY <1>1, FS_CardinalityType
    <2> QED BY <2>2, <2>3, <2>4
  <1>3. Cardinality((S \ G) \cup (S \cap U)) <= Cardinality(S)
    BY FS_Subset, (S \ G) \cup (S \cap U) \in SUBSET S
  <1> QED BY <1>1, <1>2, <1>3, FS_CardinalityType

\* What MessageReferenceCheck leaves is a body.
LEMMA CheckedType ==
  ASSUME NEW n \in Int, NEW t \in Text \cup {NoText}
  PROVE  /\ Checked(n, t) \in [refs : Nat, text : Text \cup {NoText}]
         /\ n > 0 /\ t # NoText => Checked(n, t) = [refs |-> n, text |-> t]
         /\ Checked(n, t).refs >= 0
  BY DEF Checked, Empty

LEMMA InitInv == Init => IInv
  <1> SUFFICES ASSUME Init PROVE IInv
    OBVIOUS
  <1>1. DOMAIN letters = {} /\ top = 0 /\ 0 .. top - 1 = {}
    BY DEF Init
  <1>2. TypeOK
    <2>1. bag \in [0 .. top - 1 -> [refs : Nat, text : Text \cup {NoText}]]
      BY <1>1 DEF Init
    <2>2. letters \in [DOMAIN letters -> [number : 0 .. top - 1, sent : Text]]
      BY <1>1 DEF Init
    <2> QED BY <1>1, <2>1, <2>2, FS_EmptySet DEF TypeOK
  <1> QED BY <1>1, <1>2 DEF IInv, RefsCover, BodiesIntact

\* Posting uses a place that nobody's letter is at, so nobody's body changes.
LEMMA PostInv ==
  ASSUME IInv, NEW text \in Text \ {NoText}, NEW new \in SUBSET Letter, Post(new, text)
  PROVE  IInv'
  <1>1. PICK i \in {j \in 0 .. top - 1 : bag[j].text = NoText} \cup {top} :
          /\ new \cap DOMAIN letters = {}
          /\ IsFiniteSet(new)
          /\ letters' = [l \in DOMAIN letters \cup new |->
                           IF l \in new THEN [number |-> i, sent |-> text] ELSE letters[l]]
          /\ top' = IF i = top THEN top + 1 ELSE top
          /\ bag' = [j \in 0 .. top' - 1 |->
                       IF j = i THEN Checked(Cardinality(new), text) ELSE bag[j]]
    BY DEF Post
  <1>2. /\ top \in Nat /\ top' \in Nat /\ i \in 0 .. top' - 1
        /\ 0 .. top - 1 \subseteq 0 .. top' - 1
        /\ \A j \in 0 .. top' - 1 : j # i => j \in 0 .. top - 1
    BY <1>1 DEF IInv, TypeOK
  <1>3. \A l \in DOMAIN letters : letters[l].number \in 0 .. top - 1 /\ letters[l].number # i
    BY <1>1 DEF IInv, TypeOK, BodiesIntact
  <1>4. Carrying(letters', i) = new
    BY <1>1, <1>3 DEF Carrying
  <1>5. \A j \in 0 .. top' - 1 : j # i => Carrying(letters', j) = Carrying(letters, j)
    BY <1>1, <1>3 DEF Carrying
  <1>6. Cardinality(new) \in Nat
    BY <1>1, FS_CardinalityType
  <1>7. new # {} => bag'[i] = [refs |-> Cardinality(new), text |-> text]
    <2>1. new # {} => Cardinality(new) > 0
      BY <1>1, <1>6, FS_EmptySet
    <2> QED BY <1>1, <1>2, <1>6, <2>1, CheckedType
  <1>8. TypeOK'
    <2>1. bag' \in [0 .. top' - 1 -> [refs : Nat, text : Text \cup {NoText}]]
      <3>1. Checked(Cardinality(new), text) \in [refs : Nat, text : Text \cup {NoText}]
        BY <1>6, CheckedType
      <3> QED BY <1>1, <1>2, <3>1 DEF IInv, TypeOK
    <2>2. IsFiniteSet(DOMAIN letters')
      BY <1>1, FS_Union DEF IInv, TypeOK
    <2>3. DOMAIN letters' \subseteq Letter
      BY <1>1 DEF IInv, TypeOK
    <2>4. letters' \in [DOMAIN letters' -> [number : 0 .. top' - 1, sent : Text \ {NoText}]]
      BY <1>1, <1>2 DEF IInv, TypeOK
    <2> QED BY <1>2, <2>1, <2>2, <2>3, <2>4 DEF TypeOK
  <1>9. RefsCover'
    <2> SUFFICES ASSUME NEW j \in 0 .. top' - 1
                 PROVE  Cardinality(Carrying(letters', j)) <= bag'[j].refs
      BY DEF RefsCover
    <2>1. CASE j # i
      BY <1>1, <1>2, <1>5, <2>1 DEF IInv, RefsCover
    <2>2. CASE j = i /\ new # {}
      BY <1>4, <1>6, <1>7, <2>2
    <2>3. CASE j = i /\ new = {}
      <3>1. Cardinality(Carrying(letters', j)) = 0
        BY <1>4, <2>3, FS_EmptySet
      <3>2. bag'[j].refs >= 0
        BY <1>8, <2>3 DEF TypeOK
      <3> QED BY <3>1, <3>2
    <2> QED BY <2>1, <2>2, <2>3
  <1>10. BodiesIntact'
    <2> SUFFICES ASSUME NEW l \in DOMAIN letters'
                 PROVE  bag'[letters'[l].number].text = letters'[l].sent
      BY DEF BodiesIntact
    <2>1. CASE l \in new
      BY <1>1, <1>7, <2>1
    <2>2. CASE l \notin new
      BY <1>1, <1>2, <1>3, <2>2 DEF IInv, BodiesIntact
    <2> QED BY <2>1, <2>2
  <1> QED BY <1>8, <1>9, <1>10 DEF IInv

\* A set of letters that goes, some without giving up their bodies: where
\* bodies are given up, the count that remains covers who remains.
LEMMA RemoveInv ==
  ASSUME IInv, NEW gone, NEW unreferenced, Remove(gone, unreferenced)
  PROVE  IInv'
  <1> DEFINE n(i) == Cardinality(Carrying(letters, i) \cap unreferenced)
             rest == DOMAIN letters \ gone
  <1>1. /\ gone \subseteq DOMAIN letters /\ unreferenced \in SUBSET gone
        /\ letters' = [l \in rest |-> letters[l]]
        /\ bag' = [i \in 0 .. top - 1 |->
                     IF n(i) = 0 THEN bag[i] ELSE Checked(bag[i].refs - n(i), bag[i].text)]
        /\ top' = top
    BY DEF Remove
  <1>2. ASSUME NEW i \in 0 .. top - 1
        PROVE  /\ Carrying(letters', i) = Carrying(letters, i) \ gone
               /\ n(i) \in Nat
               /\ Cardinality(Carrying(letters', i)) \in Nat
               /\ Cardinality(Carrying(letters', i)) <= bag[i].refs - n(i)
               /\ bag[i].refs \in Nat /\ bag[i].text \in Text \cup {NoText}
    <2>1. Carrying(letters', i) = Carrying(letters, i) \ gone
      BY <1>1 DEF Carrying
    <2>2. IsFiniteSet(Carrying(letters, i))
      BY CarryingFinite DEF IInv, TypeOK
    <2>3. /\ Cardinality(Carrying(letters, i) \ gone) \in Nat /\ n(i) \in Nat
          /\ Cardinality(Carrying(letters, i)) \in Nat
          /\ Cardinality(Carrying(letters, i) \ gone) <= Cardinality(Carrying(letters, i)) - n(i)
      BY <1>1, <2>2, FewerCarry
    <2>4. bag[i].refs \in Nat /\ bag[i].text \in Text \cup {NoText}
      BY DEF IInv, TypeOK
    <2>5. Cardinality(Carrying(letters, i)) <= bag[i].refs
      BY DEF IInv, RefsCover
    <2> HIDE DEF n
    <2> QED BY <2>1, <2>3, <2>4, <2>5
  <1> HIDE DEF n
  \* A body that somebody still carries is left as it is, but for its count.
  <1>3. ASSUME NEW l \in rest
        PROVE  bag'[letters[l].number].text = letters[l].sent
    <2> DEFINE i == letters[l].number
    <2>1. i \in 0 .. top - 1 /\ bag[i].text = letters[l].sent /\ letters[l].sent # NoText
      BY DEF IInv, TypeOK, BodiesIntact
    <2>2. l \in Carrying(letters', i)
      BY <1>1 DEF Carrying
    <2>3. IsFiniteSet(Carrying(letters', i))
      <3>1. IsFiniteSet(Carrying(letters, i)) /\ Carrying(letters', i) \in SUBSET Carrying(letters, i)
        BY <1>2, <2>1, CarryingFinite DEF IInv, TypeOK
      <3> QED BY <3>1, FS_Subset
    <2>4. Cardinality(Carrying(letters', i)) > 0
      BY <1>2, <2>1, <2>2, <2>3, FS_EmptySet
    <2>5. bag[i].refs - n(i) > 0
      BY <1>2, <2>1, <2>4
    <2>6. Checked(bag[i].refs - n(i), bag[i].text) = [refs |-> bag[i].refs - n(i), text |-> bag[i].text]
      BY <1>2, <2>1, <2>5, CheckedType
    <2> HIDE DEF i
    <2> QED BY <1>1, <2>1, <2>6 DEF i
  <1>4. TypeOK'
    <2>1. bag' \in [0 .. top' - 1 -> [refs : Nat, text : Text \cup {NoText}]]
      <3>1. ASSUME NEW i \in 0 .. top - 1
            PROVE  bag'[i] \in [refs : Nat, text : Text \cup {NoText}]
        <4>1. bag[i] \in [refs : Nat, text : Text \cup {NoText}]
          BY DEF IInv, TypeOK
        <4>2. Checked(bag[i].refs - n(i), bag[i].text) \in [refs : Nat, text : Text \cup {NoText}]
          BY <1>2, CheckedType
        <4> QED BY <1>1, <4>1, <4>2
      <3> QED BY <1>1, <3>1
    <2>2. IsFiniteSet(DOMAIN letters')
      BY <1>1, FS_Subset DEF IInv, TypeOK
    <2>3. letters' \in [DOMAIN letters' -> [number : 0 .. top' - 1, sent : Text \ {NoText}]]
      BY <1>1 DEF IInv, TypeOK
    <2> QED BY <1>1, <2>1, <2>2, <2>3 DEF IInv, TypeOK
  <1>5. RefsCover'
    <2> SUFFICES ASSUME NEW i \in 0 .. top - 1
                 PROVE  Cardinality(Carrying(letters', i)) <= bag'[i].refs
      BY <1>1 DEF RefsCover
    <2>0. /\ n(i) \in Nat /\ Cardinality(Carrying(letters', i)) \in Nat
          /\ Cardinality(Carrying(letters', i)) <= bag[i].refs - n(i)
          /\ bag[i].refs \in Nat /\ bag[i].text \in Text \cup {NoText}
      BY <1>2
    <2>1. CASE n(i) = 0
      <3>1. bag'[i] = bag[i]
        BY <1>1, <2>1
      <3> QED BY <2>0, <2>1, <3>1
    <2>2. CASE n(i) # 0
      <3>1. bag'[i] = Checked(bag[i].refs - n(i), bag[i].text)
        BY <1>1, <2>2
      <3>0. bag[i].refs - n(i) \in Int /\ bag'[i].refs >= 0
        BY <2>0, <3>1 DEF Checked, Empty
      <3>2. CASE bag[i].refs - n(i) > 0 /\ bag[i].text # NoText
        BY <2>0, <3>0, <3>1, <3>2, CheckedType
      <3>3. CASE bag[i].refs - n(i) <= 0
        BY <2>0, <3>0, <3>3
      <3>4. CASE bag[i].text = NoText
        <4>1. Carrying(letters', i) = {}
          BY ZenonT(40), <1>1, <3>4 DEF Carrying, IInv, TypeOK, BodiesIntact
        <4>2. Cardinality(Carrying(letters', i)) = 0
          BY <4>1, FS_EmptySet
        <4> QED BY <3>0, <4>2
      <3> QED BY <2>0, <3>2, <3>3, <3>4
    <2> QED BY <2>1, <2>2
  <1>6. BodiesIntact'
    BY <1>1, <1>3 DEF BodiesIntact
  <1> QED BY <1>4, <1>5, <1>6 DEF IInv

\* @mail/debug fix: the counts are exact, then letters go.
LEMMA RecountInv ==
  ASSUME IInv, NEW gone, Recount(gone)
  PROVE  IInv'
  <1> DEFINE counted == [i \in 0 .. top - 1 |-> [bag[i] EXCEPT !.refs = Cardinality(Carrying(letters, i))]]
             c(i) == Cardinality(Carrying(letters, i))
             g(i) == Cardinality(Carrying(letters, i) \cap gone)
             rest == DOMAIN letters \ gone
  <1>1. /\ gone \subseteq DOMAIN letters
        /\ letters' = [l \in rest |-> letters[l]]
        /\ bag' = [i \in 0 .. top - 1 |->
                     IF g(i) = 0 THEN [bag[i] EXCEPT !.refs = c(i)] ELSE Checked(c(i) - g(i), bag[i].text)]
        /\ top' = top
    BY DEF Recount
  <1>2. ASSUME NEW i \in 0 .. top - 1
        PROVE  /\ Carrying(letters', i) = Carrying(letters, i) \ gone
               /\ g(i) \in Nat /\ c(i) \in Nat
               /\ Cardinality(Carrying(letters', i)) \in Nat
               /\ Cardinality(Carrying(letters', i)) <= c(i) - g(i)
               /\ bag[i] \in [refs : Nat, text : Text \cup {NoText}]
    <2>1. Carrying(letters', i) = Carrying(letters, i) \ gone
      BY <1>1 DEF Carrying
    <2>2. IsFiniteSet(Carrying(letters, i))
      BY CarryingFinite DEF IInv, TypeOK
    <2>3. /\ Cardinality(Carrying(letters, i) \ gone) \in Nat /\ g(i) \in Nat /\ c(i) \in Nat
          /\ Cardinality(Carrying(letters, i) \ gone) <= c(i) - g(i)
      BY <2>2, FewerCarry, gone \in SUBSET gone
    <2>4. bag[i] \in [refs : Nat, text : Text \cup {NoText}]
      BY DEF IInv, TypeOK
    <2> HIDE DEF c, g
    <2> QED BY <2>1, <2>3, <2>4
  <1> HIDE DEF c, g
  <1>3. ASSUME NEW i \in 0 .. top - 1
        PROVE  /\ bag'[i] \in [refs : Nat, text : Text \cup {NoText}]
               /\ Cardinality(Carrying(letters', i)) <= bag'[i].refs
                    \/ bag[i].text = NoText
               /\ c(i) - g(i) > 0 => bag'[i].text = bag[i].text
    <2>0. /\ g(i) \in Nat /\ c(i) \in Nat /\ Cardinality(Carrying(letters', i)) \in Nat
          /\ Cardinality(Carrying(letters', i)) <= c(i) - g(i)
          /\ bag[i].refs \in Nat /\ bag[i].text \in Text \cup {NoText}
      BY <1>2
    <2>1. CASE g(i) = 0
      <3>1. bag'[i] = [refs |-> c(i), text |-> bag[i].text]
        BY <1>1, <1>2, <2>1
      <3> QED BY <2>0, <2>1, <3>1
    <2>2. CASE g(i) # 0
      <3>1. bag'[i] = Checked(c(i) - g(i), bag[i].text)
        BY <1>1, <2>2
      <3>2. c(i) - g(i) \in Int
        BY <2>0
      <3> QED BY <2>0, <3>1, <3>2, CheckedType DEF Checked, Empty
    <2> QED BY <2>1, <2>2
  <1>4. ASSUME NEW l \in rest
        PROVE  /\ letters[l].number \in 0 .. top - 1
               /\ bag[letters[l].number].text = letters[l].sent /\ letters[l].sent # NoText
               /\ c(letters[l].number) - g(letters[l].number) > 0
    <2> DEFINE i == letters[l].number
    <2>1. i \in 0 .. top - 1 /\ bag[i].text = letters[l].sent /\ letters[l].sent # NoText
      BY DEF IInv, TypeOK, BodiesIntact
    <2>2. l \in Carrying(letters', i)
      BY <1>1 DEF Carrying
    <2>3. IsFiniteSet(Carrying(letters', i))
      <3>1. IsFiniteSet(Carrying(letters, i)) /\ Carrying(letters', i) \in SUBSET Carrying(letters, i)
        BY <1>2, <2>1, CarryingFinite DEF IInv, TypeOK
      <3> QED BY <3>1, FS_Subset
    <2>4. Cardinality(Carrying(letters', i)) # 0
      BY <2>2, <2>3, FS_EmptySet
    <2>5. /\ Cardinality(Carrying(letters', i)) \in Nat /\ c(i) \in Nat /\ g(i) \in Nat
          /\ Cardinality(Carrying(letters', i)) <= c(i) - g(i)
      BY <1>2, <2>1
    <2>6. c(i) - g(i) > 0
      BY <2>4, <2>5
    <2> QED BY <2>1, <2>6
  <1>5. TypeOK'
    <2>1. bag' \in [0 .. top' - 1 -> [refs : Nat, text : Text \cup {NoText}]]
      BY <1>1, <1>3
    <2>2. IsFiniteSet(DOMAIN letters')
      BY <1>1, FS_Subset DEF IInv, TypeOK
    <2>3. letters' \in [DOMAIN letters' -> [number : 0 .. top' - 1, sent : Text \ {NoText}]]
      BY <1>1 DEF IInv, TypeOK
    <2> QED BY <1>1, <2>1, <2>2, <2>3 DEF IInv, TypeOK
  <1>6. BodiesIntact'
    BY ZenonT(40), <1>1, <1>3, <1>4 DEF BodiesIntact
  <1>7. RefsCover'
    <2> SUFFICES ASSUME NEW i \in 0 .. top - 1
                 PROVE  Cardinality(Carrying(letters', i)) <= bag'[i].refs
      BY <1>1 DEF RefsCover
    <2>1. CASE bag[i].text = NoText
      <3>1. Carrying(letters', i) = {}
        BY <1>1, <1>4, <2>1 DEF Carrying
      <3>2. Cardinality(Carrying(letters', i)) = 0
        BY <3>1, FS_EmptySet
      <3>3. bag'[i].refs \in Nat
        BY <1>3
      <3> QED BY <3>2, <3>3
    <2> QED BY <1>3, <2>1
  <1> QED BY <1>5, <1>6, <1>7 DEF IInv

\* A complete file puts a bag in place whose counts are exact.
LEMMA LoadInv ==
  ASSUME NEW texts, Complete(letters', texts, top'), Load(letters', texts, top')
  PROVE  IInv'
  <1>1. /\ top' \in Nat /\ texts \in [0 .. top' - 1 -> Text \cup {NoText}]
        /\ IsFiniteSet(DOMAIN letters') /\ DOMAIN letters' \subseteq Letter
        /\ letters' = [l \in DOMAIN letters' |-> [number |-> letters'[l].number, sent |-> letters'[l].sent]]
        /\ \A l \in DOMAIN letters' :
             /\ letters'[l].number \in 0 .. top' - 1
             /\ texts[letters'[l].number] = letters'[l].sent
             /\ letters'[l].sent # NoText
    BY DEF Complete
  <1>2. bag' = [i \in 0 .. top' - 1 |->
                  [refs |-> Cardinality(Carrying(letters', i)), text |-> texts[i]]]
    BY DEF Load
  <1>3. \A i : Cardinality(Carrying(letters', i)) \in Nat
    BY <1>1, CarryingFinite
  <1>4. TypeOK'
    <2>1. bag' \in [0 .. top' - 1 -> [refs : Nat, text : Text \cup {NoText}]]
      BY <1>1, <1>2, <1>3
    <2>2. letters' \in [DOMAIN letters' -> [number : 0 .. top' - 1, sent : Text \ {NoText}]]
      BY <1>1
    <2> QED BY <1>1, <2>1, <2>2 DEF TypeOK
  <1>5. RefsCover'
    BY <1>2, <1>3 DEF RefsCover
  <1>6. BodiesIntact'
    BY <1>1, <1>2 DEF BodiesIntact
  <1> QED BY <1>4, <1>5, <1>6 DEF IInv

LEMMA NextInv == IInv /\ [Next]_bagVars => IInv'
  <1> SUFFICES ASSUME IInv, [Next]_bagVars PROVE IInv'
    OBVIOUS
  <1>1. ASSUME NEW text \in Text \ {NoText},
               LET new == DOMAIN letters' \ DOMAIN letters IN new \subseteq Letter /\ Post(new, text)
        PROVE  IInv'
    BY <1>1, PostInv
  <1>2. ASSUME LET gone == DOMAIN letters \ DOMAIN letters'
               IN (\E unreferenced \in SUBSET gone : Remove(gone, unreferenced)) \/ Recount(gone)
        PROVE  IInv'
    BY <1>2, RemoveInv, RecountInv
  <1>3. ASSUME LET texts == [i \in DOMAIN bag' |-> bag'[i].text]
               IN Complete(letters', texts, top') /\ Load(letters', texts, top')
        PROVE  IInv'
    BY <1>3, LoadInv
  <1>4. CASE UNCHANGED bagVars
    BY <1>4 DEF bagVars, IInv, TypeOK, RefsCover, BodiesIntact, Carrying
  <1> QED BY <1>1, <1>2, <1>3, <1>4 DEF Next

\* No body is freed, or its place used again, while a letter carries it
\* (MessageReferenceDec and MessageAdd).
THEOREM Bodies == Spec => []BodiesIntact
  <1>1. Init => IInv
    BY InitInv
  <1>2. IInv /\ [Next]_bagVars => IInv'
    BY NextInv
  <1>3. IInv => BodiesIntact
    BY DEF IInv
  <1> QED BY <1>1, <1>2, <1>3, PTL DEF Spec

\* A body is never counted by fewer letters than carry it.
THEOREM Covered == Spec => [](TypeOK /\ RefsCover)
  <1>1. Init => IInv
    BY InitInv
  <1>2. IInv /\ [Next]_bagVars => IInv'
    BY NextInv
  <1>3. IInv => TypeOK /\ RefsCover
    BY DEF IInv
  <1> QED BY <1>1, <1>2, <1>3, PTL DEF Spec
=============================================================================
