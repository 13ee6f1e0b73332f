---------------------------- MODULE StorageProofs -----------------------------
(***************************************************************************)
(* Proofs about the names of attributes and the lists of them (AttrNames,  *)
(* AttrList), for any objects, names, texts and numbers.                   *)
(*                                                                         *)
(* The first part is on one list: what adding and removing a number does   *)
(* to it.  The second goes up the calls of db.cpp and player_c.cpp: each   *)
(* leaves the lists of all objects exact, be they full or not.  The third  *)
(* is the renumbering of @dbclean, then come the inductive invariant and   *)
(* what follows from it for lists of any size.  The last parts are about   *)
(* objects whose list refused no number: what each call does to what users *)
(* gave them and to their accounts, and that both are kept.                *)
(***************************************************************************)
EXTENDS AttrNames, LoopTheorems, FiniteSetTheorems

-----------------------------------------------------------------------------
(* Types.                                                                  *)

ValueOf(a) == IF a \in UserNumber THEN Text \cup {Unset} ELSE Nat \cup {Unset}
Values == Text \cup Nat \cup {Unset}
Attributes == {t \in [Number -> Values] : \A a \in Number : t[a] \in ValueOf(a)}
Entry == [money : Nat, queue : Int, qmax : Int, dirty : BOOLEAN, ref : BOOLEAN, cached : BOOLEAN]

States ==
  [text : [Object -> Attributes], list : [Object -> Seq(Number)],
   mod_al_id : Object \cup {NOTHING}, mod_alist : Seq(Number),
   pcache : [Object -> Entry], kind : [Object -> {"player", "thing", "garbage"}],
   lost : SUBSET Object]

(* The list l names exactly the attributes in t, each once; A_MONEY may be *)
(* left out.                                                               *)
Exact(t, l) ==
  /\ \A i, j \in 1 .. Len(l) : l[i] = l[j] => i = j
  /\ \A i \in 1 .. Len(l) : t[l[i]] # Unset
  /\ \A a \in Number : t[a] # Unset /\ a # A_MONEY => \E i \in 1 .. Len(l) : l[i] = a

(* The states whose lists are exact, whichever of them is in memory.       *)
Sound == {e \in States : \A o \in Object : Exact(e.text[o], ListOf(e, o))}

LEMMA NumberTypes ==
  /\ Number \subseteq Nat /\ UserNumber \subseteq Number
  /\ A_MONEY \in Number /\ A_MONEY \notin UserNumber
  /\ A_QUEUEMAX \in Number /\ A_QUEUEMAX \notin UserNumber
  /\ \A a \in Number : Unset \in ValueOf(a) /\ ValueOf(a) \subseteq Values
  /\ \A a \in Number \ UserNumber : ValueOf(a) = Nat \cup {Unset}
BY NamesAssumption, ListAssumption DEF UserNumber, ValueOf, Values

LEMMA StateFields ==
  ASSUME NEW e \in States
  PROVE  /\ e.text \in [Object -> Attributes] /\ e.list \in [Object -> Seq(Number)]
         /\ e.mod_al_id \in Object \cup {NOTHING} /\ e.mod_alist \in Seq(Number)
         /\ e.pcache \in [Object -> Entry]
         /\ e.kind \in [Object -> {"player", "thing", "garbage"}]
BY DEF States

LEMMA ListType ==
  ASSUME NEW e \in States, NEW o \in Object
  PROVE  ListOf(e, o) \in Seq(Number)
BY StateFields DEF ListOf

-----------------------------------------------------------------------------
(* One list.                                                               *)

LEMMA ExactAgain ==
  ASSUME NEW t \in Attributes, NEW l \in Seq(Number), Exact(t, l),
         NEW i \in 1 .. Len(l), NEW a, a = l[i], NEW v, v # Unset
  PROVE  Exact([t EXCEPT ![a] = v], l)
<1>1. l[i] \in Number /\ \A j \in 1 .. Len(l) : l[j] \in Number
  OBVIOUS
<1>2. t \in [Number -> Values]
  BY DEF Attributes
<1> DEFINE u == [t EXCEPT ![a] = v]
<1>3. u[a] = v /\ \A b \in Number : b # a => u[b] = t[b]
  BY <1>1, <1>2
<1> HIDE DEF u
<1> QED BY <1>1, <1>3 DEF Exact, u

LEMMA ExactAppend ==
  ASSUME NEW t \in Attributes, NEW l \in Seq(Number), Exact(t, l),
         NEW a \in Number, \A i \in 1 .. Len(l) : l[i] # a, NEW v, v # Unset
  PROVE  Exact([t EXCEPT ![a] = v], Append(l, a))
<1>1. \A j \in 1 .. Len(l) : l[j] \in Number
  OBVIOUS
<1>2. t \in [Number -> Values]
  BY DEF Attributes
<1> DEFINE u == [t EXCEPT ![a] = v]
           m == Append(l, a)
<1>3. u[a] = v /\ \A b \in Number : b # a => u[b] = t[b]
  BY <1>2
<1>4. PICK n \in Nat : n = Len(l)
  OBVIOUS
<1>5. Len(m) = n + 1 /\ m[n + 1] = a /\ \A i \in 1 .. n : m[i] = l[i]
  BY <1>4
<1>6. \A i \in 1 .. n + 1 : i \in 1 .. n \/ i = n + 1
  OBVIOUS
<1> HIDE DEF u, m
<1>7. ASSUME NEW i \in 1 .. n + 1, NEW j \in 1 .. n + 1, m[i] = m[j] PROVE i = j
  BY <1>4, <1>5, <1>6, <1>7 DEF Exact
<1>8. ASSUME NEW i \in 1 .. n + 1 PROVE u[m[i]] # Unset
  BY <1>1, <1>3, <1>4, <1>5, <1>6 DEF Exact
<1>9. ASSUME NEW b \in Number, u[b] # Unset, b # A_MONEY PROVE \E i \in 1 .. n + 1 : m[i] = b
  <2>1. CASE b = a
    <3>1. n + 1 \in 1 .. n + 1
      OBVIOUS
    <3> QED BY <2>1, <3>1, <1>5
  <2>2. CASE b # a
    <3>1. PICK i \in 1 .. Len(l) : l[i] = b
      BY <2>2, <1>3, <1>9 DEF Exact
    <3>2. i \in 1 .. n + 1 /\ m[i] = b
      BY <3>1, <1>4, <1>5
    <3> QED BY <3>2
  <2> QED BY <2>1, <2>2
<1> QED BY <1>5, <1>7, <1>8, <1>9 DEF Exact, u, m

(* Nothing is unset that is not listed.                                    *)
LEMMA ExactUnlisted ==
  ASSUME NEW t \in Attributes, NEW l \in Seq(Number), Exact(t, l),
         NEW a \in Number, \A i \in 1 .. Len(l) : l[i] # a
  PROVE  Exact([t EXCEPT ![a] = Unset], l)
<1>1. \A j \in 1 .. Len(l) : l[j] \in Number
  OBVIOUS
<1>2. t \in [Number -> Values]
  BY DEF Attributes
<1> DEFINE u == [t EXCEPT ![a] = Unset]
<1>3. u[a] = Unset /\ \A b \in Number : b # a => u[b] = t[b]
  BY <1>2
<1> HIDE DEF u
<1> QED BY <1>1, <1>3 DEF Exact, u

LEMMA RemoveAtProperties ==
  ASSUME NEW l \in Seq(Number), NEW n, n = Len(l), NEW i \in 1 .. n
  PROVE  /\ RemoveAt(l, i) \in Seq(Number) /\ Len(RemoveAt(l, i)) = n - 1
         /\ \A j \in 1 .. n - 1 : RemoveAt(l, i)[j] = IF j < i THEN l[j] ELSE l[j + 1]
<1>1. n \in Nat
  OBVIOUS
<1> DEFINE front == SubSeq(l, 1, i - 1)
           back == SubSeq(l, i + 1, n)
<1>2. front \in Seq(Number) /\ Len(front) = i - 1 /\ \A j \in 1 .. i - 1 : front[j] = l[j]
  OBVIOUS
<1>3. back \in Seq(Number) /\ Len(back) = n - i /\ \A j \in 1 .. n - i : back[j] = l[i + j]
  OBVIOUS
<1>4. RemoveAt(l, i) = front \o back
  BY DEF RemoveAt
<1> HIDE DEF front, back
<1>5. front \o back \in Seq(Number) /\ Len(front \o back) = n - 1
  BY <1>1, <1>2, <1>3
<1>6. ASSUME NEW j \in 1 .. n - 1 PROVE (front \o back)[j] = IF j < i THEN l[j] ELSE l[j + 1]
  <2>1. CASE j < i
    <3>1. j \in 1 .. Len(front)
      BY <2>1, <1>2
    <3> QED BY <2>1, <3>1, <1>2, <1>3
  <2>2. CASE ~ (j < i)
    <3>1. j - (i - 1) \in 1 .. n - i /\ i + (j - (i - 1)) = j + 1
      BY <2>2, <1>1
    <3>2. (front \o back)[j] = back[j - (i - 1)]
      BY <2>2, <3>1, <1>1, <1>2, <1>3
    <3> QED BY <2>2, <3>1, <3>2, <1>3
  <2> QED BY <2>1, <2>2
<1> QED BY <1>4, <1>5, <1>6

LEMMA ExactRemove ==
  ASSUME NEW t \in Attributes, NEW l \in Seq(Number), Exact(t, l),
         NEW i \in 1 .. Len(l), NEW a, a = l[i]
  PROVE  /\ RemoveAt(l, i) \in Seq(Number)
         /\ Exact([t EXCEPT ![a] = Unset], RemoveAt(l, i))
<1>1. \A j \in 1 .. Len(l) : l[j] \in Number
  OBVIOUS
<1>2. t \in [Number -> Values]
  BY DEF Attributes
<1>3. PICK n \in Nat : n = Len(l)
  OBVIOUS
<1>4. PICK m : m = RemoveAt(l, i)
  OBVIOUS
<1>5. PICK u : u = [t EXCEPT ![a] = Unset]
  OBVIOUS
<1>6. u[a] = Unset /\ \A b \in Number : b # a => u[b] = t[b]
  BY <1>1, <1>2, <1>5
<1>7. /\ m \in Seq(Number) /\ Len(m) = n - 1
      /\ \A j \in 1 .. n - 1 : m[j] = IF j < i THEN l[j] ELSE l[j + 1]
  BY <1>3, <1>4, RemoveAtProperties
<1> DEFINE at(j) == IF j < i THEN j ELSE j + 1
<1>8. \A j \in 1 .. n - 1 : m[j] = l[at(j)] /\ at(j) \in 1 .. n /\ at(j) # i
  BY <1>3, <1>7
<1>9. \A j, k \in 1 .. n - 1 : at(j) = at(k) => j = k
  OBVIOUS
<1>10. ASSUME NEW k \in 1 .. n, k # i PROVE \E j \in 1 .. n - 1 : at(j) = k
  <2>1. CASE k < i
    <3>1. k \in 1 .. n - 1 /\ at(k) = k
      BY <2>1, <1>3
    <3> QED BY <3>1
  <2>2. CASE k > i
    <3>1. k - 1 \in 1 .. n - 1 /\ at(k - 1) = k
      BY <2>2, <1>3
    <3> QED BY <3>1
  <2> QED BY <2>1, <2>2, <1>3, <1>10
<1> HIDE DEF at
<1>11. \A j, k \in 1 .. n : l[j] = l[k] => j = k
  BY <1>3 DEF Exact
<1>12. ASSUME NEW j \in 1 .. n - 1, NEW k \in 1 .. n - 1, m[j] = m[k] PROVE j = k
  BY <1>8, <1>9, <1>11, <1>12
<1>13. ASSUME NEW j \in 1 .. n - 1 PROVE u[m[j]] # Unset
  <2>1. l[at(j)] # a
    BY <1>3, <1>8, <1>11
  <2>2. t[l[at(j)]] # Unset /\ l[at(j)] \in Number
    BY <1>1, <1>3, <1>8 DEF Exact
  <2> QED BY <2>1, <2>2, <1>6, <1>8
<1>14. ASSUME NEW b \in Number, u[b] # Unset, b # A_MONEY PROVE \E j \in 1 .. n - 1 : m[j] = b
  <2>1. b # a /\ t[b] # Unset
    BY <1>6, <1>14
  <2>2. PICK k \in 1 .. n : l[k] = b
    BY <2>1, <1>3, <1>14 DEF Exact
  <2>3. PICK j \in 1 .. n - 1 : at(j) = k
    BY <2>1, <2>2, <1>10
  <2> QED BY <2>2, <2>3, <1>8
<1>15. Exact(u, m)
  BY <1>7, <1>12, <1>13, <1>14 DEF Exact
<1> QED BY <1>4, <1>5, <1>7, <1>15


-----------------------------------------------------------------------------
(* The list in memory (al_store, al_fetch).                                *)

LEMMA StoreProperties ==
  ASSUME NEW e \in States, NEW f, f = al_store(e)
  PROVE  /\ f \in States
         /\ f.text = e.text /\ f.pcache = e.pcache /\ f.kind = e.kind /\ f.lost = e.lost
         /\ f.mod_al_id = NOTHING
         /\ \A o \in Object : ListOf(f, o) = ListOf(e, o) /\ f.list[o] = ListOf(e, o)
<1>0. NOTHING \notin Object
  BY ListAssumption
<1>1. CASE e.mod_al_id = NOTHING
  BY <1>0, <1>1 DEF al_store, States, ListOf
<1>2. CASE e.mod_al_id # NOTHING
  <2>1. e.mod_al_id \in Object /\ e.list \in [Object -> Seq(Number)] /\ e.mod_alist \in Seq(Number)
    BY <1>2 DEF States
  <2>2. f = [e EXCEPT !.list[e.mod_al_id] = e.mod_alist, !.mod_al_id = NOTHING]
    BY <1>2 DEF al_store
  <2>3. /\ f.list = [e.list EXCEPT ![e.mod_al_id] = e.mod_alist]
        /\ f.mod_al_id = NOTHING /\ f.text = e.text /\ f.pcache = e.pcache /\ f.kind = e.kind /\ f.lost = e.lost
        /\ f.mod_alist = e.mod_alist
    BY <2>2 DEF States
  <2>4. f.list \in [Object -> Seq(Number)]
    BY <2>1, <2>3
  <2>5. f = [e EXCEPT !.list = f.list, !.mod_al_id = NOTHING]
    BY <2>2, <2>3 DEF States
  <2>6. f \in States
    BY <2>4, <2>5 DEF States
  <2> QED BY <1>0, <2>1, <2>3, <2>6 DEF ListOf
<1> QED BY <1>1, <1>2

LEMMA FetchProperties ==
  ASSUME NEW e \in States, NEW o \in Object, NEW f, f = al_fetch(e, o)
  PROVE  /\ f \in States
         /\ f.text = e.text /\ f.pcache = e.pcache /\ f.kind = e.kind /\ f.lost = e.lost
         /\ f.mod_al_id = o /\ f.mod_alist = ListOf(e, o)
         /\ \A p \in Object : ListOf(f, p) = ListOf(e, p) /\ f.list[p] \in {e.list[p], ListOf(e, p)}
<1>0. NOTHING \notin Object
  BY ListAssumption
<1>1. CASE e.mod_al_id = o
  BY <1>1 DEF al_fetch, ListOf
<1>2. CASE e.mod_al_id # o
  <2>1. PICK s : s = al_store(e)
    OBVIOUS
  <2>2. /\ s \in States
        /\ s.text = e.text /\ s.pcache = e.pcache /\ s.kind = e.kind /\ s.lost = e.lost
        /\ s.mod_al_id = NOTHING
        /\ \A p \in Object : ListOf(s, p) = ListOf(e, p) /\ s.list[p] = ListOf(e, p)
    BY <2>1, StoreProperties
  <2>3. f = [s EXCEPT !.mod_al_id = o, !.mod_alist = s.list[o]]
    BY <1>2, <2>1 DEF al_fetch
  <2>4. s.list[o] \in Seq(Number)
    BY <2>2 DEF States
  <2>5. /\ f.mod_al_id = o /\ f.mod_alist = s.list[o] /\ f.list = s.list
        /\ f.text = s.text /\ f.pcache = s.pcache /\ f.kind = s.kind /\ f.lost = s.lost
    BY <2>2, <2>3 DEF States
  <2>6. f \in States
    BY <2>2, <2>3, <2>4 DEF States
  <2>7. \A p \in Object : ListOf(f, p) = s.list[p]
    BY <2>5 DEF ListOf
  <2> QED BY <2>2, <2>5, <2>6, <2>7
<1> QED BY <1>1, <1>2

-----------------------------------------------------------------------------
(* One attribute (Put, atr_add_raw).  What a change of the attributes and  *)
(* the list of o leaves as it was: everything of the other objects.        *)

Others(e, f, o) ==
  /\ f.pcache = e.pcache /\ f.kind = e.kind
  /\ \A p \in Object : p # o => ListOf(f, p) = ListOf(e, p) /\ f.text[p] = e.text[p]

(* Lists that are stored are those they were, or those that were in memory.*)
Older(e, f) == \A p \in Object : f.list[p] \in {e.list[p], ListOf(e, p)}

(* The list in memory is changed to l, the attributes of its owner to t.   *)
ChangedTo(e, o, l, t) == [e EXCEPT !.mod_alist = l, !.text[o] = t]

LEMMA Changed ==
  ASSUME NEW e \in States, NEW o \in Object, e.mod_al_id = o,
         NEW l \in Seq(Number), NEW t \in Attributes,
         NEW f, f = ChangedTo(e, o, l, t)
  PROVE  /\ f \in States /\ Others(e, f, o) /\ f.mod_al_id = o /\ f.list = e.list
         /\ f.lost = e.lost
         /\ f.text[o] = t /\ ListOf(f, o) = l
<1>1. e.text \in [Object -> Attributes]
  BY StateFields
<1>2. /\ f.mod_alist = l /\ f.text = [e.text EXCEPT ![o] = t] /\ f.mod_al_id = o
      /\ f.list = e.list /\ f.pcache = e.pcache /\ f.kind = e.kind /\ f.lost = e.lost
  BY DEF States, ChangedTo
<1>3. f \in States
  BY <1>1 DEF States, ChangedTo
<1> QED BY <1>1, <1>2, <1>3 DEF Others, ListOf

LEMMA AttributeChanged ==
  ASSUME NEW t \in Attributes, NEW a \in Number, NEW v \in ValueOf(a)
  PROVE  [t EXCEPT ![a] = v] \in Attributes
<1>1. v \in Values
  BY NumberTypes
<1> QED BY <1>1 DEF Attributes

(* What Put does: the attribute is set or cleared, with the list to match, *)
(* or the list is full and the number is refused.                          *)
PutDone(e, f, o, a, v) ==
  /\ f \in States /\ Others(e, f, o) /\ Older(e, f) /\ f.mod_al_id = o
  /\ \/ f.text[o] = [e.text[o] EXCEPT ![a] = v] /\ f.lost = e.lost
     \/ f.text[o] = e.text[o] /\ v # Unset /\ ~Fits(e, o, a) /\ f.lost = e.lost \cup {o}
  /\ Exact(e.text[o], ListOf(e, o)) => Exact(f.text[o], ListOf(f, o))

LEMMA PutUnset ==
  ASSUME NEW e \in States, NEW o \in Object, NEW a \in Number, NEW f, f = Put(e, o, a, Unset)
  PROVE  PutDone(e, f, o, a, Unset)
<1>1. e.text \in [Object -> Attributes] /\ e.text[o] \in Attributes
  BY StateFields
<1>2. PICK t : t = [e.text[o] EXCEPT ![a] = Unset]
  OBVIOUS
<1>3. t \in Attributes
  BY <1>1, <1>2, AttributeChanged, NumberTypes
<1>4. PICK g : g = [e EXCEPT !.text[o][a] = Unset]
  OBVIOUS
<1>5. /\ g \in States /\ g.text = [e.text EXCEPT ![o] = t]
      /\ g.list = e.list /\ g.mod_al_id = e.mod_al_id /\ g.mod_alist = e.mod_alist
      /\ g.pcache = e.pcache /\ g.kind = e.kind /\ g.lost = e.lost
  BY <1>1, <1>2, <1>3, <1>4 DEF States
<1>6. \A p \in Object : ListOf(g, p) = ListOf(e, p)
  BY <1>5 DEF ListOf
<1>7. PICK h : h = al_fetch(g, o)
  OBVIOUS
<1>8. /\ h \in States /\ h.text = g.text /\ h.pcache = g.pcache /\ h.kind = g.kind /\ h.lost = g.lost
      /\ h.mod_al_id = o /\ h.mod_alist = ListOf(g, o)
      /\ \A p \in Object : ListOf(h, p) = ListOf(g, p) /\ h.list[p] \in {g.list[p], ListOf(g, p)}
  BY <1>5, <1>7, FetchProperties
<1>9. PICK l : l = ListOf(e, o)
  OBVIOUS
<1>10. l \in Seq(Number) /\ h.mod_alist = l
  BY <1>6, <1>8, <1>9, ListType
<1>11. PICK at : at = {i \in 1 .. Len(l) : l[i] = a}
  OBVIOUS
<1>12. f = IF at = {} THEN h ELSE [h EXCEPT !.mod_alist = RemoveAt(l, Min(at))]
  BY <1>4, <1>7, <1>10, <1>11 DEF Put, al_delete
<1>13. h.text[o] = t
  BY <1>1, <1>5, <1>8
<1>14. CASE at = {}
  <2>1. \A i \in 1 .. Len(l) : l[i] # a
    BY <1>11, <1>14
  <2>2. Exact(e.text[o], l) => Exact(t, l)
    BY <1>1, <1>2, <1>10, <2>1, ExactUnlisted
  <2>3. Others(e, h, o) /\ Older(e, h)
    BY <1>1, <1>5, <1>6, <1>8 DEF Others, Older
  <2>4. ListOf(h, o) = l
    BY <1>6, <1>8, <1>9
  <2> QED BY <1>2, <1>5, <1>8, <1>9, <1>12, <1>13, <1>14, <2>2, <2>3, <2>4 DEF PutDone
<1>15. CASE at # {}
  <2>1. PICK i \in at : \A j \in at : i <= j
    <3>1. at \subseteq Nat
      BY <1>11
    <3> QED BY <3>1, <1>15, LeastNat
  <2>2. Min(at) \in at
    BY <2>1 DEF Min
  <2>3. PICK k \in 1 .. Len(l) : k = Min(at) /\ l[k] = a
    BY <2>2, <1>11
  <2>4. PICK m : m = RemoveAt(l, k)
    OBVIOUS
  <2>5. m \in Seq(Number)
    BY <2>3, <2>4, <1>10, RemoveAtProperties
  <2>6. Exact(e.text[o], l) => Exact(t, m)
    BY <1>1, <1>2, <1>10, <2>3, <2>4, ExactRemove
  <2>7. h.text = [h.text EXCEPT ![o] = t]
    BY <1>1, <1>5, <1>8, <1>13
  <2>8. f = ChangedTo(h, o, m, t)
    <3>1. f = [h EXCEPT !.mod_alist = m]
      BY <1>12, <1>15, <2>3, <2>4
    <3> QED BY <3>1, <1>8, <2>7 DEF States, ChangedTo
  <2>9. /\ f \in States /\ Others(h, f, o) /\ f.mod_al_id = o /\ f.list = h.list
        /\ f.lost = h.lost /\ f.text[o] = t /\ ListOf(f, o) = m
    BY <1>3, <1>8, <2>5, <2>8, Changed
  <2>10. Others(e, f, o) /\ Older(e, f)
    BY <1>1, <1>5, <1>6, <1>8, <2>9 DEF Others, Older
  <2> QED BY <1>2, <1>5, <1>8, <1>9, <2>6, <2>9, <2>10 DEF PutDone
<1> QED BY <1>14, <1>15

LEMMA PutSet ==
  ASSUME NEW e \in States, NEW o \in Object, NEW a \in Number,
         NEW v \in ValueOf(a), v # Unset, NEW f, f = Put(e, o, a, v)
  PROVE  PutDone(e, f, o, a, v)
<1>1. e.text \in [Object -> Attributes] /\ e.text[o] \in Attributes
  BY StateFields
<1>2. PICK t : t = [e.text[o] EXCEPT ![a] = v]
  OBVIOUS
<1>3. t \in Attributes
  BY <1>1, <1>2, AttributeChanged
<1>4. PICK h : h = al_fetch(e, o)
  OBVIOUS
<1>5. /\ h \in States /\ h.text = e.text /\ h.pcache = e.pcache /\ h.kind = e.kind /\ h.lost = e.lost
      /\ h.mod_al_id = o /\ h.mod_alist = ListOf(e, o)
      /\ \A p \in Object : ListOf(h, p) = ListOf(e, p) /\ h.list[p] \in {e.list[p], ListOf(e, p)}
  BY <1>4, FetchProperties
<1>6. PICK l : l = ListOf(e, o)
  OBVIOUS
<1>7. l \in Seq(Number) /\ h.mod_alist = l /\ ListOf(h, o) = l
  BY <1>5, <1>6, ListType
<1>8. Others(e, h, o) /\ Older(e, h)
  BY <1>5 DEF Others, Older
<1>9. Fits(h, o, a) <=> Fits(e, o, a)
  BY <1>5 DEF Fits
<1>10. a \in Range(l) <=> \E i \in 1 .. Len(l) : l[i] = a
  <2>1. DOMAIN l = 1 .. Len(l)
    BY <1>7
  <2> QED BY <2>1 DEF Range
<1>11. h.text[o] = e.text[o]
  BY <1>5
<1>12. PICK g : g = al_add(e, o, a)
  OBVIOUS
<1>13. g = IF a \in Range(l) THEN h
           ELSE IF Fits(e, o, a) THEN [h EXCEPT !.mod_alist = Append(l, a)]
           ELSE [h EXCEPT !.lost = h.lost \cup {o}]
  BY <1>4, <1>7, <1>9, <1>12 DEF al_add
<1>14. f = IF Fits(e, o, a) THEN [g EXCEPT !.text[o][a] = v] ELSE g
  BY <1>12 DEF Put
<1>15. CASE ~Fits(e, o, a)
  <2>0. PICK refused \in SUBSET Object : refused = h.lost \cup {o}
    BY <1>5 DEF States
  <2>1. f = [h EXCEPT !.lost = refused]
    BY <1>6, <1>13, <1>14, <1>15, <2>0 DEF Fits
  <2>2. /\ f \in States /\ f.lost = refused /\ f.text = h.text /\ f.list = h.list
        /\ f.mod_al_id = h.mod_al_id /\ f.mod_alist = h.mod_alist
        /\ f.pcache = h.pcache /\ f.kind = h.kind
    BY <1>5, <2>1 DEF States
  <2>3. \A p \in Object : ListOf(f, p) = ListOf(h, p)
    BY <2>2 DEF ListOf
  <2>4. Others(e, f, o) /\ Older(e, f)
    BY <1>8, <2>2, <2>3 DEF Others, Older
  <2> QED BY <1>5, <1>6, <1>7, <1>11, <1>15, <2>0, <2>2, <2>3, <2>4 DEF PutDone
<1>16. CASE Fits(e, o, a)
  <2>1. PICK m : m = IF a \in Range(l) THEN l ELSE Append(l, a)
    OBVIOUS
  <2>2. m \in Seq(Number)
    BY <1>7, <2>1
  <2>3. g = [h EXCEPT !.mod_alist = m]
    BY <1>5, <1>7, <1>13, <1>16, <2>1 DEF States
  <2>4. g.text = h.text /\ g.text[o] = e.text[o]
    BY <1>5, <2>3 DEF States
  <2>5. [g EXCEPT !.text[o][a] = v] = ChangedTo(h, o, m, t)
    <3>1. h.text \in [Object -> Attributes]
      BY <1>1, <1>5
    <3> QED BY <1>2, <1>5, <2>3, <2>4, <3>1 DEF States, ChangedTo
  <2>6. f = ChangedTo(h, o, m, t)
    BY <1>14, <1>16, <2>5
  <2>7. /\ f \in States /\ Others(h, f, o) /\ f.mod_al_id = o /\ f.list = h.list
        /\ f.lost = h.lost /\ f.text[o] = t /\ ListOf(f, o) = m
    BY <1>3, <1>5, <2>2, <2>6, Changed
  <2>8. Exact(e.text[o], l) => Exact(t, m)
    <3>1. CASE a \in Range(l)
      <4>1. PICK i \in 1 .. Len(l) : l[i] = a
        BY <1>10, <3>1
      <4> QED BY <1>1, <1>2, <1>7, <2>1, <3>1, <4>1, ExactAgain
    <3>2. CASE a \notin Range(l)
      <4>1. \A i \in 1 .. Len(l) : l[i] # a
        BY <1>10, <3>2
      <4> QED BY <1>1, <1>2, <1>7, <2>1, <3>2, <4>1, ExactAppend
    <3> QED BY <3>1, <3>2
  <2>9. Others(e, f, o) /\ Older(e, f)
    BY <1>5, <2>7 DEF Others, Older
  <2> QED BY <1>2, <1>5, <1>6, <2>7, <2>8, <2>9 DEF PutDone
<1> QED BY <1>15, <1>16

LEMMA PutProperties ==
  ASSUME NEW e \in States, NEW o \in Object, NEW a \in Number, NEW v \in ValueOf(a),
         NEW f, f = Put(e, o, a, v)
  PROVE  PutDone(e, f, o, a, v)
<1>1. CASE v = Unset
  BY <1>1, PutUnset
<1>2. CASE v # Unset
  BY <1>2, PutSet
<1> QED BY <1>1, <1>2


-----------------------------------------------------------------------------
(* The player cache above the attributes (player_c.cpp).                   *)

(* Only entries of the player cache differ.                                *)
CacheOnly(e, f) ==
  /\ f \in States /\ f.text = e.text /\ f.list = e.list /\ f.kind = e.kind
  /\ f.mod_al_id = e.mod_al_id /\ f.mod_alist = e.mod_alist /\ f.lost = e.lost

WithEntry(e, o, x) == [e EXCEPT !.pcache[o] = x]

LEMMA EntryChanged ==
  ASSUME NEW e \in States, NEW o \in Object, NEW x \in Entry, NEW f, f = WithEntry(e, o, x)
  PROVE  CacheOnly(e, f) /\ f.pcache[o] = x
<1>1. e.pcache \in [Object -> Entry]
  BY StateFields
<1>2. f.pcache = [e.pcache EXCEPT ![o] = x] /\ f.pcache \in [Object -> Entry]
  BY <1>1 DEF WithEntry, States
<1> QED BY <1>1, <1>2 DEF WithEntry, States, CacheOnly

LEMMA CacheOnlyLists ==
  ASSUME NEW e, NEW f, CacheOnly(e, f)
  PROVE  /\ f \in States /\ f.text = e.text /\ f.list = e.list /\ f.kind = e.kind
         /\ f.lost = e.lost
         /\ \A p \in Object : ListOf(f, p) = ListOf(e, p)
BY DEF CacheOnly, ListOf

LEMMA EntryFields ==
  ASSUME NEW x \in Entry
  PROVE  /\ x.money \in Nat /\ x.queue \in Int /\ x.qmax \in Int
         /\ x.dirty \in BOOLEAN /\ x.ref \in BOOLEAN /\ x.cached \in BOOLEAN
BY DEF Entry

LEMMA ValueTypes ==
  ASSUME NEW e \in States, NEW o \in Object
  PROVE  /\ e.text[o] \in Attributes /\ e.pcache[o] \in Entry
         /\ e.text[o][A_MONEY] \in Nat \cup {Unset}
         /\ e.text[o][A_QUEUEMAX] \in Nat \cup {Unset}
<1>1. e.text[o] \in Attributes /\ e.pcache[o] \in Entry
  BY StateFields
<1>2. e.text[o][A_MONEY] \in ValueOf(A_MONEY) /\ e.text[o][A_QUEUEMAX] \in ValueOf(A_QUEUEMAX)
  BY <1>1, NumberTypes DEF Attributes
<1> QED BY <1>1, <1>2, NumberTypes DEF ValueOf

LEMMA ReloadedType ==
  ASSUME NEW p \in Entry, NEW m \in Nat \cup {Unset}, NEW q \in Nat \cup {Unset}
  PROVE  Reloaded(p, m, q) \in Entry
<1>1. PICK money \in Nat : money = IF m = Unset THEN 0 ELSE m
  OBVIOUS
<1>2. PICK qmax \in Int : qmax = IF q = Unset THEN -1 ELSE q
  OBVIOUS
<1>3. PICK dirty \in BOOLEAN : dirty = (p.dirty \/ m = Unset)
  OBVIOUS
<1>4. Reloaded(p, m, q) = [p EXCEPT !.money = money, !.dirty = dirty, !.qmax = qmax]
  BY <1>1, <1>2, <1>3 DEF Reloaded
<1>5. [p EXCEPT !.money = money, !.dirty = dirty, !.qmax = qmax] \in Entry
  BY DEF Entry
<1> QED BY <1>4, <1>5

LEMMA Reload1Properties ==
  ASSUME NEW e \in States, NEW o \in Object, NEW f, f = pcache_reload1(e, o)
  PROVE  CacheOnly(e, f)
<1>1. PICK x : x = Reloaded(e.pcache[o], e.text[o][A_MONEY], e.text[o][A_QUEUEMAX])
  OBVIOUS
<1>2. x \in Entry
  BY <1>1, ValueTypes, ReloadedType
<1>3. f = WithEntry(e, o, x)
  BY <1>1, StateFields DEF pcache_reload1, WithEntry
<1> QED BY <1>2, <1>3, EntryChanged

LEMMA NoEntryType ==
  NoEntry \in Entry /\ [NoEntry EXCEPT !.cached = TRUE, !.ref = TRUE] \in Entry
<1>1. NoEntry \in Entry
  BY DEF NoEntry, Entry
<1>2. [NoEntry EXCEPT !.cached = TRUE, !.ref = TRUE] \in Entry
  BY <1>1 DEF Entry
<1> QED BY <1>1, <1>2

LEMMA FindProperties ==
  ASSUME NEW e \in States, NEW o \in Object, NEW f, f = pcache_find(e, o)
  PROVE  CacheOnly(e, f)
<1>1. e.pcache \in [Object -> Entry] /\ e.pcache[o] \in Entry
  BY StateFields
<1>2. CASE e.pcache[o].cached
  <2>1. PICK x : x = [e.pcache[o] EXCEPT !.ref = TRUE]
    OBVIOUS
  <2>2. x \in Entry
    BY <1>1, <2>1 DEF Entry
  <2>3. f = WithEntry(e, o, x)
    BY <1>1, <1>2, <2>1 DEF pcache_find, WithEntry, States
  <2> QED BY <2>2, <2>3, EntryChanged
<1>3. CASE ~e.pcache[o].cached
  <2>1. PICK x : x = [NoEntry EXCEPT !.cached = TRUE, !.ref = TRUE]
    OBVIOUS
  <2>2. x \in Entry
    BY <2>1, NoEntryType
  <2>3. PICK g : g = WithEntry(e, o, x)
    OBVIOUS
  <2>4. CacheOnly(e, g)
    BY <2>2, <2>3, EntryChanged
  <2>5. f = pcache_reload1(g, o)
    BY <1>3, <2>1, <2>3 DEF pcache_find, WithEntry
  <2>6. g \in States
    BY <2>4 DEF CacheOnly
  <2>7. CacheOnly(g, f)
    BY <2>5, <2>6, Reload1Properties
  <2> QED BY <2>4, <2>7 DEF CacheOnly
<1> QED BY <1>2, <1>3

(* What a change that concerns o leaves and keeps; a is the only number    *)
(* beside A_MONEY under which its attributes may change.                   *)
Kept(e, f, o, a) ==
  /\ f \in States /\ f.kind = e.kind /\ e.lost \subseteq f.lost
  /\ \A p \in Object : p # o => ListOf(f, p) = ListOf(e, p) /\ f.text[p] = e.text[p]
  /\ \A b \in Number : b # a /\ b # A_MONEY => f.text[o][b] = e.text[o][b]
  /\ Exact(e.text[o], ListOf(e, o)) => Exact(f.text[o], ListOf(f, o))

LEMMA KeptSound ==
  ASSUME NEW e \in Sound, NEW o \in Object, NEW a, NEW f, Kept(e, f, o, a)
  PROVE  f \in Sound
<1>1. ASSUME NEW p \in Object PROVE Exact(f.text[p], ListOf(f, p))
  <2>1. Exact(e.text[p], ListOf(e, p))
    BY DEF Sound
  <2>2. CASE p = o
    BY <2>1, <2>2 DEF Kept
  <2>3. CASE p # o
    BY <2>1, <2>3 DEF Kept
  <2> QED BY <2>2, <2>3
<1> QED BY <1>1 DEF Sound, Kept

LEMMA CacheOnlyKept ==
  ASSUME NEW e \in States, NEW f, CacheOnly(e, f), NEW o \in Object, NEW a
  PROVE  Kept(e, f, o, a)
BY CacheOnlyLists DEF Kept

LEMMA KeptTwice ==
  ASSUME NEW e, NEW f, NEW g, NEW o, NEW a, Kept(e, f, o, a), Kept(f, g, o, a)
  PROVE  Kept(e, g, o, a)
BY DEF Kept

LEMMA PutKept ==
  ASSUME NEW e \in States, NEW o \in Object, NEW a \in Number, NEW v, NEW f,
         PutDone(e, f, o, a, v)
  PROVE  Kept(e, f, o, a)
<1>1. e.text[o] \in [Number -> Values]
  BY StateFields DEF Attributes
<1>2. \A b \in Number : b # a => f.text[o][b] = e.text[o][b]
  BY <1>1 DEF PutDone
<1> QED BY <1>2 DEF PutDone, Others, Kept

(* A_MONEY may be stored and not listed.                                   *)
LEMMA ExactMoney ==
  ASSUME NEW t \in Attributes, NEW l \in Seq(Number), Exact(t, l), NEW v, v # Unset
  PROVE  Exact([t EXCEPT ![A_MONEY] = v], l)
<1>1. \A j \in 1 .. Len(l) : l[j] \in Number
  OBVIOUS
<1>2. t \in [Number -> Values]
  BY DEF Attributes
<1> DEFINE u == [t EXCEPT ![A_MONEY] = v]
<1>3. u[A_MONEY] = v /\ \A b \in Number : b # A_MONEY => u[b] = t[b]
  BY <1>2, NumberTypes
<1> HIDE DEF u
<1> QED BY <1>1, <1>3 DEF Exact, u

(* What is stored, should the list in memory be lost, is exact as well.    *)
Stored(e) == \A p \in Object : Exact(e.text[p], e.list[p])

LEMMA SaveProperties ==
  ASSUME NEW e \in States, NEW o \in Object, NEW f, f = pcache_save(e, o)
  PROVE  /\ Kept(e, f, o, A_MONEY)
         /\ e \in Sound /\ Stored(e) => Stored(f)
<1>1. CASE ~e.pcache[o].dirty
  <2>1. f = e
    BY <1>1 DEF pcache_save
  <2>2. CacheOnly(e, f)
    BY <2>1 DEF CacheOnly
  <2> QED BY <2>1, <2>2, CacheOnlyKept
<1>2. CASE e.pcache[o].dirty
  <2>1. e.pcache[o].money \in Nat /\ e.pcache[o] \in Entry
    BY ValueTypes, EntryFields
  <2>2. PICK v : v = e.pcache[o].money
    OBVIOUS
  <2>3. v \in ValueOf(A_MONEY) /\ v # Unset
    BY <2>1, <2>2, NumberTypes, ListAssumption
  <2>4. PICK g : g = Put(e, o, A_MONEY, v)
    OBVIOUS
  <2>5. PutDone(e, g, o, A_MONEY, v)
    BY <2>3, <2>4, NumberTypes, PutProperties
  <2>6. g \in States
    BY <2>5 DEF PutDone
  <2>7. g.pcache \in [Object -> Entry] /\ g.pcache[o] \in Entry
    BY <2>6, StateFields
  <2>8. PICK x : x = [g.pcache[o] EXCEPT !.dirty = FALSE]
    OBVIOUS
  <2>9. x \in Entry
    BY <2>7, <2>8 DEF Entry
  <2>10. f = WithEntry(g, o, x)
    BY <1>2, <2>2, <2>4, <2>6, <2>7, <2>8 DEF pcache_save, WithEntry, States
  <2>11. CacheOnly(g, f)
    BY <2>6, <2>9, <2>10, EntryChanged
  <2>12. Kept(e, g, o, A_MONEY) /\ Kept(g, f, o, A_MONEY)
    BY <2>5, <2>6, <2>11, NumberTypes, PutKept, CacheOnlyKept
  <2>13. Kept(e, f, o, A_MONEY)
    BY <2>12, KeptTwice
  <2>14. ASSUME e \in Sound, Stored(e), NEW p \in Object
         PROVE  Exact(f.text[p], f.list[p])
    <3>1. f.text = g.text /\ f.list = g.list
      BY <2>11 DEF CacheOnly
    <3>2. Exact(e.text[p], e.list[p]) /\ Exact(e.text[p], ListOf(e, p))
      BY <2>14 DEF Sound, Stored
    <3>3. f.list[p] \in {e.list[p], ListOf(e, p)}
      BY <2>5, <3>1 DEF PutDone, Older
    <3>4. Exact(e.text[p], f.list[p])
      BY <3>2, <3>3
    <3>5. CASE p # o
      BY <2>5, <3>1, <3>4, <3>5 DEF PutDone, Others
    <3>6. CASE p = o
      <4>1. e.text[p] \in Attributes /\ f.list[p] \in Seq(Number)
        BY <3>3, ListType, StateFields
      <4>2. Exact([e.text[p] EXCEPT ![A_MONEY] = v], f.list[p])
        BY <2>3, <3>4, <4>1, ExactMoney
      <4>3. f.text[p] = e.text[p] \/ f.text[p] = [e.text[p] EXCEPT ![A_MONEY] = v]
        BY <2>5, <3>1, <3>6 DEF PutDone
      <4> QED BY <3>4, <4>2, <4>3
    <3> QED BY <3>5, <3>6
  <2> QED BY <2>13, <2>14 DEF Stored
<1> QED BY <1>1, <1>2

LEMMA KeptFrom ==
  ASSUME NEW e, NEW f, NEW o, Kept(e, f, o, A_MONEY), NEW a
  PROVE  Kept(e, f, o, a)
BY DEF Kept

LEMMA ReloadProperties ==
  ASSUME NEW e \in States, NEW o \in Object, NEW f, f = pcache_reload(e, o)
  PROVE  Kept(e, f, o, A_MONEY)
<1>1. CASE ~OwnsOthers(e, o)
  <2>1. f = e
    BY <1>1 DEF pcache_reload
  <2>2. CacheOnly(e, f)
    BY <2>1 DEF CacheOnly
  <2> QED BY <2>2, CacheOnlyKept
<1>2. CASE OwnsOthers(e, o)
  <2>1. PICK g : g = pcache_find(e, o)
    OBVIOUS
  <2>2. CacheOnly(e, g) /\ g \in States
    BY <2>1, FindProperties DEF CacheOnly
  <2>3. PICK h : h = pcache_save(g, o)
    OBVIOUS
  <2>4. Kept(g, h, o, A_MONEY)
    BY <2>2, <2>3, SaveProperties
  <2>5. h \in States
    BY <2>4 DEF Kept
  <2>6. f = pcache_reload1(h, o)
    BY <1>2, <2>1, <2>3 DEF pcache_reload
  <2>7. CacheOnly(h, f)
    BY <2>5, <2>6, Reload1Properties
  <2>8. Kept(e, g, o, A_MONEY) /\ Kept(h, f, o, A_MONEY)
    BY <2>2, <2>5, <2>7, CacheOnlyKept
  <2>9. Kept(e, h, o, A_MONEY)
    BY <2>4, <2>8, KeptTwice
  <2> QED BY <2>8, <2>9, KeptTwice
<1> QED BY <1>1, <1>2

(* A change of one attribute, with all that follows from it.               *)
LEMMA AddProperties ==
  ASSUME NEW e \in States, NEW o \in Object, NEW a \in Number, NEW v \in ValueOf(a),
         NEW f, f = atr_add_raw(e, o, a, v)
  PROVE  /\ Kept(e, f, o, a)
         /\ v = Unset /\ a # A_MONEY => f.text[o][a] = Unset
<1>1. PICK g : g = Put(e, o, a, v)
  OBVIOUS
<1>2. PutDone(e, g, o, a, v)
  BY <1>1, PutProperties
<1>3. g \in States /\ Kept(e, g, o, a)
  <2>1. Kept(e, g, o, a)
    BY <1>2, PutKept
  <2> QED BY <1>2, <2>1 DEF PutDone
<1>4. v = Unset => g.text[o][a] = Unset
  <2>1. e.text[o] \in [Number -> Values]
    BY StateFields DEF Attributes
  <2> QED BY <2>1, <1>2 DEF PutDone
<1>5. CASE f = g
  BY <1>3, <1>4, <1>5
<1>6. CASE f = pcache_reload(g, o)
  <2>1. Kept(g, f, o, A_MONEY)
    BY <1>3, <1>6, ReloadProperties
  <2>2. Kept(g, f, o, a)
    BY <2>1, KeptFrom
  <2>3. Kept(e, f, o, a)
    BY <1>3, <2>2, KeptTwice
  <2>4. a # A_MONEY => f.text[o][a] = g.text[o][a]
    BY <2>1 DEF Kept
  <2> QED BY <1>4, <2>3, <2>4
<1> QED BY <1>1, <1>5, <1>6 DEF atr_add_raw

LEMMA ClearProperties ==
  ASSUME NEW e \in States, NEW o \in Object, NEW a \in Number, NEW f, f = atr_clr(e, o, a)
  PROVE  /\ Kept(e, f, o, a)
         /\ a # A_MONEY => f.text[o][a] = Unset
<1>1. Unset \in ValueOf(a) /\ f = atr_add_raw(e, o, a, Unset)
  BY NumberTypes DEF atr_clr
<1> QED BY <1>1, AddProperties

LEMMA PenniesProperties ==
  ASSUME NEW e \in States, NEW o \in Object, NEW n \in Nat, NEW f, f = s_Pennies(e, o, n)
  PROVE  Kept(e, f, o, A_MONEY)
<1>1. CASE OwnsOthers(e, o)
  <2>1. PICK g : g = pcache_find(e, o)
    OBVIOUS
  <2>2. CacheOnly(e, g) /\ g \in States
    BY <2>1, FindProperties DEF CacheOnly
  <2>3. g.pcache \in [Object -> Entry] /\ g.pcache[o] \in Entry
    BY <2>2, StateFields
  <2>4. PICK x : x = [g.pcache[o] EXCEPT !.money = n, !.dirty = TRUE]
    OBVIOUS
  <2>5. x \in Entry
    BY <2>3, <2>4 DEF Entry
  <2>6. f = WithEntry(g, o, x)
    BY <1>1, <2>1, <2>2, <2>3, <2>4 DEF s_Pennies, WithEntry, States
  <2>7. CacheOnly(g, f)
    BY <2>2, <2>5, <2>6, EntryChanged
  <2>8. CacheOnly(e, f)
    BY <2>2, <2>7 DEF CacheOnly
  <2> QED BY <2>8, CacheOnlyKept
<1>2. CASE ~OwnsOthers(e, o) /\ Good_obj(e, o)
  <2>1. f = atr_add_raw(e, o, A_MONEY, n)
    BY <1>2 DEF s_Pennies
  <2>2. n \in ValueOf(A_MONEY)
    BY NumberTypes
  <2> QED BY <2>1, <2>2, NumberTypes, AddProperties
<1>3. CASE ~OwnsOthers(e, o) /\ ~Good_obj(e, o)
  <2>1. CacheOnly(e, f)
    BY <1>3 DEF s_Pennies, CacheOnly
  <2> QED BY <2>1, CacheOnlyKept
<1> QED BY <1>1, <1>2, <1>3

LEMMA QueueProperties ==
  ASSUME NEW e \in States, NEW o \in Object, NEW n \in Int, NEW f, f = a_Queue(e, o, n)
  PROVE  CacheOnly(e, f)
<1>1. CASE OwnsOthers(e, o)
  <2>1. PICK g : g = pcache_find(e, o)
    OBVIOUS
  <2>2. CacheOnly(e, g) /\ g \in States
    BY <2>1, FindProperties DEF CacheOnly
  <2>3. g.pcache \in [Object -> Entry] /\ g.pcache[o] \in Entry
    BY <2>2, StateFields
  <2>4. PICK x : x = [g.pcache[o] EXCEPT !.queue = @ + n]
    OBVIOUS
  <2>5. x \in Entry
    BY <2>3, <2>4 DEF Entry
  <2>6. f = WithEntry(g, o, x)
    BY <1>1, <2>1, <2>2, <2>3, <2>4 DEF a_Queue, WithEntry, States
  <2>7. CacheOnly(g, f)
    BY <2>2, <2>5, <2>6, EntryChanged
  <2> QED BY <2>2, <2>7 DEF CacheOnly
<1>2. CASE ~OwnsOthers(e, o)
  BY <1>2 DEF a_Queue, CacheOnly
<1> QED BY <1>1, <1>2


-----------------------------------------------------------------------------
(* Loops over entries of the player cache and over lists.                  *)

LEMMA SavingRounds ==
  ASSUME NEW e \in Sound, NEW s \in Seq(Object),
         NEW g, g = Saving(e, s)
  PROVE  /\ g[0] = e /\ \A k \in 0 .. Len(s) : g[k] \in Sound
         /\ \A k \in 1 .. Len(s) : g[k] = pcache_save(g[k - 1], s[k])
<1>1. PICK n \in Nat : n = Len(s)
  OBVIOUS
<1> DEFINE step == [p \in (1 .. n) \X Sound |-> pcache_save(p[2], s[p[1]])]
           Solves(f) == f = [k \in 0 .. n |-> IF k = 0 THEN e ELSE pcache_save(f[k - 1], s[k])]
<1>2. ASSUME NEW k \in 1 .. n, NEW f \in Sound PROVE pcache_save(f, s[k]) \in Sound
  <2>1. f \in States /\ s[k] \in Object
    BY <1>1 DEF Sound
  <2>2. Kept(f, pcache_save(f, s[k]), s[k], A_MONEY)
    BY <2>1, SaveProperties
  <2> QED BY <2>1, <2>2, KeptSound
<1>3. step \in [(1 .. n) \X Sound -> Sound]
  BY <1>2
<1>4. \A k \in 1 .. n, f \in Sound : step[<<k, f>>] = pcache_save(f, s[k])
  OBVIOUS
<1> HIDE DEF step
<1>5. \E f : Solves(f)
  <2>0. PICK f : RoundsIn(f, e, n, step, Sound)
    <3>1. StepIn(e, n, step, Sound)
      BY <1>3 DEF StepIn
    <3> QED BY <3>1, FiniteLoop
  <2>1. f \in [0 .. n -> Sound] /\ f[0] = e /\ \A k \in 1 .. n : f[k] = step[<<k, f[k - 1]>>]
    BY <2>0 DEF RoundsIn
  <2>2. ASSUME NEW k \in 1 .. n PROVE f[k] = pcache_save(f[k - 1], s[k])
    <3>1. k - 1 \in 0 .. n
      OBVIOUS
    <3> QED BY <1>4, <2>1, <3>1
  <2>3. \A k \in 0 .. n : k = 0 \/ k \in 1 .. n
    OBVIOUS
  <2>4. \A k \in 0 .. n : f[k] = IF k = 0 THEN e ELSE pcache_save(f[k - 1], s[k])
    BY <2>1, <2>2, <2>3
  <2>5. Solves(f)
    BY <2>1, <2>4
  <2> QED BY <2>5
<1>6. Solves(g)
  <2>1. Saving(e, s) = CHOOSE f : Solves(f)
    BY <1>1 DEF Saving
  <2> HIDE DEF Solves
  <2> QED BY <1>5, <2>1
<1>7. g[0] = e
  BY <1>6
<1>8. ASSUME NEW k \in 1 .. n PROVE g[k] = pcache_save(g[k - 1], s[k])
  <2>1. k \in 0 .. n /\ k # 0
    OBVIOUS
  <2> QED BY <1>6, <2>1
<1>9. ASSUME NEW k \in 1 .. n, g[k - 1] \in Sound PROVE g[k] \in Sound
  BY <1>2, <1>8, <1>9
<1> DEFINE P == [k \in 0 .. n |-> Sound]
<1>10. ASSUME NEW k \in 1 .. n, g[k - 1] \in P[k - 1] PROVE g[k] \in P[k]
  <2>1. k - 1 \in 0 .. n /\ k \in 0 .. n
    OBVIOUS
  <2> QED BY <1>9, <1>10, <2>1
<1>11. g[0] \in P[0]
  BY <1>7
<1>12. \A k \in 0 .. n : g[k] \in P[k]
  <2> HIDE DEF P
  <2> QED BY <1>10, <1>11, RoundInduction
<1> QED BY <1>1, <1>7, <1>8, <1>12


-----------------------------------------------------------------------------
(* The loop that trims, and what loops over all entries give.              *)

LEMMA TrimmedProperties ==
  ASSUME NEW e \in States, NEW o \in Object, NEW f, f = TrimmedOne(e, o)
  PROVE  Kept(e, f, o, A_MONEY)
<1>1. CASE Trimmed(e, o)
  <2>1. PICK g : g = pcache_save(e, o)
    OBVIOUS
  <2>2. Kept(e, g, o, A_MONEY)
    BY <2>1, SaveProperties
  <2>3. g \in States
    BY <2>2 DEF Kept
  <2>4. f = WithEntry(g, o, NoEntry)
    BY <1>1, <2>1 DEF TrimmedOne, WithEntry
  <2>5. CacheOnly(g, f)
    BY <2>3, <2>4, NoEntryType, EntryChanged
  <2>6. Kept(g, f, o, A_MONEY)
    BY <2>3, <2>5, CacheOnlyKept
  <2> QED BY <2>2, <2>6, KeptTwice
<1>2. CASE ~Trimmed(e, o)
  <2>1. e.pcache \in [Object -> Entry] /\ e.pcache[o] \in Entry
    BY StateFields
  <2>2. PICK x : x = [e.pcache[o] EXCEPT !.ref = FALSE]
    OBVIOUS
  <2>3. x \in Entry
    BY <2>1, <2>2 DEF Entry
  <2>4. f = WithEntry(e, o, x)
    BY <1>2, <2>1, <2>2 DEF TrimmedOne, WithEntry, States
  <2>5. CacheOnly(e, f)
    BY <2>3, <2>4, EntryChanged
  <2> QED BY <2>5, CacheOnlyKept
<1> QED BY <1>1, <1>2

LEMMA TrimmingRounds ==
  ASSUME NEW e \in Sound, NEW s \in Seq(Object),
         NEW g, g = Trimming(e, s)
  PROVE  /\ g[0] = e /\ \A k \in 0 .. Len(s) : g[k] \in Sound
         /\ \A k \in 1 .. Len(s) : g[k] = TrimmedOne(g[k - 1], s[k])
<1>1. PICK n \in Nat : n = Len(s)
  OBVIOUS
<1> DEFINE step == [p \in (1 .. n) \X Sound |-> TrimmedOne(p[2], s[p[1]])]
           Solves(f) == f = [k \in 0 .. n |-> IF k = 0 THEN e ELSE TrimmedOne(f[k - 1], s[k])]
<1>2. ASSUME NEW k \in 1 .. n, NEW f \in Sound PROVE TrimmedOne(f, s[k]) \in Sound
  <2>1. f \in States /\ s[k] \in Object
    BY <1>1 DEF Sound
  <2>2. Kept(f, TrimmedOne(f, s[k]), s[k], A_MONEY)
    BY <2>1, TrimmedProperties
  <2> QED BY <2>1, <2>2, KeptSound
<1>3. step \in [(1 .. n) \X Sound -> Sound]
  BY <1>2
<1>4. \A k \in 1 .. n, f \in Sound : step[<<k, f>>] = TrimmedOne(f, s[k])
  OBVIOUS
<1> HIDE DEF step
<1>5. \E f : Solves(f)
  <2>0. PICK f : RoundsIn(f, e, n, step, Sound)
    <3>1. StepIn(e, n, step, Sound)
      BY <1>3 DEF StepIn
    <3> QED BY <3>1, FiniteLoop
  <2>1. f \in [0 .. n -> Sound] /\ f[0] = e /\ \A k \in 1 .. n : f[k] = step[<<k, f[k - 1]>>]
    BY <2>0 DEF RoundsIn
  <2>2. ASSUME NEW k \in 1 .. n PROVE f[k] = TrimmedOne(f[k - 1], s[k])
    <3>1. k - 1 \in 0 .. n
      OBVIOUS
    <3> QED BY <1>4, <2>1, <3>1
  <2>3. \A k \in 0 .. n : k = 0 \/ k \in 1 .. n
    OBVIOUS
  <2>4. \A k \in 0 .. n : f[k] = IF k = 0 THEN e ELSE TrimmedOne(f[k - 1], s[k])
    BY <2>1, <2>2, <2>3
  <2>5. Solves(f)
    BY <2>1, <2>4
  <2> QED BY <2>5
<1>6. Solves(g)
  <2>1. Trimming(e, s) = CHOOSE f : Solves(f)
    BY <1>1 DEF Trimming
  <2> HIDE DEF Solves
  <2> QED BY <1>5, <2>1
<1>7. g[0] = e
  BY <1>6
<1>8. ASSUME NEW k \in 1 .. n PROVE g[k] = TrimmedOne(g[k - 1], s[k])
  <2>1. k \in 0 .. n /\ k # 0
    OBVIOUS
  <2> QED BY <1>6, <2>1
<1>9. ASSUME NEW k \in 1 .. n, g[k - 1] \in Sound PROVE g[k] \in Sound
  BY <1>2, <1>8, <1>9
<1> DEFINE P == [k \in 0 .. n |-> Sound]
<1>10. ASSUME NEW k \in 1 .. n, g[k - 1] \in P[k - 1] PROVE g[k] \in P[k]
  <2>1. k - 1 \in 0 .. n /\ k \in 0 .. n
    OBVIOUS
  <2> QED BY <1>9, <1>10, <2>1
<1>11. g[0] \in P[0]
  BY <1>7
<1>12. \A k \in 0 .. n : g[k] \in P[k]
  <2> HIDE DEF P
  <2> QED BY <1>10, <1>11, RoundInduction
<1> QED BY <1>1, <1>7, <1>8, <1>12

(* A finite set as a sequence of its members.                              *)
LEMMA SequenceOfSet ==
  ASSUME NEW T, T \subseteq Object
  PROVE  SetToSeq(T) \in Seq(Object) /\ Len(SetToSeq(T)) = Cardinality(T)
<1>1. IsFiniteSet(T)
  BY NamesAssumption, FS_Subset
<1>2. Cardinality(T) \in Nat /\ ExistsBijection(1 .. Cardinality(T), T)
  BY <1>1, FS_CardinalityType
<1>3. PICK n \in Nat : n = Cardinality(T)
  BY <1>2
<1>4. PICK f : f \in Bijection(1 .. n, T)
  BY <1>2, <1>3 DEF ExistsBijection
<1>5. f \in [1 .. n -> T] /\ IsInjective(f)
  BY <1>4 DEF Bijection, Injection, IsInjective
<1>6. \E h \in [1 .. n -> T] : IsInjective(h)
  BY <1>5
<1>7. PICK h : h = SetToSeq(T)
  OBVIOUS
<1>8. h \in [1 .. n -> T]
  BY <1>3, <1>6, <1>7 DEF SetToSeq
<1>9. h \in Seq(T) /\ Len(h) = n
  BY <1>8
<1>10. h \in Seq(Object)
  BY <1>8
<1> QED BY <1>3, <1>7, <1>9, <1>10


LEMMA EntriesType ==
  ASSUME NEW e
  PROVE  Entries(e) \in Seq(Object)
BY SequenceOfSet DEF Entries

LEMMA SyncProperties ==
  ASSUME NEW e \in Sound, NEW f, f = pcache_sync(e)
  PROVE  /\ f \in Sound
         /\ Stored(e) => Stored(f)
<1>1. PICK s : s = Entries(e)
  OBVIOUS
<1>2. s \in Seq(Object)
  BY <1>1, EntriesType
<1>3. PICK g : g = Saving(e, s)
  OBVIOUS
<1>4. /\ g[0] = e /\ \A k \in 0 .. Len(s) : g[k] \in Sound
      /\ \A k \in 1 .. Len(s) : g[k] = pcache_save(g[k - 1], s[k])
  BY <1>2, <1>3, SavingRounds
<1>5. PICK n \in Nat : n = Len(s)
  BY <1>2
<1>6. f = g[n]
  BY <1>1, <1>3, <1>5 DEF pcache_sync
<1>7. ASSUME Stored(e) PROVE Stored(f)
  <2> DEFINE P == [k \in 0 .. n |-> {h \in Sound : Stored(h)}]
  <2>1. ASSUME NEW k \in 1 .. n, g[k - 1] \in P[k - 1] PROVE g[k] \in P[k]
    <3>1. k - 1 \in 0 .. n /\ k \in 0 .. n /\ s[k] \in Object
      BY <1>2, <1>5
    <3>2. g[k - 1] \in Sound /\ Stored(g[k - 1])
      BY <2>1, <3>1
    <3>3. g[k - 1] \in States
      BY <3>2 DEF Sound
    <3>4. g[k] = pcache_save(g[k - 1], s[k]) /\ g[k] \in Sound
      BY <1>4, <1>5, <3>1
    <3>5. Stored(g[k])
      BY <3>1, <3>2, <3>3, <3>4, SaveProperties
    <3> QED BY <3>1, <3>4, <3>5
  <2>2. g[0] \in P[0]
    BY <1>4, <1>7
  <2>3. \A k \in 0 .. n : g[k] \in P[k]
    <3> HIDE DEF P
    <3> QED BY <2>1, <2>2, RoundInduction
  <2>4. n \in 0 .. n
    OBVIOUS
  <2> QED BY <1>6, <2>3, <2>4
<1>8. f \in Sound
  BY <1>4, <1>5, <1>6
<1> QED BY <1>7, <1>8

LEMMA TrimProperties ==
  ASSUME NEW e \in Sound, NEW f, f = pcache_trim(e)
  PROVE  f \in Sound
<1>1. PICK s : s = Entries(e)
  OBVIOUS
<1>2. s \in Seq(Object)
  BY <1>1, EntriesType
<1>3. PICK g : g = Trimming(e, s)
  OBVIOUS
<1>4. \A k \in 0 .. Len(s) : g[k] \in Sound
  BY <1>2, <1>3, TrimmingRounds
<1>5. f = g[Len(s)] /\ Len(s) \in 0 .. Len(s)
  BY <1>1, <1>2, <1>3 DEF pcache_trim
<1> QED BY <1>4, <1>5

-----------------------------------------------------------------------------
(* The attributes of an object are cleared (atr_free).                     *)

LEMMA ClearingRounds ==
  ASSUME NEW e \in Sound, NEW o \in Object, NEW s \in Seq(Number),
         NEW g, g = Clearing(e, o, s)
  PROVE  /\ g[0] = e /\ \A k \in 0 .. Len(s) : g[k] \in Sound
         /\ \A k \in 1 .. Len(s) : g[k] = atr_clr(g[k - 1], o, s[k])
<1>1. PICK n \in Nat : n = Len(s)
  OBVIOUS
<1> DEFINE step == [p \in (1 .. n) \X Sound |-> atr_clr(p[2], o, s[p[1]])]
           Solves(f) == f = [k \in 0 .. n |-> IF k = 0 THEN e ELSE atr_clr(f[k - 1], o, s[k])]
<1>2. ASSUME NEW k \in 1 .. n, NEW f \in Sound PROVE atr_clr(f, o, s[k]) \in Sound
  <2>1. f \in States /\ s[k] \in Number
    BY <1>1 DEF Sound
  <2>2. Kept(f, atr_clr(f, o, s[k]), o, s[k])
    BY <2>1, ClearProperties
  <2> QED BY <2>2, KeptSound
<1>3. step \in [(1 .. n) \X Sound -> Sound]
  BY <1>2
<1>4. \A k \in 1 .. n, f \in Sound : step[<<k, f>>] = atr_clr(f, o, s[k])
  OBVIOUS
<1> HIDE DEF step
<1>5. \E f : Solves(f)
  <2>0. PICK f : RoundsIn(f, e, n, step, Sound)
    <3>1. StepIn(e, n, step, Sound)
      BY <1>3 DEF StepIn
    <3> QED BY <3>1, FiniteLoop
  <2>1. f \in [0 .. n -> Sound] /\ f[0] = e /\ \A k \in 1 .. n : f[k] = step[<<k, f[k - 1]>>]
    BY <2>0 DEF RoundsIn
  <2>2. ASSUME NEW k \in 1 .. n PROVE f[k] = atr_clr(f[k - 1], o, s[k])
    <3>1. k - 1 \in 0 .. n
      OBVIOUS
    <3> QED BY <1>4, <2>1, <3>1
  <2>3. \A k \in 0 .. n : k = 0 \/ k \in 1 .. n
    OBVIOUS
  <2>4. \A k \in 0 .. n : f[k] = IF k = 0 THEN e ELSE atr_clr(f[k - 1], o, s[k])
    BY <2>1, <2>2, <2>3
  <2>5. Solves(f)
    BY <2>1, <2>4
  <2> QED BY <2>5
<1>6. Solves(g)
  <2>1. Clearing(e, o, s) = CHOOSE f : Solves(f)
    BY <1>1 DEF Clearing
  <2> HIDE DEF Solves
  <2> QED BY <1>5, <2>1
<1>7. g[0] = e
  BY <1>6
<1>8. ASSUME NEW k \in 1 .. n PROVE g[k] = atr_clr(g[k - 1], o, s[k])
  <2>1. k \in 0 .. n /\ k # 0
    OBVIOUS
  <2> QED BY <1>6, <2>1
<1>9. ASSUME NEW k \in 1 .. n, g[k - 1] \in Sound PROVE g[k] \in Sound
  BY <1>2, <1>8, <1>9
<1> DEFINE P == [k \in 0 .. n |-> Sound]
<1>10. ASSUME NEW k \in 1 .. n, g[k - 1] \in P[k - 1] PROVE g[k] \in P[k]
  <2>1. k - 1 \in 0 .. n /\ k \in 0 .. n
    OBVIOUS
  <2> QED BY <1>9, <1>10, <2>1
<1>11. g[0] \in P[0]
  BY <1>7
<1>12. \A k \in 0 .. n : g[k] \in P[k]
  <2> HIDE DEF P
  <2> QED BY <1>10, <1>11, RoundInduction
<1> QED BY <1>1, <1>7, <1>8, <1>12

(* Of the numbers that e has, and of the first k of s, none but A_MONEY is *)
(* left.                                                                   *)
ClearedTo(f, e, o, s, k) ==
  \A b \in Number \ {A_MONEY} :
    e.text[o][b] = Unset \/ (\E i \in 1 .. k : s[i] = b) => f.text[o][b] = Unset

LEMMA ClearedRound ==
  ASSUME NEW e, NEW o \in Object, NEW s \in Seq(Number), NEW k \in 1 .. Len(s),
         NEW f \in States, ClearedTo(f, e, o, s, k - 1), NEW g, g = atr_clr(f, o, s[k])
  PROVE  ClearedTo(g, e, o, s, k)
<1>1. s[k] \in Number
  OBVIOUS
<1>2. Kept(f, g, o, s[k]) /\ (s[k] # A_MONEY => g.text[o][s[k]] = Unset)
  BY <1>1, ClearProperties
<1>3. ASSUME NEW b \in Number \ {A_MONEY}, e.text[o][b] = Unset \/ \E i \in 1 .. k : s[i] = b
      PROVE  g.text[o][b] = Unset
  <2>1. CASE b = s[k]
    BY <1>2, <2>1
  <2>2. CASE b # s[k]
    <3>1. e.text[o][b] = Unset \/ \E i \in 1 .. k - 1 : s[i] = b
      <4>1. \A i \in 1 .. k : i = k \/ i \in 1 .. k - 1
        OBVIOUS
      <4> QED BY <1>3, <2>2, <4>1
    <3>2. f.text[o][b] = Unset
      BY <3>1 DEF ClearedTo
    <3> QED BY <1>2, <2>2, <3>2 DEF Kept
  <2> QED BY <2>1, <2>2
<1> QED BY <1>3 DEF ClearedTo

LEMMA FreeProperties ==
  ASSUME NEW e \in Sound, NEW o \in Object, NEW f, f = atr_free(e, o)
  PROVE  f \in Sound
<1>0. e \in States /\ Exact(e.text[o], ListOf(e, o))
  BY DEF Sound
<1>1. PICK s : s = ListOf(e, o)
  OBVIOUS
<1>2. s \in Seq(Number)
  BY <1>0, <1>1, ListType
<1>3. PICK g : g = Clearing(e, o, s)
  OBVIOUS
<1>4. /\ g[0] = e /\ \A k \in 0 .. Len(s) : g[k] \in Sound
      /\ \A k \in 1 .. Len(s) : g[k] = atr_clr(g[k - 1], o, s[k])
  BY <1>2, <1>3, ClearingRounds
<1>5. PICK n \in Nat : n = Len(s)
  BY <1>2
<1>6. PICK h : h = g[n]
  OBVIOUS
<1>7. h \in Sound /\ ClearedTo(h, e, o, s, n)
  <2> DEFINE P == [k \in 0 .. n |-> {x \in Sound : ClearedTo(x, e, o, s, k)}]
  <2>1. ASSUME NEW k \in 1 .. n, g[k - 1] \in P[k - 1] PROVE g[k] \in P[k]
    <3>1. k - 1 \in 0 .. n /\ k \in 0 .. n
      BY <1>5
    <3>2. g[k - 1] \in Sound /\ ClearedTo(g[k - 1], e, o, s, k - 1)
      BY <2>1, <3>1
    <3>3. g[k - 1] \in States
      BY <3>2 DEF Sound
    <3>4. g[k] = atr_clr(g[k - 1], o, s[k]) /\ g[k] \in Sound
      BY <1>4, <1>5, <3>1
    <3>5. ClearedTo(g[k], e, o, s, k)
      BY <1>2, <1>5, <3>2, <3>3, <3>4, ClearedRound
    <3> QED BY <3>1, <3>4, <3>5
  <2>2. g[0] \in P[0]
    <3>1. ClearedTo(e, e, o, s, 0)
      BY DEF ClearedTo
    <3> QED BY <1>4, <3>1
  <2>3. \A k \in 0 .. n : g[k] \in P[k]
    <3> HIDE DEF P
    <3> QED BY <2>1, <2>2, RoundInduction
  <2>4. n \in 0 .. n
    OBVIOUS
  <2> QED BY <1>6, <2>3, <2>4
<1>8. h.text[o] \in Attributes /\ \A b \in Number \ {A_MONEY} : h.text[o][b] = Unset
  <2>1. h.text[o] \in Attributes
    BY <1>7, StateFields DEF Sound
  <2>2. ASSUME NEW b \in Number \ {A_MONEY} PROVE h.text[o][b] = Unset
    <3>1. e.text[o][b] = Unset \/ \E i \in 1 .. n : s[i] = b
      BY <1>0, <1>1, <1>5 DEF Exact
    <3> QED BY <1>7, <3>1 DEF ClearedTo
  <2> QED BY <2>1, <2>2
<1>9. Exact(h.text[o], <<>>)
  BY <1>8 DEF Exact
<1>10. PICK x : x = IF h.mod_al_id = o THEN al_store(h) ELSE h
  OBVIOUS
<1>11. /\ x \in States /\ x.text = h.text /\ x.mod_al_id # o
       /\ \A p \in Object : ListOf(x, p) = ListOf(h, p)
  <2>1. h \in States /\ NOTHING \notin Object
    BY <1>7, ListAssumption DEF Sound
  <2>2. CASE h.mod_al_id = o
    BY <1>10, <2>1, <2>2, StoreProperties
  <2>3. CASE h.mod_al_id # o
    BY <1>10, <2>1, <2>3
  <2> QED BY <2>2, <2>3
<1>12. f = [x EXCEPT !.list[o] = <<>>]
  BY <1>1, <1>3, <1>5, <1>6, <1>10 DEF atr_free
<1>13. PICK m : m = [x.list EXCEPT ![o] = <<>>]
  OBVIOUS
<1>14. x.list \in [Object -> Seq(Number)] /\ m \in [Object -> Seq(Number)]
  <2>1. x.list \in [Object -> Seq(Number)] /\ <<>> \in Seq(Number)
    BY <1>11, StateFields
  <2> QED BY <1>13, <2>1
<1>15. /\ f \in States /\ f.text = x.text /\ f.list = m
       /\ f.mod_al_id = x.mod_al_id /\ f.mod_alist = x.mod_alist
  BY <1>11, <1>12, <1>13, <1>14 DEF States
<1>16. ASSUME NEW p \in Object PROVE Exact(f.text[p], ListOf(f, p))
  <2>1. CASE p = o
    <3>1. ListOf(f, p) = <<>>
      BY <1>11, <1>13, <1>14, <1>15, <2>1 DEF ListOf
    <3> QED BY <1>9, <1>11, <1>15, <2>1, <3>1
  <2>2. CASE p # o
    <3>1. ListOf(f, p) = ListOf(x, p)
      BY <1>13, <1>14, <1>15, <2>2 DEF ListOf
    <3>2. Exact(h.text[p], ListOf(h, p))
      BY <1>7 DEF Sound
    <3> QED BY <1>11, <1>15, <3>1, <3>2
  <2> QED BY <2>1, <2>2
<1> QED BY <1>15, <1>16 DEF Sound


-----------------------------------------------------------------------------
(* Attributes are copied (atr_cpy).                                        *)

LEMMA CopiedOneProperties ==
  ASSUME NEW e \in Sound, NEW o \in Object, NEW a \in Number, NEW v \in ValueOf(a), NEW copied
  PROVE  CopiedOne(e, o, a, v, copied) \in Sound
<1>1. PICK f : f = atr_add_raw(e, o, a, v)
  OBVIOUS
<1>2. Kept(e, f, o, a)
  BY <1>1, AddProperties DEF Sound
<1>3. f \in Sound
  BY <1>2, KeptSound
<1> QED BY <1>1, <1>3 DEF CopiedOne

LEMMA CopyingRounds ==
  ASSUME NEW e \in Sound, NEW o \in Object, NEW texts \in Attributes,
         NEW s \in Seq(Number), NEW copied,
         NEW g, g = Copying(e, o, texts, s, copied)
  PROVE  /\ g[0] = e /\ \A k \in 0 .. Len(s) : g[k] \in Sound
         /\ \A k \in 1 .. Len(s) : g[k] = CopiedOne(g[k - 1], o, s[k], texts[s[k]], copied)
<1>1. PICK n \in Nat : n = Len(s)
  OBVIOUS
<1> DEFINE step == [p \in (1 .. n) \X Sound |-> CopiedOne(p[2], o, s[p[1]], texts[s[p[1]]], copied)]
           Solves(f) == f = [k \in 0 .. n |-> IF k = 0 THEN e ELSE CopiedOne(f[k - 1], o, s[k], texts[s[k]], copied)]
<1>2. ASSUME NEW k \in 1 .. n, NEW f \in Sound PROVE CopiedOne(f, o, s[k], texts[s[k]], copied) \in Sound
  <2>1. s[k] \in Number
    BY <1>1
  <2>2. texts[s[k]] \in ValueOf(s[k])
    BY <2>1 DEF Attributes
  <2> QED BY <2>1, <2>2, CopiedOneProperties
<1>3. step \in [(1 .. n) \X Sound -> Sound]
  BY <1>2
<1>4. \A k \in 1 .. n, f \in Sound : step[<<k, f>>] = CopiedOne(f, o, s[k], texts[s[k]], copied)
  OBVIOUS
<1> HIDE DEF step
<1>5. \E f : Solves(f)
  <2>0. PICK f : RoundsIn(f, e, n, step, Sound)
    <3>1. StepIn(e, n, step, Sound)
      BY <1>3 DEF StepIn
    <3> QED BY <3>1, FiniteLoop
  <2>1. f \in [0 .. n -> Sound] /\ f[0] = e /\ \A k \in 1 .. n : f[k] = step[<<k, f[k - 1]>>]
    BY <2>0 DEF RoundsIn
  <2>2. ASSUME NEW k \in 1 .. n PROVE f[k] = CopiedOne(f[k - 1], o, s[k], texts[s[k]], copied)
    <3>1. k - 1 \in 0 .. n
      OBVIOUS
    <3> QED BY <1>4, <2>1, <3>1
  <2>3. \A k \in 0 .. n : k = 0 \/ k \in 1 .. n
    OBVIOUS
  <2>4. \A k \in 0 .. n : f[k] = IF k = 0 THEN e ELSE CopiedOne(f[k - 1], o, s[k], texts[s[k]], copied)
    BY <2>1, <2>2, <2>3
  <2>5. Solves(f)
    BY <2>1, <2>4
  <2> QED BY <2>5
<1>6. Solves(g)
  <2>1. Copying(e, o, texts, s, copied) = CHOOSE f : Solves(f)
    BY <1>1 DEF Copying
  <2> HIDE DEF Solves
  <2> QED BY <1>5, <2>1
<1>7. g[0] = e
  BY <1>6
<1>8. ASSUME NEW k \in 1 .. n PROVE g[k] = CopiedOne(g[k - 1], o, s[k], texts[s[k]], copied)
  <2>1. k \in 0 .. n /\ k # 0
    OBVIOUS
  <2> QED BY <1>6, <2>1
<1>9. ASSUME NEW k \in 1 .. n, g[k - 1] \in Sound PROVE g[k] \in Sound
  BY <1>2, <1>8, <1>9
<1> DEFINE P == [k \in 0 .. n |-> Sound]
<1>10. ASSUME NEW k \in 1 .. n, g[k - 1] \in P[k - 1] PROVE g[k] \in P[k]
  <2>1. k - 1 \in 0 .. n /\ k \in 0 .. n
    OBVIOUS
  <2> QED BY <1>9, <1>10, <2>1
<1>11. g[0] \in P[0]
  BY <1>7
<1>12. \A k \in 0 .. n : g[k] \in P[k]
  <2> HIDE DEF P
  <2> QED BY <1>10, <1>11, RoundInduction
<1> QED BY <1>1, <1>7, <1>8, <1>12

LEMMA CopyProperties ==
  ASSUME NEW e \in Sound, NEW o \in Object, NEW p \in Object, NEW copied,
         NEW f, f = atr_cpy(e, o, p, copied)
  PROVE  f \in Sound
<1>1. PICK s : s = ListOf(e, p)
  OBVIOUS
<1>2. s \in Seq(Number) /\ e.text[p] \in Attributes
  BY <1>1, ListType, StateFields DEF Sound
<1>3. PICK g : g = Copying(e, o, e.text[p], s, copied)
  OBVIOUS
<1>4. \A k \in 0 .. Len(s) : g[k] \in Sound
  BY <1>2, <1>3, CopyingRounds
<1>5. f = g[Len(s)] /\ Len(s) \in 0 .. Len(s)
  BY <1>1, <1>2, <1>3 DEF atr_cpy
<1> QED BY <1>4, <1>5

-----------------------------------------------------------------------------
(* Attributes are moved to other numbers (do_dbclean).                     *)

Renumbers(used) ==
  used \subseteq UserNumber /\ \A a \in used : Target(used, a) \in UserNumber

LEMMA PlainTextType ==
  ASSUME NEW e \in States, NEW o \in Object, NEW a \in UserNumber, NEW b \in UserNumber
  PROVE  PlainText(e, o, a) \in ValueOf(b)
<1>1. e.text[o] \in Attributes /\ a \in Number
  BY StateFields, NumberTypes
<1>2. e.text[o][a] \in Text \cup {Unset}
  BY <1>1 DEF Attributes, ValueOf
<1>3. PlainText(e, o, a) \in Text \cup {Unset}
  <2>1. CASE e.text[o][a] = Unset
    BY <2>1 DEF PlainText
  <2>2. CASE e.text[o][a] # Unset
    BY <1>2, <2>2, NamesAssumption DEF PlainText
  <2> QED BY <2>1, <2>2
<1> QED BY <1>3 DEF ValueOf

LEMMA MovedOneProperties ==
  ASSUME NEW e \in Sound, NEW o \in Object, NEW a \in UserNumber, NEW b \in UserNumber
  PROVE  MovedOne(e, o, a, b) \in Sound
<1>1. e \in States /\ a \in Number /\ b \in Number
  BY NumberTypes DEF Sound
<1>2. PICK v \in ValueOf(b) : v = PlainText(e, o, a)
  BY <1>1, PlainTextType
<1>3. PICK f : f = atr_add_raw(e, o, b, v)
  OBVIOUS
<1>4. Kept(e, f, o, b)
  BY <1>1, <1>3, AddProperties
<1>5. f \in Sound
  BY <1>4, KeptSound
<1>6. PICK g : g = atr_clr(f, o, a)
  OBVIOUS
<1>7. Kept(f, g, o, a)
  BY <1>1, <1>5, <1>6, ClearProperties DEF Sound
<1>8. g \in Sound
  BY <1>5, <1>7, KeptSound
<1> QED BY <1>2, <1>3, <1>6, <1>8 DEF MovedOne

LEMMA MovedIfHighProperties ==
  ASSUME NEW e \in Sound, NEW o \in Object, NEW a, NEW used, Renumbers(used)
  PROVE  MovedIfHigh(e, o, a, used) \in Sound
<1>1. CASE a \in used /\ Target(used, a) # a
  <2>1. a \in UserNumber
    BY <1>1 DEF Renumbers
  <2>2. Target(used, a) \in UserNumber
    BY <1>1 DEF Renumbers
  <2>3. PICK b \in UserNumber : b = Target(used, a)
    BY <2>2
  <2>4. MovedOne(e, o, a, b) \in Sound
    BY <2>1, MovedOneProperties
  <2> QED BY <1>1, <2>3, <2>4 DEF MovedIfHigh
<1>2. CASE ~(a \in used /\ Target(used, a) # a)
  BY <1>2 DEF MovedIfHigh
<1> QED BY <1>1, <1>2

LEMMA MovingRounds ==
  ASSUME NEW e \in Sound, NEW o \in Object, NEW used, Renumbers(used), NEW s \in Seq(Number),
         NEW g, g = Moving(e, o, used, s)
  PROVE  /\ g[0] = e /\ \A k \in 0 .. Len(s) : g[k] \in Sound
         /\ \A k \in 1 .. Len(s) : g[k] = MovedIfHigh(g[k - 1], o, s[k], used)
<1>1. PICK n \in Nat : n = Len(s)
  OBVIOUS
<1> DEFINE step == [p \in (1 .. n) \X Sound |-> MovedIfHigh(p[2], o, s[p[1]], used)]
           Solves(f) == f = [k \in 0 .. n |-> IF k = 0 THEN e ELSE MovedIfHigh(f[k - 1], o, s[k], used)]
<1>2. ASSUME NEW k \in 1 .. n, NEW f \in Sound PROVE MovedIfHigh(f, o, s[k], used) \in Sound
  BY <1>2, MovedIfHighProperties
<1>3. step \in [(1 .. n) \X Sound -> Sound]
  BY <1>2
<1>4. \A k \in 1 .. n, f \in Sound : step[<<k, f>>] = MovedIfHigh(f, o, s[k], used)
  OBVIOUS
<1> HIDE DEF step
<1>5. \E f : Solves(f)
  <2>0. PICK f : RoundsIn(f, e, n, step, Sound)
    <3>1. StepIn(e, n, step, Sound)
      BY <1>3 DEF StepIn
    <3> QED BY <3>1, FiniteLoop
  <2>1. f \in [0 .. n -> Sound] /\ f[0] = e /\ \A k \in 1 .. n : f[k] = step[<<k, f[k - 1]>>]
    BY <2>0 DEF RoundsIn
  <2>2. ASSUME NEW k \in 1 .. n PROVE f[k] = MovedIfHigh(f[k - 1], o, s[k], used)
    <3>1. k - 1 \in 0 .. n
      OBVIOUS
    <3> QED BY <1>4, <2>1, <3>1
  <2>3. \A k \in 0 .. n : k = 0 \/ k \in 1 .. n
    OBVIOUS
  <2>4. \A k \in 0 .. n : f[k] = IF k = 0 THEN e ELSE MovedIfHigh(f[k - 1], o, s[k], used)
    BY <2>1, <2>2, <2>3
  <2>5. Solves(f)
    BY <2>1, <2>4
  <2> QED BY <2>5
<1>6. Solves(g)
  <2>1. Moving(e, o, used, s) = CHOOSE f : Solves(f)
    BY <1>1 DEF Moving
  <2> HIDE DEF Solves
  <2> QED BY <1>5, <2>1
<1>7. g[0] = e
  BY <1>6
<1>8. ASSUME NEW k \in 1 .. n PROVE g[k] = MovedIfHigh(g[k - 1], o, s[k], used)
  <2>1. k \in 0 .. n /\ k # 0
    OBVIOUS
  <2> QED BY <1>6, <2>1
<1>9. ASSUME NEW k \in 1 .. n, g[k - 1] \in Sound PROVE g[k] \in Sound
  BY <1>2, <1>8, <1>9
<1> DEFINE P == [k \in 0 .. n |-> Sound]
<1>10. ASSUME NEW k \in 1 .. n, g[k - 1] \in P[k - 1] PROVE g[k] \in P[k]
  <2>1. k - 1 \in 0 .. n /\ k \in 0 .. n
    OBVIOUS
  <2> QED BY <1>9, <1>10, <2>1
<1>11. g[0] \in P[0]
  BY <1>7
<1>12. \A k \in 0 .. n : g[k] \in P[k]
  <2> HIDE DEF P
  <2> QED BY <1>10, <1>11, RoundInduction
<1> QED BY <1>1, <1>7, <1>8, <1>12

LEMMA MovedProperties ==
  ASSUME NEW e \in Sound, NEW o \in Object, NEW used, Renumbers(used)
  PROVE  Moved(e, o, used) \in Sound
<1>1. PICK s : s = ListOf(e, o)
  OBVIOUS
<1>2. s \in Seq(Number)
  BY <1>1, ListType DEF Sound
<1>3. PICK g : g = Moving(e, o, used, s)
  OBVIOUS
<1>4. \A k \in 0 .. Len(s) : g[k] \in Sound
  BY <1>2, <1>3, MovingRounds
<1>5. Moved(e, o, used) = g[Len(s)] /\ Len(s) \in 0 .. Len(s)
  BY <1>1, <1>2, <1>3 DEF Moved
<1> QED BY <1>4, <1>5

LEMMA MovingAllRounds ==
  ASSUME NEW e \in Sound, NEW used, Renumbers(used), NEW s \in Seq(Object),
         NEW g, g = MovingAll(e, used, s)
  PROVE  /\ g[0] = e /\ \A k \in 0 .. Len(s) : g[k] \in Sound
         /\ \A k \in 1 .. Len(s) : g[k] = Moved(g[k - 1], s[k], used)
<1>1. PICK n \in Nat : n = Len(s)
  OBVIOUS
<1> DEFINE step == [p \in (1 .. n) \X Sound |-> Moved(p[2], s[p[1]], used)]
           Solves(f) == f = [k \in 0 .. n |-> IF k = 0 THEN e ELSE Moved(f[k - 1], s[k], used)]
<1>2. ASSUME NEW k \in 1 .. n, NEW f \in Sound PROVE Moved(f, s[k], used) \in Sound
  <2>1. s[k] \in Object
    BY <1>1
  <2> QED BY <2>1, MovedProperties
<1>3. step \in [(1 .. n) \X Sound -> Sound]
  BY <1>2
<1>4. \A k \in 1 .. n, f \in Sound : step[<<k, f>>] = Moved(f, s[k], used)
  OBVIOUS
<1> HIDE DEF step
<1>5. \E f : Solves(f)
  <2>0. PICK f : RoundsIn(f, e, n, step, Sound)
    <3>1. StepIn(e, n, step, Sound)
      BY <1>3 DEF StepIn
    <3> QED BY <3>1, FiniteLoop
  <2>1. f \in [0 .. n -> Sound] /\ f[0] = e /\ \A k \in 1 .. n : f[k] = step[<<k, f[k - 1]>>]
    BY <2>0 DEF RoundsIn
  <2>2. ASSUME NEW k \in 1 .. n PROVE f[k] = Moved(f[k - 1], s[k], used)
    <3>1. k - 1 \in 0 .. n
      OBVIOUS
    <3> QED BY <1>4, <2>1, <3>1
  <2>3. \A k \in 0 .. n : k = 0 \/ k \in 1 .. n
    OBVIOUS
  <2>4. \A k \in 0 .. n : f[k] = IF k = 0 THEN e ELSE Moved(f[k - 1], s[k], used)
    BY <2>1, <2>2, <2>3
  <2>5. Solves(f)
    BY <2>1, <2>4
  <2> QED BY <2>5
<1>6. Solves(g)
  <2>1. MovingAll(e, used, s) = CHOOSE f : Solves(f)
    BY <1>1 DEF MovingAll
  <2> HIDE DEF Solves
  <2> QED BY <1>5, <2>1
<1>7. g[0] = e
  BY <1>6
<1>8. ASSUME NEW k \in 1 .. n PROVE g[k] = Moved(g[k - 1], s[k], used)
  <2>1. k \in 0 .. n /\ k # 0
    OBVIOUS
  <2> QED BY <1>6, <2>1
<1>9. ASSUME NEW k \in 1 .. n, g[k - 1] \in Sound PROVE g[k] \in Sound
  BY <1>2, <1>8, <1>9
<1> DEFINE P == [k \in 0 .. n |-> Sound]
<1>10. ASSUME NEW k \in 1 .. n, g[k - 1] \in P[k - 1] PROVE g[k] \in P[k]
  <2>1. k - 1 \in 0 .. n /\ k \in 0 .. n
    OBVIOUS
  <2> QED BY <1>9, <1>10, <2>1
<1>11. g[0] \in P[0]
  BY <1>7
<1>12. \A k \in 0 .. n : g[k] \in P[k]
  <2> HIDE DEF P
  <2> QED BY <1>10, <1>11, RoundInduction
<1> QED BY <1>1, <1>7, <1>8, <1>12


-----------------------------------------------------------------------------
(* The new numbers (Target): each is found, and no two are the same.       *)

Rank(T, b) == Cardinality({c \in T : c < b})

LEMMA RankType ==
  ASSUME NEW T, T \subseteq Nat, IsFiniteSet(T), NEW b \in T
  PROVE  Rank(T, b) \in 0 .. Cardinality(T) - 1
<1>1. PICK U : U = {c \in T : c < b}
  OBVIOUS
<1>2. U \subseteq T \ {b}
  BY <1>1
<1>3. IsFiniteSet(T \ {b}) /\ Cardinality(T \ {b}) = Cardinality(T) - 1
  BY FS_RemoveElement
<1>4. IsFiniteSet(U) /\ Cardinality(U) <= Cardinality(T \ {b})
  BY <1>2, <1>3, FS_Subset
<1>5. Cardinality(U) \in Nat /\ Cardinality(T) \in Nat
  BY <1>4, FS_CardinalityType
<1>6. Rank(T, b) = Cardinality(U)
  BY <1>1 DEF Rank
<1> QED BY <1>3, <1>4, <1>5, <1>6

LEMMA RankGrows ==
  ASSUME NEW T, T \subseteq Nat, IsFiniteSet(T), NEW b \in T, NEW c \in T, b < c
  PROVE  Rank(T, b) < Rank(T, c)
<1>1. PICK U : U = {x \in T : x < b}
  OBVIOUS
<1>2. PICK V : V = {x \in T : x < c}
  OBVIOUS
<1>3. U \cup {b} \subseteq V /\ b \notin U
  <2>1. \A x \in T : x \in Nat
    OBVIOUS
  <2>2. b \in V /\ b \notin U
    BY <1>1, <1>2, <2>1
  <2>3. \A x \in T : x < b => x < c
    BY <2>1
  <2>4. U \subseteq V
    BY <1>1, <1>2, <2>3
  <2> QED BY <2>2, <2>4
<1>4. IsFiniteSet(U) /\ IsFiniteSet(V)
  <2>1. U \subseteq T /\ V \subseteq T
    BY <1>1, <1>2
  <2> QED BY <2>1, FS_Subset
<1>5. Cardinality(U \cup {b}) = Cardinality(U) + 1
  BY <1>3, <1>4, FS_AddElement
<1>6. Cardinality(U \cup {b}) <= Cardinality(V)
  BY <1>3, <1>4, FS_Subset
<1>7. Cardinality(U) \in Nat /\ Cardinality(V) \in Nat
  BY <1>4, FS_CardinalityType
<1>8. Rank(T, b) = Cardinality(U) /\ Rank(T, c) = Cardinality(V)
  BY <1>1, <1>2 DEF Rank
<1> QED BY <1>5, <1>6, <1>7, <1>8

(* A finite set has a member of every rank.                                *)
LEMMA RankFound ==
  ASSUME NEW T, T \subseteq Nat, IsFiniteSet(T), NEW j \in Nat, j < Cardinality(T)
  PROVE  \E b \in T : Rank(T, b) = j
<1>1. PICK n \in Nat : n = Cardinality(T)
  BY FS_CardinalityType
<1> DEFINE r == [b \in T |-> Rank(T, b)]
<1>2. r \in [T -> 0 .. n - 1]
  BY <1>1, RankType
<1>3. ASSUME NEW b \in T, NEW c \in T, r[b] = r[c] PROVE b = c
  <2>1. Rank(T, b) = Rank(T, c)
    BY <1>3
  <2>2. Rank(T, b) \in 0 .. n - 1
    BY <1>1, RankType
  <2>3. ~(b < c)
    <3> SUFFICES ASSUME b < c PROVE FALSE
      OBVIOUS
    <3>1. Rank(T, b) < Rank(T, c)
      BY RankGrows
    <3> QED BY <2>1, <2>2, <3>1
  <2>4. ~(c < b)
    <3> SUFFICES ASSUME c < b PROVE FALSE
      OBVIOUS
    <3>1. Rank(T, c) < Rank(T, b)
      BY RankGrows
    <3> QED BY <2>1, <2>2, <3>1
  <2>5. b \in Nat /\ c \in Nat
    OBVIOUS
  <2> QED BY <2>3, <2>4, <2>5
<1>4. DOMAIN r = T
  OBVIOUS
<1>5. \A b \in T : r[b] = Rank(T, b)
  OBVIOUS
<1> HIDE DEF r
<1>6. r \in Injection(T, 0 .. n - 1)
  BY <1>2, <1>3, <1>4 DEF Injection, IsInjective
<1>7. IsFiniteSet(0 .. n - 1) /\ Cardinality(0 .. n - 1) = n
  BY FS_Interval
<1>8. r \in Surjection(T, 0 .. n - 1)
  BY <1>1, <1>6, <1>7, FS_Injection
<1>9. j \in 0 .. n - 1
  BY <1>1
<1>10. \A i \in 0 .. n - 1 : \E b \in T : r[b] = i
  BY <1>8 DEF Surjection
<1> QED BY <1>5, <1>9, <1>10

(* The free numbers that @dbclean gives away, and the numbers above a.     *)
Low(used) == (A_USER_START .. RenumberFrom(used) - 1) \ used
Above(used, a) == {b \in used : b > a}

LEMMA UsedFinite ==
  ASSUME NEW used, used \subseteq UserNumber
  PROVE  /\ used \subseteq Nat /\ IsFiniteSet(used) /\ Cardinality(used) \in Nat
         /\ RenumberFrom(used) \in Nat /\ RenumberFrom(used) = A_USER_START + Cardinality(used) + 1
<1>1. A_USER_START \in Nat /\ MaxNumber \in Nat
  BY NamesAssumption
<1>2. used \subseteq Nat
  BY <1>1 DEF UserNumber
<1>3. IsFiniteSet(UserNumber)
  BY <1>1, FS_Interval DEF UserNumber
<1>4. IsFiniteSet(used) /\ Cardinality(used) \in Nat
  BY <1>3, FS_Subset, FS_CardinalityType
<1> QED BY <1>1, <1>2, <1>4 DEF RenumberFrom

(* There are more of the former than of the latter, if a must move.        *)
LEMMA EnoughLow ==
  ASSUME NEW used, used \subseteq UserNumber, NEW a \in used, a >= RenumberFrom(used)
  PROVE  /\ Low(used) \subseteq Nat /\ IsFiniteSet(Low(used))
         /\ IsFiniteSet(Above(used, a)) /\ Cardinality(Above(used, a)) \in Nat
         /\ Cardinality(Above(used, a)) < Cardinality(Low(used))
<1>1. /\ used \subseteq Nat /\ IsFiniteSet(used) /\ Cardinality(used) \in Nat
      /\ RenumberFrom(used) = A_USER_START + Cardinality(used) + 1 /\ A_USER_START \in Nat
  BY UsedFinite, NamesAssumption
<1>2. PICK n \in Nat : n = Cardinality(used)
  BY <1>1
<1>3. PICK I : I = A_USER_START .. A_USER_START + n
  OBVIOUS
<1>4. IsFiniteSet(I) /\ Cardinality(I) = n + 1 /\ I \subseteq Nat
  BY <1>1, <1>3, FS_Interval
<1>5. Low(used) = I \ used
  <2>1. RenumberFrom(used) - 1 = A_USER_START + n
    BY <1>1, <1>2
  <2> QED BY <1>3, <2>1 DEF Low
<1>6. PICK both : both = I \cap used
  OBVIOUS
<1>7. IsFiniteSet(I \ used) /\ Cardinality(I \ used) = (n + 1) - Cardinality(both)
  BY <1>4, <1>6, FS_Difference
<1>8. IsFiniteSet(used \ I) /\ Cardinality(used \ I) = n - Cardinality(both)
  <2>1. used \cap I = both
    BY <1>6
  <2> QED BY <1>1, <1>2, <2>1, FS_Difference
<1>9. PICK higher : higher = (used \ I) \ {a}
  OBVIOUS
<1>10. a \in used \ I
  BY <1>1, <1>2, <1>3
<1>11. IsFiniteSet(higher) /\ Cardinality(higher) = Cardinality(used \ I) - 1
  BY <1>8, <1>9, <1>10, FS_RemoveElement
<1>12. Above(used, a) \subseteq higher
  <2>1. a \in Nat /\ a > A_USER_START + n
    BY <1>1, <1>2
  <2> QED BY <1>1, <1>2, <1>3, <1>9, <2>1 DEF Above
<1>13. IsFiniteSet(Above(used, a)) /\ Cardinality(Above(used, a)) <= Cardinality(higher)
  BY <1>11, <1>12, FS_Subset
<1>14. IsFiniteSet(both)
  BY <1>1, <1>6, FS_Subset
<1>15. Cardinality(both) \in Nat /\ Cardinality(Above(used, a)) \in Nat
  BY <1>13, <1>14, FS_CardinalityType
<1>16. (I \ used) \subseteq Nat
  BY <1>4
<1> QED BY <1>5, <1>7, <1>8, <1>11, <1>13, <1>15, <1>16

LEMMA TargetKept ==
  ASSUME NEW used, NEW a, a < RenumberFrom(used)
  PROVE  Target(used, a) = a
BY DEF Target

LEMMA TargetFound ==
  ASSUME NEW used, used \subseteq UserNumber, NEW a \in used, a >= RenumberFrom(used)
  PROVE  /\ Target(used, a) \in Low(used)
         /\ Rank(Low(used), Target(used, a)) = Cardinality(Above(used, a))
<1>1. PICK j \in Nat : j = Cardinality(Above(used, a))
  BY EnoughLow
<1>2. PICK low : low = Low(used)
  OBVIOUS
<1>3. \E b \in low : Rank(low, b) = j
  BY <1>1, <1>2, EnoughLow, RankFound
<1>4. ~(a < RenumberFrom(used))
  BY UsedFinite
<1>5. Target(used, a) = CHOOSE b \in low : Rank(low, b) = j
  BY <1>1, <1>2, <1>4 DEF Target, Low, Above, Rank
<1> QED BY <1>1, <1>2, <1>3, <1>5

LEMMA AboveShrinks ==
  ASSUME NEW used, used \subseteq UserNumber, NEW a \in used, NEW b \in used, a < b
  PROVE  Cardinality(Above(used, a)) # Cardinality(Above(used, b))
<1>1. used \subseteq Nat /\ IsFiniteSet(used)
  BY UsedFinite
<1>2. PICK U : U = Above(used, b)
  OBVIOUS
<1>3. PICK V : V = Above(used, a)
  OBVIOUS
<1>4. U \cup {b} \subseteq V /\ b \notin U /\ U \subseteq used /\ V \subseteq used
  <2>1. \A x \in used : x \in Nat
    BY <1>1
  <2>2. b \in V /\ b \notin U
    BY <1>2, <1>3, <2>1 DEF Above
  <2>3. \A x \in used : x > b => x > a
    BY <2>1
  <2>4. U \subseteq V
    BY <1>2, <1>3, <2>3 DEF Above
  <2>5. U \subseteq used /\ V \subseteq used
    BY <1>2, <1>3 DEF Above
  <2> QED BY <2>2, <2>4, <2>5
<1>5. IsFiniteSet(U) /\ IsFiniteSet(V)
  BY <1>1, <1>4, FS_Subset
<1>6. Cardinality(U \cup {b}) = Cardinality(U) + 1
  BY <1>4, <1>5, FS_AddElement
<1>7. Cardinality(U \cup {b}) <= Cardinality(V)
  BY <1>4, <1>5, FS_Subset
<1>8. Cardinality(U) \in Nat /\ Cardinality(V) \in Nat
  BY <1>5, FS_CardinalityType
<1> QED BY <1>2, <1>3, <1>6, <1>7, <1>8

(* What @dbclean relies on: the numbers in use are given away one to one,  *)
(* all of them are below RenumberFrom, and those that move were not.       *)
LEMMA TargetProperties ==
  ASSUME NEW used, used \subseteq UserNumber
  PROVE  /\ Renumbers(used)
         /\ \A a, b \in used : Target(used, a) = Target(used, b) => a = b
         /\ \A a \in used : /\ Target(used, a) < RenumberFrom(used)
                            /\ Target(used, a) # a <=> a >= RenumberFrom(used)
<1>1. used \subseteq Nat /\ RenumberFrom(used) \in Nat /\ A_USER_START \in Nat /\ MaxNumber \in Nat
  BY UsedFinite, NamesAssumption
<1>2. PICK from \in Nat : from = RenumberFrom(used)
  BY <1>1
<1>3. ASSUME NEW a \in used, a < from PROVE Target(used, a) = a
  BY <1>2, <1>3, TargetKept
<1>4. ASSUME NEW a \in used, a >= from
      PROVE  /\ Target(used, a) \in Low(used)
             /\ Rank(Low(used), Target(used, a)) = Cardinality(Above(used, a))
  BY <1>2, <1>4, TargetFound
<1>5. Low(used) \subseteq A_USER_START .. from - 1 /\ \A b \in Low(used) : b \notin used
  BY <1>2 DEF Low
<1>6. ASSUME NEW a \in used
      PROVE  /\ Target(used, a) \in UserNumber /\ Target(used, a) < from
             /\ Target(used, a) # a <=> a >= from
             /\ Target(used, a) \in used <=> a < from
  <2>1. a \in Nat /\ a \in UserNumber /\ a <= MaxNumber
    BY <1>1 DEF UserNumber
  <2>2. CASE a < from
    BY <1>3, <2>1, <2>2
  <2>3. CASE a >= from
    <3>1. Target(used, a) \in A_USER_START .. from - 1 /\ Target(used, a) \notin used
      BY <1>4, <1>5, <2>3
    <3> QED BY <1>1, <2>1, <2>3, <3>1 DEF UserNumber
  <2> QED BY <2>1, <2>2, <2>3
<1>7. ASSUME NEW a \in used, NEW b \in used, Target(used, a) = Target(used, b) PROVE a = b
  <2>1. a \in Nat /\ b \in Nat
    BY <1>1
  <2>2. a < from <=> b < from
    BY <1>6, <1>7
  <2>3. CASE a < from
    BY <1>3, <1>7, <2>2, <2>3
  <2>4. CASE a >= from
    <3>1. Cardinality(Above(used, a)) = Cardinality(Above(used, b))
      BY <1>4, <1>7, <2>1, <2>2, <2>4
    <3>2. ~(a < b) /\ ~(b < a)
      BY <3>1, AboveShrinks
    <3> QED BY <2>1, <3>2
  <2> QED BY <2>1, <2>3, <2>4
<1>8. Renumbers(used)
  BY <1>6 DEF Renumbers
<1> QED BY <1>2, <1>6, <1>7, <1>8


-----------------------------------------------------------------------------
(* The inductive invariant: the lists of all objects are exact, whichever  *)
(* of them is in memory, and the two tables of names agree, which needs    *)
(* their types.                                                            *)

GivenName == Name \cup {Dangling(a) : a \in UserNumber}

Tables ==
  /\ anum_table \in [UserNumber -> GivenName \cup {NOTHING}]
  /\ htab \subseteq GivenName \X UserNumber
  /\ attr_next \in Nat
  /\ NamesAgree

Told ==
  /\ wrote \in [Object -> [Name -> Text \cup {Unset}]]
  /\ purse \in [Object -> [money : Nat, queue : Int]]
  /\ haunted \subseteq Name \cup Object

NamesInv == d \in Sound /\ Tables /\ Told

LEMMA GivenNames ==
  /\ NOTHING \notin Name /\ Name \subseteq GivenName
  /\ \A a \in UserNumber : Dangling(a) \in GivenName /\ Dangling(a) \notin Name
BY NamesAssumption, DanglingAssumption DEF GivenName

LEMMA NumberOfProperties ==
  ASSUME Tables, NEW n \in Named
  PROVE  /\ n \in Name /\ NumberOf(n) \in UserNumber
         /\ <<n, NumberOf(n)>> \in htab /\ anum_table[NumberOf(n)] = n
<1>1. n \in Name /\ \E p \in htab : p[1] = n
  BY DEF Named
<1>2. PICK p \in htab : p[1] = n
  BY <1>1
<1>3. PICK b \in UserNumber : p = <<n, b>>
  BY <1>2 DEF Tables
<1>4. \E a \in UserNumber : <<n, a>> \in htab
  BY <1>2, <1>3
<1>5. NumberOf(n) \in UserNumber /\ <<n, NumberOf(n)>> \in htab
  BY <1>4 DEF NumberOf
<1>6. \A q \in htab : q[1] \in Name => anum_table[q[2]] = q[1]
  BY DEF Tables, NamesAgree
<1> QED BY <1>1, <1>5, <1>6

-----------------------------------------------------------------------------
(* The tables of names.                                                    *)

LEMMA SetTables ==
  ASSUME Tables, NEW o \in Object, NEW n \in Name, NEW t \in Text, set(o, n, t)
  PROVE  Tables'
<1>1. CASE n \in Named
  BY <1>1 DEF set, KeepNames, Tables, NamesAgree
<1>2. CASE n \notin Named
  <2>1. PICK a \in UserNumber : a = attr_next
    BY <1>2 DEF set
  <2>2. /\ attr_next' = a + 1 /\ htab' = htab \cup {<<n, a>>}
        /\ anum_table' = [anum_table EXCEPT ![a] = n]
    BY <1>2, <2>1 DEF set
  <2>3. a \in Nat /\ \A b \in UserNumber : b \in Nat
    BY <2>1, NumberTypes
  <2>4. anum_table \in [UserNumber -> GivenName \cup {NOTHING}] /\ htab \subseteq GivenName \X UserNumber
    BY DEF Tables
  <2>5. /\ anum_table' \in [UserNumber -> GivenName \cup {NOTHING}]
        /\ anum_table'[a] = n /\ \A b \in UserNumber : b # a => anum_table'[b] = anum_table[b]
    BY <2>2, <2>4, GivenNames
  <2>6. htab' \subseteq GivenName \X UserNumber
    BY <2>1, <2>2, <2>4, GivenNames
  <2>7. ASSUME NEW b \in UserNumber, anum_table'[b] \in Name
        PROVE  <<anum_table'[b], b>> \in htab' /\ b < attr_next'
    <3>1. CASE b = a
      BY <2>2, <2>3, <2>5, <3>1
    <3>2. CASE b # a
      <4>1. <<anum_table[b], b>> \in htab /\ b < attr_next
        BY <2>5, <2>7, <3>2 DEF Tables, NamesAgree
      <4> QED BY <2>1, <2>2, <2>3, <2>5, <3>2, <4>1
    <3> QED BY <3>1, <3>2
  <2>8. ASSUME NEW p \in htab', p[1] \in Name PROVE anum_table'[p[2]] = p[1]
    <3>1. CASE p \in htab
      <4>1. anum_table[p[2]] = p[1] /\ p[2] \in UserNumber
        BY <2>4, <2>8, <3>1 DEF Tables, NamesAgree
      <4>2. p[2] < attr_next
        BY <2>8, <4>1 DEF Tables, NamesAgree
      <4>3. p[2] # a
        BY <2>1, <2>3, <4>1, <4>2
      <4> QED BY <2>5, <4>1, <4>3
    <3>2. CASE p = <<n, a>>
      BY <2>5, <3>2
    <3> QED BY <2>2, <2>8, <3>1, <3>2
  <2> QED BY <2>1, <2>2, <2>3, <2>5, <2>6, <2>7, <2>8 DEF Tables, NamesAgree
<1> QED BY <1>1, <1>2

LEMMA RenameTables ==
  ASSUME Tables, NEW n \in Name, NEW m \in Name, attribute_rename(n, m)
  PROVE  Tables'
<1>1. n \in Named /\ m \notin Named
  BY DEF attribute_rename
<1>2. PICK a \in UserNumber : a = NumberOf(n) /\ <<n, a>> \in htab /\ anum_table[a] = n
  BY <1>1, NumberOfProperties
<1>3. /\ attr_next' = attr_next /\ htab' = (htab \ {<<n, a>>}) \cup {<<m, a>>}
      /\ anum_table' = [anum_table EXCEPT ![a] = m]
  BY <1>2 DEF attribute_rename
<1>4. anum_table \in [UserNumber -> GivenName \cup {NOTHING}] /\ htab \subseteq GivenName \X UserNumber
  BY DEF Tables
<1>5. /\ anum_table' \in [UserNumber -> GivenName \cup {NOTHING}]
      /\ anum_table'[a] = m /\ \A b \in UserNumber : b # a => anum_table'[b] = anum_table[b]
  BY <1>2, <1>3, <1>4, GivenNames
<1>6. htab' \subseteq GivenName \X UserNumber
  BY <1>2, <1>3, <1>4, GivenNames
<1>7. ASSUME NEW b \in UserNumber, anum_table'[b] \in Name
      PROVE  <<anum_table'[b], b>> \in htab' /\ b < attr_next'
  <2>1. CASE b = a
    <3>1. a < attr_next
      BY <1>2 DEF Tables, NamesAgree
    <3> QED BY <1>3, <1>5, <2>1, <3>1
  <2>2. CASE b # a
    <3>1. <<anum_table[b], b>> \in htab /\ b < attr_next
      BY <1>5, <1>7, <2>2 DEF Tables, NamesAgree
    <3>2. <<anum_table[b], b>> # <<n, a>>
      BY <2>2
    <3> QED BY <1>3, <1>5, <2>2, <3>1, <3>2
  <2> QED BY <2>1, <2>2
<1>8. ASSUME NEW p \in htab', p[1] \in Name PROVE anum_table'[p[2]] = p[1]
  <2>1. CASE p \in htab /\ p # <<n, a>>
    <3>1. p = <<p[1], p[2]>> /\ p[2] \in UserNumber
      BY <1>4, <2>1
    <3>2. anum_table[p[2]] = p[1]
      BY <1>8, <2>1 DEF Tables, NamesAgree
    <3>3. p[2] # a
      BY <1>2, <2>1, <3>1, <3>2
    <3> QED BY <1>5, <3>1, <3>2, <3>3
  <2>2. CASE p = <<m, a>>
    BY <1>5, <2>2
  <2> QED BY <1>3, <1>8, <2>1, <2>2
<1> QED BY <1>3, <1>5, <1>6, <1>7, <1>8 DEF Tables, NamesAgree

LEMMA DeleteTables ==
  ASSUME Tables, NEW n \in Name, attribute_delete(n)
  PROVE  Tables'
<1>1. n \in Named
  BY DEF attribute_delete
<1>2. PICK a \in UserNumber : a = NumberOf(n) /\ <<n, a>> \in htab /\ anum_table[a] = n
  BY <1>1, NumberOfProperties
<1>3. /\ attr_next' = attr_next /\ htab' = htab \ {<<n, a>>}
      /\ anum_table' = [anum_table EXCEPT ![a] = NOTHING]
  BY <1>2 DEF attribute_delete
<1>4. anum_table \in [UserNumber -> GivenName \cup {NOTHING}] /\ htab \subseteq GivenName \X UserNumber
  BY DEF Tables
<1>5. /\ anum_table' \in [UserNumber -> GivenName \cup {NOTHING}]
      /\ anum_table'[a] = NOTHING /\ \A b \in UserNumber : b # a => anum_table'[b] = anum_table[b]
  BY <1>2, <1>3, <1>4
<1>6. ASSUME NEW b \in UserNumber, anum_table'[b] \in Name
      PROVE  <<anum_table'[b], b>> \in htab' /\ b < attr_next'
  <2>1. b # a
    BY <1>5, <1>6, GivenNames
  <2>2. <<anum_table[b], b>> \in htab /\ b < attr_next
    BY <1>5, <1>6, <2>1 DEF Tables, NamesAgree
  <2>3. <<anum_table[b], b>> # <<n, a>>
    BY <2>1
  <2> QED BY <1>3, <1>5, <2>1, <2>2, <2>3
<1>7. ASSUME NEW p \in htab', p[1] \in Name PROVE anum_table'[p[2]] = p[1]
  <2>1. p \in htab /\ p # <<n, a>> /\ p = <<p[1], p[2]>> /\ p[2] \in UserNumber
    BY <1>3, <1>4, <1>7
  <2>2. anum_table[p[2]] = p[1]
    BY <1>7, <2>1 DEF Tables, NamesAgree
  <2>3. p[2] # a
    BY <1>2, <2>1, <2>2
  <2> QED BY <1>5, <2>1, <2>2, <2>3
<1> QED BY <1>3, <1>4, <1>5, <1>6, <1>7 DEF Tables, NamesAgree

(* A set of naturals with a bound has a greatest member.                   *)
LEMMA GreatestNat ==
  ASSUME NEW K \in Nat, NEW T, T \subseteq 0 .. K, T # {}
  PROVE  Max(T) \in T /\ \A y \in T : y <= Max(T)
<1> DEFINE U == {x \in 0 .. K : K - x \in T}
<1>1. U \subseteq Nat /\ U # {}
  <2>1. PICK y \in T : TRUE
    OBVIOUS
  <2>2. K - y \in 0 .. K /\ K - (K - y) = y
    OBVIOUS
  <2>3. K - y \in U
    BY <2>2
  <2>4. U \subseteq Nat
    OBVIOUS
  <2> HIDE DEF U
  <2> QED BY <2>3, <2>4
<1>2. PICK x \in U : \A y \in U : x <= y
  <2> HIDE DEF U
  <2> QED BY <1>1, LeastNat
<1>3. PICK top \in T : top = K - x
  BY <1>2
<1>4. ASSUME NEW y \in T PROVE top >= y
  <2>1. K - y \in 0 .. K /\ K - (K - y) = y
    OBVIOUS
  <2>2. K - y \in U
    BY <2>1
  <2>3. x <= K - y
    BY <1>2, <2>2
  <2> QED BY <1>2, <1>3, <2>1, <2>3
<1>5. \E z \in T : \A y \in T : z >= y
  BY <1>4
<1>6. Max(T) \in T /\ \A y \in T : Max(T) >= y
  BY <1>5 DEF Max
<1>7. \A y \in T : y \in Nat
  OBVIOUS
<1> QED BY <1>6, <1>7

LEMMA RestartTables ==
  ASSUME Tables, do_restart
  PROVE  Tables'
<1>1. PICK T : T = {A_USER_START} \cup {p[2] : p \in htab}
  OBVIOUS
<1>2. PICK K \in Nat : K = A_USER_START + MaxNumber
  BY NamesAssumption
<1>3. T \subseteq 0 .. K /\ T # {} /\ \A p \in htab : p[2] \in T
  <2>1. A_USER_START \in 0 .. K
    BY <1>2, NamesAssumption
  <2>2. UserNumber \subseteq 0 .. K
    BY <1>2, NamesAssumption DEF UserNumber
  <2>3. \A p \in htab : p[2] \in UserNumber
    BY DEF Tables
  <2> QED BY <1>1, <2>1, <2>2, <2>3
<1>4. PICK top \in Nat : top = Max(T) /\ \A y \in T : y <= top
  <2>1. Max(T) \in T /\ \A y \in T : y <= Max(T)
    BY <1>3, GreatestNat
  <2>2. PICK k \in T : k = Max(T)
    BY <2>1
  <2>3. k \in Nat
    BY <1>2, <1>3
  <2> QED BY <2>1, <2>2, <2>3
<1>5. PICK next : next = IF htab # {} /\ attr_next <= top THEN top + 1 ELSE attr_next
  OBVIOUS
<1>6. /\ attr_next' = IF top + 1 < next THEN top + 1 ELSE next
      /\ anum_table' = anum_table /\ htab' = htab
  BY <1>1, <1>4, <1>5 DEF do_restart
<1>7. attr_next \in Nat
  BY DEF Tables
<1>8. attr_next' \in Nat
  BY <1>5, <1>6, <1>7
<1>9. ASSUME NEW a \in UserNumber, anum_table[a] \in Name
      PROVE  <<anum_table[a], a>> \in htab /\ a < attr_next'
  <2>1. <<anum_table[a], a>> \in htab /\ a < attr_next
    BY <1>9 DEF Tables, NamesAgree
  <2>2. a \in T
    BY <1>3, <2>1
  <2>3. a <= top /\ a \in Nat
    BY <1>3, <1>4, <2>2
  <2> QED BY <1>5, <1>6, <1>7, <2>1, <2>3
<1> QED BY <1>6, <1>8, <1>9 DEF Tables, NamesAgree


-----------------------------------------------------------------------------
(* The tables after @dbclean, from the names and numbers that are kept.    *)

CleanNamed(e) == [a \in UserNumber |-> IF a \in Dangled(e) THEN Dangling(a) ELSE anum_table[a]]
CleanUsed(e) == {a \in UserNumber : CleanNamed(e)[a] # NOTHING /\ InUse(e, a)}
CleanDefined(e) == htab \cup {<<Dangling(a), a>> : a \in Dangled(e)}
High(used) == {a \in used : Target(used, a) # a}

CleanedHtab(named, used, defined) ==
  (defined \ {<<named[a], a>> : a \in UserNumber}) \cup {<<named[a], Target(used, a)>> : a \in used}

(* The names that are moved to a number under which something is left.     *)
CleanedOnto(e, named, used) ==
  {n \in Name : \E a \in High(used), o \in Object : named[a] = n /\ e.text[o][Target(used, a)] # Unset}

CleanedNames(named, used) ==
  [b \in UserNumber |-> IF \E a \in used : Target(used, a) = b
                        THEN named[CHOOSE a \in used : Target(used, a) = b] ELSE NOTHING]

LEMMA CleanedSteps ==
  ASSUME do_dbclean, NEW e, e = pcache_sync(al_store(d))
  PROVE  /\ htab' = CleanedHtab(CleanNamed(e), CleanUsed(e), CleanDefined(e))
         /\ anum_table' = CleanedNames(CleanNamed(e), CleanUsed(e))
         /\ attr_next' = IF High(CleanUsed(e)) = {} THEN attr_next
                         ELSE NextFree(CleanUsed(e), High(CleanUsed(e)))
         /\ d' = MovingAll(e, CleanUsed(e), SetToSeq(Object))[Cardinality(Object)]
         /\ haunted' = haunted \cup CleanedOnto(e, CleanNamed(e), CleanUsed(e))
         /\ UNCHANGED <<wrote, purse>>
<1>1. CleanUsed(e) = {a \in UserNumber : CleanNamed(e)[a] # NOTHING /\ InUse(e, a)}
  BY DEF CleanUsed
<1> QED
  BY DEF do_dbclean, CleanNamed, CleanUsed, CleanDefined, High, CleanedHtab, CleanedNames, CleanedOnto

LEMMA CleanNames ==
  ASSUME Tables, NEW e
  PROVE  /\ CleanNamed(e) \in [UserNumber -> GivenName \cup {NOTHING}]
         /\ \A a \in UserNumber : CleanNamed(e)[a] \in Name => CleanNamed(e)[a] = anum_table[a]
         /\ \A a \in UserNumber : anum_table[a] \in Name => CleanNamed(e)[a] = anum_table[a]
<1>1. ASSUME NEW a \in UserNumber
      PROVE  /\ (IF a \in Dangled(e) THEN Dangling(a) ELSE anum_table[a]) \in GivenName \cup {NOTHING}
             /\ CleanNamed(e)[a] = IF a \in Dangled(e) THEN Dangling(a) ELSE anum_table[a]
  BY GivenNames DEF Tables, CleanNamed
<1>2. \A a \in UserNumber : a \in Dangled(e) => anum_table[a] = NOTHING
  BY DEF Dangled
<1>3. CleanNamed(e) \in [UserNumber -> GivenName \cup {NOTHING}]
  BY <1>1 DEF CleanNamed
<1> QED BY <1>1, <1>2, <1>3, GivenNames

LEMMA CleanedNamesAt ==
  ASSUME NEW named, NEW used, used \subseteq UserNumber, NEW a \in used
  PROVE  CleanedNames(named, used)[Target(used, a)] = named[a]
<1>1. Target(used, a) \in UserNumber
  BY TargetProperties DEF Renumbers
<1>2. PICK b \in UserNumber : b = Target(used, a)
  BY <1>1
<1>3. \E c \in used : Target(used, c) = b
  BY <1>2
<1>4. PICK c : c = CHOOSE x \in used : Target(used, x) = b
  OBVIOUS
<1>5. c \in used /\ Target(used, c) = b
  BY <1>3, <1>4
<1>6. \A x, y \in used : Target(used, x) = Target(used, y) => x = y
  BY TargetProperties
<1>7. c = a
  BY <1>2, <1>5, <1>6
<1>8. CleanedNames(named, used)[b] = named[CHOOSE x \in used : Target(used, x) = b]
  BY <1>3 DEF CleanedNames
<1> QED BY <1>2, <1>4, <1>7, <1>8

LEMMA CleanedNamesElse ==
  ASSUME NEW named, NEW used, NEW b \in UserNumber, ~\E a \in used : Target(used, a) = b
  PROVE  CleanedNames(named, used)[b] = NOTHING
BY DEF CleanedNames

LEMMA DbcleanTables ==
  ASSUME Tables, do_dbclean
  PROVE  Tables'
<1>1. PICK e : e = pcache_sync(al_store(d))
  OBVIOUS
<1>2. PICK named : named = CleanNamed(e)
  OBVIOUS
<1>3. PICK used : used = CleanUsed(e)
  OBVIOUS
<1>4. PICK defined : defined = CleanDefined(e)
  OBVIOUS
<1>5. /\ htab' = CleanedHtab(named, used, defined)
      /\ anum_table' = CleanedNames(named, used)
      /\ attr_next' = IF High(used) = {} THEN attr_next ELSE NextFree(used, High(used))
  BY <1>1, <1>2, <1>3, <1>4, CleanedSteps
<1>6. /\ named \in [UserNumber -> GivenName \cup {NOTHING}]
      /\ \A a \in UserNumber : named[a] \in Name => named[a] = anum_table[a]
      /\ \A a \in UserNumber : anum_table[a] \in Name => named[a] = anum_table[a]
  BY <1>2, CleanNames
<1>7. used \subseteq UserNumber /\ \A a \in used : named[a] # NOTHING
  BY <1>2, <1>3 DEF CleanUsed
<1>8. \A a \in used : named[a] \in GivenName
  BY <1>6, <1>7
<1>9. \A a \in used : Target(used, a) \in UserNumber
  BY <1>7, TargetProperties DEF Renumbers
<1>10. ASSUME NEW a \in used PROVE anum_table'[Target(used, a)] = named[a]
  BY <1>5, <1>7, CleanedNamesAt
<1>11. ASSUME NEW b \in UserNumber, ~\E a \in used : Target(used, a) = b
       PROVE  anum_table'[b] = NOTHING
  BY <1>5, <1>11, CleanedNamesElse
<1>12. anum_table' \in [UserNumber -> GivenName \cup {NOTHING}]
  <2>1. ASSUME NEW b \in UserNumber PROVE anum_table'[b] \in GivenName \cup {NOTHING}
    BY <1>8, <1>10, <1>11
  <2>2. anum_table' = [b \in UserNumber |-> anum_table'[b]]
    BY <1>5 DEF CleanedNames
  <2> QED BY <2>1, <2>2
<1>13. ASSUME NEW p \in htab'
       PROVE  \/ p \in defined /\ \A a \in UserNumber : p # <<named[a], a>>
              \/ \E a \in used : p = <<named[a], Target(used, a)>>
  BY <1>5 DEF CleanedHtab
<1>14. ASSUME NEW a \in used PROVE <<named[a], Target(used, a)>> \in htab'
  BY <1>5 DEF CleanedHtab
<1>15. ASSUME NEW p \in defined
       PROVE  p \in htab \/ \E a \in UserNumber : p = <<Dangling(a), a>>
  BY <1>4 DEF CleanDefined, Dangled
<1>16. ASSUME NEW p \in defined PROVE p \in GivenName \X UserNumber
  <2>1. CASE p \in htab
    BY <2>1 DEF Tables
  <2>2. ASSUME NEW a \in UserNumber, p = <<Dangling(a), a>> PROVE p \in GivenName \X UserNumber
    <3>1. Dangling(a) \in GivenName
      BY GivenNames
    <3> QED BY <2>2, <3>1
  <2> QED BY <1>15, <2>1, <2>2
<1>17. htab' \subseteq GivenName \X UserNumber
  <2>1. ASSUME NEW p \in htab', NEW a \in used, p = <<named[a], Target(used, a)>>
        PROVE  p \in GivenName \X UserNumber
    BY <1>8, <1>9, <2>1
  <2> QED BY <1>13, <1>16, <2>1
<1>18. attr_next \in Nat /\ used \subseteq Nat /\ RenumberFrom(used) \in Nat
  BY <1>7, UsedFinite DEF Tables
<1>19. ASSUME High(used) # {} PROVE attr_next' \in High(used)
  <2>1. High(used) \subseteq Nat
    BY <1>18 DEF High
  <2>2. PICK x \in High(used) : \A y \in High(used) : x <= y
    BY <1>19, <2>1, LeastNat
  <2>3. Min(High(used)) \in High(used)
    BY <2>2 DEF Min
  <2> QED BY <1>5, <1>19, <2>3 DEF NextFree
<1>20. attr_next' \in Nat
  <2>1. CASE High(used) = {}
    BY <1>5, <1>18, <2>1
  <2>2. CASE High(used) # {}
    BY <1>18, <1>19, <2>2 DEF High
  <2> QED BY <2>1, <2>2
<1>21. ASSUME NEW a \in used, named[a] \in Name PROVE Target(used, a) < attr_next'
  <2>1. CASE High(used) = {}
    <3>1. Target(used, a) = a
      BY <2>1 DEF High
    <3>2. anum_table[a] \in Name
      BY <1>6, <1>7, <1>21
    <3>3. a < attr_next
      BY <1>7, <3>2 DEF Tables, NamesAgree
    <3> QED BY <1>5, <2>1, <3>1, <3>3
  <2>2. CASE High(used) # {}
    <3>1. attr_next' \in used /\ Target(used, attr_next') # attr_next'
      BY <1>19, <2>2 DEF High
    <3>2. attr_next' >= RenumberFrom(used)
      BY <1>7, <3>1, TargetProperties
    <3>3. Target(used, a) < RenumberFrom(used)
      BY <1>7, TargetProperties
    <3>4. Target(used, a) \in Nat
      BY <1>9, NumberTypes
    <3> QED BY <1>18, <1>20, <3>2, <3>3, <3>4
  <2> QED BY <2>1, <2>2
<1>22. ASSUME NEW b \in UserNumber, anum_table'[b] \in Name
       PROVE  <<anum_table'[b], b>> \in htab' /\ b < attr_next'
  <2>1. PICK a \in used : Target(used, a) = b
    BY <1>11, <1>22, GivenNames
  <2>2. anum_table'[b] = named[a]
    BY <1>10, <2>1
  <2>3. <<named[a], b>> \in htab'
    BY <1>14, <2>1
  <2>4. b < attr_next'
    BY <1>21, <1>22, <2>1, <2>2
  <2> QED BY <2>2, <2>3, <2>4
<1>23. ASSUME NEW p \in htab', p[1] \in Name PROVE anum_table'[p[2]] = p[1]
  <2>1. p \notin defined \/ \E a \in UserNumber : p = <<named[a], a>>
    <3> SUFFICES ASSUME p \in defined PROVE \E a \in UserNumber : p = <<named[a], a>>
      OBVIOUS
    <3>1. p \in htab
      <4>1. \A a \in UserNumber : p # <<Dangling(a), a>>
        BY <1>23, GivenNames
      <4> QED BY <1>15, <4>1
    <3>2. p = <<p[1], p[2]>> /\ p[2] \in UserNumber
      BY <1>16
    <3>3. anum_table[p[2]] = p[1]
      BY <1>23, <3>1 DEF Tables, NamesAgree
    <3>4. named[p[2]] = p[1]
      BY <1>6, <1>23, <3>2, <3>3
    <3> QED BY <3>2, <3>4
  <2>2. PICK a \in used : p = <<named[a], Target(used, a)>>
    BY <1>13, <2>1
  <2> QED BY <1>10, <2>2
<1>24. NamesAgree'
  BY <1>22, <1>23 DEF NamesAgree
<1> QED BY <1>12, <1>17, <1>20, <1>24 DEF Tables


-----------------------------------------------------------------------------
(* The attributes and lists, action by action.                             *)

LEMMA KeptAll ==
  ASSUME NEW e \in Sound, NEW o \in Object, NEW a, NEW f, Kept(e, f, o, a)
  PROVE  f \in Sound /\ f \in States
<1>1. f \in Sound
  BY KeptSound
<1> QED BY <1>1 DEF Sound

LEMMA AddSound ==
  ASSUME NEW e \in Sound, NEW o \in Object, NEW a \in Number, NEW v \in ValueOf(a)
  PROVE  atr_add_raw(e, o, a, v) \in Sound
<1>1. PICK f : f = atr_add_raw(e, o, a, v)
  OBVIOUS
<1>2. Kept(e, f, o, a)
  BY <1>1, AddProperties DEF Sound
<1> QED BY <1>1, <1>2, KeptAll

LEMMA PenniesSound ==
  ASSUME NEW e \in Sound, NEW o \in Object, NEW n \in Nat
  PROVE  s_Pennies(e, o, n) \in Sound
<1>1. PICK f : f = s_Pennies(e, o, n)
  OBVIOUS
<1>2. Kept(e, f, o, A_MONEY)
  BY <1>1, PenniesProperties DEF Sound
<1> QED BY <1>1, <1>2, KeptAll

LEMMA QueueSound ==
  ASSUME NEW e \in Sound, NEW o \in Object, NEW n \in Int
  PROVE  a_Queue(e, o, n) \in Sound
<1>1. PICK f : f = a_Queue(e, o, n)
  OBVIOUS
<1>2. Kept(e, f, o, A_MONEY)
  BY <1>1, QueueProperties, CacheOnlyKept DEF Sound
<1> QED BY <1>1, <1>2, KeptAll

LEMMA StoreSound ==
  ASSUME NEW e \in Sound, NEW f, f = al_store(e)
  PROVE  f \in Sound /\ Stored(f)
<1>1. e \in States /\ \A o \in Object : Exact(e.text[o], ListOf(e, o))
  BY DEF Sound
<1>2. /\ f \in States /\ f.text = e.text
      /\ \A o \in Object : ListOf(f, o) = ListOf(e, o) /\ f.list[o] = ListOf(e, o)
  BY <1>1, StoreProperties
<1>3. \A o \in Object : Exact(f.text[o], ListOf(f, o)) /\ Exact(f.text[o], f.list[o])
  BY <1>1, <1>2
<1> QED BY <1>2, <1>3 DEF Sound, Stored

WithKind(e, o, k) == [e EXCEPT !.kind[o] = k]

LEMMA KindSound ==
  ASSUME NEW e \in Sound, NEW o \in Object, NEW k \in {"player", "thing", "garbage"}
  PROVE  WithKind(e, o, k) \in Sound
<1>1. PICK f : f = WithKind(e, o, k)
  OBVIOUS
<1>2. e \in States /\ \A p \in Object : Exact(e.text[p], ListOf(e, p))
  BY DEF Sound
<1>3. PICK m : m = [e.kind EXCEPT ![o] = k]
  OBVIOUS
<1>4. m \in [Object -> {"player", "thing", "garbage"}]
  BY <1>2, <1>3, StateFields
<1>5. f \in States /\ f.text = e.text /\ f.list = e.list
      /\ f.mod_al_id = e.mod_al_id /\ f.mod_alist = e.mod_alist
  BY <1>1, <1>2, <1>3, <1>4 DEF States, WithKind
<1>6. \A p \in Object : ListOf(f, p) = ListOf(e, p)
  BY <1>5 DEF ListOf
<1> QED BY <1>1, <1>2, <1>5, <1>6 DEF Sound

(* Only what is stored is left after a restart.                            *)
Restarted(e) == [e EXCEPT !.mod_al_id = NOTHING, !.mod_alist = <<>>,
                          !.pcache = [o \in Object |-> NoEntry]]

LEMMA RestartSound ==
  ASSUME NEW e \in Sound, Stored(e)
  PROVE  Restarted(e) \in Sound
<1>1. PICK f : f = Restarted(e)
  OBVIOUS
<1>2. e \in States
  BY DEF Sound
<1>3. PICK q : q = [o \in Object |-> NoEntry]
  OBVIOUS
<1>4. q \in [Object -> Entry] /\ <<>> \in Seq(Number)
  BY <1>3, NoEntryType
<1>5. f \in States /\ f.text = e.text /\ f.list = e.list /\ f.mod_al_id = NOTHING
  BY <1>1, <1>2, <1>3, <1>4 DEF States, Restarted
<1>6. \A p \in Object : ListOf(f, p) = e.list[p]
  BY <1>5, ListAssumption DEF ListOf
<1> QED BY <1>1, <1>5, <1>6 DEF Sound, Stored

LEMMA DumpSound ==
  ASSUME NEW e \in Sound, NEW f, f = pcache_sync(al_store(e))
  PROVE  f \in Sound /\ Stored(f)
<1>1. PICK g : g = al_store(e)
  OBVIOUS
<1>2. g \in Sound /\ Stored(g)
  BY <1>1, StoreSound
<1> QED BY <1>1, <1>2, SyncProperties

LEMMA MovingSound ==
  ASSUME NEW e \in Sound, NEW used, used \subseteq UserNumber
  PROVE  MovingAll(e, used, SetToSeq(Object))[Cardinality(Object)] \in Sound
<1>1. PICK s : s = SetToSeq(Object)
  OBVIOUS
<1>2. s \in Seq(Object) /\ Len(s) = Cardinality(Object)
  BY <1>1, SequenceOfSet
<1>3. Renumbers(used)
  BY TargetProperties
<1>4. PICK g : g = MovingAll(e, used, s)
  OBVIOUS
<1>5. \A k \in 0 .. Len(s) : g[k] \in Sound
  BY <1>2, <1>3, <1>4, MovingAllRounds
<1>6. Len(s) \in 0 .. Len(s)
  BY <1>2
<1>7. g[Len(s)] \in Sound
  BY <1>5, <1>6
<1> QED BY <1>1, <1>2, <1>4, <1>7

LEMMA InitSound == NamesInit => d \in Sound
<1> SUFFICES ASSUME NamesInit PROVE d \in Sound
  OBVIOUS
<1>1. PICK t : t = [NoAttributes EXCEPT ![A_MONEY] = 0]
  OBVIOUS
<1>2. t[A_MONEY] = 0 /\ \A a \in Number : a # A_MONEY => t[a] = Unset
  BY <1>1, NumberTypes DEF NoAttributes
<1>3. 0 \in ValueOf(A_MONEY) /\ 0 # Unset
  BY NumberTypes, ListAssumption
<1>4. \A a \in Number : t[a] \in ValueOf(a) /\ t[a] \in Values
  <2>1. \A a \in Number : Unset \in ValueOf(a) /\ ValueOf(a) \subseteq Values
    BY NumberTypes
  <2>2. \A a \in Number : t[a] \in ValueOf(a)
    BY <1>2, <1>3, <2>1
  <2> QED BY <2>1, <2>2
<1>5. t \in Attributes
  <2>1. t = [a \in Number |-> t[a]]
    BY <1>1 DEF NoAttributes
  <2>2. t \in [Number -> Values]
    BY <1>4, <2>1
  <2> QED BY <1>4, <2>2 DEF Attributes
<1>6. PICK l : l = <<A_MONEY>>
  OBVIOUS
<1>7. l \in Seq(Number) /\ Len(l) = 1 /\ l[1] = A_MONEY
  BY <1>6, NumberTypes
<1>8. Exact(t, l)
  <2>1. \A i \in 1 .. Len(l) : i = 1
    BY <1>7
  <2> QED BY <1>2, <1>3, <1>7, <2>1 DEF Exact
<1>9. /\ d.text = [o \in Object |-> t] /\ d.list = [o \in Object |-> l]
      /\ d.mod_al_id = NOTHING
  BY <1>1, <1>6 DEF NamesInit
<1>10. d.text \in [Object -> Attributes] /\ d.list \in [Object -> Seq(Number)]
  BY <1>5, <1>7, <1>9
<1>11. d.pcache \in [Object -> Entry]
  BY NoEntryType DEF NamesInit
<1>12. d.kind \in [Object -> {"player", "thing", "garbage"}]
  BY DEF NamesInit
<1>13. d \in States
  <2>1. /\ d = [text |-> d.text, list |-> d.list, mod_al_id |-> d.mod_al_id, mod_alist |-> d.mod_alist,
                pcache |-> d.pcache, kind |-> d.kind, lost |-> d.lost]
        /\ d.mod_alist = <<>> /\ d.lost = {}
    BY DEF NamesInit
  <2>2. d.mod_alist \in Seq(Number)
    BY <2>1
  <2> HIDE DEF NamesInit
  <2> QED BY <1>9, <1>10, <1>11, <1>12, <2>1, <2>2 DEF States
<1>14. \A o \in Object : Exact(d.text[o], ListOf(d, o))
  BY <1>8, <1>9, ListAssumption DEF ListOf
<1> QED BY <1>13, <1>14 DEF Sound


-----------------------------------------------------------------------------
(* The invariant, and the theorems.                                        *)

LEMMA TablesKept == Tables /\ UNCHANGED <<anum_table, htab, attr_next>> => Tables'
BY DEF Tables, NamesAgree

LEMMA InitNames == NamesInit => NamesInv
<1> SUFFICES ASSUME NamesInit PROVE NamesInv
  OBVIOUS
<1>1. d \in Sound
  BY InitSound
<1>2. /\ anum_table = [a \in UserNumber |-> NOTHING] /\ htab = {} /\ attr_next = A_USER_START
      /\ A_USER_START \in Nat
  BY NamesAssumption DEF NamesInit
<1>3. Tables
  BY <1>2, GivenNames DEF Tables, NamesAgree
<1>4. Told
  BY DEF NamesInit, Told
<1> QED BY <1>1, <1>3, <1>4 DEF NamesInv

LEMMA SetStep ==
  ASSUME NamesInv, NEW o \in Object, NEW n \in Name, NEW t \in Text, set(o, n, t)
  PROVE  NamesInv'
<1>1. d \in Sound /\ Tables /\ Told
  BY DEF NamesInv
<1>2. PICK a \in UserNumber : a = IF n \in Named THEN NumberOf(n) ELSE attr_next
  BY DEF set
<1>3. d' = atr_add_raw(d, o, a, t)
  BY <1>2 DEF set
<1>4. a \in Number /\ t \in ValueOf(a)
  BY NumberTypes DEF ValueOf
<1>5. d' \in Sound
  BY <1>1, <1>3, <1>4, AddSound
<1>6. wrote' \in {wrote, [wrote EXCEPT ![o][n] = t]} /\ purse' = purse
      /\ haunted' \in {haunted, haunted \cup {n}}
  BY <1>2 DEF set
<1>7. Told'
  <2>1. wrote \in [Object -> [Name -> Text \cup {Unset}]]
    BY <1>1 DEF Told
  <2>2. [wrote EXCEPT ![o][n] = t] \in [Object -> [Name -> Text \cup {Unset}]]
    BY <2>1
  <2>3. wrote' \in [Object -> [Name -> Text \cup {Unset}]]
    BY <1>6, <2>1, <2>2
  <2>4. haunted' \subseteq Name \cup Object
    BY <1>1, <1>6 DEF Told
  <2> QED BY <1>1, <1>6, <2>3, <2>4 DEF Told
<1> QED BY <1>1, <1>5, <1>7, SetTables DEF NamesInv

LEMMA ClearStep ==
  ASSUME NamesInv, NEW o \in Object, NEW n \in Name, clear(o, n)
  PROVE  NamesInv'
<1>1. d \in Sound /\ Tables /\ Told
  BY DEF NamesInv
<1>2. PICK a \in UserNumber : a = NumberOf(n)
  BY <1>1, NumberOfProperties DEF clear
<1>3. d' = atr_add_raw(d, o, a, Unset)
  BY <1>2 DEF clear, atr_clr
<1>4. a \in Number /\ Unset \in ValueOf(a)
  BY NumberTypes
<1>5. d' \in Sound
  BY <1>1, <1>3, <1>4, AddSound
<1>6. Told'
  BY <1>1 DEF clear, Told
<1>7. Tables'
  BY <1>1, TablesKept DEF clear, KeepNames
<1> QED BY <1>5, <1>6, <1>7 DEF NamesInv

LEMMA CloneStep ==
  ASSUME NamesInv, NEW o \in Object, NEW p \in Object, clone(o, p)
  PROVE  NamesInv'
<1>1. d \in Sound /\ Tables /\ Told
  BY DEF NamesInv
<1>2. PICK copied : copied = {a \in UserNumber : anum_table[a] # NOTHING}
  OBVIOUS
<1>3. d' = atr_cpy(d, o, p, copied)
  BY <1>2 DEF clone
<1>4. d' \in Sound
  BY <1>1, <1>3, CopyProperties
<1>5. PICK which : wrote' = [wrote EXCEPT ![o] = [n \in Name |-> IF n \in which THEN wrote[p][n] ELSE @[n]]]
  <2> DEFINE which == {n \in Name : n \in Named /\ NumberOf(n) \in Range(ListOf(d, p))}
  <2>1. wrote' = [wrote EXCEPT ![o] = [n \in Name |-> IF n \in which THEN wrote[p][n] ELSE @[n]]]
    BY DEF clone
  <2> QED BY <2>1
<1>6. PICK w : w = [n \in Name |-> IF n \in which THEN wrote[p][n] ELSE wrote[o][n]]
  OBVIOUS
<1>7. wrote \in [Object -> [Name -> Text \cup {Unset}]]
  BY <1>1 DEF Told
<1>8. w \in [Name -> Text \cup {Unset}] /\ wrote' = [wrote EXCEPT ![o] = w]
  BY <1>5, <1>6, <1>7
<1>9. wrote' \in [Object -> [Name -> Text \cup {Unset}]]
  BY <1>7, <1>8
<1>10. Told'
  BY <1>1, <1>9 DEF clone, Told
<1>11. Tables'
  BY <1>1, TablesKept DEF clone, KeepNames
<1> QED BY <1>4, <1>10, <1>11 DEF NamesInv

LEMMA RenameStep ==
  ASSUME NamesInv, NEW n \in Name, NEW m \in Name, attribute_rename(n, m)
  PROVE  NamesInv'
<1>1. d \in Sound /\ Tables /\ Told
  BY DEF NamesInv
<1>2. wrote' \in [Object -> [Name -> Text \cup {Unset}]]
  BY <1>1 DEF attribute_rename, Told
<1>3. Told'
  BY <1>1, <1>2 DEF attribute_rename, Told
<1>4. Tables'
  BY <1>1, RenameTables
<1> QED BY <1>1, <1>3, <1>4 DEF attribute_rename, NamesInv

LEMMA DeleteStep ==
  ASSUME NamesInv, NEW n \in Name, attribute_delete(n)
  PROVE  NamesInv'
<1>1. d \in Sound /\ Tables /\ Told
  BY DEF NamesInv
<1>2. wrote' \in [Object -> [Name -> Text \cup {Unset}]]
  BY <1>1 DEF attribute_delete, Told
<1>3. Told'
  BY <1>1, <1>2 DEF attribute_delete, Told
<1>4. Tables'
  BY <1>1, DeleteTables
<1> QED BY <1>1, <1>3, <1>4 DEF attribute_delete, NamesInv

LEMMA DbcleanStep ==
  ASSUME NamesInv, do_dbclean
  PROVE  NamesInv'
<1>1. d \in Sound /\ Tables /\ Told
  BY DEF NamesInv
<1>2. PICK e : e = pcache_sync(al_store(d))
  OBVIOUS
<1>3. e \in Sound
  BY <1>1, <1>2, DumpSound
<1>4. /\ d' = MovingAll(e, CleanUsed(e), SetToSeq(Object))[Cardinality(Object)]
      /\ haunted' = haunted \cup CleanedOnto(e, CleanNamed(e), CleanUsed(e))
      /\ UNCHANGED <<wrote, purse>>
  BY <1>2, CleanedSteps
<1>5. CleanUsed(e) \subseteq UserNumber
  BY DEF CleanUsed
<1>6. d' \in Sound
  BY <1>3, <1>4, <1>5, MovingSound
<1>7. Told'
  BY <1>1, <1>4 DEF Told, CleanedOnto
<1> QED BY <1>1, <1>6, <1>7, DbcleanTables DEF NamesInv

LEMMA EarnStep ==
  ASSUME NamesInv, NEW o \in Object, NEW n \in 0 .. MaxMoney, earn(o, n)
  PROVE  NamesInv'
<1>1. d \in Sound /\ Tables /\ Told
  BY DEF NamesInv
<1>2. n \in Nat
  BY NamesAssumption
<1>3. d' \in Sound
  BY <1>1, <1>2, PenniesSound DEF earn
<1>4. Told'
  BY <1>1, <1>2 DEF earn, Told
<1>5. Tables'
  BY <1>1, TablesKept DEF earn, KeepNames
<1> QED BY <1>3, <1>4, <1>5 DEF NamesInv

LEMMA QueueStep ==
  ASSUME NamesInv, NEW o \in Object, NEW adj \in {-1, 1}, queue(o, adj)
  PROVE  NamesInv'
<1>1. d \in Sound /\ Tables /\ Told
  BY DEF NamesInv
<1>2. adj \in Int
  OBVIOUS
<1>3. d' \in Sound
  BY <1>1, <1>2, QueueSound DEF queue
<1>4. Told'
  BY <1>1, <1>2 DEF queue, Told
<1>5. Tables'
  BY <1>1, TablesKept DEF queue, KeepNames
<1> QED BY <1>3, <1>4, <1>5 DEF NamesInv

LEMMA QueuemaxStep ==
  ASSUME NamesInv, NEW o \in Object, NEW v \in {Unset, 1}, queuemax(o, v)
  PROVE  NamesInv'
<1>1. d \in Sound /\ Tables /\ Told
  BY DEF NamesInv
<1>2. A_QUEUEMAX \in Number /\ v \in ValueOf(A_QUEUEMAX)
  BY NumberTypes
<1>3. d' \in Sound
  BY <1>1, <1>2, AddSound DEF queuemax
<1>4. Told'
  BY <1>1 DEF queuemax, KeepTold, Told
<1>5. Tables'
  BY <1>1, TablesKept DEF queuemax, KeepNames
<1> QED BY <1>3, <1>4, <1>5 DEF NamesInv

LEMMA DestroyStep ==
  ASSUME NamesInv, NEW o \in Object, destroy_obj(o)
  PROVE  NamesInv'
<1>1. d \in Sound /\ Tables /\ Told
  BY DEF NamesInv
<1>2. PICK n \in Int : n = -purse[o].queue
  BY <1>1 DEF Told
<1>3. PICK e : e = a_Queue(d, o, n)
  OBVIOUS
<1>4. PICK f : f = atr_free(e, o)
  OBVIOUS
<1>5. e \in Sound
  BY <1>1, <1>3, QueueSound
<1>6. f \in Sound
  BY <1>4, <1>5, FreeProperties
<1>7. d' = WithKind(f, o, "garbage")
  BY <1>2, <1>3, <1>4 DEF destroy_obj, WithKind
<1>8. d' \in Sound
  BY <1>6, <1>7, KindSound
<1>9. Told'
  BY <1>1 DEF destroy_obj, Told
<1>10. Tables'
  BY <1>1, TablesKept DEF destroy_obj, KeepNames
<1> QED BY <1>8, <1>9, <1>10 DEF NamesInv

LEMMA CreateStep ==
  ASSUME NamesInv, NEW o \in Object, NEW k \in {"player", "thing"}, create_obj(o, k, 1)
  PROVE  NamesInv'
<1>1. d \in Sound /\ Tables /\ Told
  BY DEF NamesInv
<1>2. PICK e : e = atr_free(d, o)
  OBVIOUS
<1>3. e \in Sound
  BY <1>1, <1>2, FreeProperties
<1>4. PICK f : f = WithKind(e, o, k)
  OBVIOUS
<1>5. f \in Sound
  BY <1>3, <1>4, KindSound
<1>6. d' = s_Pennies(f, o, 1)
  BY <1>2, <1>4 DEF create_obj, WithKind
<1>7. d' \in Sound
  BY <1>5, <1>6, PenniesSound
<1>8. Told'
  BY <1>1 DEF create_obj, Told
<1>9. Tables'
  BY <1>1, TablesKept DEF create_obj, KeepNames
<1> QED BY <1>7, <1>8, <1>9 DEF NamesInv

LEMMA RestartStep ==
  ASSUME NamesInv, do_restart
  PROVE  NamesInv'
<1>1. d \in Sound /\ Tables /\ Told
  BY DEF NamesInv
<1>2. PICK e : e = pcache_sync(al_store(d))
  OBVIOUS
<1>3. e \in Sound /\ Stored(e)
  BY <1>1, <1>2, DumpSound
<1>4. d' = Restarted(e)
  BY <1>2 DEF do_restart, Restarted
<1>5. d' \in Sound
  BY <1>3, <1>4, RestartSound
<1>6. Told'
  BY <1>1 DEF do_restart, Told
<1> QED BY <1>1, <1>5, <1>6, RestartTables DEF NamesInv

LEMMA NamesStep == NamesInv /\ [NamesNext]_namesVars => NamesInv'
<1> SUFFICES ASSUME NamesInv, [NamesNext]_namesVars PROVE NamesInv'
  OBVIOUS
<1>1. d \in Sound /\ Tables /\ Told
  BY DEF NamesInv
<1>2. ASSUME NEW o \in Object, NEW n \in Name, clear(o, n) PROVE NamesInv'
  BY <1>2, ClearStep
<1>3. ASSUME NEW o \in Object, NEW n \in Name, NEW t \in Text, set(o, n, t) PROVE NamesInv'
  BY <1>3, SetStep
<1>4. ASSUME NEW o \in Object, NEW p \in Object, clone(o, p) PROVE NamesInv'
  BY <1>4, CloneStep
<1>5. ASSUME NEW n \in Name, NEW m \in Name, attribute_rename(n, m) PROVE NamesInv'
  BY <1>5, RenameStep
<1>6. ASSUME NEW n \in Name, attribute_delete(n) PROVE NamesInv'
  BY <1>6, DeleteStep
<1>7. CASE do_dbclean
  BY <1>7, DbcleanStep
<1>8. ASSUME NEW o \in Object, NEW n \in 0 .. MaxMoney, earn(o, n) PROVE NamesInv'
  BY <1>8, EarnStep
<1>9. ASSUME NEW o \in Object, NEW adj \in {-1, 1}, queue(o, adj) PROVE NamesInv'
  BY <1>9, QueueStep
<1>10. ASSUME NEW o \in Object, NEW v \in {Unset, 1}, queuemax(o, v) PROVE NamesInv'
  BY <1>10, QueuemaxStep
<1>11. CASE dispatch_trim
  <2>1. d' \in Sound
    BY <1>1, <1>11, TrimProperties DEF dispatch_trim
  <2>2. Tables' /\ Told'
    BY <1>1, <1>11, TablesKept DEF dispatch_trim, KeepNames, KeepTold, Told
  <2> QED BY <2>1, <2>2 DEF NamesInv
<1>12. ASSUME NEW o \in Object, destroy_obj(o) PROVE NamesInv'
  BY <1>12, DestroyStep
<1>13. ASSUME NEW o \in Object, NEW k \in {"player", "thing"}, create_obj(o, k, 1) PROVE NamesInv'
  BY <1>13, CreateStep
<1>14. CASE dump
  <2>1. d' \in Sound
    BY <1>1, <1>14, DumpSound DEF dump
  <2>2. Tables' /\ Told'
    BY <1>1, <1>14, TablesKept DEF dump, KeepNames, KeepTold, Told
  <2> QED BY <2>1, <2>2 DEF NamesInv
<1>15. CASE do_restart
  BY <1>15, RestartStep
<1>16. CASE UNCHANGED namesVars
  BY <1>1, <1>16, TablesKept DEF namesVars, Told, NamesInv
<1> QED
  BY <1>2, <1>3, <1>4, <1>5, <1>6, <1>7, <1>8, <1>9, <1>10, <1>11, <1>12, <1>13, <1>14, <1>15, <1>16
  DEF NamesNext

(* Whatever is done to attributes, their names and the player cache, in    *)
(* any order: the lists of all objects stay exact, whichever of them is in *)
(* memory, and what would be left of them by a restart too.                *)
THEOREM NamesInvariant == NamesSpec => []NamesInv
<1>1. NamesInit => NamesInv
  BY InitNames
<1>2. NamesInv /\ [NamesNext]_namesVars => NamesInv'
  BY NamesStep
<1> QED BY <1>1, <1>2, PTL DEF NamesSpec

(* A list without repetition has as many places as it names numbers.       *)
LEMMA LengthOfExact ==
  ASSUME NEW t, NEW l \in Seq(Number), Exact(t, l)
  PROVE  Len(l) = Cardinality(Range(l))
<1>1. PICK n \in Nat : n = Len(l)
  OBVIOUS
<1>2. DOMAIN l = 1 .. n /\ l \in [1 .. n -> Number]
  BY <1>1
<1>3. Range(l) = {l[i] : i \in 1 .. n}
  BY <1>2 DEF Range
<1>4. l \in [1 .. n -> Range(l)]
  BY <1>2, <1>3
<1>5. \A i, j \in 1 .. n : l[i] = l[j] => i = j
  BY <1>1 DEF Exact
<1>6. l \in Injection(1 .. n, Range(l))
  BY <1>2, <1>4, <1>5 DEF Injection, IsInjective
<1>7. l \in Surjection(1 .. n, Range(l))
  BY <1>3, <1>4 DEF Surjection
<1>8. ExistsBijection(1 .. n, Range(l))
  BY <1>6, <1>7 DEF ExistsBijection, Bijection
<1>9. IsFiniteSet(1 .. n) /\ Cardinality(1 .. n) = n
  BY FS_Interval
<1>10. Cardinality(Range(l)) = Cardinality(1 .. n)
  BY <1>8, <1>9, FS_Bijection
<1> QED BY <1>1, <1>9, <1>10

(* The list of an object names exactly the attributes it has, each once;   *)
(* names and numbers agree, and no number that is given out next is taken  *)
(* (al_add, al_delete, vattr_rename_LEN, do_dbclean).                      *)
THEOREM NamesAlwaysSound == NamesSpec => []NamesSound
<1>1. ASSUME d \in Sound, NEW o \in Object
      PROVE  LET listed == Range(ListOf(d, o))
                 stored == {a \in Number : d.text[o][a] # Unset}
             IN /\ Len(ListOf(d, o)) = Cardinality(listed)
                /\ listed \subseteq stored /\ stored \ {A_MONEY} \subseteq listed
  <2>1. d \in States /\ Exact(d.text[o], ListOf(d, o))
    BY <1>1 DEF Sound
  <2>2. PICK l : l = ListOf(d, o)
    OBVIOUS
  <2>3. l \in Seq(Number)
    BY <2>1, <2>2, ListType
  <2>4. Len(l) = Cardinality(Range(l))
    BY <2>1, <2>2, <2>3, LengthOfExact
  <2>5. Range(l) = {l[i] : i \in 1 .. Len(l)} /\ \A i \in 1 .. Len(l) : l[i] \in Number
    BY <2>3 DEF Range
  <2>6. Range(l) \subseteq {a \in Number : d.text[o][a] # Unset}
    BY <2>1, <2>2, <2>5 DEF Exact
  <2>7. {a \in Number : d.text[o][a] # Unset} \ {A_MONEY} \subseteq Range(l)
    BY <2>1, <2>2, <2>5 DEF Exact
  <2> QED BY <2>2, <2>4, <2>6, <2>7
<1>2. d \in Sound => ListsExact
  BY <1>1 DEF ListsExact
<1>3. NamesInv => NamesSound
  BY <1>2 DEF NamesInv, Tables, NamesSound
<1> QED BY <1>3, NamesInvariant, PTL

-----------------------------------------------------------------------------
(* Lists that refused no number.                                           *)

LEMMA PutExact ==
  ASSUME NEW e \in Sound, NEW o \in Object, NEW a \in Number, NEW v \in ValueOf(a),
         NEW f, f = Put(e, o, a, v), o \notin f.lost
  PROVE  f.text[o] = [e.text[o] EXCEPT ![a] = v]
<1>1. e \in States
  BY DEF Sound
<1>2. PutDone(e, f, o, a, v)
  BY <1>1, PutProperties
<1> QED BY <1>2 DEF PutDone

(* It is found under its number, or a full list refused the number and     *)
(* nothing is found.                                                       *)
Got(f, o, a, v) == f.text[o][a] = v \/ (o \in f.lost /\ f.text[o][a] = Unset)

LEMMA AddGot ==
  ASSUME NEW e \in Sound, NEW o \in Object, NEW a \in Number, a # A_MONEY,
         NEW v \in ValueOf(a), NEW f, f = atr_add_raw(e, o, a, v)
  PROVE  Got(f, o, a, v)
<1>1. PICK g : g = Put(e, o, a, v)
  OBVIOUS
<1>2. e \in States /\ e.text[o] \in [Number -> Values] /\ Exact(e.text[o], ListOf(e, o))
  <2>1. e \in States
    BY DEF Sound
  <2>2. e.text[o] \in Attributes
    BY <2>1, StateFields
  <2> QED BY <2>1, <2>2 DEF Attributes, Sound
<1>3. PutDone(e, g, o, a, v)
  BY <1>1, <1>2, PutProperties
<1>4. Got(g, o, a, v)
  <2>1. CASE g.text[o] = [e.text[o] EXCEPT ![a] = v]
    BY <1>2, <2>1 DEF Got
  <2>2. CASE g.text[o] = e.text[o] /\ ~Fits(e, o, a) /\ g.lost = e.lost \cup {o}
    <3>1. PICK l : l = ListOf(e, o)
      OBVIOUS
    <3>2. l \in Seq(Number) /\ a \notin Range(l)
      BY <1>2, <2>2, <3>1, ListType DEF Fits
    <3>3. \A i \in 1 .. Len(l) : l[i] # a
      BY <3>2 DEF Range
    <3>4. e.text[o][a] = Unset
      BY <1>2, <3>1, <3>3 DEF Exact
    <3> QED BY <2>2, <3>4 DEF Got
  <2> QED BY <1>3, <2>1, <2>2 DEF PutDone
<1>5. CASE f = g
  BY <1>4, <1>5
<1>6. CASE f = pcache_reload(g, o)
  <2>1. g \in States
    BY <1>3 DEF PutDone
  <2>2. Kept(g, f, o, A_MONEY)
    BY <1>6, <2>1, ReloadProperties
  <2>3. f.text[o][a] = g.text[o][a] /\ g.lost \subseteq f.lost
    BY <2>2 DEF Kept
  <2> QED BY <1>4, <2>3 DEF Got
<1> QED BY <1>1, <1>5, <1>6 DEF atr_add_raw

-----------------------------------------------------------------------------
(* Accounts: the money of an object and the count of its queued commands,  *)
(* in its entry of the player cache if it has one.                         *)

Stock(e, o) == IF e.text[o][A_MONEY] = Unset THEN 0 ELSE e.text[o][A_MONEY]
Balance(e, o) == IF e.pcache[o].cached THEN e.pcache[o].money ELSE Stock(e, o)
Counted(e, o) == IF e.pcache[o].cached THEN e.pcache[o].queue ELSE 0

(* What waits to be written is in an entry; what does not is written.      *)
Held(e, o) == e.pcache[o].dirty => e.pcache[o].cached
Backed(e, o) == e.pcache[o].cached /\ ~e.pcache[o].dirty => e.text[o][A_MONEY] = e.pcache[o].money

(* The account of o is the same, wherever it is kept.                      *)
SameAccount(e, f, o) ==
  Held(e, o) => /\ Held(f, o)
                /\ f.pcache[o].cached => e.pcache[o].cached \/ OwnsOthers(e, o)
                /\ o \notin f.lost /\ Backed(e, o) =>
                     /\ Backed(f, o)
                     /\ Balance(f, o) = Balance(e, o) /\ Counted(f, o) = Counted(e, o)

SameUser(e, f, o) == \A b \in UserNumber : f.text[o][b] = e.text[o][b]

(* Nothing of the other objects is changed.                                *)
Apart(e, f, o) ==
  /\ f.kind = e.kind /\ e.lost \subseteq f.lost
  /\ \A p \in Object : p # o => f.text[p] = e.text[p] /\ f.pcache[p] = e.pcache[p]

(* What all objects have, as users see it, is the same.                    *)
Quiet(e, f) ==
  f.kind = e.kind /\ e.lost \subseteq f.lost /\ \A p \in Object : SameUser(e, f, p) /\ SameAccount(e, f, p)

LEMMA ApartOthers ==
  ASSUME NEW e, NEW f, NEW o \in Object, Apart(e, f, o), NEW p \in Object, p # o
  PROVE  SameUser(e, f, p) /\ SameAccount(e, f, p)
BY DEF Apart, SameUser, SameAccount, Held, Backed, Balance, Counted, Stock

LEMMA ApartQuiet ==
  ASSUME NEW e, NEW f, NEW o \in Object, Apart(e, f, o), SameUser(e, f, o), SameAccount(e, f, o)
  PROVE  Quiet(e, f)
<1>1. \A p \in Object : SameUser(e, f, p) /\ SameAccount(e, f, p)
  BY ApartOthers
<1> QED BY <1>1 DEF Quiet, Apart

LEMMA ApartTwice ==
  ASSUME NEW e, NEW f, NEW g, NEW o, Apart(e, f, o), Apart(f, g, o)
  PROVE  Apart(e, g, o)
BY DEF Apart

LEMMA SameTwice ==
  ASSUME NEW e, NEW f, NEW g, NEW o, f.kind = e.kind, f.lost \subseteq g.lost,
         SameAccount(e, f, o), SameAccount(f, g, o)
  PROVE  SameAccount(e, g, o)
BY DEF SameAccount, OwnsOthers

LEMMA QuietSelf ==
  ASSUME NEW e
  PROVE  Quiet(e, e)
BY DEF Quiet, SameUser, SameAccount

LEMMA QuietTwice ==
  ASSUME NEW e, NEW f, NEW g, Quiet(e, f), Quiet(f, g)
  PROVE  Quiet(e, g)
<1>1. g.kind = e.kind /\ f.kind = e.kind /\ e.lost \subseteq g.lost /\ f.lost \subseteq g.lost
  BY DEF Quiet
<1>2. ASSUME NEW p \in Object PROVE SameUser(e, g, p) /\ SameAccount(e, g, p)
  <2>1. SameAccount(e, f, p) /\ SameAccount(f, g, p) /\ SameUser(e, f, p) /\ SameUser(f, g, p)
    BY DEF Quiet
  <2>2. SameAccount(e, g, p)
    BY <1>1, <2>1, SameTwice
  <2> QED BY <1>1, <2>1, <2>2 DEF SameUser
<1> QED BY <1>1, <1>2 DEF Quiet

(* One entry is replaced.                                                  *)
LEMMA EntryReplaced ==
  ASSUME NEW e \in States, NEW o \in Object, NEW x \in Entry, NEW f, f = WithEntry(e, o, x)
  PROVE  /\ f \in States /\ f.text = e.text /\ f.pcache[o] = x /\ Apart(e, f, o)
         /\ f.lost = e.lost
<1>1. f \in States /\ f.text = e.text /\ f.kind = e.kind /\ f.pcache[o] = x /\ f.lost = e.lost
  BY EntryChanged, CacheOnlyLists
<1>2. f.pcache = [e.pcache EXCEPT ![o] = x]
  BY DEF WithEntry, States
<1>3. \A p \in Object : p # o => f.pcache[p] = e.pcache[p]
  BY <1>2, StateFields
<1> QED BY <1>1, <1>3 DEF Apart

LEMMA ReloadedFields ==
  ASSUME NEW p \in Entry, NEW m, NEW q
  PROVE  /\ Reloaded(p, m, q).money = IF m = Unset THEN 0 ELSE m
         /\ Reloaded(p, m, q).dirty <=> p.dirty \/ m = Unset
         /\ Reloaded(p, m, q).queue = p.queue /\ Reloaded(p, m, q).cached = p.cached
BY DEF Reloaded, Entry

LEMMA Reload1Fields ==
  ASSUME NEW e \in States, NEW o \in Object, NEW f, f = pcache_reload1(e, o)
  PROVE  /\ f \in States /\ f.text = e.text /\ Apart(e, f, o)
         /\ f.pcache[o].money = Stock(e, o)
         /\ f.pcache[o].dirty <=> e.pcache[o].dirty \/ e.text[o][A_MONEY] = Unset
         /\ f.pcache[o].queue = e.pcache[o].queue /\ f.pcache[o].cached = e.pcache[o].cached
<1>1. PICK x : x = Reloaded(e.pcache[o], e.text[o][A_MONEY], e.text[o][A_QUEUEMAX])
  OBVIOUS
<1>2. x \in Entry /\ e.pcache[o] \in Entry
  BY <1>1, ValueTypes, ReloadedType
<1>3. f = WithEntry(e, o, x)
  BY <1>1, StateFields DEF pcache_reload1, WithEntry
<1>4. f \in States /\ f.text = e.text /\ Apart(e, f, o) /\ f.pcache[o] = x
  BY <1>2, <1>3, EntryReplaced
<1> QED BY <1>1, <1>2, <1>4, ReloadedFields DEF Stock

(* After pcache_find there is an entry, with the account.                  *)
LEMMA FindFields ==
  ASSUME NEW e \in States, NEW o \in Object, NEW f, f = pcache_find(e, o)
  PROVE  /\ f \in States /\ f.text = e.text /\ Apart(e, f, o)
         /\ f.pcache[o].cached
         /\ f.pcache[o].money = Balance(e, o) /\ f.pcache[o].queue = Counted(e, o)
         /\ f.pcache[o].dirty <=> IF e.pcache[o].cached THEN e.pcache[o].dirty
                                  ELSE e.text[o][A_MONEY] = Unset
<1>1. e.pcache \in [Object -> Entry] /\ e.pcache[o] \in Entry
  BY StateFields
<1>2. CASE e.pcache[o].cached
  <2>1. PICK x : x = [e.pcache[o] EXCEPT !.ref = TRUE]
    OBVIOUS
  <2>2. /\ x \in Entry /\ x.cached = e.pcache[o].cached /\ x.money = e.pcache[o].money
        /\ x.queue = e.pcache[o].queue /\ x.dirty = e.pcache[o].dirty
    BY <1>1, <2>1 DEF Entry
  <2>3. f = WithEntry(e, o, x)
    BY <1>1, <1>2, <2>1 DEF pcache_find, WithEntry, States
  <2>4. f \in States /\ f.text = e.text /\ Apart(e, f, o) /\ f.pcache[o] = x
    BY <2>2, <2>3, EntryReplaced
  <2> QED BY <1>2, <2>2, <2>4 DEF Balance, Counted
<1>3. CASE ~e.pcache[o].cached
  <2>1. PICK x : x = [NoEntry EXCEPT !.cached = TRUE, !.ref = TRUE]
    OBVIOUS
  <2>2. x \in Entry /\ x.cached /\ ~x.dirty /\ x.queue = 0
    BY <2>1, NoEntryType DEF NoEntry
  <2>3. PICK g : g = WithEntry(e, o, x)
    OBVIOUS
  <2>4. g \in States /\ g.text = e.text /\ Apart(e, g, o) /\ g.pcache[o] = x
    BY <2>2, <2>3, EntryReplaced
  <2>5. f = pcache_reload1(g, o)
    BY <1>3, <2>1, <2>3 DEF pcache_find, WithEntry
  <2>6. /\ f \in States /\ f.text = g.text /\ Apart(g, f, o)
        /\ f.pcache[o].money = Stock(g, o)
        /\ f.pcache[o].dirty <=> g.pcache[o].dirty \/ g.text[o][A_MONEY] = Unset
        /\ f.pcache[o].queue = g.pcache[o].queue /\ f.pcache[o].cached = g.pcache[o].cached
    BY <2>4, <2>5, Reload1Fields
  <2>7. Apart(e, f, o)
    BY <2>4, <2>6, ApartTwice
  <2>8. Stock(g, o) = Stock(e, o)
    BY <2>4 DEF Stock
  <2> QED BY <1>3, <2>2, <2>4, <2>6, <2>7, <2>8 DEF Balance, Counted
<1> QED BY <1>2, <1>3

LEMMA FindSame ==
  ASSUME NEW e \in States, NEW o \in Object, OwnsOthers(e, o), NEW f, f = pcache_find(e, o)
  PROVE  SameAccount(e, f, o)
<1>1. /\ f.text = e.text /\ f.pcache[o].cached
      /\ f.pcache[o].money = Balance(e, o) /\ f.pcache[o].queue = Counted(e, o)
      /\ f.pcache[o].dirty <=> IF e.pcache[o].cached THEN e.pcache[o].dirty
                               ELSE e.text[o][A_MONEY] = Unset
  BY FindFields
<1>2. Held(f, o) /\ Balance(f, o) = Balance(e, o) /\ Counted(f, o) = Counted(e, o)
  BY <1>1 DEF Held, Balance, Counted
<1>3. Backed(e, o) => Backed(f, o)
  BY <1>1 DEF Backed, Balance, Stock
<1> QED BY <1>2, <1>3 DEF SameAccount

(* What is saved is written.                                               *)
LEMMA SaveFields ==
  ASSUME NEW e \in Sound, NEW o \in Object, NEW f, f = pcache_save(e, o)
  PROVE  /\ f \in Sound /\ Apart(e, f, o) /\ ~f.pcache[o].dirty
         /\ f.pcache[o].cached = e.pcache[o].cached
         /\ f.pcache[o].money = e.pcache[o].money /\ f.pcache[o].queue = e.pcache[o].queue
         /\ o \notin f.lost => f.text[o][A_MONEY] = IF e.pcache[o].dirty THEN e.pcache[o].money ELSE e.text[o][A_MONEY]
         /\ SameUser(e, f, o)
<1>0. e \in States /\ e.pcache[o] \in Entry /\ e.text[o] \in [Number -> Values]
  <2>1. e \in States
    BY DEF Sound
  <2>2. e.text[o] \in Attributes /\ e.pcache[o] \in Entry
    BY <2>1, ValueTypes
  <2> QED BY <2>1, <2>2 DEF Attributes
<1>1. CASE ~e.pcache[o].dirty
  <2>1. f = e
    BY <1>1 DEF pcache_save
  <2> QED BY <1>1, <2>1 DEF Apart, SameUser
<1>2. CASE e.pcache[o].dirty
  <2>1. e.pcache[o].money \in Nat
    BY <1>0, EntryFields
  <2>2. PICK v : v = e.pcache[o].money
    OBVIOUS
  <2>3. v \in ValueOf(A_MONEY) /\ A_MONEY \in Number
    BY <2>1, <2>2, NumberTypes
  <2>4. PICK g : g = Put(e, o, A_MONEY, v)
    OBVIOUS
  <2>5. PutDone(e, g, o, A_MONEY, v) /\ (o \notin g.lost => g.text[o] = [e.text[o] EXCEPT ![A_MONEY] = v])
    BY <1>0, <2>3, <2>4, PutProperties, PutExact
  <2>6. g \in States /\ g.pcache = e.pcache /\ Apart(e, g, o)
    BY <2>5 DEF PutDone, Others, Apart
  <2>7. PICK x : x = [g.pcache[o] EXCEPT !.dirty = FALSE]
    OBVIOUS
  <2>8. /\ x \in Entry /\ ~x.dirty /\ x.cached = e.pcache[o].cached
        /\ x.money = e.pcache[o].money /\ x.queue = e.pcache[o].queue
    BY <1>0, <2>6, <2>7 DEF Entry
  <2>9. f = WithEntry(g, o, x)
    BY <1>2, <2>2, <2>4, <2>6, <2>7 DEF pcache_save, WithEntry, States
  <2>10. f.text = g.text /\ f.pcache[o] = x /\ Apart(g, f, o) /\ f.lost = g.lost
    BY <2>6, <2>8, <2>9, EntryReplaced
  <2>11. Apart(e, f, o)
    BY <2>6, <2>10, ApartTwice
  <2>12. (o \notin f.lost => f.text[o][A_MONEY] = v) /\ SameUser(e, f, o)
    <3>1. o \notin f.lost => f.text[o][A_MONEY] = v
      BY <1>0, <2>3, <2>5, <2>10
    <3>2. f.text[o] = e.text[o] \/ f.text[o] = [e.text[o] EXCEPT ![A_MONEY] = v]
      BY <2>5, <2>10 DEF PutDone
    <3>3. SameUser(e, f, o)
      BY <1>0, <3>2, NumberTypes DEF SameUser
    <3> QED BY <3>1, <3>3
  <2>13. f \in Sound
    <3>1. Kept(e, f, o, A_MONEY)
      BY <1>0, SaveProperties
    <3> QED BY <3>1, KeptSound
  <2> QED BY <1>2, <2>2, <2>8, <2>10, <2>11, <2>12, <2>13
<1> QED BY <1>1, <1>2

LEMMA SaveSame ==
  ASSUME NEW e \in Sound, NEW o \in Object, NEW f, f = pcache_save(e, o)
  PROVE  SameAccount(e, f, o)
<1>1. /\ ~f.pcache[o].dirty /\ f.pcache[o].cached = e.pcache[o].cached
      /\ f.pcache[o].money = e.pcache[o].money /\ f.pcache[o].queue = e.pcache[o].queue
      /\ o \notin f.lost => f.text[o][A_MONEY] = IF e.pcache[o].dirty THEN e.pcache[o].money ELSE e.text[o][A_MONEY]
  BY SaveFields
<1> QED BY <1>1 DEF SameAccount, Held, Backed, Balance, Counted, Stock

LEMMA ReloadSame ==
  ASSUME NEW e \in Sound, NEW o \in Object, NEW f, f = pcache_reload(e, o)
  PROVE  Apart(e, f, o) /\ SameAccount(e, f, o)
<1>1. CASE ~OwnsOthers(e, o)
  <2>1. f = e
    BY <1>1 DEF pcache_reload
  <2> QED BY <2>1, QuietSelf DEF Apart, Quiet
<1>2. CASE OwnsOthers(e, o)
  <2>0. e \in States
    BY DEF Sound
  <2>1. PICK g : g = pcache_find(e, o)
    OBVIOUS
  <2>2. g \in States /\ Apart(e, g, o) /\ g.pcache[o].cached
    BY <2>0, <2>1, FindFields
  <2>3. SameAccount(e, g, o) /\ g \in Sound
    <3>1. CacheOnly(e, g)
      BY <2>0, <2>1, FindProperties
    <3>2. Kept(e, g, o, A_MONEY)
      BY <2>0, <3>1, CacheOnlyKept
    <3> QED BY <1>2, <2>0, <2>1, <3>2, FindSame, KeptSound
  <2>4. PICK h : h = pcache_save(g, o)
    OBVIOUS
  <2>5. /\ h \in Sound /\ Apart(g, h, o) /\ ~h.pcache[o].dirty
        /\ h.pcache[o].cached /\ SameAccount(g, h, o)
    BY <2>2, <2>3, <2>4, SaveFields, SaveSame
  <2>6. h \in States /\ f = pcache_reload1(h, o)
    BY <1>2, <2>1, <2>4, <2>5 DEF pcache_reload, Sound
  <2>7. /\ f \in States /\ f.text = h.text /\ Apart(h, f, o)
        /\ f.pcache[o].money = Stock(h, o)
        /\ f.pcache[o].dirty <=> h.pcache[o].dirty \/ h.text[o][A_MONEY] = Unset
        /\ f.pcache[o].queue = h.pcache[o].queue /\ f.pcache[o].cached = h.pcache[o].cached
    BY <2>6, Reload1Fields
  <2>8. h.pcache[o].money # Unset
    <3>1. h.pcache[o] \in Entry
      BY <2>6, ValueTypes
    <3>2. h.pcache[o].money \in Nat
      BY <3>1, EntryFields
    <3> QED BY <3>2, ListAssumption
  <2>9. SameAccount(h, f, o)
    BY <2>5, <2>7, <2>8 DEF SameAccount, Held, Backed, Balance, Counted, Stock
  <2>10. Apart(e, f, o)
    BY <2>2, <2>5, <2>7, ApartTwice
  <2>11. g.kind = e.kind /\ h.kind = e.kind /\ g.lost \subseteq h.lost /\ h.lost \subseteq f.lost
    BY <2>2, <2>5, <2>7 DEF Apart
  <2>12. SameAccount(e, h, o)
    BY <2>3, <2>5, <2>11, SameTwice
  <2> QED BY <2>9, <2>10, <2>11, <2>12, SameTwice
<1> QED BY <1>1, <1>2

LEMMA PutSame ==
  ASSUME NEW e \in States, NEW o \in Object, NEW a \in Number, a # A_MONEY,
         NEW v \in ValueOf(a), NEW f, f = Put(e, o, a, v)
  PROVE  Apart(e, f, o) /\ SameAccount(e, f, o)
<1>1. PutDone(e, f, o, a, v)
  BY PutProperties
<1>2. e.text[o] \in [Number -> Values]
  BY StateFields DEF Attributes
<1>3. f.text[o][A_MONEY] = e.text[o][A_MONEY]
  BY <1>1, <1>2, NumberTypes DEF PutDone
<1>4. f.pcache = e.pcache /\ Apart(e, f, o)
  BY <1>1 DEF PutDone, Others, Apart
<1> QED BY <1>3, <1>4 DEF SameAccount, Held, Backed, Balance, Counted, Stock

(* A change of any attribute but A_MONEY leaves the account alone.         *)
LEMMA AddSame ==
  ASSUME NEW e \in Sound, NEW o \in Object, NEW a \in Number, a # A_MONEY,
         NEW v \in ValueOf(a), NEW f, f = atr_add_raw(e, o, a, v)
  PROVE  Apart(e, f, o) /\ SameAccount(e, f, o)
<1>1. PICK g : g = Put(e, o, a, v)
  OBVIOUS
<1>2. e \in States
  BY DEF Sound
<1>3. Apart(e, g, o) /\ SameAccount(e, g, o)
  BY <1>1, <1>2, PutSame
<1>4. g \in Sound
  <2>1. PutDone(e, g, o, a, v)
    BY <1>1, <1>2, PutProperties
  <2>2. Kept(e, g, o, a)
    BY <1>2, <2>1, PutKept
  <2> QED BY <2>2, KeptSound
<1>5. CASE f = g
  BY <1>3, <1>5
<1>6. CASE f = pcache_reload(g, o)
  <2>1. Apart(g, f, o) /\ SameAccount(g, f, o)
    BY <1>4, <1>6, ReloadSame
  <2>2. g.kind = e.kind /\ g.lost \subseteq f.lost
    BY <1>3, <2>1 DEF Apart
  <2> QED BY <1>3, <2>1, <2>2, ApartTwice, SameTwice
<1> QED BY <1>1, <1>5, <1>6 DEF atr_add_raw

-----------------------------------------------------------------------------
(* The cache is written or trimmed: nobody sees it.                        *)

LEMMA SaveQuiet ==
  ASSUME NEW e \in Sound, NEW o \in Object, NEW f, f = pcache_save(e, o)
  PROVE  Quiet(e, f)
BY SaveFields, SaveSame, ApartQuiet

LEMMA TrimmedQuiet ==
  ASSUME NEW e \in Sound, NEW o \in Object, NEW f, f = TrimmedOne(e, o)
  PROVE  Quiet(e, f)
<1>0. e \in States /\ e.pcache[o] \in Entry
  <2>1. e \in States
    BY DEF Sound
  <2> QED BY <2>1, ValueTypes
<1>1. CASE Trimmed(e, o)
  <2>1. PICK g : g = pcache_save(e, o)
    OBVIOUS
  <2>2. /\ g \in Sound /\ Apart(e, g, o) /\ SameUser(e, g, o)
        /\ o \notin g.lost => g.text[o][A_MONEY] = IF e.pcache[o].dirty THEN e.pcache[o].money ELSE e.text[o][A_MONEY]
    BY <2>1, SaveFields
  <2>3. f = WithEntry(g, o, NoEntry) /\ g \in States
    BY <1>1, <2>1, <2>2 DEF TrimmedOne, WithEntry, Sound
  <2>4. f.text = g.text /\ f.pcache[o] = NoEntry /\ Apart(g, f, o) /\ f.lost = g.lost
    BY <2>3, NoEntryType, EntryReplaced
  <2>5. Apart(e, f, o) /\ SameUser(e, f, o)
    BY <2>2, <2>4, ApartTwice DEF SameUser
  <2>6. ~f.pcache[o].cached /\ ~f.pcache[o].dirty
    BY <2>4 DEF NoEntry
  <2>7. e.pcache[o].queue = 0
    BY <1>1 DEF Trimmed
  <2>8. e.pcache[o].money # Unset
    <3>1. e.pcache[o].money \in Nat
      BY <1>0, EntryFields
    <3> QED BY <3>1, ListAssumption
  <2>9. SameAccount(e, f, o)
    BY <2>2, <2>4, <2>6, <2>7, <2>8 DEF SameAccount, Held, Backed, Balance, Counted, Stock
  <2> QED BY <2>5, <2>9, ApartQuiet
<1>2. CASE ~Trimmed(e, o)
  <2>1. PICK x : x = [e.pcache[o] EXCEPT !.ref = FALSE]
    OBVIOUS
  <2>2. /\ x \in Entry /\ x.cached = e.pcache[o].cached /\ x.money = e.pcache[o].money
        /\ x.queue = e.pcache[o].queue /\ x.dirty = e.pcache[o].dirty
    BY <1>0, <2>1 DEF Entry
  <2>3. f = WithEntry(e, o, x)
    BY <1>0, <1>2, <2>1, StateFields DEF TrimmedOne, WithEntry
  <2>4. f.text = e.text /\ f.pcache[o] = x /\ Apart(e, f, o)
    BY <1>0, <2>2, <2>3, EntryReplaced
  <2>5. SameAccount(e, f, o) /\ SameUser(e, f, o)
    BY <2>2, <2>4 DEF SameAccount, SameUser, Held, Backed, Balance, Counted, Stock
  <2> QED BY <2>4, <2>5, ApartQuiet
<1> QED BY <1>1, <1>2

(* SetToSeq lists every member.                                            *)
LEMMA EveryMember ==
  ASSUME NEW T, T \subseteq Object, NEW x \in T
  PROVE  \E i \in 1 .. Len(SetToSeq(T)) : SetToSeq(T)[i] = x
<1>1. IsFiniteSet(T)
  BY NamesAssumption, FS_Subset
<1>2. PICK n \in Nat : n = Cardinality(T)
  BY <1>1, FS_CardinalityType
<1>3. ExistsBijection(1 .. n, T)
  BY <1>1, <1>2, FS_CardinalityType
<1>4. PICK f : f \in Bijection(1 .. n, T)
  BY <1>3 DEF ExistsBijection
<1>5. \E h \in [1 .. n -> T] : IsInjective(h)
  <2>1. f \in [1 .. n -> T] /\ IsInjective(f)
    BY <1>4 DEF Bijection, Injection, IsInjective
  <2> QED BY <2>1
<1>6. PICK h : h = SetToSeq(T)
  OBVIOUS
<1>7. h \in [1 .. n -> T] /\ IsInjective(h)
  BY <1>2, <1>5, <1>6 DEF SetToSeq
<1>8. h \in Injection(1 .. n, T)
  BY <1>7 DEF Injection, IsInjective
<1>9. Cardinality(1 .. n) = n
  BY FS_Interval
<1>10. h \in Surjection(1 .. n, T)
  BY <1>1, <1>2, <1>8, <1>9, FS_Injection
<1>11. \E i \in 1 .. n : h[i] = x
  BY <1>10 DEF Surjection
<1>12. Len(h) = n
  BY <1>7
<1> QED BY <1>6, <1>11, <1>12

(* Of the entries that wait to be written, those of the first k of s do    *)
(* not any more.                                                           *)
Written(f, e, s, k) ==
  \A p \in Object : ~e.pcache[p].dirty \/ (\E i \in 1 .. k : s[i] = p) => ~f.pcache[p].dirty

LEMMA SyncQuiet ==
  ASSUME NEW e \in Sound, NEW f, f = pcache_sync(e)
  PROVE  /\ Quiet(e, f)
         /\ (\A p \in Object : Held(e, p)) => \A p \in Object : ~f.pcache[p].dirty
<1>1. PICK s : s = Entries(e)
  OBVIOUS
<1>2. s \in Seq(Object)
  BY <1>1, EntriesType
<1>3. PICK g : g = Saving(e, s)
  OBVIOUS
<1>4. /\ g[0] = e /\ \A k \in 0 .. Len(s) : g[k] \in Sound
      /\ \A k \in 1 .. Len(s) : g[k] = pcache_save(g[k - 1], s[k])
  BY <1>2, <1>3, SavingRounds
<1>5. PICK n \in Nat : n = Len(s)
  BY <1>2
<1>6. f = g[n]
  BY <1>1, <1>3, <1>5 DEF pcache_sync
<1> DEFINE P == [k \in 0 .. n |-> {h \in Sound : Quiet(e, h) /\ Written(h, e, s, k)}]
<1>7. ASSUME NEW k \in 1 .. n, g[k - 1] \in P[k - 1] PROVE g[k] \in P[k]
  <2>1. k - 1 \in 0 .. n /\ k \in 0 .. n /\ s[k] \in Object
    BY <1>2, <1>5
  <2>2. g[k - 1] \in Sound /\ Quiet(e, g[k - 1]) /\ Written(g[k - 1], e, s, k - 1)
    BY <1>7, <2>1
  <2>3. g[k] = pcache_save(g[k - 1], s[k]) /\ g[k] \in Sound
    BY <1>4, <1>5, <2>1
  <2>4. Quiet(g[k - 1], g[k])
    BY <2>1, <2>2, <2>3, SaveQuiet
  <2>5. Quiet(e, g[k])
    BY <2>2, <2>4, QuietTwice
  <2>6. Apart(g[k - 1], g[k], s[k]) /\ ~g[k].pcache[s[k]].dirty
    BY <2>1, <2>2, <2>3, SaveFields
  <2>7. Written(g[k], e, s, k)
    <3> SUFFICES ASSUME NEW p \in Object, ~e.pcache[p].dirty \/ \E i \in 1 .. k : s[i] = p
                 PROVE  ~g[k].pcache[p].dirty
      BY DEF Written
    <3>1. CASE p = s[k]
      BY <2>6, <3>1
    <3>2. CASE p # s[k]
      <4>1. \A i \in 1 .. k : i = k \/ i \in 1 .. k - 1
        OBVIOUS
      <4>2. ~e.pcache[p].dirty \/ \E i \in 1 .. k - 1 : s[i] = p
        BY <3>2, <4>1
      <4>3. ~g[k - 1].pcache[p].dirty
        BY <2>2, <4>2 DEF Written
      <4> QED BY <2>6, <3>2, <4>3 DEF Apart
    <3> QED BY <3>1, <3>2
  <2> QED BY <2>1, <2>3, <2>5, <2>7
<1>8. g[0] \in P[0]
  <2>1. Quiet(e, e) /\ Written(e, e, s, 0)
    BY QuietSelf DEF Written
  <2> QED BY <1>4, <2>1
<1>9. \A k \in 0 .. n : g[k] \in P[k]
  <2> HIDE DEF P
  <2> QED BY <1>7, <1>8, RoundInduction
<1>10. n \in 0 .. n
  OBVIOUS
<1>11. Quiet(e, f) /\ Written(f, e, s, n)
  BY <1>6, <1>9, <1>10
<1>12. ASSUME NEW p \in Object, Held(e, p) PROVE ~f.pcache[p].dirty
  <2>1. CASE ~e.pcache[p].dirty
    BY <1>11, <2>1 DEF Written
  <2>2. CASE e.pcache[p].dirty
    <3>1. e.pcache[p].cached
      BY <1>12, <2>2 DEF Held
    <3>2. PICK T : T = {q \in Object : e.pcache[q].cached}
      OBVIOUS
    <3>3. T \subseteq Object /\ p \in T /\ s = SetToSeq(T)
      BY <1>1, <3>1, <3>2 DEF Entries
    <3>4. \E i \in 1 .. n : s[i] = p
      BY <1>5, <3>3, EveryMember
    <3> QED BY <1>11, <3>4 DEF Written
  <2> QED BY <2>1, <2>2
<1> QED BY <1>11, <1>12

LEMMA StoreQuiet ==
  ASSUME NEW e \in Sound, NEW f, f = al_store(e)
  PROVE  Quiet(e, f) /\ f.text = e.text /\ f.pcache = e.pcache
<1>1. f.text = e.text /\ f.pcache = e.pcache /\ f.kind = e.kind /\ f.lost = e.lost
  BY StoreProperties DEF Sound
<1> QED BY <1>1 DEF Quiet, SameUser, SameAccount, Held, Backed, Balance, Counted, Stock

LEMMA DumpQuiet ==
  ASSUME NEW e \in Sound, NEW f, f = pcache_sync(al_store(e))
  PROVE  /\ Quiet(e, f)
         /\ (\A p \in Object : Held(e, p)) => \A p \in Object : ~f.pcache[p].dirty
<1>1. PICK g : g = al_store(e)
  OBVIOUS
<1>2. g \in Sound /\ Quiet(e, g) /\ g.pcache = e.pcache
  BY <1>1, StoreSound, StoreQuiet
<1>3. /\ Quiet(g, f)
      /\ (\A p \in Object : Held(g, p)) => \A p \in Object : ~f.pcache[p].dirty
  BY <1>1, <1>2, SyncQuiet
<1> QED BY <1>2, <1>3, QuietTwice DEF Held

LEMMA TrimQuiet ==
  ASSUME NEW e \in Sound, NEW f, f = pcache_trim(e)
  PROVE  Quiet(e, f)
<1>1. PICK s : s = Entries(e)
  OBVIOUS
<1>2. s \in Seq(Object)
  BY <1>1, EntriesType
<1>3. PICK g : g = Trimming(e, s)
  OBVIOUS
<1>4. /\ g[0] = e /\ \A k \in 0 .. Len(s) : g[k] \in Sound
      /\ \A k \in 1 .. Len(s) : g[k] = TrimmedOne(g[k - 1], s[k])
  BY <1>2, <1>3, TrimmingRounds
<1>5. PICK n \in Nat : n = Len(s)
  BY <1>2
<1>6. f = g[n]
  BY <1>1, <1>3, <1>5 DEF pcache_trim
<1> DEFINE P == [k \in 0 .. n |-> {h \in Sound : Quiet(e, h)}]
<1>7. ASSUME NEW k \in 1 .. n, g[k - 1] \in P[k - 1] PROVE g[k] \in P[k]
  <2>1. k - 1 \in 0 .. n /\ k \in 0 .. n /\ s[k] \in Object
    BY <1>2, <1>5
  <2>2. g[k - 1] \in Sound /\ Quiet(e, g[k - 1])
    BY <1>7, <2>1
  <2>3. g[k] = TrimmedOne(g[k - 1], s[k]) /\ g[k] \in Sound
    BY <1>4, <1>5, <2>1
  <2>4. Quiet(g[k - 1], g[k])
    BY <2>1, <2>2, <2>3, TrimmedQuiet
  <2>5. Quiet(e, g[k])
    BY <2>2, <2>4, QuietTwice
  <2> QED BY <2>1, <2>3, <2>5
<1>8. g[0] \in P[0]
  BY <1>4, QuietSelf
<1>9. \A k \in 0 .. n : g[k] \in P[k]
  <2> HIDE DEF P
  <2> QED BY <1>7, <1>8, RoundInduction
<1>10. n \in 0 .. n
  OBVIOUS
<1> QED BY <1>6, <1>9, <1>10

-----------------------------------------------------------------------------
(* Changes of one object.                                                  *)

(* Money is given, whatever the account was.                               *)
LEMMA PenniesOfPlayer ==
  ASSUME NEW e \in States, NEW o \in Object, OwnsOthers(e, o), NEW n \in Nat,
         NEW f, f = s_Pennies(e, o, n)
  PROVE  /\ Apart(e, f, o) /\ SameUser(e, f, o) /\ Held(f, o) /\ Backed(f, o)
         /\ Balance(f, o) = n /\ Counted(f, o) = Counted(e, o)
<1>1. PICK g : g = pcache_find(e, o)
  OBVIOUS
<1>2. g \in States /\ g.text = e.text /\ Apart(e, g, o) /\ g.pcache[o].cached
      /\ g.pcache[o].queue = Counted(e, o)
  BY <1>1, FindFields
<1>3. g.pcache \in [Object -> Entry] /\ g.pcache[o] \in Entry
  BY <1>2, StateFields
<1>4. PICK x : x = [g.pcache[o] EXCEPT !.money = n, !.dirty = TRUE]
  OBVIOUS
<1>5. /\ x \in Entry /\ x.money = n /\ x.dirty /\ x.cached = g.pcache[o].cached
      /\ x.queue = g.pcache[o].queue
  BY <1>3, <1>4 DEF Entry
<1>6. f = WithEntry(g, o, x)
  <2>1. f = [g EXCEPT !.pcache[o].money = n, !.pcache[o].dirty = TRUE]
    BY <1>1 DEF s_Pennies
  <2> QED BY <1>2, <1>3, <1>4, <2>1 DEF WithEntry, States
<1>7. f.text = g.text /\ f.pcache[o] = x /\ Apart(g, f, o)
  BY <1>2, <1>5, <1>6, EntryReplaced
<1>8. Apart(e, f, o)
  BY <1>2, <1>7, ApartTwice
<1>9. SameUser(e, f, o)
  BY <1>2, <1>7 DEF SameUser
<1>10. Held(f, o) /\ Backed(f, o) /\ Balance(f, o) = n
  BY <1>2, <1>5, <1>7 DEF Held, Backed, Balance
<1>11. Counted(f, o) = Counted(e, o)
  <2>1. Counted(f, o) = f.pcache[o].queue
    BY <1>2, <1>5, <1>7 DEF Counted
  <2> QED BY <1>2, <1>5, <1>7, <2>1
<1> QED BY <1>8, <1>9, <1>10, <1>11

LEMMA PenniesOfThing ==
  ASSUME NEW e \in Sound, NEW o \in Object, ~OwnsOthers(e, o), Good_obj(e, o),
         NEW n \in Nat, NEW f, f = s_Pennies(e, o, n)
  PROVE  /\ Apart(e, f, o) /\ SameUser(e, f, o) /\ f.pcache = e.pcache
         /\ (o \notin f.lost => f.text[o][A_MONEY] = n) /\ n # Unset
<1>0. e \in States /\ e.text[o] \in [Number -> Values]
  <2>1. e \in States
    BY DEF Sound
  <2>2. e.text[o] \in Attributes
    BY <2>1, ValueTypes
  <2> QED BY <2>1, <2>2 DEF Attributes
<1>1. f = atr_add_raw(e, o, A_MONEY, n)
  BY DEF s_Pennies
<1>2. n \in ValueOf(A_MONEY) /\ A_MONEY \in Number /\ n # Unset
  BY NumberTypes, ListAssumption
<1>3. PICK g : g = Put(e, o, A_MONEY, n)
  OBVIOUS
<1>4. PutDone(e, g, o, A_MONEY, n) /\ (o \notin g.lost => g.text[o] = [e.text[o] EXCEPT ![A_MONEY] = n])
  BY <1>0, <1>2, <1>3, PutProperties, PutExact
<1>5. g.pcache = e.pcache /\ Apart(e, g, o)
  BY <1>4 DEF PutDone, Others, Apart
<1>6. (o \notin g.lost => g.text[o][A_MONEY] = n) /\ SameUser(e, g, o)
  <2>1. o \notin g.lost => g.text[o][A_MONEY] = n
    BY <1>0, <1>2, <1>4
  <2>2. g.text[o] = e.text[o] \/ g.text[o] = [e.text[o] EXCEPT ![A_MONEY] = n]
    BY <1>4 DEF PutDone
  <2>3. SameUser(e, g, o)
    BY <1>0, <2>2, NumberTypes DEF SameUser
  <2> QED BY <2>1, <2>3
<1>7. pcache_reload(g, o) = g
  BY <1>5 DEF pcache_reload, OwnsOthers, Apart
<1>8. f = g
  BY <1>1, <1>3, <1>7 DEF atr_add_raw
<1> QED BY <1>2, <1>5, <1>6, <1>8

LEMMA QueueGiven ==
  ASSUME NEW e \in States, NEW o \in Object, OwnsOthers(e, o), NEW n \in Int,
         NEW f, f = a_Queue(e, o, n)
  PROVE  /\ Apart(e, f, o) /\ f.text = e.text
         /\ Held(f, o) /\ (Backed(e, o) => Backed(f, o))
         /\ Balance(f, o) = Balance(e, o) /\ Counted(f, o) = Counted(e, o) + n
<1>1. PICK g : g = pcache_find(e, o)
  OBVIOUS
<1>2. /\ g \in States /\ g.text = e.text /\ Apart(e, g, o) /\ g.pcache[o].cached
      /\ g.pcache[o].money = Balance(e, o) /\ g.pcache[o].queue = Counted(e, o)
      /\ g.pcache[o].dirty <=> IF e.pcache[o].cached THEN e.pcache[o].dirty
                               ELSE e.text[o][A_MONEY] = Unset
  BY <1>1, FindFields
<1>3. g.pcache \in [Object -> Entry] /\ g.pcache[o] \in Entry
  BY <1>2, StateFields
<1>4. PICK x : x = [g.pcache[o] EXCEPT !.queue = @ + n]
  OBVIOUS
<1>5. /\ x \in Entry /\ x.money = g.pcache[o].money /\ x.dirty = g.pcache[o].dirty
      /\ x.cached = g.pcache[o].cached /\ x.queue = g.pcache[o].queue + n
  BY <1>3, <1>4 DEF Entry
<1>6. f = WithEntry(g, o, x)
  BY <1>1, <1>2, <1>3, <1>4 DEF a_Queue, WithEntry, States
<1>7. f.text = g.text /\ f.pcache[o] = x /\ Apart(g, f, o)
  BY <1>2, <1>5, <1>6, EntryReplaced
<1>8. Apart(e, f, o)
  BY <1>2, <1>7, ApartTwice
<1>9. Backed(e, o) => Backed(f, o)
  BY <1>2, <1>5, <1>7 DEF Backed, Balance, Stock
<1> QED BY <1>2, <1>5, <1>7, <1>8, <1>9 DEF Held, Balance, Counted

-----------------------------------------------------------------------------
(* All that an object has under user numbers, and its account, after it is *)
(* destroyed, copied to, and renumbered.                                   *)

Freed(e, f, o) ==
  Apart(e, f, o) /\ (Held(e, o) => Held(f, o)) /\ (~OwnsOthers(e, o) => f.pcache[o] = e.pcache[o])

LEMMA ClearFreed ==
  ASSUME NEW e \in Sound, NEW o \in Object, NEW a \in Number, NEW f, f = atr_clr(e, o, a)
  PROVE  Freed(e, f, o)
<1>1. f = atr_add_raw(e, o, a, Unset) /\ Unset \in ValueOf(a) /\ e \in States
  BY NumberTypes DEF atr_clr, Sound
<1>2. PICK g : g = Put(e, o, a, Unset)
  OBVIOUS
<1>3. PutDone(e, g, o, a, Unset)
  BY <1>1, <1>2, PutProperties
<1>4. g.pcache = e.pcache /\ g.kind = e.kind /\ Apart(e, g, o)
  BY <1>3 DEF PutDone, Others, Apart
<1>5. CASE a # A_QUEUEMAX
  <2>1. f = g
    BY <1>1, <1>2, <1>5 DEF atr_add_raw
  <2> QED BY <1>4, <2>1 DEF Freed, Held
<1>6. CASE a = A_QUEUEMAX
  <2>1. a # A_MONEY
    BY <1>6, NamesAssumption
  <2>2. Apart(e, f, o) /\ SameAccount(e, f, o)
    BY <1>1, <2>1, AddSame
  <2>3. ASSUME ~OwnsOthers(e, o) PROVE f.pcache[o] = e.pcache[o]
    <3>1. ~OwnsOthers(g, o)
      BY <1>4, <2>3 DEF OwnsOthers
    <3>2. CASE f = g
      BY <1>4, <3>2
    <3>3. CASE f = pcache_reload(g, o)
      <4>1. f = g
        BY <3>1, <3>3 DEF pcache_reload
      <4> QED BY <1>4, <4>1
    <3> QED BY <1>1, <1>2, <3>2, <3>3 DEF atr_add_raw
  <2> QED BY <2>2, <2>3 DEF Freed, SameAccount
<1> QED BY <1>5, <1>6

LEMMA FreedTwice ==
  ASSUME NEW e, NEW f, NEW g, NEW o, Freed(e, f, o), Freed(f, g, o)
  PROVE  Freed(e, g, o)
BY DEF Freed, Apart, OwnsOthers

LEMMA FreeFields ==
  ASSUME NEW e \in Sound, NEW o \in Object, NEW f, f = atr_free(e, o)
  PROVE  Freed(e, f, o) /\ \A b \in UserNumber : f.text[o][b] = Unset
<1>1. PICK s : s = ListOf(e, o)
  OBVIOUS
<1>2. s \in Seq(Number)
  BY <1>1, ListType DEF Sound
<1>3. PICK g : g = Clearing(e, o, s)
  OBVIOUS
<1>4. /\ g[0] = e /\ \A k \in 0 .. Len(s) : g[k] \in Sound
      /\ \A k \in 1 .. Len(s) : g[k] = atr_clr(g[k - 1], o, s[k])
  BY <1>2, <1>3, ClearingRounds
<1>5. PICK n \in Nat : n = Len(s)
  BY <1>2
<1>6. PICK h : h = g[n]
  OBVIOUS
<1>7. h \in Sound /\ Freed(e, h, o)
  <2> DEFINE P == [k \in 0 .. n |-> {x \in Sound : Freed(e, x, o)}]
  <2>1. ASSUME NEW k \in 1 .. n, g[k - 1] \in P[k - 1] PROVE g[k] \in P[k]
    <3>1. k - 1 \in 0 .. n /\ k \in 0 .. n /\ s[k] \in Number
      BY <1>2, <1>5
    <3>2. g[k - 1] \in Sound /\ Freed(e, g[k - 1], o)
      BY <2>1, <3>1
    <3>3. g[k] = atr_clr(g[k - 1], o, s[k]) /\ g[k] \in Sound
      BY <1>4, <1>5, <3>1
    <3>4. Freed(g[k - 1], g[k], o)
      BY <3>1, <3>2, <3>3, ClearFreed
    <3>5. Freed(e, g[k], o)
      BY <3>2, <3>4, FreedTwice
    <3> QED BY <3>1, <3>3, <3>5
  <2>2. g[0] \in P[0]
    BY <1>4 DEF Freed, Apart
  <2>3. \A k \in 0 .. n : g[k] \in P[k]
    <3> HIDE DEF P
    <3> QED BY <2>1, <2>2, RoundInduction
  <2>4. n \in 0 .. n
    OBVIOUS
  <2> QED BY <1>6, <2>3, <2>4
<1>8. PICK x : x = IF h.mod_al_id = o THEN al_store(h) ELSE h
  OBVIOUS
<1>9. /\ x \in States /\ x.text = h.text /\ x.pcache = h.pcache /\ x.kind = h.kind /\ x.lost = h.lost
      /\ x.mod_al_id # o
  <2>1. h \in States /\ NOTHING \notin Object
    BY <1>7, ListAssumption DEF Sound
  <2>2. CASE h.mod_al_id = o
    BY <1>8, <2>1, <2>2, StoreProperties
  <2>3. CASE h.mod_al_id # o
    BY <1>8, <2>1, <2>3
  <2> QED BY <2>2, <2>3
<1>10. f = [x EXCEPT !.list[o] = <<>>]
  BY <1>1, <1>3, <1>5, <1>6, <1>8 DEF atr_free
<1>11. f.text = h.text /\ f.pcache = h.pcache /\ f.kind = h.kind /\ f.lost = h.lost
  BY <1>9, <1>10 DEF States
<1>12. Freed(e, f, o)
  BY <1>7, <1>11 DEF Freed, Apart, Held
<1>13. ListOf(f, o) = <<>>
  <2>1. x.list \in [Object -> Seq(Number)]
    BY <1>9, StateFields
  <2>2. f.list = [x.list EXCEPT ![o] = <<>>] /\ f.mod_al_id = x.mod_al_id
    BY <1>9, <1>10 DEF States
  <2> QED BY <1>9, <2>1, <2>2 DEF ListOf
<1>14. Exact(f.text[o], <<>>)
  BY <1>13, FreeProperties DEF Sound
<1>15. \A b \in Number \ {A_MONEY} : f.text[o][b] = Unset
  BY <1>14 DEF Exact
<1> QED BY <1>12, <1>15, NumberTypes

-----------------------------------------------------------------------------
(* What users gave an object is copied or moved.                           *)

(* One attribute of o is given, nothing else is changed for users.         *)
LEMMA AddFields ==
  ASSUME NEW e \in Sound, NEW o \in Object, NEW a \in UserNumber, NEW v \in ValueOf(a),
         NEW f, f = atr_add_raw(e, o, a, v)
  PROVE  /\ f \in Sound /\ Apart(e, f, o) /\ SameAccount(e, f, o)
         /\ Got(f, o, a, v) /\ \A b \in UserNumber : b # a => f.text[o][b] = e.text[o][b]
<1>1. a \in Number /\ a # A_MONEY /\ e \in States
  BY NumberTypes DEF Sound
<1>2. Kept(e, f, o, a)
  BY <1>1, AddProperties
<1>3. f \in Sound /\ Apart(e, f, o) /\ SameAccount(e, f, o) /\ Got(f, o, a, v)
  BY <1>1, <1>2, KeptSound, AddSame, AddGot
<1>4. ASSUME NEW b \in UserNumber, b # a PROVE f.text[o][b] = e.text[o][b]
  BY <1>2, <1>4, NumberTypes DEF Kept
<1> QED BY <1>3, <1>4

LEMMA ClearFields ==
  ASSUME NEW e \in Sound, NEW o \in Object, NEW a \in UserNumber, NEW f, f = atr_clr(e, o, a)
  PROVE  /\ f \in Sound /\ Apart(e, f, o) /\ SameAccount(e, f, o)
         /\ f.text[o][a] = Unset /\ \A b \in UserNumber : b # a => f.text[o][b] = e.text[o][b]
<1>1. f = atr_add_raw(e, o, a, Unset) /\ Unset \in ValueOf(a)
  BY DEF atr_clr, ValueOf
<1>2. f.text[o][a] = Unset
  BY NumberTypes, ClearProperties DEF Sound
<1> QED BY <1>1, <1>2, AddFields

LEMMA SameSelf ==
  ASSUME NEW e, NEW o
  PROVE  Apart(e, e, o) /\ SameAccount(e, e, o)
BY DEF Apart, SameAccount

(* The numbers in copied that are among the first k of s have been copied. *)
CopiedTo(h, e, o, p, copied, s, k) ==
  /\ Apart(e, h, o) /\ SameAccount(e, h, o)
  /\ \A b \in UserNumber :
       IF b \in copied /\ \E i \in 1 .. k : s[i] = b
       THEN Got(h, o, b, e.text[p][b]) ELSE h.text[o][b] = e.text[o][b]

LEMMA CopiedRound ==
  ASSUME NEW e \in Sound, NEW o \in Object, NEW p \in Object,
         NEW copied, copied \subseteq UserNumber, NEW s \in Seq(Number), NEW k \in 1 .. Len(s),
         NEW h \in Sound, CopiedTo(h, e, o, p, copied, s, k - 1),
         NEW f, f = CopiedOne(h, o, s[k], e.text[p][s[k]], copied)
  PROVE  CopiedTo(f, e, o, p, copied, s, k)
<1>0. \A i \in 1 .. k : i = k \/ i \in 1 .. k - 1
  OBVIOUS
<1>1. CASE s[k] \notin copied
  <2>1. f = h
    BY <1>1 DEF CopiedOne
  <2>2. ASSUME NEW b \in UserNumber
        PROVE  b \in copied /\ (\E i \in 1 .. k : s[i] = b) <=> b \in copied /\ \E i \in 1 .. k - 1 : s[i] = b
    <3>1. \A i \in 1 .. k - 1 : i \in 1 .. k
      OBVIOUS
    <3> QED BY <1>0, <1>1, <3>1
  <2> QED BY <2>1, <2>2 DEF CopiedTo
<1>2. CASE s[k] \in copied
  <2>1. s[k] \in UserNumber /\ s[k] \in Number
    BY <1>2
  <2>2. PICK v : v = e.text[p][s[k]]
    OBVIOUS
  <2>3. v \in ValueOf(s[k])
    <3>1. e.text[p] \in Attributes
      BY StateFields DEF Sound
    <3> QED BY <2>1, <2>2, <3>1 DEF Attributes
  <2>4. f = atr_add_raw(h, o, s[k], v)
    BY <1>2, <2>2 DEF CopiedOne
  <2>5. /\ Apart(h, f, o) /\ SameAccount(h, f, o)
        /\ Got(f, o, s[k], v) /\ \A b \in UserNumber : b # s[k] => f.text[o][b] = h.text[o][b]
    BY <2>1, <2>3, <2>4, AddFields
  <2>6. Apart(e, f, o) /\ SameAccount(e, f, o)
    <3>1. Apart(e, h, o) /\ SameAccount(e, h, o) /\ h.kind = e.kind
      BY DEF CopiedTo, Apart
    <3>2. h.lost \subseteq f.lost
      BY <2>5 DEF Apart
    <3> QED BY <2>5, <3>1, <3>2, ApartTwice, SameTwice
  <2>7. ASSUME NEW b \in UserNumber
        PROVE  IF b \in copied /\ \E i \in 1 .. k : s[i] = b
               THEN Got(f, o, b, e.text[p][b]) ELSE f.text[o][b] = e.text[o][b]
    <3>1. CASE b = s[k]
      <4>1. \E i \in 1 .. k : s[i] = b
        BY <3>1
      <4> QED BY <1>2, <2>2, <2>5, <3>1, <4>1
    <3>2. CASE b # s[k]
      <4>1. (\E i \in 1 .. k : s[i] = b) <=> \E i \in 1 .. k - 1 : s[i] = b
        <5>1. \A i \in 1 .. k - 1 : i \in 1 .. k
          OBVIOUS
        <5> QED BY <1>0, <3>2, <5>1
      <4>2. f.text[o][b] = h.text[o][b]
        BY <2>5, <3>2
      <4>3. h.lost \subseteq f.lost
        BY <2>5 DEF Apart
      <4> QED BY <4>1, <4>2, <4>3 DEF CopiedTo, Got
    <3> QED BY <3>1, <3>2
  <2> QED BY <2>6, <2>7 DEF CopiedTo
<1> QED BY <1>1, <1>2

(* What is set under a user number is listed.                              *)
LEMMA Listed ==
  ASSUME NEW e \in Sound, NEW o \in Object, NEW b \in UserNumber
  PROVE  /\ e.text[o][b] # Unset <=> \E i \in 1 .. Len(ListOf(e, o)) : ListOf(e, o)[i] = b
         /\ e.text[o][b] # Unset <=> b \in Range(ListOf(e, o))
<1>1. Exact(e.text[o], ListOf(e, o)) /\ b \in Number /\ b # A_MONEY
  BY NumberTypes DEF Sound
<1>2. PICK l : l = ListOf(e, o)
  OBVIOUS
<1>3. l \in Seq(Number)
  BY <1>2, ListType DEF Sound
<1>4. e.text[o][b] # Unset <=> \E i \in 1 .. Len(l) : l[i] = b
  BY <1>1, <1>2 DEF Exact
<1>5. b \in Range(l) <=> \E i \in 1 .. Len(l) : l[i] = b
  BY <1>3 DEF Range
<1> QED BY <1>2, <1>4, <1>5

LEMMA CopyFields ==
  ASSUME NEW e \in Sound, NEW o \in Object, NEW p \in Object,
         NEW copied, copied \subseteq UserNumber, NEW f, f = atr_cpy(e, o, p, copied)
  PROVE  /\ Apart(e, f, o) /\ SameAccount(e, f, o)
         /\ \A b \in UserNumber :
              IF b \in copied /\ e.text[p][b] # Unset
              THEN Got(f, o, b, e.text[p][b]) ELSE f.text[o][b] = e.text[o][b]
<1>1. PICK s : s = ListOf(e, p)
  OBVIOUS
<1>2. s \in Seq(Number) /\ e.text[p] \in Attributes
  BY <1>1, ListType, StateFields DEF Sound
<1>3. PICK g : g = Copying(e, o, e.text[p], s, copied)
  OBVIOUS
<1>4. /\ g[0] = e /\ \A k \in 0 .. Len(s) : g[k] \in Sound
      /\ \A k \in 1 .. Len(s) : g[k] = CopiedOne(g[k - 1], o, s[k], e.text[p][s[k]], copied)
  BY <1>2, <1>3, CopyingRounds
<1>5. PICK n \in Nat : n = Len(s)
  BY <1>2
<1>6. f = g[n]
  BY <1>1, <1>3, <1>5 DEF atr_cpy
<1> DEFINE P == [k \in 0 .. n |-> {h \in Sound : CopiedTo(h, e, o, p, copied, s, k)}]
<1>7. ASSUME NEW k \in 1 .. n, g[k - 1] \in P[k - 1] PROVE g[k] \in P[k]
  <2>1. k - 1 \in 0 .. n /\ k \in 0 .. n /\ k \in 1 .. Len(s)
    BY <1>5
  <2>2. g[k - 1] \in Sound /\ CopiedTo(g[k - 1], e, o, p, copied, s, k - 1)
    BY <1>7, <2>1
  <2>3. g[k] = CopiedOne(g[k - 1], o, s[k], e.text[p][s[k]], copied) /\ g[k] \in Sound
    BY <1>4, <1>5, <2>1
  <2>4. CopiedTo(g[k], e, o, p, copied, s, k)
    BY <1>2, <2>1, <2>2, <2>3, CopiedRound
  <2> QED BY <2>1, <2>3, <2>4
<1>8. g[0] \in P[0]
  <2>1. CopiedTo(e, e, o, p, copied, s, 0)
    BY SameSelf DEF CopiedTo
  <2> QED BY <1>4, <2>1
<1>9. \A k \in 0 .. n : g[k] \in P[k]
  <2> HIDE DEF P
  <2> QED BY <1>7, <1>8, RoundInduction
<1>10. n \in 0 .. n
  OBVIOUS
<1>11. CopiedTo(f, e, o, p, copied, s, n)
  BY <1>6, <1>9, <1>10
<1>12. \A b \in UserNumber : e.text[p][b] # Unset <=> \E i \in 1 .. n : s[i] = b
  BY <1>1, <1>5, Listed
<1> QED BY <1>11, <1>12 DEF CopiedTo

-----------------------------------------------------------------------------
LEMMA MovedOneFields ==
  ASSUME NEW e \in Sound, NEW o \in Object, NEW a \in UserNumber, NEW b \in UserNumber, a # b,
         NEW f, f = MovedOne(e, o, a, b)
  PROVE  /\ f \in Sound /\ Apart(e, f, o) /\ SameAccount(e, f, o)
         /\ Got(f, o, b, PlainText(e, o, a))
         /\ \A c \in UserNumber : c # a /\ c # b => f.text[o][c] = e.text[o][c]
<1>1. PICK v : v = PlainText(e, o, a)
  OBVIOUS
<1>2. v \in ValueOf(b)
  BY <1>1, PlainTextType DEF Sound
<1>3. PICK g : g = atr_add_raw(e, o, b, v)
  OBVIOUS
<1>4. /\ g \in Sound /\ Apart(e, g, o) /\ SameAccount(e, g, o)
      /\ Got(g, o, b, v) /\ \A c \in UserNumber : c # b => g.text[o][c] = e.text[o][c]
  BY <1>2, <1>3, AddFields
<1>5. f = atr_clr(g, o, a)
  BY <1>1, <1>3 DEF MovedOne
<1>6. /\ f \in Sound /\ Apart(g, f, o) /\ SameAccount(g, f, o)
      /\ \A c \in UserNumber : c # a => f.text[o][c] = g.text[o][c]
  BY <1>4, <1>5, ClearFields
<1>7. g.kind = e.kind /\ g.lost \subseteq f.lost
  BY <1>4, <1>6 DEF Apart
<1>8. Apart(e, f, o) /\ SameAccount(e, f, o)
  BY <1>4, <1>6, <1>7, ApartTwice, SameTwice
<1> QED BY <1>1, <1>4, <1>6, <1>7, <1>8 DEF Got

(* What @dbclean makes of what an object has under the number a.           *)
MovedText(e, o, used, a) ==
  IF Target(used, a) # a /\ e.text[o][a] # Unset THEN PlainText(e, o, a) ELSE e.text[o][Target(used, a)]

(* The numbers among the first k of s have been moved, the others wait.    *)
MovedTo(h, e, o, used, s, k) ==
  /\ Apart(e, h, o) /\ SameAccount(e, h, o)
  /\ \A a \in used :
       IF Target(used, a) # a /\ \E i \in 1 .. k : s[i] = a
       THEN Got(h, o, Target(used, a), PlainText(e, o, a))
       ELSE h.text[o][a] = e.text[o][a] /\ h.text[o][Target(used, a)] = e.text[o][Target(used, a)]

LEMMA MovedRound ==
  ASSUME NEW e \in Sound, NEW o \in Object, NEW used, used \subseteq UserNumber,
         NEW s \in Seq(Number), \A i, j \in 1 .. Len(s) : s[i] = s[j] => i = j,
         NEW k \in 1 .. Len(s), NEW h \in Sound, MovedTo(h, e, o, used, s, k - 1),
         NEW f, f = MovedIfHigh(h, o, s[k], used)
  PROVE  MovedTo(f, e, o, used, s, k)
<1>0. \A i \in 1 .. k : i = k \/ i \in 1 .. k - 1
  OBVIOUS
<1>1. \A i \in 1 .. k - 1 : i \in 1 .. k /\ i \in 1 .. Len(s) /\ i # k
  OBVIOUS
<1>2. Apart(e, h, o) /\ SameAccount(e, h, o) /\ h.kind = e.kind
  BY DEF MovedTo, Apart
<1>3. \A a \in used : a # s[k] => ((\E i \in 1 .. k : s[i] = a) <=> \E i \in 1 .. k - 1 : s[i] = a)
  BY <1>0, <1>1
<1>4. CASE ~(s[k] \in used /\ Target(used, s[k]) # s[k])
  <2>1. f = h
    BY <1>4 DEF MovedIfHigh
  <2>2. ASSUME NEW a \in used, Target(used, a) # a
        PROVE  (\E i \in 1 .. k : s[i] = a) <=> \E i \in 1 .. k - 1 : s[i] = a
    BY <1>3, <1>4, <2>2
  <2> QED BY <2>1, <2>2 DEF MovedTo
<1>5. CASE s[k] \in used /\ Target(used, s[k]) # s[k]
  <2>1. PICK c : c = s[k]
    OBVIOUS
  <2>2. PICK b : b = Target(used, c)
    OBVIOUS
  <2>3. c \in used /\ c \in UserNumber /\ b \in UserNumber /\ b # c
    BY <1>5, <2>1, <2>2, TargetProperties DEF Renumbers
  <2>4. f = MovedOne(h, o, c, b)
    BY <1>5, <2>1, <2>2 DEF MovedIfHigh
  <2>5. /\ Apart(h, f, o) /\ SameAccount(h, f, o)
        /\ Got(f, o, b, PlainText(h, o, c)) /\ h.lost \subseteq f.lost
        /\ \A x \in UserNumber : x # c /\ x # b => f.text[o][x] = h.text[o][x]
    BY <2>3, <2>4, MovedOneFields DEF Apart
  <2>6. Apart(e, f, o) /\ SameAccount(e, f, o)
    BY <1>2, <2>5, ApartTwice, SameTwice
  <2>7. Got(f, o, b, PlainText(e, o, c))
    <3>1. ~\E i \in 1 .. k - 1 : s[i] = c
      BY <1>1, <2>1
    <3>2. h.text[o][c] = e.text[o][c]
      BY <2>3, <3>1 DEF MovedTo
    <3> QED BY <2>5, <3>2 DEF PlainText
  <2>8. ASSUME NEW a \in used, a # c
        PROVE  /\ Target(used, a) \in UserNumber /\ Target(used, a) # b /\ Target(used, a) # c
               /\ a \in UserNumber /\ a # b
    <3>1. RenumberFrom(used) \in Nat /\ used \subseteq Nat
      BY UsedFinite, NamesAssumption DEF RenumberFrom
    <3>2. b < RenumberFrom(used) /\ c >= RenumberFrom(used) /\ Target(used, a) < RenumberFrom(used)
      BY <2>2, <2>3, TargetProperties
    <3>3. Target(used, a) \in UserNumber /\ Target(used, a) # b
      BY <2>2, <2>3, <2>8, TargetProperties DEF Renumbers
    <3>4. Target(used, a) # c
      <4>1. Target(used, a) \in Nat /\ c \in Nat
        BY <2>3, <3>3, NumberTypes
      <4> QED BY <3>1, <3>2, <4>1
    <3>5. a # b
      <4>1. CASE Target(used, a) = a
        BY <3>3, <4>1
      <4>2. CASE Target(used, a) # a
        <5>1. a >= RenumberFrom(used)
          BY <4>2, TargetProperties
        <5>2. a \in Nat /\ b \in Nat
          BY <2>3, <3>1, NumberTypes
        <5> QED BY <3>1, <3>2, <5>1, <5>2
      <4> QED BY <4>1, <4>2
    <3> QED BY <3>3, <3>4, <3>5
  <2>9. ASSUME NEW a \in used
        PROVE  IF Target(used, a) # a /\ \E i \in 1 .. k : s[i] = a
               THEN Got(f, o, Target(used, a), PlainText(e, o, a))
               ELSE f.text[o][a] = e.text[o][a] /\ f.text[o][Target(used, a)] = e.text[o][Target(used, a)]
    <3>1. CASE a = c
      <4>1. \E i \in 1 .. k : s[i] = a
        BY <2>1, <3>1
      <4> QED BY <2>2, <2>3, <2>7, <3>1, <4>1
    <3>2. CASE a # c
      <4>1. f.text[o][a] = h.text[o][a] /\ f.text[o][Target(used, a)] = h.text[o][Target(used, a)]
        BY <2>5, <2>8, <3>2
      <4>2. (\E i \in 1 .. k : s[i] = a) <=> \E i \in 1 .. k - 1 : s[i] = a
        BY <1>3, <2>1, <3>2
      <4> QED BY <2>5, <4>1, <4>2 DEF MovedTo, Got
    <3> QED BY <3>1, <3>2
  <2> QED BY <2>6, <2>9 DEF MovedTo
<1> QED BY <1>4, <1>5

LEMMA MovedFields ==
  ASSUME NEW e \in Sound, NEW o \in Object, NEW used, used \subseteq UserNumber,
         NEW f, f = Moved(e, o, used)
  PROVE  /\ f \in Sound /\ Apart(e, f, o) /\ SameAccount(e, f, o)
         /\ \A a \in used : Got(f, o, Target(used, a), MovedText(e, o, used, a))
<1>0. Renumbers(used)
  BY TargetProperties
<1>1. PICK s : s = ListOf(e, o)
  OBVIOUS
<1>2. s \in Seq(Number) /\ \A i, j \in 1 .. Len(s) : s[i] = s[j] => i = j
  BY <1>1, ListType DEF Sound, Exact
<1>3. PICK g : g = Moving(e, o, used, s)
  OBVIOUS
<1>4. /\ g[0] = e /\ \A k \in 0 .. Len(s) : g[k] \in Sound
      /\ \A k \in 1 .. Len(s) : g[k] = MovedIfHigh(g[k - 1], o, s[k], used)
  BY <1>0, <1>2, <1>3, MovingRounds
<1>5. PICK n \in Nat : n = Len(s)
  BY <1>2
<1>6. f = g[n]
  BY <1>1, <1>3, <1>5 DEF Moved
<1> DEFINE P == [k \in 0 .. n |-> {h \in Sound : MovedTo(h, e, o, used, s, k)}]
<1>7. ASSUME NEW k \in 1 .. n, g[k - 1] \in P[k - 1] PROVE g[k] \in P[k]
  <2>1. k - 1 \in 0 .. n /\ k \in 0 .. n /\ k \in 1 .. Len(s)
    BY <1>5
  <2>2. g[k - 1] \in Sound /\ MovedTo(g[k - 1], e, o, used, s, k - 1)
    BY <1>7, <2>1
  <2>3. g[k] = MovedIfHigh(g[k - 1], o, s[k], used) /\ g[k] \in Sound
    BY <1>4, <1>5, <2>1
  <2>4. MovedTo(g[k], e, o, used, s, k)
    BY <1>2, <2>1, <2>2, <2>3, MovedRound
  <2> QED BY <2>1, <2>3, <2>4
<1>8. g[0] \in P[0]
  <2>1. MovedTo(e, e, o, used, s, 0)
    BY SameSelf DEF MovedTo
  <2> QED BY <1>4, <2>1
<1>9. \A k \in 0 .. n : g[k] \in P[k]
  <2> HIDE DEF P
  <2> QED BY <1>7, <1>8, RoundInduction
<1>10. n \in 0 .. n
  OBVIOUS
<1>11. f \in Sound /\ MovedTo(f, e, o, used, s, n)
  BY <1>6, <1>9, <1>10
<1>12. \A a \in used : e.text[o][a] # Unset <=> \E i \in 1 .. n : s[i] = a
  BY <1>1, <1>5, Listed
<1>13. ASSUME NEW a \in used PROVE Got(f, o, Target(used, a), MovedText(e, o, used, a))
  BY <1>11, <1>12 DEF MovedTo, MovedText, Got
<1> QED BY <1>11, <1>13 DEF MovedTo

(* Objects among the first k of s have been treated, the others wait.      *)
MovedAllTo(h, e, used, s, k) ==
  /\ h.kind = e.kind /\ e.lost \subseteq h.lost
  /\ \A p \in Object :
       /\ SameAccount(e, h, p)
       /\ IF \E i \in 1 .. k : s[i] = p
          THEN \A a \in used : Got(h, p, Target(used, a), MovedText(e, p, used, a))
          ELSE h.text[p] = e.text[p]

LEMMA MovedAllRound ==
  ASSUME NEW e \in Sound, NEW used, used \subseteq UserNumber,
         NEW s \in Seq(Object), \A i, j \in 1 .. Len(s) : s[i] = s[j] => i = j,
         NEW k \in 1 .. Len(s), NEW h \in Sound, MovedAllTo(h, e, used, s, k - 1),
         NEW f, f = Moved(h, s[k], used)
  PROVE  f \in Sound /\ MovedAllTo(f, e, used, s, k)
<1>1. PICK o \in Object : o = s[k]
  OBVIOUS
<1>2. /\ f \in Sound /\ Apart(h, f, o) /\ SameAccount(h, f, o)
      /\ \A a \in used : Got(f, o, Target(used, a), MovedText(h, o, used, a))
  BY <1>1, MovedFields
<1>3. f.kind = e.kind /\ h.kind = e.kind /\ e.lost \subseteq f.lost /\ h.lost \subseteq f.lost
  BY <1>2 DEF Apart, MovedAllTo
<1>4. h.text[o] = e.text[o]
  <2>1. ~\E i \in 1 .. k - 1 : s[i] = o
    BY <1>1
  <2> QED BY <2>1 DEF MovedAllTo
<1>5. \A a \in used : Got(f, o, Target(used, a), MovedText(e, o, used, a))
  BY <1>2, <1>4 DEF MovedText, PlainText
<1>6. ASSUME NEW p \in Object
      PROVE  /\ SameAccount(e, f, p)
             /\ IF \E i \in 1 .. k : s[i] = p
                THEN \A a \in used : Got(f, p, Target(used, a), MovedText(e, p, used, a))
                ELSE f.text[p] = e.text[p]
  <2>1. SameAccount(e, h, p)
    BY DEF MovedAllTo
  <2>2. CASE p = o
    <3>1. \E i \in 1 .. k : s[i] = p
      BY <1>1, <2>2
    <3>2. SameAccount(e, f, p)
      BY <1>2, <1>3, <2>1, <2>2, SameTwice
    <3> QED BY <1>5, <2>2, <3>1, <3>2
  <2>3. CASE p # o
    <3>1. SameAccount(h, f, p)
      BY <1>2, <2>3, ApartOthers
    <3>2. SameAccount(e, f, p)
      BY <1>3, <2>1, <3>1, SameTwice
    <3>3. f.text[p] = h.text[p]
      BY <1>2, <2>3 DEF Apart
    <3>4. (\E i \in 1 .. k : s[i] = p) <=> \E i \in 1 .. k - 1 : s[i] = p
      <4>1. \A i \in 1 .. k : i = k \/ i \in 1 .. k - 1
        OBVIOUS
      <4>2. \A i \in 1 .. k - 1 : i \in 1 .. k
        OBVIOUS
      <4> QED BY <1>1, <2>3, <4>1, <4>2
    <3> QED BY <1>3, <3>2, <3>3, <3>4 DEF MovedAllTo, Got
  <2> QED BY <2>2, <2>3
<1> QED BY <1>2, <1>3, <1>6 DEF MovedAllTo

LEMMA SetToSeqInjective ==
  ASSUME NEW s, s = SetToSeq(Object)
  PROVE  \A i, j \in 1 .. Len(s) : s[i] = s[j] => i = j
<1>1. IsFiniteSet(Object)
  BY NamesAssumption
<1>2. PICK n \in Nat : n = Cardinality(Object)
  BY <1>1, FS_CardinalityType
<1>3. ExistsBijection(1 .. n, Object)
  BY <1>1, <1>2, FS_CardinalityType
<1>4. PICK f : f \in Bijection(1 .. n, Object)
  BY <1>3 DEF ExistsBijection
<1>5. \E h \in [1 .. n -> Object] : IsInjective(h)
  <2>1. f \in [1 .. n -> Object] /\ IsInjective(f)
    BY <1>4 DEF Bijection, Injection, IsInjective
  <2> QED BY <2>1
<1>6. s \in [1 .. n -> Object] /\ IsInjective(s)
  BY <1>2, <1>5 DEF SetToSeq
<1>7. Len(s) = n
  BY <1>6
<1> QED BY <1>6, <1>7 DEF IsInjective

LEMMA MovedAllFields ==
  ASSUME NEW e \in Sound, NEW used, used \subseteq UserNumber,
         NEW f, f = MovingAll(e, used, SetToSeq(Object))[Cardinality(Object)]
  PROVE  /\ f.kind = e.kind /\ e.lost \subseteq f.lost
         /\ \A p \in Object : /\ SameAccount(e, f, p)
                              /\ \A a \in used : Got(f, p, Target(used, a), MovedText(e, p, used, a))
<1>0. Renumbers(used)
  BY TargetProperties
<1>1. PICK s : s = SetToSeq(Object)
  OBVIOUS
<1>2. /\ s \in Seq(Object) /\ Len(s) = Cardinality(Object)
      /\ \A i, j \in 1 .. Len(s) : s[i] = s[j] => i = j
  BY <1>1, SequenceOfSet, SetToSeqInjective
<1>3. PICK g : g = MovingAll(e, used, s)
  OBVIOUS
<1>4. /\ g[0] = e /\ \A k \in 0 .. Len(s) : g[k] \in Sound
      /\ \A k \in 1 .. Len(s) : g[k] = Moved(g[k - 1], s[k], used)
  BY <1>0, <1>2, <1>3, MovingAllRounds
<1>5. PICK n \in Nat : n = Len(s)
  BY <1>2
<1>6. f = g[n]
  BY <1>1, <1>2, <1>3, <1>5
<1> DEFINE P == [k \in 0 .. n |-> {h \in Sound : MovedAllTo(h, e, used, s, k)}]
<1>7. ASSUME NEW k \in 1 .. n, g[k - 1] \in P[k - 1] PROVE g[k] \in P[k]
  <2>1. k - 1 \in 0 .. n /\ k \in 0 .. n /\ k \in 1 .. Len(s)
    BY <1>5
  <2>2. g[k - 1] \in Sound /\ MovedAllTo(g[k - 1], e, used, s, k - 1)
    BY <1>7, <2>1
  <2>3. g[k] = Moved(g[k - 1], s[k], used)
    BY <1>4, <1>5, <2>1
  <2>4. g[k] \in Sound /\ MovedAllTo(g[k], e, used, s, k)
    BY <1>2, <2>1, <2>2, <2>3, MovedAllRound
  <2> QED BY <2>1, <2>4
<1>8. g[0] \in P[0]
  <2>1. MovedAllTo(e, e, used, s, 0)
    BY SameSelf DEF MovedAllTo
  <2> QED BY <1>4, <2>1
<1>9. \A k \in 0 .. n : g[k] \in P[k]
  <2> HIDE DEF P
  <2> QED BY <1>7, <1>8, RoundInduction
<1>10. n \in 0 .. n
  OBVIOUS
<1>11. MovedAllTo(f, e, used, s, n)
  BY <1>6, <1>9, <1>10
<1>12. \A p \in Object : \E i \in 1 .. n : s[i] = p
  BY <1>1, <1>5, EveryMember
<1> QED BY <1>11, <1>12 DEF MovedAllTo

-----------------------------------------------------------------------------
(* What users wrote is found again.                                        *)

(* s is stored of w: owner and flags are immaterial.                       *)
Alike(w, s) == IF w = Unset THEN s = Unset ELSE s # Unset /\ Plain[s] = Plain[w]

OneNumber == \A p, q \in htab : p[1] = q[1] /\ p[1] \in Name => p = q

(* Nothing is told of what is dead.                                        *)
Emptied == \A o \in Object, n \in Name : ~Live(o) => wrote[o][n] = Unset

(* w is found under the number a of o, or a full list of o lost it.        *)
Shown(e, o, a, w) == Alike(w, e.text[o][a]) \/ (o \in e.lost /\ e.text[o][a] = Unset)

(* What was written is stored under the number of its name.                *)
Found(o, n) ==
  /\ \A a \in UserNumber : <<n, a>> \in htab => Shown(d, o, a, wrote[o][n])
  /\ n \notin Named => wrote[o][n] = Unset \/ o \in d.lost

TextInv ==
  NamesInv /\ OneNumber /\ Emptied /\ \A o \in Object, n \in Name : n \notin haunted => Found(o, n)

(* A name and its number.                                                  *)
LEMMA NumberOfName ==
  ASSUME Tables, OneNumber, NEW n \in Name, NEW a, <<n, a>> \in htab
  PROVE  n \in Named /\ a \in UserNumber /\ a = NumberOf(n) /\ anum_table[a] = n /\ a < attr_next
<1>1. n \in Named
  BY DEF Named
<1>2. <<n, NumberOf(n)>> \in htab /\ NumberOf(n) \in UserNumber
  BY <1>1, NumberOfProperties
<1>3. <<n, a>> = <<n, NumberOf(n)>>
  BY <1>2 DEF OneNumber
<1>4. a = NumberOf(n) /\ a \in UserNumber
  BY <1>2, <1>3
<1>5. anum_table[a] = n /\ a < attr_next
  BY <1>4 DEF Tables, NamesAgree
<1> QED BY <1>1, <1>4, <1>5

LEMMA AlikeTypes ==
  ASSUME NEW t \in Text
  PROVE  Alike(t, t) /\ Alike(Unset, Unset)
BY NamesAssumption DEF Alike

(* What is lost stays lost.                                                *)
LEMMA ShownKept ==
  ASSUME NEW e, NEW f, NEW o, NEW a, NEW w, Shown(e, o, a, w),
         e.lost \subseteq f.lost, f.text[o][a] = e.text[o][a]
  PROVE  Shown(f, o, a, w)
BY DEF Shown

LEMMA ShownGot ==
  ASSUME NEW f, NEW o, NEW a, NEW v, NEW w, Alike(w, v), Got(f, o, a, v)
  PROVE  Shown(f, o, a, w)
BY DEF Shown, Got

(* Names, and what users see of objects, are the same.                     *)
LEMMA TextQuiet ==
  ASSUME TextInv, NamesInv', KeepNames, UNCHANGED wrote, haunted \cap Name \subseteq haunted',
         \A o \in Object : SameUser(d, d', o), d'.kind = d.kind, d.lost \subseteq d'.lost
  PROVE  TextInv'
<1>1. OneNumber'
  BY DEF TextInv, OneNumber, KeepNames
<1>2. Emptied'
  BY DEF TextInv, Emptied, Live, Good_obj
<1>3. ASSUME NEW o \in Object, NEW n \in Name, n \notin haunted' PROVE Found(o, n)'
  <2>1. Found(o, n)
    BY <1>3 DEF TextInv
  <2>2. ASSUME NEW a \in UserNumber, <<n, a>> \in htab PROVE Shown(d', o, a, wrote[o][n])
    <3>1. Shown(d, o, a, wrote[o][n])
      BY <2>1, <2>2 DEF Found
    <3>2. d'.text[o][a] = d.text[o][a]
      BY DEF SameUser
    <3> QED BY <3>1, <3>2, ShownKept
  <2> QED BY <2>1, <2>2 DEF Found, KeepNames, Named
<1> QED BY <1>1, <1>2, <1>3 DEF TextInv

LEMMA TextStored ==
  ASSUME NamesInv, NEW o \in Object
  PROVE  /\ d \in Sound /\ Tables /\ wrote \in [Object -> [Name -> Text \cup {Unset}]]
         /\ \A a \in UserNumber : d.text[o][a] \in Text \cup {Unset}
<1>1. d \in Sound /\ Tables /\ wrote \in [Object -> [Name -> Text \cup {Unset}]]
  BY DEF NamesInv, Told
<1>2. d.text[o] \in Attributes
  BY <1>1, StateFields DEF Sound
<1> QED BY <1>1, <1>2, NumberTypes DEF Attributes, ValueOf

LEMMA InvParts ==
  ASSUME TextInv
  PROVE  /\ NamesInv /\ d \in Sound /\ Tables /\ OneNumber /\ Emptied
         /\ wrote \in [Object -> [Name -> Text \cup {Unset}]]
         /\ \A o \in Object, n \in Name : n \notin haunted => Found(o, n)
BY DEF TextInv, NamesInv, Told

(* Two names have two numbers.                                             *)
LEMMA OtherNumber ==
  ASSUME Tables, OneNumber, NEW m \in Name, NEW b, <<m, b>> \in htab,
         NEW n \in Name, NEW a, <<n, a>> \in htab, m # n
  PROVE  a # b
<1>1. anum_table[b] = m /\ anum_table[a] = n
  BY NumberOfName
<1> QED BY <1>1

LEMMA SetText ==
  ASSUME TextInv, NamesInv', NEW o \in Object, NEW n \in Name, NEW t \in Text, set(o, n, t)
  PROVE  TextInv'
<1>1. /\ d \in Sound /\ Tables /\ OneNumber /\ Emptied
      /\ wrote \in [Object -> [Name -> Text \cup {Unset}]]
      /\ \A p \in Object, m \in Name : m \notin haunted => Found(p, m)
  BY InvParts
<1>2. PICK a \in UserNumber : a = IF n \in Named THEN NumberOf(n) ELSE attr_next
  BY DEF set
<1>3. d' = atr_add_raw(d, o, a, t) /\ Live(o)
  BY <1>2 DEF set
<1>4. a \in Number /\ t \in ValueOf(a)
  BY NumberTypes DEF ValueOf
<1>5. wrote' = [wrote EXCEPT ![o][n] = t]
  BY DEF set
<1>6. /\ Apart(d, d', o) /\ Got(d', o, a, t) /\ d.lost \subseteq d'.lost
      /\ \A b \in UserNumber : b # a => d'.text[o][b] = d.text[o][b]
  BY <1>1, <1>3, <1>4, AddFields DEF Apart
<1>7. Emptied'
  BY <1>1, <1>3, <1>5, <1>6 DEF Emptied, Live, Good_obj, Apart
<1>8. Alike(t, t) /\ Alike(Unset, Unset)
  BY AlikeTypes
<1>9. wrote'[o][n] = t /\ \A p \in Object, m \in Name : p # o \/ m # n => wrote'[p][m] = wrote[p][m]
  BY <1>1, <1>5
<1>10. CASE n \in Named
  <2>1. UNCHANGED <<anum_table, htab, attr_next, haunted>>
    BY <1>10 DEF set, KeepNames
  <2>2. OneNumber'
    BY <1>1, <2>1 DEF OneNumber
  <2>3. <<n, a>> \in htab
    BY <1>1, <1>2, <1>10, NumberOfProperties
  <2>4. ASSUME NEW p \in Object, NEW m \in Name, m \notin haunted' PROVE Found(p, m)'
    <3>1. Found(p, m) /\ (Named' = Named)
      BY <1>1, <2>1, <2>4 DEF Named
    <3>2. ASSUME NEW b \in UserNumber, <<m, b>> \in htab PROVE Shown(d', p, b, wrote'[p][m])
      <4>1. Shown(d, p, b, wrote[p][m])
        BY <3>1, <3>2 DEF Found
      <4>2. CASE p # o
        BY <1>6, <1>9, <4>1, <4>2, ShownKept DEF Apart
      <4>3. CASE p = o /\ m = n
        <5>1. b = a
          BY <1>1, <2>3, <3>2, <4>3, NumberOfName
        <5> QED BY <1>6, <1>8, <1>9, <4>3, <5>1, ShownGot
      <4>4. CASE p = o /\ m # n
        <5>1. b # a
          BY <1>1, <2>3, <3>2, <4>4, OtherNumber
        <5> QED BY <1>6, <1>9, <4>1, <4>4, <5>1, ShownKept
      <4> QED BY <4>2, <4>3, <4>4
    <3>3. m \notin Named => wrote'[p][m] = Unset \/ p \in d'.lost
      BY <1>6, <1>9, <1>10, <3>1 DEF Found
    <3> QED BY <2>1, <3>1, <3>2, <3>3 DEF Found
  <2> QED BY <1>7, <2>2, <2>4 DEF TextInv
<1>11. CASE n \notin Named
  <2>1. /\ a = attr_next /\ htab' = htab \cup {<<n, a>>}
        /\ haunted' = IF \E p \in Object : d.text[p][a] # Unset THEN haunted \cup {n} ELSE haunted
    BY <1>2, <1>11 DEF set
  <2>2. \A q \in htab : q[1] # n
    BY <1>11 DEF Named
  <2>3. OneNumber'
    <3> SUFFICES ASSUME NEW q \in htab', NEW r \in htab', q[1] = r[1], q[1] \in Name PROVE q = r
      BY DEF OneNumber
    <3>1. CASE q[1] = n
      BY <2>1, <2>2, <3>1
    <3>2. CASE q[1] # n
      <4>1. q \in htab /\ r \in htab
        BY <2>1, <3>2
      <4> QED BY <1>1, <4>1 DEF OneNumber
    <3> QED BY <3>1, <3>2
  <2>4. Named \cup {n} \subseteq Named'
    <3>1. <<n, a>> \in htab' /\ <<n, a>>[1] = n /\ htab \subseteq htab'
      BY <2>1
    <3>2. n \in Named'
      BY <3>1 DEF Named
    <3>3. Named \subseteq Named'
      BY <3>1 DEF Named
    <3> QED BY <3>2, <3>3
  <2>5. \A m \in Name : \A b : <<m, b>> \in htab => b # a
    <3>1. ASSUME NEW m \in Name, NEW b, <<m, b>> \in htab PROVE b # a
      <4>1. b < attr_next /\ b \in Nat /\ attr_next \in Nat
        BY <1>1, <3>1, NumberOfName, NumberTypes DEF Tables
      <4> QED BY <2>1, <4>1
    <3> QED BY <3>1
  <2>6. ASSUME NEW p \in Object, NEW m \in Name, m \notin haunted' PROVE Found(p, m)'
    <3>1. Found(p, m)
      BY <1>1, <2>1, <2>6
    <3>2. ASSUME NEW b \in UserNumber, <<m, b>> \in htab' PROVE Shown(d', p, b, wrote'[p][m])
      <4>1. CASE m = n
        <5>1. b = a
          BY <2>1, <2>2, <3>2, <4>1
        <5>2. d.text[p][a] = Unset
          BY <2>1, <2>6, <4>1
        <5>3. CASE p = o
          BY <1>6, <1>8, <1>9, <4>1, <5>1, <5>3, ShownGot
        <5>4. CASE p # o
          <6>1. wrote'[p][m] = Unset \/ p \in d'.lost
            BY <1>6, <1>9, <1>11, <3>1, <4>1, <5>4 DEF Found
          <6>2. d'.text[p][b] = Unset
            BY <1>6, <5>1, <5>2, <5>4 DEF Apart
          <6> QED BY <1>8, <6>1, <6>2 DEF Shown
        <5> QED BY <5>3, <5>4
      <4>2. CASE m # n
        <5>1. <<m, b>> \in htab
          BY <2>1, <3>2, <4>2
        <5>2. b # a
          BY <2>5, <5>1
        <5>3. Shown(d, p, b, wrote[p][m])
          BY <3>1, <5>1 DEF Found
        <5>4. d'.text[p][b] = d.text[p][b]
          BY <1>6, <5>2 DEF Apart
        <5> QED BY <1>6, <1>9, <4>2, <5>3, <5>4, ShownKept
      <4> QED BY <4>1, <4>2
    <3>3. m \notin Named' => wrote'[p][m] = Unset \/ p \in d'.lost
      BY <1>6, <1>9, <2>4, <3>1 DEF Found
    <3> QED BY <3>2, <3>3 DEF Found
  <2> QED BY <1>7, <2>3, <2>6 DEF TextInv
<1> QED BY <1>10, <1>11

LEMMA ClearText ==
  ASSUME TextInv, NamesInv', NEW o \in Object, NEW n \in Name, clear(o, n)
  PROVE  TextInv'
<1>1. /\ d \in Sound /\ Tables /\ OneNumber /\ Emptied
      /\ wrote \in [Object -> [Name -> Text \cup {Unset}]]
      /\ \A p \in Object, m \in Name : m \notin haunted => Found(p, m)
  BY InvParts
<1>2. PICK a \in UserNumber : a = NumberOf(n) /\ <<n, a>> \in htab
  BY <1>1, NumberOfProperties DEF clear
<1>3. d' = atr_clr(d, o, a) /\ wrote' = [wrote EXCEPT ![o][n] = Unset]
      /\ UNCHANGED <<anum_table, htab, attr_next, haunted>>
  BY <1>2 DEF clear, KeepNames
<1>4. /\ Apart(d, d', o) /\ d'.text[o][a] = Unset /\ d.lost \subseteq d'.lost
      /\ \A b \in UserNumber : b # a => d'.text[o][b] = d.text[o][b]
  BY <1>1, <1>3, ClearFields DEF Apart
<1>5. /\ wrote'[o][n] = Unset
      /\ \A p \in Object, m \in Name : p # o \/ m # n => wrote'[p][m] = wrote[p][m]
  BY <1>1, <1>3
<1>6. Emptied'
  BY <1>1, <1>4, <1>5 DEF Emptied, Live, Good_obj, Apart
<1>7. OneNumber'
  BY <1>1, <1>3 DEF OneNumber
<1>8. ASSUME NEW p \in Object, NEW m \in Name, m \notin haunted' PROVE Found(p, m)'
  <2>1. Found(p, m) /\ (Named' = Named)
    BY <1>1, <1>3, <1>8 DEF Named
  <2>2. ASSUME NEW b \in UserNumber, <<m, b>> \in htab PROVE Shown(d', p, b, wrote'[p][m])
    <3>1. Shown(d, p, b, wrote[p][m])
      BY <2>1, <2>2 DEF Found
    <3>2. CASE p # o
      BY <1>4, <1>5, <3>1, <3>2, ShownKept DEF Apart
    <3>3. CASE p = o /\ m = n
      <4>1. b = a
        BY <1>1, <1>2, <2>2, <3>3, NumberOfName
      <4> QED BY <1>4, <1>5, <3>3, <4>1 DEF Alike, Shown
    <3>4. CASE p = o /\ m # n
      <4>1. b # a
        BY <1>1, <1>2, <2>2, <3>4, OtherNumber
      <4> QED BY <1>4, <1>5, <3>1, <3>4, <4>1, ShownKept
    <3> QED BY <3>2, <3>3, <3>4
  <2>3. m \notin Named => wrote'[p][m] = Unset \/ p \in d'.lost
    BY <1>4, <1>5, <2>1 DEF Found
  <2> QED BY <1>3, <2>1, <2>2, <2>3 DEF Found
<1> QED BY <1>6, <1>7, <1>8 DEF TextInv

LEMMA CloneText ==
  ASSUME TextInv, NamesInv', NEW o \in Object, NEW p \in Object, clone(o, p)
  PROVE  TextInv'
<1>1. /\ d \in Sound /\ Tables /\ OneNumber /\ Emptied /\ d' \in Sound
      /\ wrote \in [Object -> [Name -> Text \cup {Unset}]]
      /\ \A q \in Object, m \in Name : m \notin haunted => Found(q, m)
  BY InvParts DEF NamesInv
<1>2. PICK copied : copied = {a \in UserNumber : anum_table[a] # NOTHING}
  OBVIOUS
<1>3. d' = atr_cpy(d, o, p, copied) /\ Live(o) /\ Live(p) /\ o # p
      /\ UNCHANGED <<anum_table, htab, attr_next, haunted>>
  BY <1>2 DEF clone, KeepNames
<1>4. /\ Apart(d, d', o) /\ d.lost \subseteq d'.lost
      /\ \A b \in UserNumber :
           IF b \in copied /\ d.text[p][b] # Unset
           THEN Got(d', o, b, d.text[p][b]) ELSE d'.text[o][b] = d.text[o][b]
  <2>1. copied \subseteq UserNumber
    BY <1>2
  <2> QED BY <1>1, <1>3, <2>1, CopyFields DEF Apart
<1> DEFINE Copied(n) == n \in Named /\ NumberOf(n) \in Range(ListOf(d, p))
<1>5. wrote' = [wrote EXCEPT ![o] = [n \in Name |-> IF Copied(n) THEN wrote[p][n] ELSE @[n]]]
  BY DEF clone
<1>6. /\ \A q \in Object : q # o => wrote'[q] = wrote[q]
      /\ \A n \in Name : wrote'[o][n] = IF Copied(n) THEN wrote[p][n] ELSE wrote[o][n]
  <2> HIDE DEF Copied
  <2> QED BY <1>1, <1>5
<1>7. Emptied'
  BY <1>1, <1>3, <1>4, <1>6 DEF Emptied, Live, Good_obj, Apart
<1>8. OneNumber'
  BY <1>1, <1>3 DEF OneNumber
<1>9. Named' = Named
  BY <1>3 DEF Named
<1>10. ASSUME NEW q \in Object, NEW m \in Name, m \notin haunted' PROVE Found(q, m)'
  <2>1. Found(q, m) /\ Found(p, m)
    BY <1>1, <1>3, <1>10
  <2>2. ASSUME NEW b \in UserNumber, <<m, b>> \in htab PROVE Shown(d', q, b, wrote'[q][m])
    <3>1. Shown(d, q, b, wrote[q][m]) /\ Shown(d, p, b, wrote[p][m])
      BY <2>1, <2>2 DEF Found
    <3>2. CASE q # o
      BY <1>4, <1>6, <3>1, <3>2, ShownKept DEF Apart
    <3>3. CASE q = o
      <4>1. m \in Named /\ b = NumberOf(m) /\ b \in copied
        <5>1. m \in Named /\ b = NumberOf(m) /\ anum_table[b] = m
          BY <1>1, <2>2, NumberOfName
        <5> QED BY <1>2, <5>1, GivenNames
      <4>2. d.text[p][b] # Unset <=> b \in Range(ListOf(d, p))
        BY <1>1, Listed
      <4>3. CASE d.text[p][b] # Unset
        <5>1. Got(d', o, b, d.text[p][b])
          BY <1>4, <4>1, <4>3
        <5>2. Copied(m)
          BY <4>1, <4>2, <4>3
        <5>3. Alike(wrote[p][m], d.text[p][b])
          BY <3>1, <4>3 DEF Shown
        <5>4. wrote'[q][m] = wrote[p][m]
          BY <1>6, <3>3, <5>2
        <5> QED BY <3>3, <5>1, <5>3, <5>4, ShownGot
      <4>4. CASE d.text[p][b] = Unset
        <5>1. d'.text[q][b] = d.text[q][b]
          BY <1>4, <3>3, <4>4
        <5>2. ~Copied(m)
          BY <4>1, <4>2, <4>4
        <5>3. wrote'[q][m] = wrote[q][m]
          BY <1>6, <3>3, <5>2
        <5> QED BY <1>4, <3>1, <5>1, <5>3, ShownKept
      <4> QED BY <4>3, <4>4
    <3> QED BY <3>2, <3>3
  <2>3. m \notin Named => wrote'[q][m] = Unset \/ q \in d'.lost
    BY <1>4, <1>6, <2>1 DEF Found
  <2> QED BY <1>3, <1>9, <2>2, <2>3 DEF Found
<1> QED BY <1>7, <1>8, <1>10 DEF TextInv

LEMMA RenameText ==
  ASSUME TextInv, NamesInv', NEW n \in Name, NEW m \in Name, attribute_rename(n, m)
  PROVE  TextInv'
<1>1. /\ Tables /\ OneNumber /\ Emptied
      /\ wrote \in [Object -> [Name -> Text \cup {Unset}]]
      /\ \A p \in Object, x \in Name : x \notin haunted => Found(p, x)
  BY InvParts
<1>2. n \in Named /\ m \notin Named /\ n # m
  BY DEF attribute_rename
<1>3. PICK a \in UserNumber : a = NumberOf(n) /\ <<n, a>> \in htab
  BY <1>1, <1>2, NumberOfProperties
<1>4. /\ htab' = (htab \ {<<n, a>>}) \cup {<<m, a>>} /\ d' = d
      /\ wrote' = [o \in Object |-> [wrote[o] EXCEPT ![m] = wrote[o][n], ![n] = Unset]]
      /\ haunted' = IF n \in haunted THEN haunted \cup {m} ELSE haunted
  BY <1>3 DEF attribute_rename
<1>5. ASSUME NEW o \in Object
      PROVE  /\ wrote'[o][m] = wrote[o][n] /\ wrote'[o][n] = Unset
             /\ \A x \in Name : x # m /\ x # n => wrote'[o][x] = wrote[o][x]
  <2>1. wrote[o] \in [Name -> Text \cup {Unset}]
    BY <1>1
  <2>2. wrote'[o] = [wrote[o] EXCEPT ![m] = wrote[o][n], ![n] = Unset]
    BY <1>4
  <2> QED BY <1>2, <2>1, <2>2
<1>6. \A q \in htab : q[1] # m
  BY <1>2 DEF Named
<1>7. ASSUME NEW x \in Name, NEW b \in UserNumber, <<x, b>> \in htab'
      PROVE  IF x = m THEN b = a ELSE x # n /\ <<x, b>> \in htab
  <2>1. CASE x = m
    BY <1>4, <1>6, <1>7, <2>1
  <2>2. CASE x # m
    <3>1. <<x, b>> \in htab /\ <<x, b>> # <<n, a>>
      BY <1>4, <1>7, <2>2
    <3>2. x # n
      BY <1>1, <1>3, <3>1, NumberOfName
    <3> QED BY <2>2, <3>1, <3>2
  <2> QED BY <2>1, <2>2
<1>8. OneNumber'
  <2> SUFFICES ASSUME NEW q \in htab', NEW r \in htab', q[1] = r[1], q[1] \in Name PROVE q = r
    BY DEF OneNumber
  <2>1. CASE q[1] = m
    BY <1>4, <1>6, <2>1
  <2>2. CASE q[1] # m
    <3>1. q \in htab /\ r \in htab
      BY <1>4, <2>2
    <3> QED BY <1>1, <3>1 DEF OneNumber
  <2> QED BY <2>1, <2>2
<1>9. Emptied'
  <2>1. ASSUME NEW o \in Object, NEW x \in Name, ~Live(o)' PROVE wrote'[o][x] = Unset
    <3>1. wrote[o][x] = Unset /\ wrote[o][n] = Unset
      BY <1>1, <1>4, <2>1 DEF Emptied, Live, Good_obj
    <3> QED BY <1>5, <3>1
  <2> QED BY <2>1 DEF Emptied
<1>10. ASSUME NEW o \in Object, NEW x \in Name, x \notin haunted' PROVE Found(o, x)'
  <2>1. Found(o, x) /\ (x = m => Found(o, n))
    BY <1>1, <1>4, <1>10
  <2>2. ASSUME NEW b \in UserNumber, <<x, b>> \in htab' PROVE Shown(d', o, b, wrote'[o][x])
    <3>1. CASE x = m
      <4>1. Shown(d, o, a, wrote[o][n])
        BY <1>3, <2>1, <3>1 DEF Found
      <4> QED BY <1>4, <1>5, <1>7, <2>2, <3>1, <4>1
    <3>2. CASE x # m
      <4>1. x # n /\ Shown(d, o, b, wrote[o][x])
        BY <1>7, <2>1, <2>2, <3>2 DEF Found
      <4> QED BY <1>4, <1>5, <3>2, <4>1
    <3> QED BY <3>1, <3>2
  <2>3. x \notin Named' => wrote'[o][x] = Unset \/ o \in d'.lost
    <3>1. m \in Named'
      <4>1. <<m, a>> \in htab' /\ <<m, a>>[1] = m
        BY <1>4
      <4> QED BY <4>1 DEF Named
    <3>2. x \in Named /\ x # n => x \in Named'
      BY <1>4 DEF Named
    <3>3. CASE x = m \/ x = n
      BY <1>5, <3>1, <3>3
    <3>4. CASE x # m /\ x # n
      BY <1>4, <1>5, <2>1, <3>2, <3>4 DEF Found
    <3> QED BY <3>3, <3>4
  <2> QED BY <2>2, <2>3 DEF Found
<1> QED BY <1>8, <1>9, <1>10 DEF TextInv

LEMMA DeleteText ==
  ASSUME TextInv, NamesInv', NEW n \in Name, attribute_delete(n)
  PROVE  TextInv'
<1>1. /\ Tables /\ OneNumber /\ Emptied
      /\ wrote \in [Object -> [Name -> Text \cup {Unset}]]
      /\ \A p \in Object, x \in Name : x \notin haunted => Found(p, x)
  BY InvParts
<1>2. PICK a \in UserNumber : a = NumberOf(n) /\ <<n, a>> \in htab
  BY <1>1, NumberOfProperties DEF attribute_delete
<1>3. /\ htab' = htab \ {<<n, a>>} /\ d' = d /\ haunted' = haunted
      /\ wrote' = [o \in Object |-> [wrote[o] EXCEPT ![n] = Unset]]
  BY <1>2 DEF attribute_delete
<1>4. ASSUME NEW o \in Object
      PROVE  wrote'[o][n] = Unset /\ \A x \in Name : x # n => wrote'[o][x] = wrote[o][x]
  <2>1. wrote[o] \in [Name -> Text \cup {Unset}]
    BY <1>1
  <2> QED BY <1>3, <2>1
<1>5. ASSUME NEW x \in Name, NEW b \in UserNumber, <<x, b>> \in htab'
      PROVE  x # n /\ <<x, b>> \in htab
  BY <1>1, <1>2, <1>3, <1>5, NumberOfName
<1>6. OneNumber'
  BY <1>1, <1>3 DEF OneNumber
<1>7. Emptied'
  BY <1>1, <1>3, <1>4 DEF Emptied, Live, Good_obj
<1>8. ASSUME NEW o \in Object, NEW x \in Name, x \notin haunted' PROVE Found(o, x)'
  <2>1. Found(o, x)
    BY <1>1, <1>3, <1>8
  <2>2. ASSUME NEW b \in UserNumber, <<x, b>> \in htab' PROVE Shown(d', o, b, wrote'[o][x])
    <3>1. x # n /\ Shown(d, o, b, wrote[o][x])
      BY <1>5, <2>1, <2>2 DEF Found
    <3> QED BY <1>3, <1>4, <3>1
  <2>3. x \notin Named' => wrote'[o][x] = Unset \/ o \in d'.lost
    <3>1. x \in Named /\ x # n => x \in Named'
      BY <1>3 DEF Named
    <3> QED BY <1>3, <1>4, <2>1, <3>1 DEF Found
  <2> QED BY <2>2, <2>3 DEF Found
<1> QED BY <1>6, <1>7, <1>8 DEF TextInv

CleanedPair(e, n, b) == <<n, b>> \in CleanedHtab(CleanNamed(e), CleanUsed(e), CleanDefined(e))
MovedPair(e, n, b) == \E a \in CleanUsed(e) : <<n, a>> \in htab /\ b = Target(CleanUsed(e), a)

(* Names that are kept by @dbclean have their number from its table.       *)
LEMMA CleanedPairs ==
  ASSUME Tables, OneNumber, NEW e \in Sound, NEW n \in Name, NEW b \in UserNumber
  PROVE  CleanedPair(e, n, b) <=> MovedPair(e, n, b)
<1>0. PICK named, used : named = CleanNamed(e) /\ used = CleanUsed(e)
  OBVIOUS
<1>1. /\ used \subseteq UserNumber
      /\ \A a \in UserNumber : named[a] \in Name => named[a] = anum_table[a]
      /\ \A a \in UserNumber : anum_table[a] \in Name => named[a] = anum_table[a]
  BY <1>0, CleanNames DEF CleanUsed
<1>2. \A a \in UserNumber : named[a] = n <=> <<n, a>> \in htab
  <2>1. ASSUME NEW a \in UserNumber, named[a] = n PROVE <<n, a>> \in htab
    BY <1>1, <2>1 DEF Tables, NamesAgree
  <2>2. ASSUME NEW a \in UserNumber, <<n, a>> \in htab PROVE named[a] = n
    BY <1>1, <2>2, NumberOfName
  <2> QED BY <2>1, <2>2
<1>3. <<n, b>> \notin CleanDefined(e) \ {<<named[a], a>> : a \in UserNumber}
  <2>1. SUFFICES ASSUME <<n, b>> \in CleanDefined(e) PROVE <<n, b>> = <<named[b], b>>
    OBVIOUS
  <2>2. \A a \in UserNumber : <<n, b>> # <<Dangling(a), a>>
    BY GivenNames
  <2>3. Dangled(e) \subseteq UserNumber
    BY DEF Dangled
  <2>4. <<n, b>> \in htab
    BY <2>1, <2>2, <2>3 DEF CleanDefined
  <2> QED BY <1>2, <2>4
<1>4. <<n, b>> \in {<<named[a], Target(used, a)>> : a \in used} <=>
        \E a \in used : named[a] = n /\ b = Target(used, a)
  OBVIOUS
<1> QED BY <1>0, <1>1, <1>2, <1>3, <1>4 DEF CleanedHtab, CleanedPair, MovedPair

LEMMA PlainAlike ==
  ASSUME NEW w \in Text \cup {Unset}, NEW t \in Text, Alike(w, t)
  PROVE  Alike(w, Plain[t])
<1>1. t # Unset /\ Plain[t] \in Text /\ Plain[t] # Unset /\ Plain[Plain[t]] = Plain[t]
  BY NamesAssumption
<1> QED BY <1>1 DEF Alike

LEMMA DbcleanText ==
  ASSUME TextInv, NamesInv', do_dbclean
  PROVE  TextInv'
<1>1. /\ d \in Sound /\ Tables /\ OneNumber /\ Emptied
      /\ wrote \in [Object -> [Name -> Text \cup {Unset}]]
      /\ \A p \in Object, x \in Name : x \notin haunted => Found(p, x)
  BY InvParts
<1>2. PICK e : e = pcache_sync(al_store(d))
  OBVIOUS
<1>3. e \in Sound /\ Quiet(d, e) /\ d.lost \subseteq e.lost
  BY <1>1, <1>2, DumpSound, DumpQuiet DEF Quiet
<1>4. PICK named : named = CleanNamed(e)
  OBVIOUS
<1>5. PICK used : used = CleanUsed(e)
  OBVIOUS
<1>6. /\ d' = MovingAll(e, used, SetToSeq(Object))[Cardinality(Object)]
      /\ htab' = CleanedHtab(named, used, CleanDefined(e))
      /\ haunted' = haunted \cup CleanedOnto(e, named, used)
      /\ wrote' = wrote
  BY <1>2, <1>4, <1>5, CleanedSteps
<1>7. used \subseteq UserNumber /\ \A a \in used : Target(used, a) \in UserNumber
  <2>1. used \subseteq UserNumber
    BY <1>5 DEF CleanUsed
  <2> QED BY <2>1, TargetProperties DEF Renumbers
<1>8. /\ d'.kind = e.kind /\ e.lost \subseteq d'.lost /\ d.lost \subseteq d'.lost
      /\ \A p \in Object, a \in used : Got(d', p, Target(used, a), MovedText(e, p, used, a))
  BY <1>3, <1>6, <1>7, MovedAllFields
<1>9. ASSUME NEW n \in Name, NEW b \in UserNumber
      PROVE  <<n, b>> \in htab' <=> \E a \in used : <<n, a>> \in htab /\ b = Target(used, a)
  <2>1. Tables /\ OneNumber /\ e \in Sound
    BY <1>1, <1>3
  <2>2. CleanedPair(e, n, b) <=> MovedPair(e, n, b)
    BY <2>1, CleanedPairs
  <2> QED BY <1>4, <1>5, <1>6, <2>2 DEF CleanedPair, MovedPair
<1>10. Emptied'
  BY <1>1, <1>3, <1>6, <1>8 DEF Emptied, Live, Good_obj, Quiet
<1>11. htab' \subseteq GivenName \X UserNumber
  BY DEF NamesInv, Tables
<1>12. OneNumber'
  <2> SUFFICES ASSUME NEW q \in htab', NEW r \in htab', q[1] = r[1], q[1] \in Name PROVE q = r
    BY DEF OneNumber
  <2>1. PICK n \in Name, b \in UserNumber, c \in UserNumber : q = <<n, b>> /\ r = <<n, c>>
    BY <1>11
  <2>2. PICK x \in used : <<n, x>> \in htab /\ b = Target(used, x)
    BY <1>9, <2>1
  <2>3. PICK y \in used : <<n, y>> \in htab /\ c = Target(used, y)
    BY <1>9, <2>1
  <2>4. x = y
    BY <1>1, <2>2, <2>3, NumberOfName
  <2> QED BY <2>1, <2>2, <2>3, <2>4
<1>13. ASSUME NEW o \in Object, NEW n \in Name, n \notin haunted' PROVE Found(o, n)'
  <2>1. Found(o, n)
    BY <1>1, <1>6, <1>13
  <2>2. ASSUME NEW b \in UserNumber, <<n, b>> \in htab' PROVE Shown(d', o, b, wrote'[o][n])
    <3>1. PICK a \in used : <<n, a>> \in htab /\ b = Target(used, a)
      BY <1>9, <2>2
    <3>2. a \in UserNumber /\ named[a] = n
      <4>1. a \in UserNumber /\ anum_table[a] = n
        BY <1>1, <3>1, NumberOfName
      <4> QED BY <1>1, <1>4, <4>1, CleanNames
    <3>3. Shown(e, o, a, wrote[o][n])
      <4>1. Shown(d, o, a, wrote[o][n])
        BY <2>1, <3>1, <3>2 DEF Found
      <4>2. e.text[o][a] = d.text[o][a]
        BY <1>3, <3>2 DEF Quiet, SameUser
      <4> QED BY <1>3, <4>1, <4>2, ShownKept
    <3>4. Got(d', o, b, MovedText(e, o, used, a))
      BY <1>8, <3>1
    <3>5. CASE b = a
      <4>1. Got(d', o, b, e.text[o][a])
        BY <3>1, <3>4, <3>5 DEF MovedText
      <4> QED BY <1>6, <1>8, <3>3, <4>1 DEF Got, Shown
    <3>6. CASE b # a
      <4>1. e.text[o][b] = Unset
        <5>1. a \in High(used)
          BY <3>1, <3>6 DEF High
        <5>2. n \notin CleanedOnto(e, named, used)
          BY <1>6, <1>13
        <5> QED BY <3>1, <3>2, <5>1, <5>2 DEF CleanedOnto
      <4>2. CASE e.text[o][a] = Unset
        <5>1. d'.text[o][b] = Unset
          BY <3>1, <3>4, <4>1, <4>2 DEF MovedText, Got
        <5> QED BY <1>6, <1>8, <3>3, <4>2, <5>1 DEF Alike, Shown
      <4>3. CASE e.text[o][a] # Unset
        <5>1. e.text[o][a] \in Text
          <6>1. e.text[o] \in Attributes
            BY <1>3, StateFields DEF Sound
          <6> QED BY <3>2, <4>3, <6>1, NumberTypes DEF Attributes, ValueOf
        <5>2. Got(d', o, b, Plain[e.text[o][a]])
          BY <3>1, <3>4, <3>6, <4>3 DEF MovedText, PlainText
        <5>3. wrote[o][n] \in Text \cup {Unset}
          BY <1>1
        <5>4. Alike(wrote[o][n], Plain[e.text[o][a]])
          <6>1. Alike(wrote[o][n], e.text[o][a])
            BY <3>3, <4>3 DEF Shown
          <6> QED BY <5>1, <5>3, <6>1, PlainAlike
        <5> QED BY <1>6, <5>2, <5>4, ShownGot
      <4> QED BY <4>2, <4>3
    <3> QED BY <3>5, <3>6
  <2>3. n \notin Named' => wrote'[o][n] = Unset \/ o \in d'.lost
    <3> SUFFICES ASSUME n \notin Named' PROVE wrote[o][n] = Unset \/ o \in d'.lost
      BY <1>6
    <3>1. CASE n \notin Named
      BY <1>8, <2>1, <3>1 DEF Found
    <3>2. CASE n \in Named
      <4>1. PICK a \in UserNumber : <<n, a>> \in htab
        BY <1>1, <3>2, NumberOfProperties
      <4>2. a \notin used
        <5>1. SUFFICES ASSUME a \in used PROVE FALSE
          OBVIOUS
        <5>2. <<n, Target(used, a)>> \in htab' /\ <<n, Target(used, a)>>[1] = n
          BY <1>7, <1>9, <4>1, <5>1
        <5>3. n \in Named'
          BY <5>2 DEF Named
        <5> QED BY <5>3
      <4>3. named[a] # NOTHING
        <5>1. anum_table[a] = n
          BY <1>1, <4>1, NumberOfName
        <5>2. named[a] = n
          BY <1>1, <1>4, <5>1, CleanNames
        <5> QED BY <5>2, GivenNames
      <4>4. a \notin Range(ListOf(e, o))
        BY <1>4, <1>5, <4>2, <4>3 DEF CleanUsed, InUse
      <4>5. e.text[o][a] = Unset
        BY <1>3, <4>4, Listed
      <4>6. d.text[o][a] = Unset
        BY <1>3, <4>5 DEF Quiet, SameUser
      <4>7. Shown(d, o, a, wrote[o][n])
        BY <2>1, <4>1 DEF Found
      <4> QED BY <1>8, <4>6, <4>7 DEF Alike, Shown
    <3> QED BY <3>1, <3>2
  <2> QED BY <2>2, <2>3 DEF Found
<1> QED BY <1>10, <1>12, <1>13 DEF TextInv

LEMMA DestroyText ==
  ASSUME TextInv, NamesInv', NEW o \in Object, destroy_obj(o)
  PROVE  TextInv'
<1>1. /\ d \in Sound /\ OneNumber /\ Emptied
      /\ wrote \in [Object -> [Name -> Text \cup {Unset}]]
      /\ \A p \in Object, x \in Name : x \notin haunted => Found(p, x)
      /\ purse[o].queue \in Int
  BY InvParts DEF NamesInv, Told
<1>2. PICK n \in Int : n = -purse[o].queue
  BY <1>1
<1>3. PICK e : e = a_Queue(d, o, n)
  OBVIOUS
<1>4. e \in Sound /\ e.text = d.text /\ e.kind = d.kind /\ e.lost = d.lost
  <2>1. e \in Sound
    BY <1>1, <1>3, QueueSound
  <2>2. CacheOnly(d, e)
    BY <1>1, <1>3, QueueProperties DEF Sound
  <2> QED BY <2>1, <2>2 DEF CacheOnly
<1>5. PICK f : f = atr_free(e, o)
  OBVIOUS
<1>6. f \in States /\ Apart(e, f, o) /\ \A b \in UserNumber : f.text[o][b] = Unset
  <2>1. f \in Sound
    BY <1>4, <1>5, FreeProperties
  <2> QED BY <1>4, <1>5, <2>1, FreeFields DEF Freed, Sound
<1>7. d' = WithKind(f, o, "garbage") /\ wrote' = [wrote EXCEPT ![o] = [x \in Name |-> Unset]]
      /\ UNCHANGED <<anum_table, htab, attr_next, haunted>>
  BY <1>2, <1>3, <1>5 DEF destroy_obj, WithKind, KeepNames
<1>8. d'.text = f.text /\ d'.kind = [f.kind EXCEPT ![o] = "garbage"] /\ d'.lost = f.lost
  BY <1>6, <1>7 DEF WithKind, States
<1>9. \A x \in Name : wrote'[o][x] = Unset /\ \A p \in Object : p # o => wrote'[p][x] = wrote[p][x]
  BY <1>1, <1>7
<1>10. ASSUME NEW p \in Object, p # o PROVE d'.text[p] = d.text[p] /\ d'.kind[p] = d.kind[p]
  <2>1. f.kind \in [Object -> {"player", "thing", "garbage"}] /\ f.kind = d.kind
    BY <1>4, <1>6, StateFields DEF Apart
  <2> QED BY <1>4, <1>6, <1>8, <1>10, <2>1 DEF Apart
<1>11. OneNumber'
  BY <1>1, <1>7 DEF OneNumber
<1>12. ASSUME NEW p \in Object, NEW x \in Name, ~Live(p)' PROVE wrote'[p][x] = Unset
  <2>1. CASE p = o
    BY <1>9, <2>1
  <2>2. CASE p # o
    BY <1>1, <1>9, <1>10, <1>12, <2>2 DEF Emptied, Live, Good_obj
  <2> QED BY <2>1, <2>2
<1>13. ASSUME NEW p \in Object, NEW x \in Name, x \notin haunted' PROVE Found(p, x)'
  <2>1. Found(p, x) /\ Named' = Named
    BY <1>1, <1>7, <1>13 DEF Named
  <2>2. CASE p = o
    BY <1>6, <1>8, <1>9, <2>2 DEF Found, Alike, Shown
  <2>3. CASE p # o
    <3>1. d'.text[p] = d.text[p] /\ wrote'[p][x] = wrote[p][x] /\ htab' = htab /\ d.lost \subseteq d'.lost
      BY <1>4, <1>6, <1>7, <1>8, <1>9, <1>10, <2>3 DEF Apart
    <3> QED BY <2>1, <3>1 DEF Found, Shown
  <2> QED BY <2>2, <2>3
<1> QED BY <1>11, <1>12, <1>13 DEF TextInv, Emptied

(* Money changes nothing that users gave.                                  *)
LEMMA PenniesUser ==
  ASSUME NEW e \in Sound, NEW o \in Object, NEW n \in Nat, NEW f, f = s_Pennies(e, o, n)
  PROVE  Apart(e, f, o) /\ SameUser(e, f, o)
<1>1. e \in States
  BY DEF Sound
<1>2. CASE OwnsOthers(e, o)
  BY <1>1, <1>2, PenniesOfPlayer
<1>3. CASE ~OwnsOthers(e, o) /\ Good_obj(e, o)
  BY <1>3, PenniesOfThing
<1>4. CASE ~OwnsOthers(e, o) /\ ~Good_obj(e, o)
  BY <1>4 DEF s_Pennies, Apart, SameUser
<1> QED BY <1>2, <1>3, <1>4

(* A new object, before it gets its money.                                 *)
LEMMA MadeFields ==
  ASSUME NEW e \in Sound, NEW o \in Object, NEW k \in {"player", "thing"},
         ~Good_obj(e, o), NEW f, f = WithKind(atr_free(e, o), o, k)
  PROVE  /\ f \in Sound /\ f.kind[o] = k /\ f.pcache = e.pcache /\ e.lost \subseteq f.lost
         /\ \A b \in UserNumber : f.text[o][b] = Unset
         /\ \A p \in Object : p # o => f.kind[p] = e.kind[p] /\ f.text[p] = e.text[p]
<1>1. PICK g : g = atr_free(e, o)
  OBVIOUS
<1>2. g \in Sound /\ Freed(e, g, o) /\ \A b \in UserNumber : g.text[o][b] = Unset
  BY <1>1, FreeProperties, FreeFields
<1>3. g \in States /\ e \in States
  BY <1>2 DEF Sound
<1>4. f \in Sound
  BY <1>1, <1>2, KindSound
<1>5. f.text = g.text /\ f.pcache = g.pcache /\ f.kind = [g.kind EXCEPT ![o] = k] /\ f.lost = g.lost
  BY <1>1, <1>3 DEF WithKind, States
<1>6. ~OwnsOthers(e, o)
  BY DEF OwnsOthers, Good_obj
<1>7. g.pcache = e.pcache
  <2>1. g.pcache \in [Object -> Entry] /\ e.pcache \in [Object -> Entry]
    BY <1>3, StateFields
  <2>2. ASSUME NEW p \in Object PROVE g.pcache[p] = e.pcache[p]
    BY <1>2, <1>6 DEF Freed, Apart
  <2> QED BY <2>1, <2>2
<1>8. g.kind \in [Object -> {"player", "thing", "garbage"}]
  BY <1>3, StateFields
<1> QED BY <1>2, <1>4, <1>5, <1>7, <1>8 DEF Freed, Apart

LEMMA CreateText ==
  ASSUME TextInv, NamesInv', NEW o \in Object, NEW k \in {"player", "thing"}, create_obj(o, k, 1)
  PROVE  TextInv'
<1>1. /\ d \in Sound /\ OneNumber /\ Emptied
      /\ \A p \in Object, x \in Name : x \notin haunted => Found(p, x)
  BY InvParts
<1>2. PICK f : f = WithKind(atr_free(d, o), o, k)
  OBVIOUS
<1>3. ~Good_obj(d, o) /\ d' = s_Pennies(f, o, 1)
      /\ UNCHANGED <<anum_table, htab, attr_next, wrote>>
  BY <1>2 DEF create_obj, WithKind, Live, KeepNames
<1>4. /\ f \in Sound /\ f.kind[o] = k /\ d.lost \subseteq f.lost
      /\ \A b \in UserNumber : f.text[o][b] = Unset
      /\ \A p \in Object : p # o => f.kind[p] = d.kind[p] /\ f.text[p] = d.text[p]
  BY <1>1, <1>2, <1>3, MadeFields
<1>5. Apart(f, d', o) /\ SameUser(f, d', o)
  BY <1>3, <1>4, PenniesUser
<1>6. d'.kind = f.kind /\ d.lost \subseteq d'.lost /\ \A b \in UserNumber : d'.text[o][b] = Unset
  BY <1>4, <1>5 DEF Apart, SameUser
<1>7. \A p \in Object : p # o => d'.kind[p] = d.kind[p] /\ d'.text[p] = d.text[p]
  BY <1>4, <1>5 DEF Apart
<1>8. OneNumber'
  BY <1>1, <1>3 DEF OneNumber
<1>9. Emptied'
  <2>1. ASSUME NEW p \in Object, NEW x \in Name, ~Live(p)' PROVE wrote'[p][x] = Unset
    <3>1. p # o
      BY <1>4, <1>6, <2>1 DEF Live, Good_obj
    <3> QED BY <1>1, <1>3, <1>7, <2>1, <3>1 DEF Emptied, Live, Good_obj
  <2> QED BY <2>1 DEF Emptied
<1>10. haunted \cap Name \subseteq haunted'
  <2>1. o \notin Name
    BY NamesAssumption
  <2>2. haunted' = haunted \cup {o} \/ haunted' = haunted \ {o}
    BY DEF create_obj
  <2> QED BY <2>1, <2>2
<1>11. ASSUME NEW p \in Object, NEW x \in Name, x \notin haunted' PROVE Found(p, x)'
  <2>1. Found(p, x) /\ Named' = Named
    BY <1>1, <1>3, <1>10, <1>11 DEF Named
  <2>2. CASE p = o
    <3>1. wrote[o][x] = Unset
      BY <1>1, <1>3 DEF Emptied, Live
    <3>2. \A b \in UserNumber : Shown(d', p, b, wrote'[p][x])
      BY <1>3, <1>6, <2>2, <3>1 DEF Alike, Shown
    <3> QED BY <1>3, <2>2, <3>1, <3>2 DEF Found
  <2>3. CASE p # o
    <3>1. d'.text[p] = d.text[p] /\ wrote' = wrote /\ htab' = htab /\ d.lost \subseteq d'.lost
      BY <1>3, <1>6, <1>7, <2>3
    <3> QED BY <2>1, <3>1 DEF Found, Shown
  <2> QED BY <2>2, <2>3
<1> QED BY <1>8, <1>9, <1>11 DEF TextInv

LEMMA SoundUser ==
  ASSUME NEW e, NEW f, NEW o \in Object, Apart(e, f, o), SameUser(e, f, o)
  PROVE  f.kind = e.kind /\ e.lost \subseteq f.lost /\ \A p \in Object : SameUser(e, f, p)
<1>1. ASSUME NEW p \in Object PROVE SameUser(e, f, p)
  <2>1. CASE p = o
    BY <2>1
  <2>2. CASE p # o
    BY <2>2, ApartOthers
  <2> QED BY <2>1, <2>2
<1> QED BY <1>1 DEF Apart

LEMMA EarnText ==
  ASSUME TextInv, NamesInv', NEW o \in Object, NEW n \in 0 .. MaxMoney, earn(o, n)
  PROVE  TextInv'
<1>1. d \in Sound /\ n \in Nat
  BY InvParts, NamesAssumption
<1>2. d' = s_Pennies(d, o, n) /\ KeepNames /\ UNCHANGED <<wrote, haunted>>
  BY DEF earn
<1>3. Apart(d, d', o) /\ SameUser(d, d', o)
  BY <1>1, <1>2, PenniesUser
<1>4. d'.kind = d.kind /\ d.lost \subseteq d'.lost /\ \A p \in Object : SameUser(d, d', p)
  BY <1>3, SoundUser
<1> QED BY <1>2, <1>4, TextQuiet

LEMMA QueueText ==
  ASSUME TextInv, NamesInv', NEW o \in Object, NEW adj \in {-1, 1}, queue(o, adj)
  PROVE  TextInv'
<1>1. d \in States /\ adj \in Int
  BY InvParts DEF Sound
<1>2. d' = a_Queue(d, o, adj) /\ KeepNames /\ UNCHANGED <<wrote, haunted>>
  BY DEF queue
<1>3. CacheOnly(d, d')
  BY <1>1, <1>2, QueueProperties
<1>4. d'.kind = d.kind /\ d.lost \subseteq d'.lost /\ \A p \in Object : SameUser(d, d', p)
  BY <1>3 DEF CacheOnly, SameUser
<1> QED BY <1>2, <1>4, TextQuiet

LEMMA QueuemaxText ==
  ASSUME TextInv, NamesInv', NEW o \in Object, NEW v \in {Unset, 1}, queuemax(o, v)
  PROVE  TextInv'
<1>1. d \in States /\ A_QUEUEMAX \in Number /\ v \in ValueOf(A_QUEUEMAX)
  BY InvParts, NumberTypes DEF Sound
<1>2. d' = atr_add_raw(d, o, A_QUEUEMAX, v) /\ KeepNames /\ UNCHANGED <<wrote, haunted>>
  BY DEF queuemax, KeepTold
<1>3. Kept(d, d', o, A_QUEUEMAX)
  BY <1>1, <1>2, AddProperties
<1>4. d'.kind = d.kind /\ d.lost \subseteq d'.lost /\ \A p \in Object : SameUser(d, d', p)
  <2>1. ASSUME NEW p \in Object PROVE SameUser(d, d', p)
    <3>1. CASE p = o
      BY <1>3, <3>1, NumberTypes DEF Kept, SameUser
    <3>2. CASE p # o
      BY <1>3, <3>2 DEF Kept, SameUser
    <3> QED BY <3>1, <3>2
  <2> QED BY <1>3, <2>1 DEF Kept
<1> QED BY <1>2, <1>4, TextQuiet

LEMMA QuietText ==
  ASSUME TextInv, NamesInv', Quiet(d, d'), KeepNames, UNCHANGED <<wrote, haunted>>
  PROVE  TextInv'
<1>1. d'.kind = d.kind /\ d.lost \subseteq d'.lost /\ \A p \in Object : SameUser(d, d', p)
  BY DEF Quiet
<1> QED BY <1>1, TextQuiet

(* A restart takes numbers back, but no name.                              *)
LEMMA RestartText ==
  ASSUME TextInv, NamesInv', do_restart
  PROVE  TextInv'
<1>1. d \in Sound /\ OneNumber /\ Emptied
      /\ \A p \in Object, x \in Name : x \notin haunted => Found(p, x)
  BY InvParts
<1>2. PICK e : e = pcache_sync(al_store(d))
  OBVIOUS
<1>3. e \in States /\ Quiet(d, e)
  BY <1>1, <1>2, DumpSound, DumpQuiet DEF Sound
<1>4. d' = Restarted(e) /\ UNCHANGED <<anum_table, htab, wrote, haunted>>
  BY <1>2 DEF do_restart, Restarted
<1>5. d'.text = e.text /\ d'.kind = e.kind /\ d'.lost = e.lost
  BY <1>3, <1>4 DEF Restarted, States
<1>6. d'.kind = d.kind /\ d.lost \subseteq d'.lost /\ \A p \in Object : SameUser(d, d', p)
  BY <1>3, <1>5 DEF Quiet, SameUser
<1>7. OneNumber'
  BY <1>1, <1>4 DEF OneNumber
<1>8. Emptied'
  BY <1>1, <1>4, <1>6 DEF Emptied, Live, Good_obj
<1>9. ASSUME NEW o \in Object, NEW n \in Name, n \notin haunted' PROVE Found(o, n)'
  <2>1. Found(o, n)
    BY <1>1, <1>4, <1>9
  <2>2. \A a \in UserNumber : d'.text[o][a] = d.text[o][a]
    BY <1>6 DEF SameUser
  <2> QED BY <1>4, <1>6, <2>1, <2>2 DEF Found, Shown, Named
<1> QED BY <1>7, <1>8, <1>9 DEF TextInv

LEMMA TextStep ==
  ASSUME TextInv, [NamesNext]_namesVars
  PROVE  TextInv'
<1>0. NamesInv' /\ d \in Sound
  BY InvParts, NamesStep
<1>1. ASSUME NEW o \in Object, NEW n \in Name, clear(o, n) PROVE TextInv'
  BY <1>0, <1>1, ClearText
<1>2. ASSUME NEW o \in Object, NEW n \in Name, NEW t \in Text, set(o, n, t) PROVE TextInv'
  BY <1>0, <1>2, SetText
<1>3. ASSUME NEW o \in Object, NEW p \in Object, clone(o, p) PROVE TextInv'
  BY <1>0, <1>3, CloneText
<1>4. ASSUME NEW n \in Name, NEW m \in Name, attribute_rename(n, m) PROVE TextInv'
  BY <1>0, <1>4, RenameText
<1>5. ASSUME NEW n \in Name, attribute_delete(n) PROVE TextInv'
  BY <1>0, <1>5, DeleteText
<1>6. CASE do_dbclean
  BY <1>0, <1>6, DbcleanText
<1>7. ASSUME NEW o \in Object, NEW n \in 0 .. MaxMoney, earn(o, n) PROVE TextInv'
  BY <1>0, <1>7, EarnText
<1>8. ASSUME NEW o \in Object, NEW adj \in {-1, 1}, queue(o, adj) PROVE TextInv'
  BY <1>0, <1>8, QueueText
<1>9. ASSUME NEW o \in Object, NEW v \in {Unset, 1}, queuemax(o, v) PROVE TextInv'
  BY <1>0, <1>9, QueuemaxText
<1>10. CASE dispatch_trim
  <2>1. Quiet(d, d')
    BY <1>0, <1>10, TrimQuiet DEF dispatch_trim
  <2> QED BY <1>0, <1>10, <2>1, QuietText DEF dispatch_trim, KeepTold
<1>11. ASSUME NEW o \in Object, destroy_obj(o) PROVE TextInv'
  BY <1>0, <1>11, DestroyText
<1>12. ASSUME NEW o \in Object, NEW k \in {"player", "thing"}, create_obj(o, k, 1) PROVE TextInv'
  BY <1>0, <1>12, CreateText
<1>13. CASE dump
  <2>1. Quiet(d, d')
    BY <1>0, <1>13, DumpQuiet DEF dump
  <2> QED BY <1>0, <1>13, <2>1, QuietText DEF dump, KeepTold
<1>14. CASE do_restart
  BY <1>0, <1>14, RestartText
<1>15. CASE UNCHANGED namesVars
  <2>1. Quiet(d, d') /\ KeepNames /\ UNCHANGED <<wrote, haunted>>
    BY <1>15, QuietSelf DEF namesVars, KeepNames
  <2> QED BY <1>0, <2>1, QuietText
<1> QED
  BY <1>1, <1>2, <1>3, <1>4, <1>5, <1>6, <1>7, <1>8, <1>9, <1>10, <1>11, <1>12, <1>13, <1>14, <1>15
  DEF NamesNext

(* Under its name an attribute is read as it was written, whatever is      *)
(* renamed, cloned, cleaned, destroyed, dumped and restarted in between,   *)
(* and whichever list is in memory; an object whose full list refused a    *)
(* number may have lost a text, but shows no other in its place (al_add,   *)
(* atr_add_raw, atr_cpy, vattr_rename_LEN, do_dbclean).                    *)
THEOREM TextAlwaysKept == NamesSpec => []TextKept
<1>1. NamesInit => TextInv
  <2> SUFFICES ASSUME NamesInit PROVE TextInv
    OBVIOUS
  <2>1. NamesInv
    BY InitNames
  <2>2. /\ htab = {} /\ haunted = {} /\ wrote = [o \in Object |-> [n \in Name |-> Unset]]
    BY DEF NamesInit
  <2>3. OneNumber /\ Emptied
    BY <2>2 DEF OneNumber, Emptied
  <2>4. ASSUME NEW o \in Object, NEW n \in Name PROVE Found(o, n)
    BY <2>2 DEF Found
  <2> QED BY <2>1, <2>3, <2>4 DEF TextInv
<1>2. TextInv /\ [NamesNext]_namesVars => TextInv'
  BY TextStep
<1>3. TextInv => TextKept
  <2> SUFFICES ASSUME TextInv, NEW o \in Object, NEW n \in Name, n \notin haunted
               PROVE  LET stored == IF n \in Named THEN d.text[o][NumberOf(n)] ELSE Unset
                      IN Alike(wrote[o][n], stored) \/ (o \in d.lost /\ stored = Unset)
    BY DEF TextKept, Alike
  <2>1. Found(o, n) /\ Tables
    BY InvParts
  <2>2. CASE n \in Named
    <3>1. NumberOf(n) \in UserNumber /\ <<n, NumberOf(n)>> \in htab
      BY <2>1, <2>2, NumberOfProperties
    <3> QED BY <2>1, <2>2, <3>1 DEF Found, Shown
  <2>3. CASE n \notin Named
    BY <2>1, <2>3 DEF Found, Alike
  <2> QED BY <2>2, <2>3
<1> QED BY <1>1, <1>2, <1>3, PTL DEF NamesSpec

-----------------------------------------------------------------------------
(* Money and counts of queued commands.                                    *)

Account(o) ==
  /\ Held(d, o)
  /\ ~OwnsOthers(d, o) => purse[o].queue = 0
  /\ Live(o) /\ o \notin haunted /\ o \notin d.lost =>
       /\ Backed(d, o)
       /\ Balance(d, o) = purse[o].money /\ Counted(d, o) = purse[o].queue
       /\ OwnsOthers(d, o) \/ ~d.pcache[o].cached

AccountsInv == NamesInv /\ \A o \in Object : Account(o)

LEMMA AccountParts ==
  ASSUME AccountsInv
  PROVE  /\ NamesInv /\ d \in Sound /\ d \in States /\ \A o \in Object : Account(o) /\ Held(d, o)
         /\ purse \in [Object -> [money : Nat, queue : Int]]
BY DEF AccountsInv, NamesInv, Told, Sound, Account

(* An account that is the same, wherever it is kept.                       *)
LEMMA AccountSame ==
  ASSUME NEW o \in Object, Account(o), SameAccount(d, d', o), d'.kind[o] = d.kind[o],
         purse'[o] = purse[o], o \in haunted => o \in haunted', d.lost \subseteq d'.lost
  PROVE  Account(o)'
<1>1. Live(o)' = Live(o) /\ OwnsOthers(d, o)' = OwnsOthers(d, o)
  BY DEF Live, Good_obj, OwnsOthers
<1>2. Held(d, o) /\ Held(d, o)'
  BY DEF Account, SameAccount
<1>3. ~OwnsOthers(d', o) => purse'[o].queue = 0
  BY <1>1 DEF Account
<1>4. ASSUME Live(o)', o \notin haunted', o \notin d'.lost
      PROVE  /\ Backed(d', o) /\ Balance(d', o) = purse'[o].money /\ Counted(d', o) = purse'[o].queue
             /\ OwnsOthers(d', o) \/ ~d'.pcache[o].cached
  <2>1. /\ Backed(d, o) /\ Balance(d, o) = purse[o].money /\ Counted(d, o) = purse[o].queue
        /\ OwnsOthers(d, o) \/ ~d.pcache[o].cached
    BY <1>1, <1>4 DEF Account
  <2>2. /\ Backed(d', o) /\ Balance(d', o) = Balance(d, o) /\ Counted(d', o) = Counted(d, o)
        /\ d'.pcache[o].cached => d.pcache[o].cached \/ OwnsOthers(d, o)
    BY <1>2, <1>4, <2>1 DEF SameAccount
  <2> QED BY <1>1, <2>1, <2>2
<1> QED BY <1>2, <1>3, <1>4 DEF Account

LEMMA AccountsSame ==
  ASSUME AccountsInv, NamesInv', \A o \in Object : SameAccount(d, d', o), d'.kind = d.kind,
         UNCHANGED purse, haunted \cap Object \subseteq haunted', d.lost \subseteq d'.lost
  PROVE  AccountsInv'
<1>1. ASSUME NEW o \in Object PROVE Account(o)'
  <2>1. Account(o) /\ purse'[o] = purse[o] /\ (o \in haunted => o \in haunted') /\ d'.kind[o] = d.kind[o]
    BY DEF AccountsInv
  <2> QED BY <2>1, AccountSame
<1> QED BY <1>1 DEF AccountsInv

LEMMA AccountsApart ==
  ASSUME AccountsInv, NamesInv', NEW o \in Object, Apart(d, d', o), SameAccount(d, d', o),
         UNCHANGED purse, haunted \cap Object \subseteq haunted'
  PROVE  AccountsInv'
<1>1. ASSUME NEW p \in Object PROVE SameAccount(d, d', p)
  <2>1. CASE p = o
    BY <2>1
  <2>2. CASE p # o
    BY <2>2, ApartOthers
  <2> QED BY <2>1, <2>2
<1> QED BY <1>1, AccountsSame DEF Apart

(* One account is changed on purpose.                                      *)
LEMMA AccountsOthers ==
  ASSUME AccountsInv, NamesInv', NEW o \in Object, Account(o)', d.lost \subseteq d'.lost,
         \A p \in Object : p # o =>
           /\ SameAccount(d, d', p) /\ d'.kind[p] = d.kind[p]
           /\ purse'[p] = purse[p] /\ (p \in haunted => p \in haunted')
  PROVE  AccountsInv'
<1>1. ASSUME NEW p \in Object PROVE Account(p)'
  <2>1. CASE p = o
    BY <2>1
  <2>2. CASE p # o
    BY <2>2, AccountSame DEF AccountsInv
  <2> QED BY <2>1, <2>2
<1> QED BY <1>1 DEF AccountsInv

LEMMA QuietAccounts ==
  ASSUME AccountsInv, NamesInv', Quiet(d, d'), UNCHANGED <<purse, haunted>>
  PROVE  AccountsInv'
<1>1. d'.kind = d.kind /\ d.lost \subseteq d'.lost /\ \A o \in Object : SameAccount(d, d', o)
  BY DEF Quiet
<1> QED BY <1>1, AccountsSame

LEMMA SetAccounts ==
  ASSUME AccountsInv, NamesInv', NEW o \in Object, NEW n \in Name, NEW t \in Text, set(o, n, t)
  PROVE  AccountsInv'
<1>1. d \in Sound
  BY AccountParts
<1>2. PICK a \in UserNumber : a = IF n \in Named THEN NumberOf(n) ELSE attr_next
  BY DEF set
<1>3. d' = atr_add_raw(d, o, a, t) /\ t \in ValueOf(a)
  BY <1>2 DEF set, ValueOf
<1>4. Apart(d, d', o) /\ SameAccount(d, d', o)
  BY <1>1, <1>3, AddFields
<1>5. purse' = purse /\ haunted' \in {haunted, haunted \cup {n}}
  BY <1>2 DEF set
<1> QED BY <1>4, <1>5, AccountsApart

LEMMA ClearAccounts ==
  ASSUME AccountsInv, NamesInv', NEW o \in Object, NEW n \in Name, clear(o, n)
  PROVE  AccountsInv'
<1>1. d \in Sound /\ Tables
  BY AccountParts DEF NamesInv
<1>2. PICK a \in UserNumber : a = NumberOf(n)
  BY <1>1, NumberOfProperties DEF clear
<1>3. d' = atr_clr(d, o, a) /\ UNCHANGED <<purse, haunted>>
  BY <1>2 DEF clear
<1>4. Apart(d, d', o) /\ SameAccount(d, d', o)
  BY <1>1, <1>3, ClearFields
<1> QED BY <1>3, <1>4, AccountsApart

LEMMA CloneAccounts ==
  ASSUME AccountsInv, NamesInv', NEW o \in Object, NEW p \in Object, clone(o, p)
  PROVE  AccountsInv'
<1>1. d \in Sound
  BY AccountParts
<1>2. PICK copied : copied = {a \in UserNumber : anum_table[a] # NOTHING}
  OBVIOUS
<1>3. d' = atr_cpy(d, o, p, copied) /\ copied \subseteq UserNumber /\ UNCHANGED <<purse, haunted>>
  BY <1>2 DEF clone
<1>4. Apart(d, d', o) /\ SameAccount(d, d', o)
  BY <1>1, <1>3, CopyFields
<1> QED BY <1>3, <1>4, AccountsApart

LEMMA DbcleanAccounts ==
  ASSUME AccountsInv, NamesInv', do_dbclean
  PROVE  AccountsInv'
<1>1. d \in Sound
  BY AccountParts
<1>2. PICK e : e = pcache_sync(al_store(d))
  OBVIOUS
<1>3. e \in Sound /\ Quiet(d, e)
  BY <1>1, <1>2, DumpSound, DumpQuiet
<1>4. PICK used : used = CleanUsed(e) /\ used \subseteq UserNumber
  BY DEF CleanUsed
<1>5. /\ d' = MovingAll(e, used, SetToSeq(Object))[Cardinality(Object)]
      /\ haunted' = haunted \cup CleanedOnto(e, CleanNamed(e), used) /\ purse' = purse
  BY <1>2, <1>4, CleanedSteps
<1>6. d'.kind = e.kind /\ e.lost \subseteq d'.lost /\ \A p \in Object : SameAccount(e, d', p)
  BY <1>3, <1>4, <1>5, MovedAllFields
<1>7. d'.kind = d.kind /\ d.lost \subseteq d'.lost /\ \A p \in Object : SameAccount(d, d', p)
  <2>1. e.kind = d.kind /\ d.lost \subseteq e.lost /\ \A p \in Object : SameAccount(d, e, p)
    BY <1>3 DEF Quiet
  <2> QED BY <1>6, <2>1, SameTwice
<1> QED BY <1>5, <1>7, AccountsSame

LEMMA EarnAccounts ==
  ASSUME AccountsInv, NamesInv', NEW o \in Object, NEW n \in 0 .. MaxMoney, earn(o, n)
  PROVE  AccountsInv'
<1>1. /\ d \in Sound /\ d \in States /\ n \in Nat /\ Account(o)
      /\ purse \in [Object -> [money : Nat, queue : Int]]
  BY AccountParts, NamesAssumption
<1>2. Live(o) /\ d' = s_Pennies(d, o, n) /\ purse' = [purse EXCEPT ![o].money = n] /\ haunted' = haunted
  BY DEF earn
<1>3. Apart(d, d', o) /\ d.lost \subseteq d'.lost
  BY <1>1, <1>2, PenniesUser DEF Apart
<1>4. /\ purse'[o].money = n /\ purse'[o].queue = purse[o].queue
      /\ \A p \in Object : p # o => purse'[p] = purse[p]
  BY <1>1, <1>2
<1>5. Live(o)' = Live(o) /\ OwnsOthers(d', o) = OwnsOthers(d, o)
  BY <1>3 DEF Apart, Live, Good_obj, OwnsOthers
<1>6. Account(o)'
  <2>1. CASE OwnsOthers(d, o)
    <3>1. Held(d', o) /\ Backed(d', o) /\ Balance(d', o) = n /\ Counted(d', o) = Counted(d, o)
      BY <1>1, <1>2, <2>1, PenniesOfPlayer
    <3>2. o \notin haunted /\ o \notin d'.lost => Counted(d', o) = purse[o].queue
      BY <1>1, <1>2, <1>3, <3>1 DEF Account
    <3> QED BY <1>2, <1>4, <1>5, <2>1, <3>1, <3>2 DEF Account
  <2>2. CASE ~OwnsOthers(d, o)
    <3>1. Good_obj(d, o)
      BY <1>2 DEF Live
    <3>2. d'.pcache = d.pcache /\ (o \notin d'.lost => d'.text[o][A_MONEY] = n) /\ n # Unset
      BY <1>1, <1>2, <2>2, <3>1, PenniesOfThing
    <3>3. Held(d', o) /\ purse'[o].queue = 0
      BY <1>1, <1>4, <2>2, <3>2 DEF Account, Held
    <3>4. ASSUME o \notin haunted, o \notin d'.lost
          PROVE  Backed(d', o) /\ Balance(d', o) = n /\ Counted(d', o) = 0 /\ ~d'.pcache[o].cached
      <4>1. ~d'.pcache[o].cached
        BY <1>1, <1>2, <1>3, <2>2, <3>2, <3>4 DEF Account
      <4> QED BY <3>2, <3>4, <4>1 DEF Backed, Balance, Counted, Stock
    <3> QED BY <1>2, <1>4, <3>3, <3>4 DEF Account
  <2> QED BY <2>1, <2>2
<1>7. ASSUME NEW p \in Object, p # o
      PROVE  SameAccount(d, d', p) /\ d'.kind[p] = d.kind[p]
  BY <1>3, <1>7, ApartOthers DEF Apart
<1> QED BY <1>2, <1>3, <1>4, <1>6, <1>7, AccountsOthers

LEMMA QueueAccounts ==
  ASSUME AccountsInv, NamesInv', NEW o \in Object, NEW adj \in {-1, 1}, queue(o, adj)
  PROVE  AccountsInv'
<1>1. /\ d \in States /\ adj \in Int /\ Account(o)
      /\ purse \in [Object -> [money : Nat, queue : Int]]
  BY AccountParts
<1>2. /\ Live(o) /\ OwnsOthers(d, o) /\ d' = a_Queue(d, o, adj)
      /\ purse' = [purse EXCEPT ![o].queue = @ + adj] /\ haunted' = haunted
  BY DEF queue
<1>3. /\ Apart(d, d', o) /\ d.lost \subseteq d'.lost /\ Held(d', o) /\ (Backed(d, o) => Backed(d', o))
      /\ Balance(d', o) = Balance(d, o) /\ Counted(d', o) = Counted(d, o) + adj
  BY <1>1, <1>2, QueueGiven DEF Apart
<1>4. /\ purse'[o].money = purse[o].money /\ purse'[o].queue = purse[o].queue + adj
      /\ \A p \in Object : p # o => purse'[p] = purse[p]
  BY <1>1, <1>2
<1>5. OwnsOthers(d', o)
  BY <1>2, <1>3 DEF Apart, OwnsOthers
<1>6. Account(o)'
  BY <1>1, <1>2, <1>3, <1>4, <1>5 DEF Account
<1>7. ASSUME NEW p \in Object, p # o
      PROVE  SameAccount(d, d', p) /\ d'.kind[p] = d.kind[p]
  BY <1>3, <1>7, ApartOthers DEF Apart
<1> QED BY <1>2, <1>3, <1>4, <1>6, <1>7, AccountsOthers

LEMMA QueuemaxAccounts ==
  ASSUME AccountsInv, NamesInv', NEW o \in Object, NEW v \in {Unset, 1}, queuemax(o, v)
  PROVE  AccountsInv'
<1>1. /\ d \in Sound /\ A_QUEUEMAX \in Number /\ A_QUEUEMAX # A_MONEY /\ v \in ValueOf(A_QUEUEMAX)
  BY AccountParts, NumberTypes, NamesAssumption
<1>2. d' = atr_add_raw(d, o, A_QUEUEMAX, v) /\ UNCHANGED <<purse, haunted>>
  BY DEF queuemax, KeepTold
<1>3. Apart(d, d', o) /\ SameAccount(d, d', o)
  BY <1>1, <1>2, AddSame
<1> QED BY <1>2, <1>3, AccountsApart

LEMMA DestroyAccounts ==
  ASSUME AccountsInv, NamesInv', NEW o \in Object, destroy_obj(o)
  PROVE  AccountsInv'
<1>1. /\ d \in Sound /\ d \in States /\ Held(d, o)
      /\ purse \in [Object -> [money : Nat, queue : Int]]
  BY AccountParts
<1>2. PICK n \in Int : n = -purse[o].queue
  BY <1>1
<1>3. PICK e : e = a_Queue(d, o, n)
  OBVIOUS
<1>4. e \in Sound /\ Apart(d, e, o) /\ Held(e, o)
  <2>1. e \in Sound
    BY <1>1, <1>3, QueueSound
  <2>2. CASE OwnsOthers(d, o)
    BY <1>1, <1>3, <2>1, <2>2, QueueGiven
  <2>3. CASE ~OwnsOthers(d, o)
    <3>1. e = d
      BY <1>3, <2>3 DEF a_Queue
    <3> QED BY <1>1, <2>1, <3>1, SameSelf
  <2> QED BY <2>2, <2>3
<1>5. PICK f : f = atr_free(e, o)
  OBVIOUS
<1>6. f \in States /\ Apart(e, f, o) /\ Held(f, o)
  <2>1. f \in Sound
    BY <1>4, <1>5, FreeProperties
  <2> QED BY <1>4, <1>5, <2>1, FreeFields DEF Freed, Sound
<1>7. /\ d' = WithKind(f, o, "garbage") /\ haunted' = haunted
      /\ purse' = [purse EXCEPT ![o] = [money |-> 0, queue |-> 0]]
  BY <1>2, <1>3, <1>5 DEF destroy_obj, WithKind
<1>8. d'.text = f.text /\ d'.pcache = f.pcache /\ d'.kind = [f.kind EXCEPT ![o] = "garbage"]
      /\ d'.lost = f.lost
  BY <1>6, <1>7 DEF WithKind, States
<1>9. f.kind \in [Object -> {"player", "thing", "garbage"}]
  BY <1>6, StateFields
<1>10. purse'[o].queue = 0 /\ \A p \in Object : p # o => purse'[p] = purse[p]
  BY <1>1, <1>7
<1>11. Account(o)'
  <2>1. ~Live(o)' /\ Held(d', o)
    BY <1>6, <1>8, <1>9 DEF Live, Good_obj, Held
  <2> QED BY <1>10, <2>1 DEF Account
<1>12. ASSUME NEW p \in Object, p # o
       PROVE  SameAccount(d, d', p) /\ d'.kind[p] = d.kind[p]
  <2>1. d'.text[p] = d.text[p] /\ d'.pcache[p] = d.pcache[p] /\ d'.kind[p] = d.kind[p]
    BY <1>4, <1>6, <1>8, <1>9, <1>12 DEF Apart
  <2> QED BY <2>1 DEF SameAccount, Held, Backed, Balance, Counted, Stock
<1>13. d.lost \subseteq d'.lost
  BY <1>4, <1>6, <1>8 DEF Apart
<1> QED BY <1>7, <1>13, <1>10, <1>11, <1>12, AccountsOthers

(* A new object has no money but what it is given, unless an entry that    *)
(* was a dead player's is under its number.                                *)
LEMMA CreateAccounts ==
  ASSUME AccountsInv, NamesInv', NEW o \in Object, NEW k \in {"player", "thing"}, create_obj(o, k, 1)
  PROVE  AccountsInv'
<1>1. /\ d \in Sound /\ Account(o) /\ purse \in [Object -> [money : Nat, queue : Int]]
  BY AccountParts
<1>2. PICK f : f = WithKind(atr_free(d, o), o, k)
  OBVIOUS
<1>3. /\ ~Good_obj(d, o) /\ d' = s_Pennies(f, o, 1)
      /\ purse' = [purse EXCEPT ![o].money = 1]
      /\ haunted' = IF d.pcache[o].cached THEN haunted \cup {o} ELSE haunted \ {o}
  BY <1>2 DEF create_obj, WithKind, Live
<1>4. /\ f \in Sound /\ f.kind[o] = k /\ f.pcache = d.pcache /\ d.lost \subseteq f.lost
      /\ \A p \in Object : p # o => f.kind[p] = d.kind[p] /\ f.text[p] = d.text[p]
  BY <1>1, <1>2, <1>3, MadeFields
<1>5. Apart(f, d', o) /\ f \in States /\ 1 \in Nat
  <2>1. 1 \in Nat
    OBVIOUS
  <2> QED BY <1>3, <1>4, <2>1, PenniesUser DEF Sound
<1>6. /\ purse'[o].money = 1 /\ purse'[o].queue = 0
      /\ \A p \in Object : p # o => purse'[p] = purse[p]
  <2>1. purse[o].queue = 0
    BY <1>1, <1>3 DEF Account, OwnsOthers, Good_obj
  <2> QED BY <1>1, <1>3, <2>1
<1>7. OwnsOthers(d', o) <=> OwnsOthers(f, o)
  BY <1>5 DEF Apart, OwnsOthers
<1>8. o \notin haunted' => ~f.pcache[o].cached
  BY <1>3, <1>4
<1>9. Held(f, o)
  BY <1>1, <1>4 DEF Account, Held
<1>10. Account(o)'
  <2>1. CASE OwnsOthers(f, o)
    <3>1. Held(d', o) /\ Backed(d', o) /\ Balance(d', o) = 1 /\ Counted(d', o) = Counted(f, o)
      BY <1>3, <1>5, <2>1, PenniesOfPlayer
    <3>2. o \notin haunted' => Counted(f, o) = 0
      BY <1>8 DEF Counted
    <3> QED BY <1>6, <1>7, <2>1, <3>1, <3>2 DEF Account
  <2>2. CASE ~OwnsOthers(f, o)
    <3>1. Good_obj(f, o)
      BY <1>4 DEF Good_obj
    <3>2. d'.pcache = f.pcache /\ (o \notin d'.lost => d'.text[o][A_MONEY] = 1) /\ 1 # Unset
      BY <1>3, <1>4, <1>5, <2>2, <3>1, PenniesOfThing
    <3>3. Held(d', o)
      BY <1>9, <3>2 DEF Held
    <3>4. ASSUME o \notin haunted', o \notin d'.lost
          PROVE  Backed(d', o) /\ Balance(d', o) = 1 /\ Counted(d', o) = 0 /\ ~d'.pcache[o].cached
      BY <1>8, <3>2, <3>4 DEF Backed, Balance, Counted, Stock
    <3> QED BY <1>6, <3>3, <3>4 DEF Account
  <2> QED BY <2>1, <2>2
<1>11. ASSUME NEW p \in Object, p # o
       PROVE  SameAccount(d, d', p) /\ d'.kind[p] = d.kind[p] /\ (p \in haunted => p \in haunted')
  <2>1. d'.text[p] = d.text[p] /\ d'.pcache[p] = d.pcache[p] /\ d'.kind[p] = d.kind[p]
    BY <1>4, <1>5, <1>11 DEF Apart
  <2>2. SameAccount(d, d', p)
    BY <2>1 DEF SameAccount, Held, Backed, Balance, Counted, Stock
  <2> QED BY <1>3, <1>11, <2>1, <2>2
<1>12. d.lost \subseteq d'.lost
  BY <1>4, <1>5 DEF Apart
<1> QED BY <1>12, <1>6, <1>10, <1>11, AccountsOthers

(* The entries are gone after a restart: all of them were written.         *)
LEMMA RestartAccounts ==
  ASSUME AccountsInv, NamesInv', do_restart
  PROVE  AccountsInv'
<1>1. /\ d \in Sound /\ \A o \in Object : Account(o) /\ Held(d, o)
      /\ purse \in [Object -> [money : Nat, queue : Int]]
  BY AccountParts
<1>2. PICK e : e = pcache_sync(al_store(d))
  OBVIOUS
<1>3. e \in States /\ Quiet(d, e) /\ \A o \in Object : ~e.pcache[o].dirty
  BY <1>1, <1>2, DumpSound, DumpQuiet DEF Sound
<1>4. d' = Restarted(e) /\ haunted' = haunted
      /\ purse' = [o \in Object |-> [purse[o] EXCEPT !.queue = 0]]
  BY <1>2 DEF do_restart, Restarted
<1>5. d'.text = e.text /\ d'.kind = d.kind /\ d'.lost = e.lost /\ d.lost \subseteq e.lost /\ \A o \in Object : d'.pcache[o] = NoEntry
  BY <1>3, <1>4 DEF Restarted, States, Quiet
<1>6. ASSUME NEW o \in Object PROVE Account(o)'
  <2>1. Held(d', o) /\ ~d'.pcache[o].cached
    BY <1>5 DEF Held, NoEntry
  <2>2. purse'[o].queue = 0 /\ purse'[o].money = purse[o].money
    BY <1>1, <1>4
  <2>3. ASSUME Live(o)', o \notin haunted', o \notin d'.lost
        PROVE  Backed(d', o) /\ Balance(d', o) = purse[o].money /\ Counted(d', o) = 0
    <3>1. Backed(d, o) /\ Balance(d, o) = purse[o].money /\ Held(d, o)
      BY <1>1, <1>4, <1>5, <2>3 DEF Account, Live, Good_obj
    <3>2. Backed(e, o) /\ Balance(e, o) = purse[o].money
      BY <1>3, <1>5, <2>3, <3>1 DEF Quiet, SameAccount
    <3>3. Stock(e, o) = Balance(e, o)
      <4>1. CASE e.pcache[o].cached
        <5>1. e.text[o][A_MONEY] = e.pcache[o].money
          BY <1>3, <3>2, <4>1 DEF Backed
        <5>2. e.pcache[o].money # Unset
          <6>1. e.pcache[o] \in Entry
            BY <1>3, ValueTypes
          <6>2. e.pcache[o].money \in Nat
            BY <6>1, EntryFields
          <6> QED BY <6>2, ListAssumption
        <5> QED BY <4>1, <5>1, <5>2 DEF Stock, Balance
      <4>2. CASE ~e.pcache[o].cached
        BY <4>2 DEF Balance
      <4> QED BY <4>1, <4>2
    <3>4. Balance(d', o) = Stock(e, o) /\ Counted(d', o) = 0 /\ Backed(d', o)
      BY <1>5, <2>1 DEF Balance, Stock, Counted, Backed
    <3> QED BY <3>2, <3>3, <3>4
  <2> QED BY <2>1, <2>2, <2>3 DEF Account
<1> QED BY <1>6 DEF AccountsInv

LEMMA AccountsStep ==
  ASSUME AccountsInv, [NamesNext]_namesVars
  PROVE  AccountsInv'
<1>0. NamesInv' /\ d \in Sound
  BY AccountParts, NamesStep
<1>1. ASSUME NEW o \in Object, NEW n \in Name, clear(o, n) PROVE AccountsInv'
  BY <1>0, <1>1, ClearAccounts
<1>2. ASSUME NEW o \in Object, NEW n \in Name, NEW t \in Text, set(o, n, t) PROVE AccountsInv'
  BY <1>0, <1>2, SetAccounts
<1>3. ASSUME NEW o \in Object, NEW p \in Object, clone(o, p) PROVE AccountsInv'
  BY <1>0, <1>3, CloneAccounts
<1>4. ASSUME NEW n \in Name, NEW m \in Name, attribute_rename(n, m) PROVE AccountsInv'
  <2>1. d' = d /\ purse' = purse /\ haunted' \in {haunted, haunted \cup {m}}
    BY <1>4 DEF attribute_rename
  <2>2. \A o \in Object : SameAccount(d, d', o)
    BY <2>1, SameSelf
  <2>3. /\ haunted \cap Object \subseteq haunted' /\ d'.kind = d.kind /\ purse' = purse
        /\ d.lost \subseteq d'.lost
    BY <2>1
  <2> QED BY <1>0, <2>2, <2>3, AccountsSame
<1>5. ASSUME NEW n \in Name, attribute_delete(n) PROVE AccountsInv'
  <2>1. Quiet(d, d') /\ UNCHANGED <<purse, haunted>>
    BY <1>5, QuietSelf DEF attribute_delete
  <2> QED BY <1>0, <2>1, QuietAccounts
<1>6. CASE do_dbclean
  BY <1>0, <1>6, DbcleanAccounts
<1>7. ASSUME NEW o \in Object, NEW n \in 0 .. MaxMoney, earn(o, n) PROVE AccountsInv'
  BY <1>0, <1>7, EarnAccounts
<1>8. ASSUME NEW o \in Object, NEW adj \in {-1, 1}, queue(o, adj) PROVE AccountsInv'
  BY <1>0, <1>8, QueueAccounts
<1>9. ASSUME NEW o \in Object, NEW v \in {Unset, 1}, queuemax(o, v) PROVE AccountsInv'
  BY <1>0, <1>9, QueuemaxAccounts
<1>10. CASE dispatch_trim
  <2>1. Quiet(d, d')
    BY <1>0, <1>10, TrimQuiet DEF dispatch_trim
  <2> QED BY <1>0, <1>10, <2>1, QuietAccounts DEF dispatch_trim, KeepTold
<1>11. ASSUME NEW o \in Object, destroy_obj(o) PROVE AccountsInv'
  BY <1>0, <1>11, DestroyAccounts
<1>12. ASSUME NEW o \in Object, NEW k \in {"player", "thing"}, create_obj(o, k, 1) PROVE AccountsInv'
  BY <1>0, <1>12, CreateAccounts
<1>13. CASE dump
  <2>1. Quiet(d, d')
    BY <1>0, <1>13, DumpQuiet DEF dump
  <2> QED BY <1>0, <1>13, <2>1, QuietAccounts DEF dump, KeepTold
<1>14. CASE do_restart
  BY <1>0, <1>14, RestartAccounts
<1>15. CASE UNCHANGED namesVars
  <2>1. Quiet(d, d') /\ UNCHANGED <<purse, haunted>>
    BY <1>15, QuietSelf DEF namesVars
  <2> QED BY <1>0, <2>1, QuietAccounts
<1> QED
  BY <1>1, <1>2, <1>3, <1>4, <1>5, <1>6, <1>7, <1>8, <1>9, <1>10, <1>11, <1>12, <1>13, <1>14, <1>15
  DEF NamesNext

LEMMA AccountsInit == NamesInit => AccountsInv
<1> SUFFICES ASSUME NamesInit PROVE AccountsInv
  OBVIOUS
<1>1. NamesInv
  BY InitNames
<1>2. ASSUME NEW o \in Object PROVE Account(o)
  <2>1. d.pcache[o] = NoEntry /\ purse[o] = [money |-> 0, queue |-> 0]
    BY DEF NamesInit
  <2>2. ~d.pcache[o].cached /\ ~d.pcache[o].dirty /\ purse[o].money = 0 /\ purse[o].queue = 0
    BY <2>1 DEF NoEntry
  <2>3. d.text[o][A_MONEY] = 0
    <3>1. d.text[o] = [NoAttributes EXCEPT ![A_MONEY] = 0]
      BY DEF NamesInit
    <3> QED BY <3>1, NumberTypes DEF NoAttributes
  <2>4. Balance(d, o) = 0 /\ Counted(d, o) = 0 /\ Held(d, o) /\ Backed(d, o)
    BY <2>2, <2>3 DEF Balance, Counted, Held, Backed, Stock
  <2> QED BY <2>2, <2>4 DEF Account
<1> QED BY <1>1, <1>2 DEF AccountsInv

(* Money and the count of queued commands are what they were made, however *)
(* entries of the player cache are trimmed, reloaded, written and lost in  *)
(* a restart, and whatever is done to attributes in between, for every     *)
(* object whose full list has refused no number (pcache_trim, pcache_sync, *)
(* pcache_reload, s_Pennies).                                              *)
THEOREM AccountsAlwaysKept == NamesSpec => []AccountsKept
<1>1. NamesInit => AccountsInv
  BY AccountsInit
<1>2. AccountsInv /\ [NamesNext]_namesVars => AccountsInv'
  BY AccountsStep
<1>3. AccountsInv => AccountsKept
  <2> SUFFICES ASSUME AccountsInv, NEW o \in Object \ d.lost, Live(o), o \notin haunted
               PROVE  /\ Pennies(d, o) = purse[o].money
                      /\ OwnsOthers(d, o) => pcache_find(d, o).pcache[o].queue = purse[o].queue
    BY DEF AccountsKept
  <2>1. d \in States /\ Account(o)
    BY AccountParts
  <2>2. /\ Balance(d, o) = purse[o].money /\ Counted(d, o) = purse[o].queue
        /\ OwnsOthers(d, o) \/ ~d.pcache[o].cached
    BY <2>1 DEF Account
  <2>3. PICK f : f = pcache_find(d, o)
    OBVIOUS
  <2>4. f.pcache[o].money = Balance(d, o) /\ f.pcache[o].queue = Counted(d, o)
    BY <2>1, <2>3, FindFields
  <2>5. CASE OwnsOthers(d, o)
    BY <2>2, <2>3, <2>4, <2>5 DEF Pennies
  <2>6. CASE ~OwnsOthers(d, o)
    BY <2>2, <2>6 DEF Pennies, Balance, Stock
  <2> QED BY <2>5, <2>6
<1> QED BY <1>1, <1>2, <1>3, PTL DEF NamesSpec
=============================================================================
