------------------------------ MODULE AttrNames -------------------------------
(***************************************************************************)
(* The names of user attributes (vattr.cpp, db.cpp), @dbclean, which gives *)
(* their numbers away anew, and what else works on the attributes of       *)
(* AttrList: money and queue counts of players, creation and destruction,  *)
(* dumps and restarts.  Of creating and destroying, the part that touches  *)
(* attributes and the player cache is here.                                *)
(***************************************************************************)
EXTENDS AttrList, FiniteSetsExt

CONSTANTS
  Name, Text,
  Plain,                     \* [Text -> Text]: without owner and flags
  A_USER_START, MaxNumber,   \* MaxNumber: bound on attr_next
  Player,                    \* objects that may be players, the others are things
  MaxMoney, MaxQueue         \* bounds

ASSUME NamesAssumption ==
  /\ Player \subseteq Object /\ IsFiniteSet(Object) /\ Object \cap Name = {} /\ NOTHING \notin Name
  /\ A_MONEY \in Nat /\ A_QUEUEMAX \in Nat /\ A_USER_START \in Nat /\ MaxNumber \in Nat
  /\ Number = {A_MONEY, A_QUEUEMAX} \cup A_USER_START .. MaxNumber
  /\ A_MONEY # A_QUEUEMAX /\ A_MONEY < A_USER_START /\ A_QUEUEMAX < A_USER_START
  /\ Unset \notin Text /\ Plain \in [Text -> Text] /\ \A t \in Text : Plain[Plain[t]] = Plain[t]
  /\ MaxMoney \in Nat /\ MaxQueue \in Nat

VARIABLES
  d,              \* attributes, lists and the player cache: see AttrList
  anum_table,     \* [A_USER_START .. MaxNumber -> Name, dangling name or NOTHING]
  htab,           \* vattr_name_htab: {<<name, number>>}
  attr_next,
  wrote,          \* history: the text last given to each name of each object
  purse,          \* history: the money each object was last given, and its commands queued
  haunted         \* history: names and objects that took the number of one that left something

namesVars == <<d, anum_table, htab, attr_next, wrote, purse, haunted>>

UserNumber == A_USER_START .. MaxNumber
Dangling(a) == <<"DANGLINGATTR", a>>

\* Users are taken to leave the names alone that @dbclean invents.
ASSUME DanglingAssumption == \A a \in UserNumber : Dangling(a) \notin Name

Named == {n \in Name : \E p \in htab : p[1] = n}

\* vattr_find_LEN
NumberOf(n) == CHOOSE a \in UserNumber : <<n, a>> \in htab

NoAttributes == [a \in Number |-> Unset]

NamesInit ==
  /\ d = [text |-> [o \in Object |-> [NoAttributes EXCEPT ![A_MONEY] = 0]],
          list |-> [o \in Object |-> <<A_MONEY>>],
          mod_al_id |-> NOTHING, mod_alist |-> <<>>,
          pcache |-> [o \in Object |-> NoEntry],
          kind |-> [o \in Object |-> IF o \in Player THEN "player" ELSE "thing"],
          lost |-> {}]
  /\ anum_table = [a \in UserNumber |-> NOTHING] /\ htab = {} /\ attr_next = A_USER_START
  /\ wrote = [o \in Object |-> [n \in Name |-> Unset]]
  /\ purse = [o \in Object |-> [money |-> 0, queue |-> 0]]
  /\ haunted = {}

KeepNames == UNCHANGED <<anum_table, htab, attr_next>>
KeepTold == UNCHANGED <<wrote, purse, haunted>>

Live(o) == Good_obj(d, o)
-----------------------------------------------------------------------------
\* &name object = text: mkattr, then atr_add.
set(o, n, t) ==
  LET a == IF n \in Named THEN NumberOf(n) ELSE attr_next
  IN /\ Live(o) /\ a \in UserNumber
     /\ IF n \in Named THEN KeepNames /\ UNCHANGED haunted
        ELSE /\ attr_next' = attr_next + 1
             /\ htab' = htab \cup {<<n, a>>}
             /\ anum_table' = [anum_table EXCEPT ![a] = n]
             /\ haunted' = IF \E p \in Object : d.text[p][a] # Unset THEN haunted \cup {n} ELSE haunted
     /\ d' = atr_add_raw(d, o, a, t)
     /\ wrote' = [wrote EXCEPT ![o][n] = t]
     /\ UNCHANGED purse

clear(o, n) ==
  /\ Live(o) /\ n \in Named
  /\ d' = atr_clr(d, o, NumberOf(n))
  /\ wrote' = [wrote EXCEPT ![o][n] = Unset]
  /\ KeepNames /\ UNCHANGED <<purse, haunted>>

\* @clone: user attributes are copied, those of names that are gone are not.
clone(dest, source) ==
  LET copied == {a \in UserNumber : anum_table[a] # NOTHING}
      Copied(n) == n \in Named /\ NumberOf(n) \in Range(ListOf(d, source))
  IN /\ Live(dest) /\ Live(source) /\ dest # source
     /\ d' = atr_cpy(d, dest, source, copied)
     /\ wrote' = [wrote EXCEPT ![dest] = [n \in Name |-> IF Copied(n) THEN wrote[source][n] ELSE @[n]]]
     /\ KeepNames /\ UNCHANGED <<purse, haunted>>

\* @attribute/rename, to a name that is free.
attribute_rename(n, m) ==
  /\ n \in Named /\ m \notin Named
  /\ htab' = (htab \ {<<n, NumberOf(n)>>}) \cup {<<m, NumberOf(n)>>}
  /\ anum_table' = [anum_table EXCEPT ![NumberOf(n)] = m]
  /\ wrote' = [o \in Object |-> [wrote[o] EXCEPT ![m] = wrote[o][n], ![n] = Unset]]
  /\ haunted' = IF n \in haunted THEN haunted \cup {m} ELSE haunted
  /\ UNCHANGED <<d, attr_next, purse>>

\* @attribute/delete: what objects hold under the number stays.
attribute_delete(n) ==
  /\ n \in Named
  /\ htab' = htab \ {<<n, NumberOf(n)>>}
  /\ anum_table' = [anum_table EXCEPT ![NumberOf(n)] = NOTHING]
  /\ wrote' = [o \in Object |-> [wrote[o] EXCEPT ![n] = Unset]]
  /\ UNCHANGED <<d, attr_next, purse, haunted>>
-----------------------------------------------------------------------------
\* vattr_define_LEN gives no second number to a name that it finds.
Taken(n) == \E p \in htab : p[1] = n /\ anum_table[p[2]] = n

\* dbclean_CheckALISTtoAT: numbers without a name get one, unless it is taken.
Dangled(e) ==
  {a \in UserNumber : /\ anum_table[a] = NOTHING /\ ~Taken(Dangling(a))
                      /\ \E o \in Object : a \in Range(ListOf(e, o))}

\* dbclean_RemoveStaleAttributeNames
InUse(e, a) == \E o \in Object : a \in Range(ListOf(e, o))

\* iMapStart
RenumberFrom(used) == A_USER_START + Cardinality(used) + 1

\* aMap: the highest numbers go to the lowest free ones.
Target(used, a) ==
  LET low == (A_USER_START .. RenumberFrom(used) - 1) \ used
      above == {b \in used : b > a}
  IN IF a < RenumberFrom(used) THEN a
     ELSE CHOOSE b \in low : Cardinality({c \in low : c < b}) = Cardinality(above)

\* atr_get, without owner and flags.
PlainText(f, o, a) == IF f.text[o][a] = Unset THEN Unset ELSE Plain[f.text[o][a]]

\* Mutant: the old number is cleared before its text is copied.
MovedOne_Cleared(f, o, a, b) ==
  LET g == atr_clr(f, o, a) IN atr_add_raw(g, o, b, PlainText(g, o, a))

\* An attribute is moved as its text alone: owner and flags are lost.
MovedOne(f, o, a, b) == atr_clr(atr_add_raw(f, o, b, PlainText(f, o, a)), o, a)

MovedIfHigh(f, o, a, used) ==
  IF a \in used /\ Target(used, a) # a THEN MovedOne(f, o, a, Target(used, a)) ELSE f

Moving(e, o, used, s) ==
  LET after[k \in 0 .. Len(s)] == IF k = 0 THEN e ELSE MovedIfHigh(after[k - 1], o, s[k], used)
  IN after

Moved(e, o, used) == LET s == ListOf(e, o) IN Moving(e, o, used, s)[Len(s)]

\* DO_WHOLE_DB
MovingAll(e, used, s) ==
  LET after[k \in 0 .. Len(s)] == IF k = 0 THEN e ELSE Moved(after[k - 1], s[k], used) IN after

\* Mutant: the next new name gets the number the last one was moved to.
NextFree_Target(used, high) == Target(used, Min(high))

\* The lowest number that was moved is the next to be given.
NextFree(used, high) == Min(high)

\* @dbclean; it stops the server at a name whose number is empty (vattr_find).
do_dbclean ==
  LET e == pcache_sync(al_store(d))
      named == [a \in UserNumber |-> IF a \in Dangled(e) THEN Dangling(a) ELSE anum_table[a]]
      used == {a \in UserNumber : named[a] # NOTHING /\ InUse(e, a)}
      high == {a \in used : Target(used, a) # a}
      defined == htab \cup {<<Dangling(a), a>> : a \in Dangled(e)}
  IN /\ \A a \in Dangled(e) : \A p \in htab : p[1] = Dangling(a) => anum_table[p[2]] # NOTHING
     /\ d' = MovingAll(e, used, SetToSeq(Object))[Cardinality(Object)]
     /\ htab' = (defined \ {<<named[a], a>> : a \in UserNumber}) \cup {<<named[a], Target(used, a)>> : a \in used}
     /\ anum_table' = [b \in UserNumber |->
                         IF \E a \in used : Target(used, a) = b
                         THEN named[CHOOSE a \in used : Target(used, a) = b] ELSE NOTHING]
     /\ attr_next' = IF high = {} THEN attr_next ELSE NextFree(used, high)
     /\ haunted' = haunted \cup
          {n \in Name : \E a \in high, o \in Object : named[a] = n /\ e.text[o][Target(used, a)] # Unset}
     /\ UNCHANGED <<wrote, purse>>
-----------------------------------------------------------------------------
earn(o, n) ==
  /\ Live(o) /\ n \in 0 .. MaxMoney
  /\ d' = s_Pennies(d, o, n)
  /\ purse' = [purse EXCEPT ![o].money = n]
  /\ KeepNames /\ UNCHANGED <<wrote, haunted>>

queue(o, adj) ==
  /\ Live(o) /\ OwnsOthers(d, o) /\ purse[o].queue + adj \in 0 .. MaxQueue
  /\ d' = a_Queue(d, o, adj)
  /\ purse' = [purse EXCEPT ![o].queue = @ + adj]
  /\ KeepNames /\ UNCHANGED <<wrote, haunted>>

queuemax(o, v) ==
  /\ Live(o)
  /\ d' = atr_add_raw(d, o, A_QUEUEMAX, v)
  /\ KeepNames /\ KeepTold

dispatch_trim == d' = pcache_trim(d) /\ KeepNames /\ KeepTold

\* Destruction: the queue is halted, the attributes go; the entry of the player cache stays.
destroy_obj(o) ==
  LET halted == a_Queue(d, o, -purse[o].queue)
  IN /\ Live(o)
     /\ d' = [atr_free(halted, o) EXCEPT !.kind[o] = "garbage"]
     /\ purse' = [purse EXCEPT ![o] = [money |-> 0, queue |-> 0]]
     /\ wrote' = [wrote EXCEPT ![o] = [n \in Name |-> Unset]]
     /\ KeepNames /\ UNCHANGED haunted

\* Creation under a number that is free: atr_free just in case, then the money.
create_obj(o, kind, value) ==
  LET made == [atr_free(d, o) EXCEPT !.kind[o] = kind]
  IN /\ ~Live(o)
     /\ d' = s_Pennies(made, o, value)
     /\ purse' = [purse EXCEPT ![o].money = value]
     /\ haunted' = IF d.pcache[o].cached THEN haunted \cup {o} ELSE haunted \ {o}
     /\ UNCHANGED wrote /\ KeepNames

\* fork_and_dump: the list in memory and the cache are written.
dump == d' = pcache_sync(al_store(d)) /\ KeepNames /\ KeepTold

\* @restart: what is in memory is gone; names and attr_next come from the dump.
do_restart ==
  LET e == pcache_sync(al_store(d))
      top == Max({A_USER_START} \cup {p[2] : p \in htab})
      next == IF htab # {} /\ attr_next <= top THEN top + 1 ELSE attr_next
  IN /\ d' = [e EXCEPT !.mod_al_id = NOTHING, !.mod_alist = <<>>,
                       !.pcache = [o \in Object |-> NoEntry]]
     /\ attr_next' = IF top + 1 < next THEN top + 1 ELSE next
     /\ purse' = [o \in Object |-> [purse[o] EXCEPT !.queue = 0]]
     /\ UNCHANGED <<anum_table, htab, wrote, haunted>>

NamesNext ==
  \/ \E o \in Object, n \in Name :
       clear(o, n) \/ \E t \in Text : set(o, n, t)
  \/ \E o, p \in Object : clone(o, p)
  \/ \E n, m \in Name : attribute_rename(n, m)
  \/ \E n \in Name : attribute_delete(n)
  \/ do_dbclean
  \/ \E o \in Object, n \in 0 .. MaxMoney : earn(o, n)
  \/ \E o \in Object, adj \in {-1, 1} : queue(o, adj)
  \/ \E o \in Object, v \in {Unset, 1} : queuemax(o, v)
  \/ dispatch_trim
  \/ \E o \in Object : destroy_obj(o) \/ \E kind \in {"player", "thing"} : create_obj(o, kind, 1)
  \/ dump \/ do_restart

NamesSpec == NamesInit /\ [][NamesNext]_namesVars
-----------------------------------------------------------------------------
\* The list of an object names exactly the attributes it has, whichever list is in
\* memory (vattr.cpp:89); only A_MONEY may be stored and not listed.
ListsExact ==
  \A o \in Object :
    LET listed == Range(ListOf(d, o))
        stored == {a \in Number : d.text[o][a] # Unset}
    IN /\ Len(ListOf(d, o)) = Cardinality(listed)
       /\ listed \subseteq stored /\ stored \ {A_MONEY} \subseteq listed

\* Names that users made and their numbers agree, and a number that is given out next
\* is not taken (vattr.cpp:89).
NamesAgree ==
  /\ \A a \in UserNumber : anum_table[a] \in Name => <<anum_table[a], a>> \in htab /\ a < attr_next
  /\ \A p \in htab : p[1] \in Name => anum_table[p[2]] = p[1]

\* Attributes are found by their names and listed on their objects (al_add,
\* vattr_rename_LEN, dbclean_CheckANHtoAT).
NamesSound == ListsExact /\ NamesAgree

\* Under its name an attribute is read as it was written, through renaming, cloning,
\* @dbclean and restarts, except under a name whose number had an owner before; on an
\* object whose full list refused a number the text may be gone, never another.
TextKept ==
  \A o \in Object, n \in Name : n \notin haunted =>
    LET stored == IF n \in Named THEN d.text[o][NumberOf(n)] ELSE Unset
    IN IF stored = Unset THEN wrote[o][n] = Unset \/ o \in d.lost
       ELSE wrote[o][n] # Unset /\ Plain[stored] = Plain[wrote[o][n]]

\* Money and the count of queued commands are what they were made, whenever an entry is
\* trimmed, reloaded or saved, unless a dead player's entry is under the number or the
\* full list of the object refused a number.
AccountsKept ==
  \A o \in Object \ d.lost : Live(o) /\ o \notin haunted =>
    /\ Pennies(d, o) = purse[o].money
    /\ OwnsOthers(d, o) => pcache_find(d, o).pcache[o].queue = purse[o].queue
=============================================================================
