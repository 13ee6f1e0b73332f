------------------------------- MODULE AttrList -------------------------------
(***************************************************************************)
(* The attributes of objects, the list of them that each object keeps as   *)
(* attribute A_LIST (db.cpp), and the player cache above them              *)
(* (player_c.cpp).  Only one list is in memory, that of mod_al_id; the     *)
(* storage below is AttrStore.                                             *)
(*                                                                         *)
(* The state is one record d, so that operations compose:                  *)
(*   text                  what is stored under each number of an object   *)
(*   list                  A_LIST as it is stored                          *)
(*   mod_al_id, mod_alist  the list in memory and whose it is              *)
(*   pcache                the player cache: an entry or NoEntry           *)
(*   kind                  "player", "thing" or "garbage"                  *)
(*   lost                  history: objects whose full list refused a number*)
(***************************************************************************)
EXTENDS Integers, Sequences, FiniteSets, SequencesExt

CONSTANTS
  Object, Number,
  A_MONEY, A_QUEUEMAX,   \* numbers that the player cache reads
  ListMax,               \* numbers that fit a list
  Unset, NOTHING

ASSUME ListAssumption ==
  A_MONEY \in Number /\ A_QUEUEMAX \in Number /\ Unset \notin Nat /\ NOTHING \notin Object

NoEntry == [money |-> 0, queue |-> 0, qmax |-> -1, dirty |-> FALSE, ref |-> FALSE, cached |-> FALSE]

\* The list of o as atr_head finds it.
ListOf(d, o) == IF d.mod_al_id = o THEN d.mod_alist ELSE d.list[o]

al_store(d) ==
  IF d.mod_al_id = NOTHING THEN d
  ELSE [d EXCEPT !.list[d.mod_al_id] = d.mod_alist, !.mod_al_id = NOTHING]

\* Mutant: the list in memory is replaced without being stored.
al_fetch_Unsaved(d, o) ==
  IF d.mod_al_id = o THEN d ELSE [d EXCEPT !.mod_al_id = o, !.mod_alist = d.list[o]]

al_fetch(d, o) ==
  IF d.mod_al_id = o THEN d
  ELSE LET s == al_store(d) IN [s EXCEPT !.mod_al_id = o, !.mod_alist = s.list[o]]

Fits(d, o, a) == a \in Range(ListOf(d, o)) \/ Len(ListOf(d, o)) < ListMax

\* It fails on a full list, and nobody is told.
al_add(d, o, a) ==
  LET f == al_fetch(d, o)
  IN IF a \in Range(f.mod_alist) THEN f
     ELSE IF Fits(f, o, a) THEN [f EXCEPT !.mod_alist = Append(@, a)]
     ELSE [f EXCEPT !.lost = @ \cup {o}]

al_delete(d, o, a) ==
  LET f == al_fetch(d, o)
      at == {i \in 1 .. Len(f.mod_alist) : f.mod_alist[i] = a}
  IN IF at = {} THEN f ELSE [f EXCEPT !.mod_alist = RemoveAt(@, Min(at))]

\* Store and list alone: what atr_add_raw and atr_clr do before they tell others.
Put(d, o, a, v) ==
  IF v = Unset THEN al_delete([d EXCEPT !.text[o][a] = Unset], o, a)
  ELSE LET f == al_add(d, o, a) IN IF Fits(d, o, a) THEN [f EXCEPT !.text[o][a] = v] ELSE f
-----------------------------------------------------------------------------
OwnsOthers(d, o) == d.kind[o] = "player"
Good_obj(d, o) == d.kind[o] # "garbage"

\* The entry p with what is stored.
Reloaded(p, money, qmax) ==
  [p EXCEPT !.money = IF money = Unset THEN 0 ELSE money,
            !.dirty = @ \/ money = Unset,
            !.qmax = IF qmax = Unset THEN -1 ELSE qmax]

pcache_reload1(d, o) ==
  [d EXCEPT !.pcache[o] = Reloaded(@, d.text[o][A_MONEY], d.text[o][A_QUEUEMAX])]

pcache_find(d, o) ==
  IF d.pcache[o].cached THEN [d EXCEPT !.pcache[o].ref = TRUE]
  ELSE pcache_reload1([d EXCEPT !.pcache[o] = [NoEntry EXCEPT !.cached = TRUE, !.ref = TRUE]], o)

pcache_save(d, o) ==
  IF d.pcache[o].dirty
  THEN [Put(d, o, A_MONEY, d.pcache[o].money) EXCEPT !.pcache[o].dirty = FALSE]
  ELSE d

pcache_reload(d, o) ==
  IF OwnsOthers(d, o) THEN pcache_reload1(pcache_save(pcache_find(d, o), o), o) ELSE d

\* atr_add_raw and atr_clr: the player cache follows A_QUEUEMAX.
atr_add_raw(d, o, a, v) ==
  LET p == Put(d, o, a, v)
  IN IF a = A_QUEUEMAX /\ (v = Unset \/ Fits(d, o, a)) THEN pcache_reload(p, o) ELSE p

atr_clr(d, o, a) == atr_add_raw(d, o, a, Unset)

s_Pennies(d, o, n) ==
  IF OwnsOthers(d, o) THEN [pcache_find(d, o) EXCEPT !.pcache[o].money = n, !.pcache[o].dirty = TRUE]
  ELSE IF Good_obj(d, o) THEN atr_add_raw(d, o, A_MONEY, n)
  ELSE d

\* What Pennies returns.
Pennies(d, o) ==
  IF OwnsOthers(d, o) THEN pcache_find(d, o).pcache[o].money
  ELSE IF d.text[o][A_MONEY] = Unset THEN 0 ELSE d.text[o][A_MONEY]

a_Queue(d, o, adj) ==
  IF OwnsOthers(d, o) THEN [pcache_find(d, o) EXCEPT !.pcache[o].queue = @ + adj] ELSE d

\* Mutant: entries with commands queued are let go.
Trimmed_Queued(d, o) == ~d.pcache[o].ref

Trimmed(d, o) == d.pcache[o].queue = 0 /\ ~d.pcache[o].ref

TrimmedOne(d, o) ==
  IF Trimmed(d, o) THEN [pcache_save(d, o) EXCEPT !.pcache[o] = NoEntry]
  ELSE [d EXCEPT !.pcache[o].ref = FALSE]

\* The order of the entries is immaterial: no entry's fate depends on another's.
Entries(d) == SetToSeq({o \in Object : d.pcache[o].cached})

\* A loop is the function that gives its state after k rounds, here over s.
Trimming(d, s) ==
  LET after[k \in 0 .. Len(s)] == IF k = 0 THEN d ELSE TrimmedOne(after[k - 1], s[k]) IN after

Saving(d, s) ==
  LET after[k \in 0 .. Len(s)] == IF k = 0 THEN d ELSE pcache_save(after[k - 1], s[k]) IN after

pcache_trim(d) == LET s == Entries(d) IN Trimming(d, s)[Len(s)]
pcache_sync(d) == LET s == Entries(d) IN Saving(d, s)[Len(s)]

Clearing(d, o, s) ==
  LET after[k \in 0 .. Len(s)] == IF k = 0 THEN d ELSE atr_clr(after[k - 1], o, s[k]) IN after

\* atr_free: the numbers are those the list had at first; pcache_reload may add one.
atr_free(d, o) ==
  LET cleared == Clearing(d, o, ListOf(d, o))[Len(ListOf(d, o))]
  IN [IF cleared.mod_al_id = o THEN al_store(cleared) ELSE cleared EXCEPT !.list[o] = <<>>]

CopiedOne(d, dest, a, v, copied) == IF a \in copied THEN atr_add_raw(d, dest, a, v) ELSE d

Copying(d, dest, texts, s, copied) ==
  LET after[k \in 0 .. Len(s)] ==
        IF k = 0 THEN d ELSE CopiedOne(after[k - 1], dest, s[k], texts[s[k]], copied)
  IN after

\* atr_cpy of the attributes in copied, on a copy of the list of the source.
atr_cpy(d, dest, source, copied) ==
  LET s == ListOf(d, source) IN Copying(d, dest, d.text[source], s, copied)[Len(s)]
=============================================================================
