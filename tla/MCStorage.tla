------------------------------ MODULE MCStorage -------------------------------
(***************************************************************************)
(* Storage, one part to a behaviour: attributes are read and written, or   *)
(* dumps run beside writes, or the server crashes (AttrCache: three keys,  *)
(* pages of one record, two splits and two doublings of the directory);    *)
(* or a player earns, queues, dies and his number is used again, or        *)
(* attributes are named (AttrNames).                                       *)
(***************************************************************************)
EXTENDS AttrCache, AttrNames

CONSTANTS
  k1, k2, k3, v1, v2, n1, n2, n3, x, y, z,
  MaxSets   \* bound: texts set and objects cloned

VARIABLES work, sets

Keys == {k1, k2, k3}
Hashes == k1 :> 0 @@ k2 :> 1 @@ k3 :> 2
Numbers == {A_MONEY, A_QUEUEMAX} \cup A_USER_START .. MaxNumber
Texts == x :> x @@ y :> y @@ z :> y   \* z is y with flags

MCInit ==
  /\ Init /\ NamesInit
  /\ work \in {"cache", "dumps", "crashes", "money", "names"} /\ sets = 0

Reading == \E k \in Key : cache_get(k)
Writing == \E k \in Key : cache_del(k) \/ \E v \in Value : cache_put(k, v)

Storing ==
  \/ work = "cache" /\ (Reading \/ cache_tick)
  \/ work = "dumps" /\ (Reading \/ fork_and_dump \/ DumpEnds)
  \/ work = "crashes" /\ (cache_tick \/ cache_sync \/ Crash)
  \/ Writing

\* Object 1 is the one that things happen to; object 2 makes the list in memory change.
Earning ==
  \/ \E n \in 0 .. MaxMoney : earn(1, n)
  \/ \E adj \in {-1, 1} : queue(1, adj)
  \/ \E o \in Object, v \in {Unset, 1} : queuemax(o, v)
  \/ dispatch_trim \/ dump
  \/ destroy_obj(1)
  \/ \E kind \in {"player", "thing"} : create_obj(1, kind, 1)

\* With A_QUEUEMAX two names fill the list of a player before his money is listed.
Filling == sets + 1 < MaxSets /\ \E n \in Name : set(1, n, x)

Setting == clone(2, 1) \/ queuemax(1, 1) \/ \E n \in Name, text \in Text : set(1, n, text)

Counted(setting) == sets < MaxSets /\ sets' = sets + 1 /\ setting

Naming ==
  \/ \E o \in Object, n \in Name : clear(o, n)
  \/ \E n, m \in Name : attribute_rename(n, m)
  \/ \E n \in Name : attribute_delete(n)
  \/ do_dbclean

MCNext ==
  /\ UNCHANGED work
  /\ \/ work \in {"cache", "dumps", "crashes"} /\ Storing /\ UNCHANGED <<namesVars, sets>>
     \/ work = "money" /\ (Earning \/ do_restart) /\ UNCHANGED <<vars, sets>>
     \/ work = "money" /\ Counted(Filling) /\ UNCHANGED vars
     \/ work = "names" /\ Counted(Setting) /\ UNCHANGED vars
     \/ work = "names" /\ (Naming \/ do_restart) /\ UNCHANGED <<vars, sets>>

MCSpec == MCInit /\ [][MCNext]_<<vars, namesVars, work, sets>>

Alike == Permutations(Value) \cup Permutations(Name)
=============================================================================
