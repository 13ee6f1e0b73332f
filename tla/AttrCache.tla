------------------------------ MODULE AttrCache -------------------------------
(***************************************************************************)
(* The cache of attributes (attrcache.cpp) over the page file, with the    *)
(* forked dump that reads the same file (fork_and_dump of game.cpp) and    *)
(* crashes.  It implements AttrStore.                                      *)
(***************************************************************************)
EXTENDS PageFile

CONSTANTS
  max_cache_size,
  CrashPoints,     \* which images of a split a crash may leave
  MaxWrites        \* bound: cache_put and cache_del

VARIABLES
  t,               \* memory and disk: see PageFile
  cent,            \* the cached attributes from head to tail: [key, value]
  CacheSize,
  child,           \* a forked dump: its directory, and what it may find of each key
  answer, since,   \* history: see AttrStore
  orphan,          \* history: a crash left a page that no directory names
  writes           \* bound

vars == <<t, cent, CacheSize, child, answer, since, orphan, writes>>

NoChild == [file |-> [dir |-> <<>>, depth |-> 0], may |-> <<>>]
dumping == child # NoChild

Init ==
  /\ t = Created
  /\ cent = <<>> /\ CacheSize = 0
  /\ child = NoChild
  /\ answer = None /\ since = [k \in Key |-> {None}] /\ orphan = FALSE
  /\ writes = 0

\* An entry that says there is no such attribute is a header alone.
Size(e) == IF e.value = None THEN 1 ELSE 2

Without(c, k) == SelectSeq(c, LAMBDA e : e.key # k)
Cached(c, k) == {i \in DOMAIN c : c[i].key = k}

SizeOf(c) == FoldLeft(LAMBDA n, e : n + Size(e), 0, c)

\* Mutant: what is trimmed is still counted.
TrimCache_Counted(c, n) ==
  LET keep == Max({i \in 0 .. Len(c) : i = 0 \/ n - SizeOf(SubSeq(c, i + 1, Len(c))) <= max_cache_size})
  IN [cent |-> SubSeq(c, 1, keep), size |-> n]

\* TrimCache drops entries from the tail until the rest fits.
TrimCache(c, n) ==
  LET keep == Max({i \in 0 .. Len(c) : i = 0 \/ n - SizeOf(SubSeq(c, i + 1, Len(c))) <= max_cache_size})
  IN [cent |-> SubSeq(c, 1, keep), size |-> n - SizeOf(SubSeq(c, keep + 1, Len(c)))]

\* An entry is put at the head.
AddEntry(c, n, e) ==
  LET r == TrimCache(<<e>> \o c, n + Size(e)) IN cent' = r.cent /\ CacheSize' = r.size

Fresh(u) == [u EXCEPT !.during = {}]

\* cache_get: from the cache, else from the page file, which is then cached.
cache_get(k) ==
  LET hit == {e \in Range(cent) : e.key = k}
      u == ReadKey(Fresh(t), k)
      found == {r.value : r \in Valued(u.t.slots[u.slot].page.recs, k)}
  IN /\ \/ /\ hit # {}
           /\ \E e \in hit :
                /\ answer' = e.value
                /\ cent' = <<e>> \o Without(cent, k)
           /\ t' = Fresh(t) /\ UNCHANGED CacheSize
        \/ /\ hit = {}
           /\ answer' \in IF found = {} THEN {None} ELSE found
           /\ AddEntry(cent, CacheSize, [key |-> k, value |-> answer'])
           /\ t' = u.t
     /\ UNCHANGED <<child, since, orphan, writes>>

Writes(k, v) ==
  /\ writes < MaxWrites /\ writes' = writes + 1
  /\ since' = [since EXCEPT ![k] = @ \cup {v}]
  /\ child' = IF dumping THEN [child EXCEPT !.may[k] = @ \cup {v}] ELSE child
  /\ UNCHANGED <<answer, orphan>>

\* Mutant: a page is split under a dump.
Waits_Never(u, k) == FALSE

\* Insert waits for a dump to end before it splits a page.
Waits(u, k) == dumping /\ IsFull(u, k)

\* Mutant: the new text is not put into the cache.
Recached_Kept(k, v) == UNCHANGED <<cent, CacheSize>>

\* What cache_put leaves of the cached text.
Recached(k, v) ==
  AddEntry(Without(cent, k), CacheSize - SizeOf(SelectSeq(cent, LAMBDA e : e.key = k)),
           [key |-> k, value |-> v])

cache_put(k, v) ==
  LET u == Removed(Fresh(t), k)
  IN /\ ~Waits(u, k)
     /\ t' = Inserted(u, k, v)
     /\ Recached(k, v)
     /\ Writes(k, v)

cache_del(k) ==
  /\ t' = Removed(Fresh(t), k)
  /\ cent' = Without(cent, k)
  /\ CacheSize' = CacheSize - SizeOf(SelectSeq(cent, LAMBDA e : e.key = k))
  /\ Writes(k, None)

cache_tick ==
  /\ t' = Ticked(Fresh(t))
  /\ UNCHANGED <<cent, CacheSize, child, answer, since, orphan, writes>>

Value0(u, k) ==
  LET found == {r.value : r \in Valued(PageOf(u, k).recs, k)}
  IN IF found = {} THEN None ELSE CHOOSE v \in found : TRUE

\* What a reader gets of a key: from the cache, else from the page file.
View == [k \in Key |-> IF Cached(cent, k) # {} THEN cent[CHOOSE i \in Cached(cent, k) : TRUE].value
                       ELSE Value0(t, k)]

cache_sync ==
  /\ t' = Synced(Fresh(t))
  /\ since' = [k \in Key |-> {View[k]}]
  /\ UNCHANGED <<cent, CacheSize, child, answer, orphan, writes>>

Forked(u) == Synced(Fresh(u))

\* fork_and_dump: everything is written, then the child gets its copy.
fork_and_dump ==
  /\ ~dumping
  /\ t' = Forked(t)
  /\ child' = [file |-> [dir |-> t.dir, depth |-> t.depth], may |-> [k \in Key |-> {View[k]}]]
  /\ since' = [k \in Key |-> {View[k]}]
  /\ UNCHANGED <<cent, CacheSize, answer, orphan, writes>>

\* SIGCHLD: the dump has ended.
DumpEnds ==
  /\ dumping /\ child' = NoChild
  /\ t' = Fresh(t)
  /\ UNCHANGED <<cent, CacheSize, answer, since, orphan, writes>>

\* The server dies, between two calls or within a split; it is started anew.
Crash ==
  /\ \E i \in {[point |-> "between", pages |-> t.pages, file |-> t.file]} \cup t.during :
       /\ i.point \in CrashPoints \cup {"between"}
       /\ t' = Opened(i.pages, i.file)
       /\ orphan' = (orphan \/ i.point # "between")
  /\ cent' = <<>> /\ CacheSize' = 0
  /\ child' = NoChild
  /\ answer' = None
  /\ since' = [k \in Key |-> {Value0(t', k)}]
  /\ UNCHANGED writes

Next ==
  \/ \E k \in Key : cache_get(k) \/ cache_del(k) \/ \E v \in Value : cache_put(k, v)
  \/ cache_tick \/ cache_sync
  \/ fork_and_dump \/ DumpEnds
  \/ Crash

Spec == Init /\ [][Next]_vars
-----------------------------------------------------------------------------
\* The size of the cache is that of its entries, within its limit; no attribute is
\* cached twice (attrcache.cpp:221).
CacheAccounted ==
  /\ CacheSize = SizeOf(cent) /\ CacheSize <= max_cache_size
  /\ \A k \in Key : Cardinality(Cached(cent, k)) <= 1

\* No two slots hold one page, and whatever a slot is looked up for is in it: else one
\* copy of a page is changed and the other written (svdhash.cpp:2283).
SlotsAgree ==
  /\ \A r, s \in Slot : r # s /\ t.slots[r].state # "empty" /\ t.slots[s].state # "empty"
       => t.slots[r].o # t.slots[s].o
  /\ \A s \in Slot : t.slots[s].state = "clean" => t.slots[s].page = OnDisk(t, t.slots[s].o)
  /\ \A i \in DOMAIN t.dir : t.lookup[i] # NoSlot /\ t.slots[t.lookup[i]].state # "empty"
       => t.slots[t.lookup[i]].o = t.dir[i]

\* A dump that runs beside the server finds each attribute as it was at the fork or as
\* it was changed to since: none is missing, none is found twice (svdhash.cpp:1890).
DumpSees ==
  dumping => \A k \in Key :
    LET found == FoundOnDisk(t.pages, child.file, k)
    IN IF found = {} THEN None \in child.may[k] ELSE Cardinality(found) = 1 /\ found \subseteq child.may[k]

\* The directory file is not strictly necessary: without it, the page file alone gives
\* the same pages, unless a crash left half a split (svdhash.cpp:1497, 1683).
PagesSuffice ==
  orphan \/ \E file \in Rebuilt(t.pages) : \A k \in Key :
    FoundOnDisk(t.pages, file, k) = FoundOnDisk(t.pages, t.file, k)

\* Three copies of an attribute agree: in the cache, in a slot, and in the page file
\* with its directory (cache_put, ReadPage, Split).
CopiesAgree == CacheAccounted /\ SlotsAgree /\ PagesSuffice

Store == INSTANCE AttrStore WITH contents <- View

\* Cache and page file behave as a table that a crash sets back to what was written
\* since the last Sync at most: eviction, splits, ticks and dumps are not seen.
ImplementsStore == Store!Spec
=============================================================================
