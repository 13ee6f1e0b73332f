------------------------------- MODULE HashTable -------------------------------
(***************************************************************************)
(* The hash tables of the server (svdhash.cpp CHashPage and CHashTable,    *)
(* htab.cpp): a directory of pages, and in each page a small open-addressed*)
(* directory over a heap of records.  A slot that was used is marked       *)
(* deleted, so that probes go on over it; a page is rebuilt when too few   *)
(* slots were never used, or no block fits, and split when that is not     *)
(* enough.  Sizes are in bytes, as in the code; a page is a record         *)
(* [depth, group, dir, left, stride, free].                                *)
(***************************************************************************)
EXTENDS Integers, Sequences, FiniteSets

LOCAL INSTANCE SequencesExt
LOCAL INSTANCE FiniteSetsExt

CONSTANTS
  Key, Data,  \* what a table maps to what
  NULL,
  HashOf,     \* [Key -> [top, start, zone]]: bits 31.., bits 4.., bits 0 to 3 of a hash
  SizeOf,     \* [Key -> Nat]: bytes of the record of a key
  Zone,       \* bound: the zones of hashes
  Shuffles,   \* bound: where ChoosePrimes shuffles the strides of these zones to
  Space,      \* bytes of a page for directory and heap
  DirSize,    \* slots of a new page
  Bits        \* bound: directories have up to 2^Bits pages

VARIABLES
  table,      \* CHashTable: [depth, dir]
  stored      \* what was stored under each key and not deleted

hashVars == <<table, stored>>

Node == 8
EXPAND_TO_BOUNDARY(x) == x + (x % 2)
Required(n) == EXPAND_TO_BOUNDARY(Node + n)

Empty == [is |-> "empty"]
Deleted == [is |-> "deleted"]
Used(p) == {i \in DOMAIN p.dir : p.dir[i].is = "used"}

-----------------------------------------------------------------------------
(* Strides of probes.                                                      *)

LargestPrime == 1039
Primes == {1} \cup {p \in 2 .. LargestPrime : \A q \in 2 .. 31 : q < p => p % q # 0}

\* Mutant: also primes that divide the size.
Nearest_Any(n, zone) ==
  LET up == Min({p \in Primes : p >= zone})
      low == Max({p \in Primes : p < up} \cup {1})
  IN IF zone - low <= up - zone THEN low ELSE up

\* Of 1 and the primes that do not divide n, the one nearest to zone.
Nearest(n, zone) ==
  LET usable == {p \in Primes : p = 1 \/ n % p # 0}
      up == Min({p \in usable : p >= zone})
      low == Max({p \in usable : p < up} \cup {1})
  IN IF zone - low <= up - zone THEN low ELSE up

\* Before they are shuffled.
ChoosePrimes(n) ==
  LET spacing == Min({n \div 2, LargestPrime}) \div 16
  IN [j \in 1 .. 16 |-> LET prime == Nearest(n, 1 + (j - 1) * spacing)
                        IN IF j % 2 = 1 THEN n - prime ELSE prime]

Strides == [n \in 1 .. Space \div 2 |-> ChoosePrimes(n)]

\* The slots that are looked at for a hash, in order.
Probes(p, h) ==
  LET n == Cardinality(DOMAIN p.dir)
  IN [k \in 1 .. n |-> (h.start + (k - 1) * p.stride[h.zone]) % n]

-----------------------------------------------------------------------------
(* Pages.                                                                  *)

EmptyPage(depth, group, n, shuffle) ==
  [depth |-> depth, group |-> group, dir |-> [i \in 0 .. n - 1 |-> Empty], left |-> n,
   stride |-> [z \in Zone |-> Strides[n][shuffle[z]]],
   free |-> <<[at |-> 0, size |-> Space - 2 * n]>>]

\* How many slots GetStats finds good for the records of p and one of extra bytes.
GoodDirSize(p, extra) ==
  LET count == Cardinality(Used(p))
      size == MapThenSumSet(LAMBDA i : Required(SizeOf[p.dir[i].key]), Used(p))
      n == IF extra = 0 THEN count ELSE count + 1
      average == (size + (IF extra = 0 THEN 0 ELSE Required(extra)) + n \div 2) \div n
      good == (Space - (Space * average) \div (average + 3) + 1) \div 2
  IN IF n = 0 THEN DirSize
     ELSE IF good < count THEN count ELSE Min({good, (Space - size) \div 2})

\* Slot i gets the first free block that is large enough; what is left of the block
\* stays in the list.
HeapAlloc(p, i, rec) ==
  LET need == Required(SizeOf[rec.key])
      j == SelectInSeq(p.free, LAMBDA b : b.size >= need)
      rest == p.free[j].size - need
      splits == rest >= EXPAND_TO_BOUNDARY(Node + 1)
  IN IF j = 0 THEN p
     ELSE [p EXCEPT
       !.free = IF splits THEN [@ EXCEPT ![j] = [at |-> @.at + need, size |-> rest]] ELSE RemoveAt(@, j),
       !.left = IF p.dir[i] = Empty THEN @ - 1 ELSE @,
       !.dir[i] = [is |-> "used", at |-> p.free[j].at, size |-> IF splits THEN need ELSE p.free[j].size,
                   key |-> rec.key, data |-> rec.data]]

\* Mutant: the slot becomes one that was never used.
HeapFree_Empty(p, i) ==
  [p EXCEPT !.free = <<[at |-> p.dir[i].at, size |-> p.dir[i].size]>> \o @, !.dir[i] = Empty]

HeapFree(p, i) ==
  [p EXCEPT !.free = <<[at |-> p.dir[i].at, size |-> p.dir[i].size]>> \o @, !.dir[i] = Deleted]

\* The page with the record, in the first slot of its probes that is free; the page as it
\* was where there is none, too few slots were never used, or no block fits.
Placed(p, rec) ==
  LET probes == Probes(p, HashOf[rec.key])
      k == SelectInSeq(probes, LAMBDA i : p.dir[i].is # "used")
  IN IF k = 0 \/ p.left < Cardinality(DOMAIN p.dir) \div 7 THEN p ELSE HeapAlloc(p, probes[k], rec)

\* Insert tries twice, on the page and on what Defrag made of it; Defrag copies the
\* records to an empty page by Insert.  Both give the page and whether it worked.
RECURSIVE Inserted(_, _, _, _), Defrag(_, _, _)

Again(defragged, rec, tries, shuffle) ==
  IF defragged.ok THEN Inserted(defragged.page, rec, tries, shuffle) ELSE defragged

Unless(placed, p, rec, tries, shuffle) ==
  IF placed # p THEN [ok |-> TRUE, page |-> placed]
  ELSE Again(Defrag(p, SizeOf[rec.key], shuffle), rec, tries, shuffle)

Inserted(p, rec, tries, shuffle) ==
  IF tries = 0 THEN [ok |-> FALSE, page |-> p]
  ELSE Unless(Placed(p, rec), p, rec, tries - 1, shuffle)

Insert(p, rec, shuffle) == Inserted(p, rec, 2, shuffle)

\* Records of p, in the order of its directory, that satisfy Test, put into page q.
Copied(p, q, Test(_), shuffle) ==
  FoldLeft(LAMBDA r, i : IF r.ok /\ p.dir[i].is = "used" /\ Test(p.dir[i].key)
                         THEN Insert(r.page, p.dir[i], shuffle) ELSE r,
           [ok |-> TRUE, page |-> q],
           [i \in 1 .. Cardinality(DOMAIN p.dir) |-> i - 1])

OrAsItWas(r, p) == IF r.ok THEN r ELSE [ok |-> FALSE, page |-> p]

Defrag(p, extra, shuffle) ==
  OrAsItWas(Copied(p, EmptyPage(p.depth, p.group, GoodDirSize(p, extra), shuffle), LAMBDA k : TRUE, shuffle),
            p)

\* The pages for the next bit of the hash, 0 and 1, each with whether it worked.
Split(p, shuffle) ==
  [b \in {0, 1} |->
     Copied(p, EmptyPage(p.depth + 1, 2 * p.group + b, GoodDirSize(p, 0), shuffle),
            LAMBDA k : (HashOf[k].top \div 2 ^ (Bits - p.depth - 1)) % 2 = b, shuffle)]

-----------------------------------------------------------------------------
(* The table.                                                              *)

NewTable(shuffle) == [depth |-> 1, dir |-> [i \in 0 .. 1 |-> EmptyPage(0, 0, DirSize, shuffle)]]

PageOf(t, k) == t.dir[HashOf[k].top \div 2 ^ (Bits - t.depth)]

\* The directory with page p in its range.
WithPage(t, p) ==
  [t EXCEPT !.dir = [i \in DOMAIN @ |-> IF i \div 2 ^ (t.depth - p.depth) = p.group THEN p ELSE @[i]]]

DoubleDirectory(t) ==
  [depth |-> t.depth + 1, dir |-> [i \in 0 .. 2 ^ (t.depth + 1) - 1 |-> t.dir[i \div 2]]]

RECURSIVE TableInsert(_, _, _)

WithHalves(t, p, half, rec, shuffle) ==
  IF ~half[0].ok \/ ~half[1].ok THEN [ok |-> FALSE, table |-> WithPage(t, p)]
  ELSE TableInsert(WithPage(WithPage(IF t.depth = p.depth THEN DoubleDirectory(t) ELSE t, half[0].page),
                            half[1].page), rec, shuffle)

WithInserted(t, r, rec, shuffle) ==
  IF r.ok \/ r.page.depth = Bits THEN [ok |-> r.ok, table |-> WithPage(t, r.page)]
  ELSE WithHalves(t, r.page, Split(r.page, shuffle), rec, shuffle)

TableInsert(t, rec, shuffle) ==
  WithInserted(t, Insert(PageOf(t, rec.key), rec, shuffle), rec, shuffle)

\* The slots that FindFirstKey and FindNextKey give for the hash of k, and of these the
\* ones whose record is k's.
Candidates(p, k) ==
  LET probes == Probes(p, HashOf[k])
      stop == SelectInSeq(probes, LAMBDA i : p.dir[i] = Empty)
      seen == IF stop = 0 THEN probes ELSE SubSeq(probes, 1, stop - 1)
  IN SelectSeq(seen, LAMBDA i : p.dir[i].is = "used" /\ HashOf[p.dir[i].key] = HashOf[k])

Matches(p, k) == SelectSeq(Candidates(p, k), LAMBDA i : p.dir[i].key = k)

hashfindLEN(t, k) ==
  LET p == PageOf(t, k)
  IN IF Matches(p, k) = << >> THEN NULL ELSE p.dir[Matches(p, k)[1]].data

\* What FindFirst and FindNext give, slot after slot and page after page.
Walk(t) ==
  LET slots(p) == SelectSeq([i \in 1 .. Cardinality(DOMAIN p.dir) |-> p.dir[i - 1]],
                            LAMBDA s : s.is = "used")
      same(p, q) == p.depth = q.depth /\ p.group = q.group
  IN FoldLeft(LAMBDA w, i : IF i > 0 /\ same(t.dir[i], t.dir[i - 1]) THEN w ELSE w \o slots(t.dir[i]),
              << >>, [i \in 1 .. Cardinality(DOMAIN t.dir) |-> i - 1])

-----------------------------------------------------------------------------
(* Operations (htab.cpp).                                                  *)

HashInit == \E shuffle \in Shuffles : table = NewTable(shuffle) /\ stored = [k \in Key |-> NULL]

\* Of a key that is not there.  Insert reports a failure, which hashaddLEN ignores:
\* within the bound only a table of the largest depth fails.
hashaddLEN(k, d) ==
  /\ hashfindLEN(table, k) = NULL
  /\ \E shuffle \in Shuffles :
       LET r == TableInsert(table, [key |-> k, data |-> d], shuffle)
       IN /\ r.ok \/ PageOf(r.table, k).depth < Bits
          /\ table' = r.table
  /\ stored' = [stored EXCEPT ![k] = d]

\* All records of the key.
hashdeleteLEN(k) ==
  /\ table' = WithPage(table, FoldLeft(HeapFree, PageOf(table, k), Matches(PageOf(table, k), k)))
  /\ stored' = [stored EXCEPT ![k] = NULL]

hashreplLEN(k, d) ==
  LET p == PageOf(table, k)
  IN /\ Matches(p, k) # << >>
     /\ table' = WithPage(table, [p EXCEPT !.dir[Matches(p, k)[1]].data = d])
     /\ stored' = [stored EXCEPT ![k] = d]

Replaced(p, old, new) ==
  [p EXCEPT !.dir = [i \in DOMAIN @ |->
     IF @[i].is = "used" /\ @[i].data = old THEN [@[i] EXCEPT !.data = new] ELSE @[i]]]

hashreplall(old, new) ==
  /\ table' = [table EXCEPT !.dir = [i \in DOMAIN @ |-> Replaced(@[i], old, new)]]
  /\ stored' = [k \in Key |-> IF stored[k] = old THEN new ELSE stored[k]]

hashflush ==
  /\ \E shuffle \in Shuffles : table' = NewTable(shuffle)
  /\ stored' = [k \in Key |-> NULL]

HashNext ==
  \/ \E k \in Key, d \in Data : hashaddLEN(k, d) \/ hashreplLEN(k, d)
  \/ \E k \in Key : hashdeleteLEN(k)
  \/ \E old, new \in Data : old # new /\ hashreplall(old, new)
  \/ hashflush
-----------------------------------------------------------------------------
\* Whatever was rebuilt, split and doubled, each key finds what was last stored under
\* it, and a walk meets each record once (svdhash.cpp:979, 1213).
KeysFound ==
  /\ \A k \in Key : hashfindLEN(table, k) = stored[k]
  /\ LET w == Walk(table)
     IN /\ Len(w) = Cardinality({k \in Key : stored[k] # NULL})
        /\ {s.key : s \in ToSet(w)} = {k \in Key : stored[k] # NULL}

\* In each page the blocks of records and the free ones tile the heap, and the count of
\* slots that were never used is right: it ends every probe for what is not there.
PagesTiled ==
  \A i \in DOMAIN table.dir :
    LET p == table.dir[i]
        n == Cardinality(DOMAIN p.dir)
        blocks == {p.dir[j] : j \in Used(p)} \cup ToSet(p.free)
        bytes(b) == b.at .. b.at + b.size - 1
    IN /\ UNION {bytes(b) : b \in blocks} = 0 .. Space - 2 * n - 1
       /\ \A b, c \in blocks : b # c => bytes(b) \cap bytes(c) = {}
       /\ p.left = Cardinality({j \in DOMAIN p.dir : p.dir[j] = Empty})
       /\ n > 1

TableExact == KeysFound /\ PagesTiled

\* Probes for any hash reach all slots of a directory of n.
ProbesReachAll(n) ==
  \A j \in 1 .. 16 : {(k * ChoosePrimes(n)[j]) % n : k \in 0 .. n - 1} = 0 .. n - 1
=============================================================================
