------------------------------ MODULE PageFile --------------------------------
(***************************************************************************)
(* The page file of attributes (CHashFile of svdhash.cpp): extendible      *)
(* hashing over pages of a file, a directory that is kept in memory and in *)
(* a file of its own, and a cache of pages whose oldest one makes room.    *)
(*                                                                         *)
(* A page holds a set of records; how it lays them out is HashPage's.  The *)
(* state of memory and disk is one record t, so that operations compose:   *)
(*   dir, depth    m_pDir, m_nDirDepth: page number by the first bits      *)
(*   lookup        m_hpCacheLookup: slot by the first bits, or NoSlot      *)
(*   slots, age    m_Cache, and its slots from the oldest to the youngest  *)
(*   flushed       m_iLastFlushed                                          *)
(*   end           oEndOfFile, in pages                                    *)
(*   pages, file   on disk: the page file, the directory file              *)
(*   during        history: what was on disk between the writes of a split *)
(***************************************************************************)
EXTENDS Integers, Sequences, FiniteSets, SequencesExt, FiniteSetsExt

CONSTANTS
  Key, Value, None,
  Hash,       \* [Key -> 0 .. 2^Bits - 1]
  Bits,       \* bits of a hash
  Capacity,   \* records that fit a page
  nCache      \* cache_pages

\* A split needs three slots; pages of keys with one hash must not overflow.
ASSUME FileAssumption ==
  /\ nCache \in Nat /\ nCache >= 3
  /\ \A k \in Key : Cardinality({j \in Key : Hash[j] = Hash[k]}) <= Capacity

Slot == 0 .. nCache - 1
NoSlot == -1
NoPage == [depth |-> 0, group |-> 0, recs |-> {}]

\* The first d bits of a hash.
First(h, d) == h \div 2 ^ (Bits - d)

\* GetRange: the entries of a directory of depth d that are the page's; of a page that
\* is deeper the code makes no sense.
GetRange(page, d) ==
  IF page.depth > d THEN {} ELSE {i \in 0 .. 2 ^ d - 1 : i \div 2 ^ (d - page.depth) = page.group}

Valued(recs, k) == {r \in recs : r.key = k}

\* The page on disk, or what a read finds beyond its end.
OnDisk(t, o) == IF o \in DOMAIN t.pages THEN t.pages[o] ELSE NoPage

\* Mutant: the directory file stays as it was created.
WriteDirectory_Not(t) == t

WriteDirectory(t) == [t EXCEPT !.file = [dir |-> t.dir, depth |-> t.depth]]

WritePage(t, s) == [t EXCEPT !.pages = [o \in DOMAIN @ \cup {t.slots[s].o} |->
                                          IF o = t.slots[s].o THEN t.slots[s].page ELSE @[o]]]

\* Mutant: a page is taken to be clean that was not written.
FlushCache_Marked(t, s) ==
  IF t.slots[s].state = "dirty" THEN [t EXCEPT !.slots[s].state = "clean"] ELSE t

FlushCache(t, s) ==
  IF t.slots[s].state = "dirty" THEN [WritePage(t, s) EXCEPT !.slots[s].state = "clean"] ELSE t

ResetAge(t, s) == [t EXCEPT !.age = Append(SelectSeq(@, LAMBDA x : x # s), s)]

Looked(t, page, s) ==
  [t EXCEPT !.lookup = [i \in DOMAIN @ |-> IF i \in GetRange(page, t.depth) THEN s ELSE @[i]]]

\* AllocateEmptyPage: the oldest slot that is not safe; those passed over grow young.
AllocateEmptyPage(t, safe) ==
  LET n == CHOOSE i \in DOMAIN t.age : t.age[i] \notin safe /\ \A j \in 1 .. i - 1 : t.age[j] \in safe
      s == t.age[n]
      u == FlushCache([t EXCEPT !.age = SubSeq(@, n + 1, Len(@)) \o SubSeq(@, 1, n)], s)
  IN [t |-> IF u.slots[s].state = "empty" THEN u
            ELSE [Looked(u, u.slots[s].page, NoSlot) EXCEPT !.slots[s].state = "empty"],
      slot |-> s]

\* ReadCache: the slot of the page of directory entry i.
ReadCache(t, i) ==
  LET s == t.lookup[i]
      a == AllocateEmptyPage(t, {})
      page == OnDisk(a.t, t.dir[i])
  IN IF s # NoSlot /\ t.slots[s].state # "empty" /\ t.slots[s].o = t.dir[i]
     THEN [t |-> ResetAge(t, s), slot |-> s]
     ELSE [t |-> Looked([ResetAge(a.t, a.slot) EXCEPT
                           !.slots[a.slot] = [state |-> "clean", o |-> t.dir[i], page |-> page]],
                        page, a.slot),
           slot |-> a.slot]

ReadKey(t, k) == ReadCache(t, First(Hash[k], t.depth))

\* FindFirstKey and FindNextKey with Remove of what they find.
Removed(t, k) ==
  LET a == ReadKey(t, k)
  IN IF Valued(a.t.slots[a.slot].page.recs, k) = {} THEN a.t
     ELSE [a.t EXCEPT !.slots[a.slot].page.recs = @ \ Valued(@, k), !.slots[a.slot].state = "dirty"]

DoubleDirectory(t) ==
  [WriteDirectory(t) EXCEPT
     !.dir = [i \in 0 .. 2 ^ (t.depth + 1) - 1 |-> t.dir[i \div 2]],
     !.lookup = [i \in 0 .. 2 ^ (t.depth + 1) - 1 |-> t.lookup[i \div 2]],
     !.depth = @ + 1]

\* CHashPage::Split: the page of the records whose next bit is b.
Half(page, b) ==
  [depth |-> page.depth + 1, group |-> 2 * page.group + b,
   recs |-> {r \in page.recs : First(Hash[r.key], page.depth + 1) = 2 * page.group + b}]

Image(t, name) == [t EXCEPT !.during = @ \cup {[point |-> name, pages |-> t.pages, file |-> t.file]}]

\* The split of the page in slot s: its first half stays where it was, the second is
\* appended; both are written, the second first, then the directory.
SplitPage(t, s) ==
  LET full == t.slots[s].page
      d == IF t.depth = full.depth THEN DoubleDirectory(t) ELSE t
      a0 == AllocateEmptyPage(d, {s})
      a1 == AllocateEmptyPage(a0.t, {s, a0.slot})
      Dirty(o, b) == [state |-> "dirty", o |-> o, page |-> Half(full, b)]
      new == a1.t.end
      u == [a1.t EXCEPT !.slots[s].state = "empty", !.slots[a0.slot] = Dirty(t.slots[s].o, 0),
                        !.slots[a1.slot] = Dirty(new, 1), !.end = @ + 1]
      v == Looked(Looked(u, Half(full, 0), a0.slot), Half(full, 1), a1.slot)
      w == [v EXCEPT !.dir = [i \in DOMAIN @ |-> IF i \in GetRange(Half(full, 1), v.depth) THEN new ELSE @[i]]]
      appended == Image(FlushCache(w, a1.slot), "appended")
      rewritten == Image(FlushCache(appended, a0.slot), "rewritten")
  IN WriteDirectory(rewritten)

IsFull(t, k) ==
  LET a == ReadKey(t, k) IN Cardinality(a.t.slots[a.slot].page.recs) = Capacity

\* CHashFile::Insert: pages are split until the record fits.
Inserted(t, k, v) ==
  LET Round(u, n) ==
        LET a == ReadKey(u, k) IN IF IsFull(u, k) THEN SplitPage(a.t, a.slot) ELSE u
      a == ReadKey(FoldLeft(Round, t, [n \in 1 .. Bits |-> n]), k)
  IN [a.t EXCEPT !.slots[a.slot].page.recs = @ \cup {[key |-> k, value |-> v]},
                 !.slots[a.slot].state = "dirty"]

\* Sync of all slots, Tick of the next one.
Synced(t) == FoldLeft(LAMBDA u, n : FlushCache(u, n - 1), t, [n \in 1 .. nCache |-> n])

Ticked(t) == [FlushCache(t, t.flushed) EXCEPT !.flushed = (@ + 1) % nCache]

\* Open with a directory file, and CreateFileSet.
Opened(pages, file) ==
  [dir |-> file.dir, depth |-> file.depth, lookup |-> [i \in DOMAIN file.dir |-> NoSlot],
   slots |-> [s \in Slot |-> [state |-> "empty", o |-> 0, page |-> NoPage]],
   age |-> <<0>> \o [n \in 1 .. nCache - 1 |-> nCache - n], flushed |-> 0,
   end |-> Cardinality(DOMAIN pages), pages |-> pages, file |-> file, during |-> {}]

Created ==
  LET file == [dir |-> [i \in {0, 1} |-> 0], depth |-> 1]
      t == AllocateEmptyPage(Opened(0 :> NoPage, file), {})
  IN [t.t EXCEPT !.slots[t.slot] = [state |-> "clean", o |-> 0, page |-> NoPage],
                 !.lookup = [i \in {0, 1} |-> t.slot]]

\* RebuildDirectory of the page file alone: none if pages overlap or leave holes.
Rebuilt(pages) ==
  LET d == Max({1} \cup {pages[o].depth : o \in DOMAIN pages})
      Owners(i) == {o \in DOMAIN pages : i \in GetRange(pages[o], d)}
  IN IF \A i \in 0 .. 2 ^ d - 1 : Cardinality(Owners(i)) = 1
     THEN {[dir |-> [i \in 0 .. 2 ^ d - 1 |-> CHOOSE o \in Owners(i) : TRUE], depth |-> d]}
     ELSE {}

\* The values that a reader with this directory finds for a key on disk.
FoundOnDisk(pages, file, k) ==
  LET i == First(Hash[k], file.depth)
      o == file.dir[i]
  IN IF o \in DOMAIN pages /\ i \in GetRange(pages[o], file.depth)
     THEN {r.value : r \in Valued(pages[o].recs, k)} ELSE {}

\* The page of a key as the server sees it, in its slot or on disk.
PageOf(t, k) ==
  LET i == First(Hash[k], t.depth)
      s == t.lookup[i]
  IN IF s # NoSlot /\ t.slots[s].state # "empty" /\ t.slots[s].o = t.dir[i]
     THEN t.slots[s].page ELSE OnDisk(t, t.dir[i])
=============================================================================
