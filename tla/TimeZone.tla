------------------------------ MODULE TimeZone ------------------------------
(***************************************************************************)
(* The cache of time zone offsets (timeutil.cpp): intervals of UTC over     *)
(* which localtime() is known to give the same offset.  An interval grows  *)
(* over a gap that is too short for the offset to change and change back.  *)
(* Entries are thrown away least recently used first.                      *)
(***************************************************************************)
EXTENDS Integers, Sequences, FiniteSets

LOCAL INSTANCE SequencesExt
LOCAL INSTANCE FiniteSetsExt

CONSTANTS
  MaxTime,             \* bound: localtime() is right for the times 0 .. MaxTime
  Zones,               \* external: what it may say of them, [isDST, seconds] tuples
  YearsBack,           \* later times are taken for those so long before
  ltdIntervalMinimum,  \* what a tuple lasts for at least
  MAX_OFFSETS

VARIABLES
  localtime,    \* external: what it says
  OffsetTable   \* intervals [start, end, tuple, nTouched], in order

zoneVars == <<localtime, OffsetTable>>

Time == 0 .. MaxTime
Asked == 0 .. MaxTime + ltdIntervalMinimum   \* bound: what is asked about
Standard == [isDST |-> FALSE, seconds |-> 0]

\* The entries keep their order of use as ranks: the last used has the highest.
Touch(t, i) ==
  [j \in DOMAIN t |->
     [t[j] EXCEPT !.nTouched = IF j = i THEN Len(t)
                               ELSE IF @ > t[i].nTouched THEN @ - 1 ELSE @]]

FindOffsetEntry(t, lta) == Max({0} \cup {i \in DOMAIN t : t[i].start <= lta})

Known(t, lta) ==
  LET i == FindOffsetEntry(t, lta) IN i > 0 /\ lta <= t[i].end

-----------------------------------------------------------------------------
(* UpdateOffsetTable.                                                      *)

\* Mutant: intervals of different offsets are joined over a gap.
Near_AnyTuple(t, i, lta, tuple) ==
  /\ i \in DOMAIN t
  /\ t[i].start - ltdIntervalMinimum <= lta /\ lta <= t[i].end + ltdIntervalMinimum

\* Interval i is of this tuple, and close enough to lta.
Near(t, i, lta, tuple) ==
  /\ i \in DOMAIN t
  /\ t[i].tuple = tuple
  /\ t[i].start - ltdIntervalMinimum <= lta /\ lta <= t[i].end + ltdIntervalMinimum

Without(t, i) ==
  [j \in 1 .. Len(t) - 1 |->
     LET e == IF j < i THEN t[j] ELSE t[j + 1]
     IN [e EXCEPT !.nTouched = IF @ > t[i].nTouched THEN @ - 1 ELSE @]]

\* The intervals before and after lta, grown to it, become one when they meet.
Joined(t, i) ==
  IF /\ i >= 1 /\ i < Len(t)
     /\ t[i].tuple = t[i + 1].tuple
     /\ t[i + 1].start - ltdIntervalMinimum <= t[i].end
  THEN Without([t EXCEPT ![i].end = t[i + 1].end], i + 1)
  ELSE t

RECURSIVE UpdateOffsetTable(_, _, _, _)
UpdateOffsetTable(t, lta, tuple, i) ==
  LET before == Near(t, i, lta, tuple)
      after == Near(t, i + 1, lta, tuple)
      grown == IF before THEN Touch([t EXCEPT ![i].end = lta], i) ELSE t
      both == IF after THEN Touch([grown EXCEPT ![i + 1].start = lta], i + 1) ELSE grown
      new == [start |-> lta, end |-> lta, tuple |-> tuple, nTouched |-> Len(t) + 1]
      oldest == CHOOSE j \in DOMAIN t : t[j].nTouched = 1
  IN IF i > 0 /\ lta <= t[i].end THEN Touch(t, i)
     ELSE IF before \/ after THEN Joined(both, i)
     ELSE IF Len(t) < MAX_OFFSETS THEN InsertAt(t, i + 1, new)
     ELSE UpdateOffsetTable(Without(t, oldest), lta, tuple, IF oldest <= i THEN i - 1 ELSE i)

-----------------------------------------------------------------------------
(* Questions.  Each gives the offset and what it makes of the table.       *)

\* A time after all that localtime() supports is taken for one in a year of the same type.
NearestYearOfType(lta) == IF lta > MaxTime THEN lta - YearsBack ELSE lta

\* What is learnt is learnt of that time, with the entry that was found for the time asked;
\* of times before all that localtime() supports nothing is.
QueryLocalOffsetAt_Internal(t, lta) ==
  LET known == NearestYearOfType(lta)
      tuple == localtime[known]
  IN IF lta < 0 THEN [tuple |-> Standard, table |-> t]
     ELSE [tuple |-> tuple, table |-> UpdateOffsetTable(t, known, tuple, FindOffsetEntry(t, lta))]

QueryOffset(t, lta) ==
  LET i == FindOffsetEntry(t, lta)
  IN IF Known(t, lta) THEN [tuple |-> t[i].tuple, table |-> Touch(t, i)]
     ELSE QueryLocalOffsetAt_Internal(t, lta)

\* A question the table cannot answer is asked for the times around it too.
QueryLocalOffsetAtUTC(t, lta) ==
  LET here == QueryOffset(t, lta)
      earlier == QueryOffset(here.table, lta - ltdIntervalMinimum)
      later == QueryOffset(earlier.table, lta + ltdIntervalMinimum)
  IN IF lta < 0 THEN [tuple |-> Standard, table |-> t]
     ELSE IF Known(t, lta) THEN here
     ELSE [tuple |-> here.tuple, table |-> later.table]

\* Mutant: the offset at the local time, taken for UTC, is good enough.
Local2UTC_Once(t, local) ==
  LET q1 == QueryLocalOffsetAtUTC(t, local)
  IN [utc |-> local - q1.tuple.seconds, table |-> q1.table]

Local2UTC(t, local) ==
  LET q1 == QueryLocalOffsetAtUTC(t, local)
      utc2 == local - q1.tuple.seconds
      q2 == QueryLocalOffsetAtUTC(q1.table, utc2)
  IN [utc |-> IF utc2 + q2.tuple.seconds = local THEN utc2 ELSE local - q2.tuple.seconds,
      table |-> q2.table]

-----------------------------------------------------------------------------
ZoneInit == localtime \in Zones /\ OffsetTable = << >>

UTC2Local(lta) ==
  /\ OffsetTable' = QueryLocalOffsetAtUTC(OffsetTable, lta).table
  /\ UNCHANGED localtime

ToUTC(local) ==
  /\ OffsetTable' = Local2UTC(OffsetTable, local).table
  /\ UNCHANGED localtime

ZoneNext == \E lta \in Asked : UTC2Local(lta) \/ ToUTC(lta)

-----------------------------------------------------------------------------
LocalOf(utc) == utc + (IF utc < 0 THEN Standard ELSE localtime[NearestYearOfType(utc)]).seconds

\* The intervals are in order and do not overlap, and what one says of a time, seen or not,
\* is what localtime() says of it (timeutil.cpp:1976-2040).
IntervalsTrue ==
  /\ Len(OffsetTable) <= MAX_OFFSETS
  /\ \A i \in DOMAIN OffsetTable :
       LET e == OffsetTable[i]
       IN /\ e.start <= e.end
          /\ \A lta \in e.start .. e.end : localtime[lta] = e.tuple
          /\ i < Len(OffsetTable) => e.end < OffsetTable[i + 1].start
  /\ {e.nTouched : e \in ToSet(OffsetTable)} = DOMAIN OffsetTable

\* A time in UTC is given in the zone, and a local time that some clock showed is given back
\* as a time at which it did, also around the two changes of summer time (timeutil.cpp:2235).
ZonesAnswer ==
  \A lta \in Asked :
    /\ QueryLocalOffsetAtUTC(OffsetTable, lta).tuple = localtime[NearestYearOfType(lta)]
    /\ (lta \in 3 .. MaxTime - 3 /\ \E utc \in Time : LocalOf(utc) = lta)
         => LocalOf(Local2UTC(OffsetTable, lta).utc) = lta
=============================================================================
